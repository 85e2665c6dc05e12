\* A value that ends with a percent sign.
SPECIFICATION Spec
CONSTANTS
    Texts <- AllTexts
    Cookies = {}
    CookieName <- TheCookie
    SizeofTmp = 5
INVARIANTS
    StaysInValue
CHECK_DEADLOCK FALSE
