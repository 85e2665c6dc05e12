\* Query strings, form bodies and Cookie headers.
SPECIFICATION Spec
CONSTANTS
    Texts <- AllTexts
    Cookies <- AllCookies
    CookieName <- TheCookie
    SizeofTmp = 5
INVARIANTS
    TypeOK
    ArgsOfPairs
    SessionOfCookie
CHECK_DEADLOCK FALSE
