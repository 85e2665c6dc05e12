\* use_cache 2, the page edited at any moment.
SPECIFICATION PagesSpec
CONSTANTS
    Procs = {p1, p2}
    UseCache = {2}
    Quiet = FALSE
    MaxVersion = 2
    MaxTime = 2
    Pages <- NoPages
    Hosts = {"stdio"}
    NoString = NoString
    SizeMod = 8
    Parts = {"cache"}
INVARIANTS
    Fresh

