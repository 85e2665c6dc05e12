\* Builds of every kind, the page edited in quiet moments where it is cached:
\* also between the writing of a compiled file and its rename.
SPECIFICATION PagesSpec
CONSTANTS
    Procs = {p1, p2}
    UseCache = {0, 1, 2}
    Quiet = TRUE
    MaxVersion = 2
    MaxTime = 3
    Pages <- NoPages
    Hosts = {"stdio"}
    NoString = NoString
    SizeMod = 8
    Parts = {"cache"}
INVARIANTS
    NeverTorn
    Fresh
    StaleIsOlder
