--------------------------- MODULE MCApache2Handler ---------------------------
\* Clients and pages for TLC: a page in one of two directories or at the top,
\* with or without a query string, as GET or either kind of POST.
EXTENDS Apache2Handler, TLC

CONSTANTS c1, c2

Shape(post, query, dir) == [post |-> post, query |-> query, dir |-> dir]
FiveShapes == {Shape("no", FALSE, "/a"), Shape("no", TRUE, "/"), Shape("form", TRUE, "/b"),
               Shape("form", FALSE, "/"), Shape("raw", FALSE, "/b")}
FewShapes == {Shape("no", FALSE, "/a"), Shape("form", TRUE, "/b")}
ConnSymmetry == Permutations({c1, c2})
================================================================================
