--------------------------- MODULE MCApache1Handler ---------------------------
\* Clients and pages for TLC: a page in a directory or at the top, with or
\* without a query string, as GET or any kind of POST.
EXTENDS Apache1Handler

AllShapes == [post : Posts, query : BOOLEAN, dir : {"/", "/a"}]
================================================================================
