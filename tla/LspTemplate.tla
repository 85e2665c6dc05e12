------------------------------ MODULE LspTemplate ------------------------------
(***************************************************************************)
(* What luaL_load_lsp_file promises, without states, buffers or chunks:    *)
(* lua_load receives, piece by piece, the translation of the page, and     *)
(* takes the page only when it has received all of it.  The translation is *)
(* given by where tags open and close in the page.                         *)
(***************************************************************************)
EXTENDS Integers, Sequences, SequencesExt, FiniteSetsExt

VARIABLES page,       \* the characters of the page
          delivered,  \* the items of Lua text lua_load has received
          verdict     \* "none" until luaL_load_lsp_file returns

Item(k, c) == [k |-> k, c |-> c]
Mark(k) == Item(k, "")

\* Characters i to j: as they are, of a kind, or as text
Copy(f, i, j, kind) == SubSeq([n \in DOMAIN f |-> Item(kind, f[n])], i, j)
Quoted(ch) == CASE ch = "ctl"                -> Item("text", ".")
                [] ch \in {"LF", "CR", "'"}  -> Item("esc", ch)
                [] OTHER                     -> Item("text", ch)
Quote(f, i, j) == SubSeq([n \in DOMAIN f |-> Quoted(f[n])], i, j)
Echo(f, i, j) == IF j < i THEN <<>>
                 ELSE <<Mark("beg")>> \o Quote(f, i, j) \o <<Mark("end")>>

\* The '<'s that end at j, none before i, begin at k: they are read in pairs, so
\* that a tag opens at the last of an odd number of them.
Opens(f, i, j) == \E k \in i..j : /\ (j - k) % 2 = 0
                                  /\ \A n \in k..j : f[n] = "<"
                                  /\ k = i \/ f[k - 1] # "<"
TagsFrom(f, i) == {j \in i..(Len(f) - 1) : f[j + 1] = "?" /\ Opens(f, i, j)}
ClosesFrom(f, i) == {j \in i..(Len(f) - 1) : f[j] = "?" /\ f[j + 1] = ">"}

\* The last character of text that begins at i, and of a tag's that is read from i on
TextEnd(f, i) == IF TagsFrom(f, i) = {} THEN Len(f) ELSE Min(TagsFrom(f, i)) - 1
TagEnd(f, i) == IF ClosesFrom(f, i) = {} THEN Len(f) ELSE Min(ClosesFrom(f, i)) - 1

\* The first character after a tag that ends at j, its end of line cut.
AfterTag(f, j) ==
    LET Is(i, c) == i <= Len(f) /\ f[i] = c
    IN  CASE Is(j + 1, "CR") /\ Is(j + 2, "LF") -> j + 3
          [] Is(j + 1, "CR") /\ ~Is(j + 2, "LF") -> j + 2
          [] Is(j + 1, "LF")                     -> j + 2
          [] OTHER                               -> j + 1

\* A tag whose characters are i to j: what it opens and copies, and what closes it
Kind(f, i) == IF i <= Len(f) /\ f[i] \in {"=", "#"} THEN f[i] ELSE "code"
Opened(f, i, j) == CASE Kind(f, i) = "code" -> Copy(f, i, j, "code")
                     [] Kind(f, i) = "="    -> <<Mark("sbeg")>> \o Copy(f, i + 1, j, "expr")
                     [] Kind(f, i) = "#"    -> <<>>
Closed(f, i) == CASE Kind(f, i) = "code" -> <<Mark("sep")>>
                  [] Kind(f, i) = "="    -> <<Mark("send")>>
                  [] Kind(f, i) = "#"    -> <<>>

\* What a tag from i on gives, and what text from i on is followed by, if rest[k] is
\* what the page gives from k on: its items, and whether every tag is closed
Tag(f, i, rest) ==
    LET end == TagEnd(f, i + 1)
    IN  IF end = Len(f)
        THEN [items |-> Opened(f, i, end), closed |-> FALSE]
        ELSE [items  |-> Opened(f, i, end) \o (Closed(f, i) \o rest[AfterTag(f, end + 2)].items),
              closed |-> rest[AfterTag(f, end + 2)].closed]
AfterText(f, i, rest) ==
    LET last == TextEnd(f, i)
    IN  IF last = Len(f) THEN [items |-> <<>>, closed |-> i > last \/ ~Opens(f, i, last)]
                         ELSE Tag(f, last + 3, rest)

\* The translation from each character on.
Translations(f) ==
    LET from[i \in 1..Len(f)+1] ==
          LET after == AfterText(f, i, from)
          IN  [items  |-> Echo(f, i, TextEnd(f, i)) \o after.items,
               closed |-> after.closed]
    IN  from
Translation(f) == Translations(f)[1]

Init == delivered = <<>> /\ verdict = "none"

Deliver == /\ verdict = "none"
           /\ IsStrictPrefix(delivered, delivered')
           /\ IsPrefix(delivered', Translation(page).items)
           /\ UNCHANGED <<page, verdict>>

Fail == /\ verdict = "none"
        /\ \/ verdict' = "ERRERR" /\ delivered = <<>>
           \/ verdict' = "ERRRUN" /\ ~Translation(page).closed
           \* Lua rejects code, never a page that is only text
           \/ /\ verdict' = "ERRSYNTAX"
              /\ \E i \in DOMAIN delivered : delivered[i].k \in {"code", "expr", "send"}
        /\ UNCHANGED <<page, delivered>>

Take == /\ verdict = "none"
        /\ Translation(page).closed /\ delivered = Translation(page).items
        /\ verdict' = "OK"
        /\ UNCHANGED <<page, delivered>>

Next == Deliver \/ Fail \/ Take
Spec == Init /\ [][Next]_<<page, delivered, verdict>>
================================================================================
