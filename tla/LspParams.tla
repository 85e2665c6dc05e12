------------------------------- MODULE LspParams -------------------------------
(***************************************************************************)
(* src/llspaux.cpp: the two parsers a request's text goes through.  args   *)
(* makes a table of a query string or of a form's body, and decodes its    *)
(* values with urldecode; luaL_lsp_session_init looks for the session's    *)
(* cookie and makes a new session if there is none.                        *)
(*                                                                         *)
(* A text is a sequence of classes of characters: those the code compares, *)
(* "h" for the hexadecimal digits, "hi" for the characters that are        *)
(* negative as a char, and any others.  Positions count from 0.            *)
(***************************************************************************)
EXTENDS Integers, Sequences

CONSTANTS Texts,      \* query strings and bodies
          Cookies,    \* Cookie headers
          CookieName, \* LSPUserSession's cookie
          SizeofTmp   \* 256 in the source

\* Two characters of headers, named: the provers cannot read them in a string.
BLANK == " "
SEMI == ";"
ASSUME TextAssumption == /\ \A t \in Texts \cup Cookies : t \in Seq(STRING)
                         /\ CookieName \in Seq(STRING)
                         /\ \A k \in 1..Len(CookieName) : CookieName[k] \notin {BLANK, SEMI, "="}
                         /\ SizeofTmp \in Nat /\ SizeofTmp > Len(CookieName) + 2

VARIABLES
    parses,    \* "args" or "cookie": the function that runs
    p,         \* its text
    pc,
    i,         \* position in p
    offset1, length1,   \* of a name
    offset2, length2,   \* of its value
    s,         \* where urldecode is in p
    buf,       \* what it has decoded
    table,     \* the table of args
    session,   \* the session of the cookie
    out        \* what set_out_header was given

scan == <<offset1, length1, offset2, length2>>
vars == <<parses, p, pc, i, offset1, length1, offset2, length2, s, buf, table, session, out>>

NUL == "nul"
\* A Lua string has a NUL after its last character, and may have others.
Char(n) == IF n < Len(p) THEN p[n + 1] ELSE NUL
Slice(from, len) == SubSeq(p, from + 1, from + len)

Init == /\ \/ parses = "args" /\ p \in Texts
           \/ parses = "cookie" /\ p \in Cookies
        /\ pc = "scan" /\ i = 0
        /\ offset1 = 0 /\ length1 = 0 /\ offset2 = 0 /\ length2 = 0
        /\ s = 0 /\ buf = <<>>
        /\ table = [n \in {} |-> <<>>]
        /\ session = <<>> /\ out = <<>>

(***************************************************************************)
(* args: one action for an iteration of its loop.                          *)
(***************************************************************************)
Scans == parses = "args" /\ pc = "scan"

Equals == /\ Scans /\ i < Len(p) /\ Char(i) = "="
          /\ length1' = i - offset1
          /\ offset2' = i + 1
          /\ i' = i + 1
          /\ UNCHANGED <<parses, p, pc, offset1, length2, s, buf, table, session, out>>
Other == /\ Scans /\ i < Len(p) /\ Char(i) \notin {"=", "&"}
         /\ i' = i + 1
         /\ UNCHANGED <<parses, p, pc, scan, s, buf, table, session, out>>

\* '&' makes everything ready for the next pair, the end of the text the result.
NextPair == /\ offset1' = i + 1 /\ offset2' = 0 /\ length2' = 0
            /\ length1' = 0
Ready == /\ pc' = IF i < Len(p) THEN "scan" ELSE "done"
         /\ i' = IF i < Len(p) THEN i + 1 ELSE i
         /\ NextPair
EndsPair == Scans /\ (i = Len(p) \/ Char(i) = "&")
IsPair_Nameless(len2) == len2 # 0
IsPair(len2) == length1 # 0 /\ len2 # 0
SkipPair == /\ EndsPair /\ ~IsPair(i - offset2)
            /\ Ready
            /\ UNCHANGED <<parses, p, s, buf, table, session, out>>
TakePair == /\ EndsPair /\ IsPair(i - offset2)
            /\ length2' = i - offset2
            /\ pc' = "urldecode" /\ s' = offset2 /\ buf' = <<>>
            /\ UNCHANGED <<parses, p, i, offset1, length1, offset2, table, session, out>>
SetField == /\ pc = "urldecode" /\ s >= offset2 + length2
            /\ LET name == Slice(offset1, length1)
               IN  table' = [n \in DOMAIN table \cup {name} |-> IF n = name THEN buf ELSE table[n]]
            /\ Ready
            /\ UNCHANGED <<parses, p, s, buf, session, out>>

(***************************************************************************)
(* urldecode: one action for an iteration of its loop.                     *)
(***************************************************************************)
Decodes(c) == pc = "urldecode" /\ s < offset2 + length2 /\ Char(s) = c
Add(what, n) == buf' = buf \o what /\ s' = s + n
InDecode == UNCHANGED <<parses, p, pc, i, scan, table, session, out>>

Plus == Decodes("+") /\ Add(<<BLANK>>, 1) /\ InDecode
Plain == /\ Decodes(Char(s)) /\ Char(s) \notin {"+", "%"}
         /\ Add(<<Char(s)>>, 1) /\ InDecode
\* hex[] has an index of type char: before the array for a negative one, where
\* any value may be.
Hex(c) == IF c = "h" THEN {TRUE} ELSE IF c = "hi" THEN BOOLEAN ELSE {FALSE}
Percent_AnyLength == Add(<<"byte">>, 3)
Percent == \/ Char(s + 1) = NUL /\ Add(<<>>, 1)
           \/ Char(s + 1) # NUL /\ Char(s + 2) = NUL /\ Add(<<>>, 2)
           \/ /\ Char(s + 1) # NUL /\ Char(s + 2) # NUL
              /\ \E c1 \in Hex(Char(s + 1)), c2 \in Hex(Char(s + 2)) :
                   Add(<<IF c1 /\ c2 THEN "byte" ELSE ".">>, 3)
Escape == Decodes("%") /\ Percent /\ InDecode

Args == Equals \/ Other \/ SkipPair \/ TakePair \/ SetField \/ Plus \/ Plain \/ Escape

(***************************************************************************)
(* luaL_lsp_session_init.                                                  *)
(***************************************************************************)
\* Where the blanks end that begin at n, and where c comes from n on (or the end).
AfterBlanks(n) == CHOOSE m \in n..Len(p) : Char(m) # BLANK /\ \A k \in n..m-1 : Char(k) = BLANK
PositionOf(c, n) == CHOOSE m \in n..Len(p) : (m = Len(p) \/ Char(m) = c) /\ \A k \in n..m-1 : Char(k) # c
Least(m, n) == IF m < n THEN m ELSE n

\* One cookie: copied into tmp, as much as fits, and cut there at the first '='.
Named_Prefix(p1, p3) == Slice(p1, Len(CookieName)) = CookieName
Named(p1, p3) == Slice(p1, p3 - p1) = CookieName
Cookie == /\ parses = "cookie" /\ pc = "scan"
          /\ LET p1 == AfterBlanks(i)
                 p2 == PositionOf(SEMI, p1)
                 end == p1 + Least(p2 - p1, SizeofTmp - 1)
                 p3 == PositionOf("=", p1)
                 found == p3 < end /\ Named(p1, p3)
                 stops == found \/ p2 = Len(p)
             IN  /\ session' = IF found THEN Slice(p3 + 1, end - p3 - 1) ELSE session
                 /\ pc' = IF stops THEN "generate" ELSE "scan"
                 /\ i' = IF stops THEN i ELSE p2 + 1
          /\ UNCHANGED <<parses, p, scan, s, buf, table, out>>
\* uuid_gen is a function of luamoz: it may be missing.
Generate == /\ pc = "generate"
            /\ pc' = "done"
            /\ \/ session # <<>> /\ UNCHANGED <<session, out>>
               \/ session = <<>> /\ UNCHANGED <<session, out>>
               \/ session = <<>> /\ session' = <<"new">> /\ out' = <<"new">>
            /\ UNCHANGED <<parses, p, i, scan, s, buf, table>>
SessionInit == Cookie \/ Generate

Next == Args \/ SessionInit
Spec == Init /\ [][Next]_vars
--------------------------------------------------------------------------------
(***************************************************************************)
(* Properties.                                                             *)
(***************************************************************************)
\* What is copied is in the text, and at most the NUL after it is read, also by
\* urldecode, which looks two characters ahead without regard to its length.
TypeOK ==
    /\ parses \in {"args", "cookie"}
    /\ p \in Seq(STRING)
    /\ pc \in {"scan", "urldecode", "generate", "done"}
    /\ i \in 0..Len(p)
    /\ offset1 \in 0..Len(p) + 1 /\ length1 \in 0..Len(p)
    /\ offset2 \in 0..Len(p) /\ length2 \in 0..Len(p)
    /\ offset2 # 0 => offset1 + length1 < offset2
    /\ pc = "urldecode" => offset2 + length2 <= i /\ s \in offset2..Len(p)

\* Pieces of t between separators c, from where to where.
Pieces(t, c) == {q \in [from : 0..Len(t), to : 0..Len(t)] :
                   /\ q.from <= q.to
                   /\ q.from = 0 \/ t[q.from] = c
                   /\ q.to = Len(t) \/ t[q.to + 1] = c
                   /\ \A k \in q.from+1..q.to : t[k] # c}
\* The '=' of a piece that counts is the last one.
Splits(t) == {q \in [piece : Pieces(t, "&"), eq : 1..Len(t)] :
                /\ q.piece.from + 1 < q.eq /\ q.eq < q.piece.to /\ t[q.eq] = "="
                /\ \A k \in q.eq+1..q.piece.to : t[k] # "="}
Pairs(t) == {[at |-> q.piece.from, name |-> SubSeq(t, q.piece.from + 1, q.eq - 1),
              value |-> SubSeq(t, q.eq + 1, q.piece.to)] : q \in Splits(t)}
WellFormed(v) == \A k \in 1..Len(v) : v[k] = "%" => /\ k + 2 <= Len(v)
                                                    /\ v[k + 1] = "h" /\ v[k + 2] = "h"
\* What is decoded from each position on.
DecodedFrom(v) == LET from[k \in 1..Len(v) + 3] ==
                        IF k > Len(v) THEN <<>>
                        ELSE IF v[k] = "%" THEN <<"byte">> \o from[k + 3]
                        ELSE <<IF v[k] = "+" THEN BLANK ELSE v[k]>> \o from[k + 1]
                  IN  from
Decoded(v) == DecodedFrom(v)[1]

\* args has the names and the decoded values of the pairs between '&'s, the last
\* one of a name.  What a value is that is not well-formed is left open.
ArgsOfPairs ==
    parses = "args" /\ pc = "done" =>
        /\ DOMAIN table = {q.name : q \in Pairs(p)}
        /\ \A q \in Pairs(p) :
             (\A r \in Pairs(p) : r.name = q.name => r.at <= q.at) /\ WellFormed(q.value)
                => table[q.name] = Decoded(q.value)

\* The session is the value of the first cookie of its name, as much as fits
\* into tmp, if it is not empty; otherwise a new one is made and given to the client.
CookieSplits ==
    {q \in [piece : Pieces(p, SEMI), eq : 1..Len(p)] :
       /\ q.piece.from < q.eq /\ q.eq <= q.piece.to /\ p[q.eq] = "="
       /\ \E a \in q.piece.from+1..q.eq :
            /\ SubSeq(p, a, q.eq - 1) = CookieName
            /\ \A k \in q.piece.from+1..a-1 : p[k] = BLANK}
CookieValues == {[at |-> q.piece.from, value |-> SubSeq(p, q.eq + 1, q.piece.to)] : q \in CookieSplits}
Fitting(v) == SubSeq(v, 1, Least(Len(v), SizeofTmp - Len(CookieName) - 2))
Given == {q \in CookieValues : q.value # <<>> /\ \A r \in CookieValues : q.at <= r.at}
SessionOfCookie ==
    parses = "cookie" /\ pc = "done" =>
        IF Given = {} THEN session = out
        ELSE out = <<>> /\ \A q \in Given : session = Fitting(q.value)

\* A value is decoded from its own characters.
StaysInValue == pc = "urldecode" => s <= offset2 + length2
================================================================================
