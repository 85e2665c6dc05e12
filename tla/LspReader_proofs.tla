---------------------------- MODULE LspReader_proofs ----------------------------
(***************************************************************************)
(* The safety properties of LspReader, for every set of pages and every    *)
(* size of the buffer, and that the reader implements LspTemplate.         *)
(*                                                                         *)
(* The inductive invariant IInv adds to the properties what the reader's   *)
(* state says of the last item written (LastFits) and bounds the offset by *)
(* the reserve that one character can use (Room).  Every case of the       *)
(* switch is an edge between two states that writes a few items; what an   *)
(* edge preserves is proved once, in EdgeStep.                             *)
(*                                                                         *)
(* The refinement rests on a second invariant, Owes: what is written,      *)
(* followed by what the reader's state still owes for the rest of the page *)
(* (Rest), is the page's translation.  A case of the switch keeps it when  *)
(* what it writes is the difference of what is owed before and after it    *)
(* (Writes).  The translation is defined by recursion on the rest of the   *)
(* page; TranslationsIs unfolds it once, by induction on a set.            *)
(***************************************************************************)
EXTENDS LspReader, TLAPS, SequenceTheorems, FiniteSetTheorems, WellFoundedInduction

\* What the last item has to be in a state of the reader.
Class(s) == CASE s \in {"echo2", "echo3"}   -> "text"
              [] s \in {"stmt2", "stmt3"}   -> "expr"
              [] s \in {"stmt12", "stmt13"} -> "code"
              [] OTHER                      -> "none"
Fits(class, k) == CASE class = "text" -> k \in TextKinds
                    [] class = "expr" -> k \in {"sbeg", "expr"}
                    [] class = "code" -> k = "code"
                    [] OTHER          -> k \in {"end", "send", "sep"}
Last(s) == s[Len(s)]

Linked(s) == \A i \in 1..(Len(s) - 1) : Follows(s[i].k, s[i + 1].k)

\* A step from state s to state t that writes items.
Edge(s, items, t) ==
    /\ t \in States
    /\ items \in Seq(Items)
    /\ Bytes(items) \in 0..9
    /\ IF items = <<>> THEN Class(t) = Class(s)
       ELSE /\ Linked(items)
            /\ \A k : Fits(Class(s), k) => Follows(k, items[1].k)
            /\ Class(s) = "none" => items[1].k \in Starters
            /\ Fits(Class(t), Last(items).k)

LastFits == IF out = <<>> THEN Class(st) = "none" ELSE Fits(Class(st), Last(out).k)
Room == buf_offset <= MaxBufLen + 8
Stage == /\ pc = "start" => pos = 0 /\ st = "unknown"
         /\ pc = "ended" => st = "unknown"
         /\ status = "OK" => pc = "done"
IInv == /\ TypeOK
        /\ Room
        /\ WellFormed /\ LastFits
        /\ LineIsFileLine
        /\ Stage /\ WholePage

USE FilesAssumption, BufferAssumption

--------------------------------------------------------------------------------
(* Lemmas about sequences of items and about lines.                        *)

\* A character of the page becomes an item of its place: text, code or expression.
LEMMA ItemKinds == \A ch \in Chars : /\ AddChar(ch) \in Items
                                     /\ AddChar(ch).k \in TextKinds
                                     /\ Code(ch) \in Items /\ Code(ch).k = "code"
                                     /\ Expr(ch) \in Items /\ Expr(ch).k = "expr"
  BY DEF AddChar, Code, Expr, Items, Kinds, Chars, Escaped, TextKinds

\* The marks are items.
LEMMA MarkKinds == /\ Beg \in Items /\ Beg.k = "beg"
                   /\ End \in Items /\ End.k = "end"
                   /\ SBeg \in Items /\ SBeg.k = "sbeg"
                   /\ SEnd \in Items /\ SEnd.k = "send"
                   /\ Sep \in Items /\ Sep.k = "sep"
  BY DEF Beg, End, SBeg, SEnd, Sep, Mark, Items, Kinds

\* What an item may take in buf, by its kind (the add_ functions, llsplib.cpp:185).
LEMMA Widths ==
  ASSUME NEW it \in Items
  PROVE  /\ it.k \in Kinds
         /\ Width(it) \in 1..6
         /\ it.k \in TextKinds => Width(it) \in 1..2
         /\ it.k \in {"code", "expr", "sep"} => Width(it) = 1
         /\ it.k = "end" => Width(it) = 3
  <1>1. it.k \in Kinds
    BY DEF Items
  <1>2. Width(it) \in {1, 2, 3, 5, 6}
    BY DEF Width
  <1>3. it.k \in TextKinds => Width(it) \in 1..2
    BY DEF Width, TextKinds
  <1>4. it.k \in {"code", "expr", "sep"} => Width(it) = 1
    BY DEF Width
  <1>5. it.k = "end" => Width(it) = 3
    BY DEF Width
  <1> QED BY <1>1, <1>2, <1>3, <1>4, <1>5

\* Joining two linked sequences whose ends fit gives a linked sequence.
LEMMA LinkedConcat ==
  ASSUME NEW s \in Seq(Items), NEW t \in Seq(Items), t # <<>>,
         Linked(s), Linked(t),
         s # <<>> => Follows(Last(s).k, t[1].k)
  PROVE  /\ s \o t \in Seq(Items)
         /\ s \o t # <<>>
         /\ Linked(s \o t)
         /\ Last(s \o t) = Last(t)
         /\ (s \o t)[1] = IF s = <<>> THEN t[1] ELSE s[1]
  <1> DEFINE u == s \o t
  <1>1. /\ u \in Seq(Items)
        /\ Len(u) = Len(s) + Len(t)
        /\ \A i \in 1..(Len(s) + Len(t)) :
             u[i] = IF i <= Len(s) THEN s[i] ELSE t[i - Len(s)]
    BY ConcatProperties
  <1>2. Len(s) \in Nat /\ Len(t) \in Nat /\ Len(t) > 0 /\ (s # <<>> <=> Len(s) > 0)
    BY EmptySeq
  <1>3. Last(u) = Last(t) /\ u # <<>>
    BY <1>1, <1>2 DEF Last
  <1>4. u[1] = IF s = <<>> THEN t[1] ELSE s[1]
    BY <1>1, <1>2
  <1>5. ASSUME NEW i \in 1..(Len(u) - 1)
        PROVE  Follows(u[i].k, u[i + 1].k)
    <2>1. CASE i < Len(s)
      BY <2>1, <1>1, <1>2 DEF Linked
    <2>2. CASE i = Len(s)
      <3>1. u[i] = Last(s) /\ u[i + 1] = t[1] /\ s # <<>>
        BY <2>2, <1>1, <1>2 DEF Last
      <3> QED BY <3>1
    <2>3. CASE i > Len(s)
      <3>1. i - Len(s) \in 1..(Len(t) - 1)
        BY <2>3, <1>1, <1>2
      <3>2. u[i] = t[i - Len(s)] /\ u[i + 1] = t[(i - Len(s)) + 1]
        BY <2>3, <1>1, <1>2
      <3> QED BY <3>1, <3>2 DEF Linked
    <2> QED BY <2>1, <2>2, <2>3, <1>1, <1>2
  <1> QED BY <1>1, <1>3, <1>4, <1>5 DEF Linked

\* One more character of the page adds a line exactly if it is a newline.
LEMMA LineStep ==
  ASSUME NEW n \in Nat
  PROVE  /\ IsFiniteSet(Newlines(n))
         /\ Cardinality(Newlines(n)) \in Nat
         /\ Cardinality(Newlines(n + 1)) = Cardinality(Newlines(n))
                                           + (IF file[n + 1] = "LF" THEN 1 ELSE 0)
  <1>1. IsFiniteSet(1..n)
    BY FS_Interval
  <1>2. IsFiniteSet(Newlines(n)) /\ Cardinality(Newlines(n)) \in Nat
    BY <1>1, FS_Subset, FS_CardinalityType DEF Newlines
  <1>3. CASE file[n + 1] = "LF"
    <2>1. Newlines(n + 1) = Newlines(n) \cup {n + 1} /\ n + 1 \notin Newlines(n)
      BY <1>3 DEF Newlines
    <2> QED BY <2>1, <1>2, <1>3, FS_AddElement
  <1>4. CASE file[n + 1] # "LF"
    <2>1. Newlines(n + 1) = Newlines(n)
      BY <1>4 DEF Newlines
    <2> QED BY <2>1, <1>2, <1>4
  <1> QED BY <1>2, <1>3, <1>4

\* Bytes adds the widths of up to three items.
LEMMA BytesOf ==
  /\ Bytes(<<>>) = 0
  /\ \A a : Width(a) \in 1..6 => Bytes(<<a>>) = Width(a)
  /\ \A a, b : Width(a) \in 1..6 /\ Width(b) \in 1..6 =>
       Bytes(<<a, b>>) = Width(a) + Width(b)
  /\ \A a, b, c : Width(a) \in 1..6 /\ Width(b) \in 1..6 /\ Width(c) \in 1..6 =>
       Bytes(<<a, b, c>>) = Width(a) + Width(b) + Width(c)
  BY DEF Bytes

--------------------------------------------------------------------------------
(* The steps of the reader.                                                *)

\* Where the switch finds the reader.
AtSwitch == pc = "read" /\ HasRoom /\ pos < Len(file)

\* An edge preserves the invariant.
LEMMA EdgeStep ==
  ASSUME IInv, AtSwitch, NEW t, NEW items, Edge(st, items, t), Goto(t, items)
  PROVE  IInv'
  <1> USE DEF AtSwitch, HasRoom, IInv, Edge
  <1>1. /\ out' = out \o items /\ buf_offset' = buf_offset + Bytes(items)
        /\ pos' = pos + 1 /\ line' = IF Ch = "LF" THEN line + 1 ELSE line
        /\ st' = t
        /\ UNCHANGED <<file, fp, given, pc, status>>
    BY DEF Goto, Getc, Put
  <1>2. TypeOK'
    <2>1. out' \in Seq(Items) /\ Len(out') = Len(out) + Len(items)
      BY <1>1, ConcatProperties DEF TypeOK
    <2>2. Len(items) \in Nat /\ Len(out) \in Nat
      BY LenProperties DEF TypeOK
    <2>3. Len(file) \in Nat
      BY LenProperties DEF TypeOK
    <2> QED BY <1>1, <2>1, <2>2, <2>3 DEF TypeOK
  <1>3. Room'
    BY <1>1 DEF TypeOK, Room
  <1>4. WellFormed' /\ LastFits'
    <2>1. CASE items = <<>>
      <3>1. out' = out
        BY <2>1, <1>1, ConcatEmptySeq DEF TypeOK
      <3> QED BY <3>1, <2>1, <1>1 DEF WellFormed, LastFits, Last
    <2>2. CASE items # <<>>
      <3>1. /\ Linked(out) /\ (out # <<>> => out[1].k \in Starters)
            /\ Len(out) \in Nat /\ (out # <<>> <=> Len(out) > 0)
        BY EmptySeq, LenProperties DEF WellFormed, Linked, TypeOK
      <3>2. out # <<>> => Follows(Last(out).k, items[1].k)
        BY <2>2 DEF LastFits
      <3>3. out = <<>> => items[1].k \in Starters
        BY <2>2 DEF LastFits
      <3>4. /\ out' # <<>> /\ Linked(out') /\ Last(out') = Last(items)
            /\ out'[1] = IF out = <<>> THEN items[1] ELSE out[1]
        BY <2>2, <3>1, <3>2, <1>1, LinkedConcat DEF TypeOK
      <3>5. LastFits'
        BY <3>4, <1>1, <2>2 DEF LastFits, Last
      <3>6. WellFormed'
        BY <3>1, <3>3, <3>4 DEF WellFormed, Linked
      <3> QED BY <3>5, <3>6
    <2> QED BY <2>1, <2>2
  <1>5. LineIsFileLine'
    <2>1. pos \in Nat /\ line \in Nat
      BY DEF TypeOK
    <2>2. line = 1 + Cardinality(Newlines(pos))
      BY DEF LineIsFileLine
    <2>3. Newlines(pos)' = Newlines(pos + 1)
      BY <1>1 DEF Newlines
    <2>4. /\ Cardinality(Newlines(pos)) \in Nat
          /\ Cardinality(Newlines(pos + 1)) = Cardinality(Newlines(pos))
                                              + (IF Ch = "LF" THEN 1 ELSE 0)
      BY <2>1, LineStep DEF Ch
    <2>5. line' = 1 + Cardinality(Newlines(pos))'
      BY <1>1, <2>1, <2>2, <2>3, <2>4
    <2> QED BY <2>5 DEF LineIsFileLine
  <1>6. Stage' /\ WholePage'
    BY <1>1 DEF Stage, WholePage
  <1> QED BY <1>2, <1>3, <1>4, <1>5, <1>6

\* Giving a character back preserves it.
LEMMA UngetStep ==
  ASSUME IInv, AtSwitch, st \in CrStates, Unget("echo1")
  PROVE  IInv'
  <1>1. st' = "echo1" /\ UNCHANGED <<file, pos, fp, line, out, given, buf_offset, pc, status>>
    BY DEF Unget
  <1>2. Class("echo1") = "none" /\ Class(st) = "none" /\ "echo1" \in States
    BY DEF Class, CrStates, States, EchoStates
  <1>3. TypeOK'
    BY <1>1, <1>2 DEF IInv, TypeOK
  <1>4. Room' /\ WellFormed' /\ WholePage'
    BY <1>1 DEF IInv, Room, WellFormed, WholePage
  <1>5. LastFits'
    BY <1>1, <1>2 DEF IInv, LastFits, Last
  <1>6. LineIsFileLine' /\ Stage'
    BY <1>1 DEF IInv, LineIsFileLine, Newlines, Stage, AtSwitch
  <1> QED BY <1>3, <1>4, <1>5, <1>6 DEF IInv

\* Edges that write nothing.
LEMMA SilentEdge ==
  ASSUME NEW s, NEW t \in States, Class(t) = Class(s)
  PROVE  Edge(s, <<>>, t)
  BY BytesOf DEF Edge

\* An edge that writes one item.
LEMMA Edge1 ==
  ASSUME NEW s, NEW t \in States, NEW a \in Items,
         Class(s) = "none" => a.k \in Starters,
         \A k : Fits(Class(s), k) => Follows(k, a.k),
         Fits(Class(t), a.k)
  PROVE  Edge(s, <<a>>, t)
  BY Widths, BytesOf DEF Edge, Linked, Last

\* An edge that writes two items (st_echo_chars1, and a '?' that closes no tag).
LEMMA Edge2 ==
  ASSUME NEW s, NEW t \in States, NEW a \in Items, NEW b \in Items,
         Class(s) = "none" => a.k \in Starters,
         \A k : Fits(Class(s), k) => Follows(k, a.k),
         Follows(a.k, b.k),
         Width(a) + Width(b) <= 9,
         Fits(Class(t), b.k)
  PROVE  Edge(s, <<a, b>>, t)
  BY Widths, BytesOf DEF Edge, Linked, Last

\* An edge that writes three items (st_echo_chars4).
LEMMA Edge3 ==
  ASSUME NEW s, NEW t \in States, NEW a \in Items, NEW b \in Items, NEW c \in Items,
         Class(s) = "none" => a.k \in Starters,
         \A k : Fits(Class(s), k) => Follows(k, a.k),
         Follows(a.k, b.k), Follows(b.k, c.k),
         Width(a) + Width(b) + Width(c) <= 9,
         Fits(Class(t), c.k)
  PROVE  Edge(s, <<a, b, c>>, t)
  BY Widths, BytesOf DEF Edge, Linked, Last

\* The class of every state of the reader.
LEMMA Classes ==
  /\ Class("echo2") = "text" /\ Class("echo3") = "text"
  /\ Class("stmt2") = "expr" /\ Class("stmt3") = "expr"
  /\ Class("stmt12") = "code" /\ Class("stmt13") = "code"
  /\ \A s \in {"unknown", "echo1", "echo4", "stmt1", "comment1", "comment2", "cr1", "cr2"} :
       Class(s) = "none"
  BY DEF Class

\* The states of the switch are states of the reader.
LEMMA StateNames ==
  States = {"unknown", "echo1", "echo2", "echo3", "echo4", "stmt1", "stmt2", "stmt3",
            "stmt12", "stmt13", "comment1", "comment2", "cr1", "cr2"}
  BY DEF States, EchoStates, StmtStates, CommentStates, CrStates

\* The character the switch looks at.
LEMMA ChIsChar == ASSUME TypeOK, AtSwitch PROVE Ch \in Chars
  BY ElementOfSeq, LenProperties DEF TypeOK, AtSwitch, Ch

\* The widths of echo(', ') and echo( in buf.
LEMMA WidthOfMark == Width(Beg) = 6 /\ Width(End) = 3 /\ Width(SBeg) = 5
                     /\ Width(SEnd) = 2 /\ Width(Sep) = 1
  BY DEF Width, Beg, End, SBeg, SEnd, Sep, Mark

\* A '<' that opens no tag is one byte of text.
LEMMA WidthOfLt == AddChar("<") \in Items /\ AddChar("<").k = "text" /\ Width(AddChar("<")) = 1
  BY ItemKinds DEF AddChar, Width, Escaped, Chars

\* The cases of the switch outside of tags preserve the invariant.
LEMMA EchoSteps ==
  ASSUME IInv, Echo1 \/ Echo2 \/ Echo3 \/ Echo4
  PROVE  IInv'
  <1> DEFINE it == AddChar(Ch)
  <1>0. AtSwitch /\ st \in States
    BY DEF Echo1, Echo2, Echo3, Echo4, Reading, AtSwitch, StateNames, IInv, TypeOK
  <1>1. /\ it \in Items /\ it.k \in TextKinds
        /\ Width(it) \in 1..2
    BY <1>0, ChIsChar, ItemKinds, Widths DEF IInv
  <1> USE Classes, StateNames, MarkKinds, WidthOfMark, WidthOfLt
          DEF Fits, Follows, TextKinds, Starters
  <1>2. CASE Echo1
    <2>1. CASE Ch = "<"
      <3>1. Goto("echo4", <<>>) /\ st = "echo1" BY <1>2, <2>1 DEF Echo1, Reading
      <3>2. Edge("echo1", <<>>, "echo4") BY SilentEdge
      <3> QED BY <3>1, <3>2, <1>0, EdgeStep
    <2>2. CASE Ch # "<"
      <3>1. Goto("echo2", <<Beg, it>>) /\ st = "echo1" BY <1>2, <2>2 DEF Echo1, Reading
      <3>2. Edge("echo1", <<Beg, it>>, "echo2") BY <1>1, Edge2
      <3> QED BY <3>1, <3>2, <1>0, EdgeStep
    <2> QED BY <2>1, <2>2
  <1>3. CASE Echo2
    <2>1. CASE Ch = "<"
      <3>1. Goto("echo3", <<>>) /\ st = "echo2" BY <1>3, <2>1 DEF Echo2, Reading
      <3>2. Edge("echo2", <<>>, "echo3") BY SilentEdge
      <3> QED BY <3>1, <3>2, <1>0, EdgeStep
    <2>2. CASE Ch # "<"
      <3>1. Goto("echo2", <<it>>) /\ st = "echo2" BY <1>3, <2>2 DEF Echo2, Reading
      <3>2. Edge("echo2", <<it>>, "echo2") BY <1>1, Edge1
      <3> QED BY <3>1, <3>2, <1>0, EdgeStep
    <2> QED BY <2>1, <2>2
  <1>4. CASE Echo3
    <2>1. CASE Ch = "?"
      <3>1. Goto("stmt1", <<End>>) /\ st = "echo3" BY <1>4, <2>1 DEF Echo3, Reading
      <3>2. Edge("echo3", <<End>>, "stmt1") BY Edge1
      <3> QED BY <3>1, <3>2, <1>0, EdgeStep
    <2>2. CASE Ch # "?"
      <3>1. Goto("echo2", <<AddChar("<"), it>>) /\ st = "echo3"
        BY <1>4, <2>2 DEF Echo3, Reading
      <3>2. Edge("echo3", <<AddChar("<"), it>>, "echo2") BY <1>1, Edge2
      <3> QED BY <3>1, <3>2, <1>0, EdgeStep
    <2> QED BY <2>1, <2>2
  <1>5. CASE Echo4
    <2>1. CASE Ch = "?"
      <3>1. Goto("stmt1", <<>>) /\ st = "echo4" BY <1>5, <2>1 DEF Echo4, Reading
      <3>2. Edge("echo4", <<>>, "stmt1") BY SilentEdge
      <3> QED BY <3>1, <3>2, <1>0, EdgeStep
    <2>2. CASE Ch # "?"
      <3>1. Goto("echo2", <<Beg, AddChar("<"), it>>) /\ st = "echo4"
        BY <1>5, <2>2 DEF Echo4, Reading
      <3>2. Edge("echo4", <<Beg, AddChar("<"), it>>, "echo2") BY <1>1, Edge3
      <3> QED BY <3>1, <3>2, <1>0, EdgeStep
    <2> QED BY <2>1, <2>2
  <1> QED BY <1>2, <1>3, <1>4, <1>5

\* The cases of the switch inside of statements and expressions preserve it.
LEMMA StmtSteps ==
  ASSUME IInv, Stmt1 \/ Stmt2 \/ Stmt3 \/ Stmt12 \/ Stmt13
  PROVE  IInv'
  <1>0. AtSwitch /\ st \in States
    BY DEF Stmt1, Stmt2, Stmt3, Stmt12, Stmt13, Body, Held, Reading, AtSwitch,
           StateNames, IInv, TypeOK
  <1>1. /\ \A ch \in {Ch, "?"} : /\ Code(ch) \in Items /\ Code(ch).k = "code"
                                 /\ Width(Code(ch)) = 1
                                 /\ Expr(ch) \in Items /\ Expr(ch).k = "expr"
                                 /\ Width(Expr(ch)) = 1
    <2>1. {Ch, "?"} \subseteq Chars
      BY <1>0, ChIsChar DEF IInv, Chars
    <2> QED BY <2>1, ItemKinds, Widths
  <1> USE Classes, StateNames, MarkKinds, WidthOfMark
          DEF Fits, Follows, TextKinds, Starters
  <1>2. CASE Stmt1
    <2>1. CASE Ch = "="
      <3>1. Goto("stmt2", <<SBeg>>) /\ st = "stmt1" BY <1>2, <2>1 DEF Stmt1, Reading
      <3>2. Edge("stmt1", <<SBeg>>, "stmt2") BY Edge1
      <3> QED BY <3>1, <3>2, <1>0, EdgeStep
    <2>2. CASE Ch = "#"
      <3>1. Goto("comment1", <<>>) /\ st = "stmt1" BY <1>2, <2>2 DEF Stmt1, Reading
      <3>2. Edge("stmt1", <<>>, "comment1") BY SilentEdge
      <3> QED BY <3>1, <3>2, <1>0, EdgeStep
    <2>3. CASE Ch \notin {"=", "#"}
      <3>1. Goto("stmt12", <<Code(Ch)>>) /\ st = "stmt1" BY <1>2, <2>3 DEF Stmt1, Reading
      <3>2. Edge("stmt1", <<Code(Ch)>>, "stmt12") BY <1>1, Edge1
      <3> QED BY <3>1, <3>2, <1>0, EdgeStep
    <2> QED BY <2>1, <2>2, <2>3
  <1>3. CASE Stmt2
    <2>1. CASE Ch = "?"
      <3>1. Goto("stmt3", <<>>) /\ st = "stmt2" BY <1>3, <2>1 DEF Stmt2, Body, Reading
      <3>2. Edge("stmt2", <<>>, "stmt3") BY SilentEdge
      <3> QED BY <3>1, <3>2, <1>0, EdgeStep
    <2>2. CASE Ch # "?"
      <3>1. Goto("stmt2", <<Expr(Ch)>>) /\ st = "stmt2" BY <1>3, <2>2 DEF Stmt2, Body, Reading
      <3>2. Edge("stmt2", <<Expr(Ch)>>, "stmt2") BY <1>1, Edge1
      <3> QED BY <3>1, <3>2, <1>0, EdgeStep
    <2> QED BY <2>1, <2>2
  <1>4. CASE Stmt3
    <2>1. CASE Ch = ">"
      <3>1. Goto("cr1", <<SEnd>>) /\ st = "stmt3" BY <1>4, <2>1 DEF Stmt3, Held, Reading
      <3>2. Edge("stmt3", <<SEnd>>, "cr1") BY Edge1
      <3> QED BY <3>1, <3>2, <1>0, EdgeStep
    <2>2. CASE Ch = "?"
      <3>1. Goto("stmt3", <<Expr("?")>>) /\ st = "stmt3" BY <1>4, <2>2 DEF Stmt3, Held, Reading
      <3>2. Edge("stmt3", <<Expr("?")>>, "stmt3") BY <1>1, Edge1
      <3> QED BY <3>1, <3>2, <1>0, EdgeStep
    <2>3. CASE Ch \notin {">", "?"}
      <3>1. Goto("stmt2", <<Expr("?"), Expr(Ch)>>) /\ st = "stmt3"
        BY <1>4, <2>3 DEF Stmt3, Held, Reading
      <3>2. Edge("stmt3", <<Expr("?"), Expr(Ch)>>, "stmt2") BY <1>1, Edge2
      <3> QED BY <3>1, <3>2, <1>0, EdgeStep
    <2> QED BY <2>1, <2>2, <2>3
  <1>5. CASE Stmt12
    <2>1. CASE Ch = "?"
      <3>1. Goto("stmt13", <<>>) /\ st = "stmt12" BY <1>5, <2>1 DEF Stmt12, Body, Reading
      <3>2. Edge("stmt12", <<>>, "stmt13") BY SilentEdge
      <3> QED BY <3>1, <3>2, <1>0, EdgeStep
    <2>2. CASE Ch # "?"
      <3>1. Goto("stmt12", <<Code(Ch)>>) /\ st = "stmt12" BY <1>5, <2>2 DEF Stmt12, Body, Reading
      <3>2. Edge("stmt12", <<Code(Ch)>>, "stmt12") BY <1>1, Edge1
      <3> QED BY <3>1, <3>2, <1>0, EdgeStep
    <2> QED BY <2>1, <2>2
  <1>6. CASE Stmt13
    <2>1. CASE Ch = ">"
      <3>1. Goto("cr1", <<Sep>>) /\ st = "stmt13" BY <1>6, <2>1 DEF Stmt13, Held, Reading
      <3>2. Edge("stmt13", <<Sep>>, "cr1") BY Edge1
      <3> QED BY <3>1, <3>2, <1>0, EdgeStep
    <2>2. CASE Ch = "?"
      <3>1. Goto("stmt13", <<Code("?")>>) /\ st = "stmt13" BY <1>6, <2>2 DEF Stmt13, Held, Reading
      <3>2. Edge("stmt13", <<Code("?")>>, "stmt13") BY <1>1, Edge1
      <3> QED BY <3>1, <3>2, <1>0, EdgeStep
    <2>3. CASE Ch \notin {">", "?"}
      <3>1. Goto("stmt12", <<Code("?"), Code(Ch)>>) /\ st = "stmt13"
        BY <1>6, <2>3 DEF Stmt13, Held, Reading
      <3>2. Edge("stmt13", <<Code("?"), Code(Ch)>>, "stmt12") BY <1>1, Edge2
      <3> QED BY <3>1, <3>2, <1>0, EdgeStep
    <2> QED BY <2>1, <2>2, <2>3
  <1> QED BY <1>2, <1>3, <1>4, <1>5, <1>6

\* So do those inside of comments and after a tag.
LEMMA CommentAndCrSteps ==
  ASSUME IInv, Comment1 \/ Comment2 \/ Cr1 \/ Cr2
  PROVE  IInv'
  <1>0. AtSwitch /\ st \in States
    BY DEF Comment1, Comment2, Cr1, Cr2, Reading, AtSwitch, StateNames, IInv, TypeOK
  <1>1. ASSUME NEW s \in {"comment1", "comment2", "cr1", "cr2", "echo1"},
               st \in {"comment1", "comment2", "cr1", "cr2"}, Goto(s, <<>>)
        PROVE  IInv'
    <2>1. Edge(st, <<>>, s)
      BY <1>1, Classes, StateNames, SilentEdge
    <2> QED BY <1>1, <2>1, <1>0, EdgeStep
  <1>2. CASE Comment1
    BY <1>2, <1>1 DEF Comment1, Reading
  <1>3. CASE Comment2
    <2>1. CASE Ch = ">"
      BY <1>3, <2>1, <1>1 DEF Comment2, Reading
    <2>2. CASE Ch = "?"
      BY <1>3, <2>2, <1>1 DEF Comment2, Reading
    <2>3. CASE Ch \notin {">", "?"}
      BY <1>3, <2>3, <1>1 DEF Comment2, Reading
    <2> QED BY <2>1, <2>2, <2>3
  <1>4. CASE Cr1
    <2>1. CASE Ch = "CR"
      BY <1>4, <2>1, <1>1 DEF Cr1, Reading
    <2>2. CASE Ch = "LF"
      BY <1>4, <2>2, <1>1 DEF Cr1, Reading
    <2>3. CASE Ch \notin {"CR", "LF"}
      BY <1>4, <2>3, <1>0, UngetStep DEF Cr1, Reading, CrStates
    <2> QED BY <2>1, <2>2, <2>3
  <1>5. CASE Cr2
    <2>1. CASE Ch = "LF"
      BY <1>5, <2>1, <1>1 DEF Cr2, Reading
    <2>2. CASE Ch # "LF"
      BY <1>5, <2>2, <1>0, UngetStep DEF Cr2, Reading, CrStates
    <2> QED BY <2>1, <2>2
  <1> QED BY <1>2, <1>3, <1>4, <1>5

\* The reader's loop ends: with a full buffer, at the end of the page, or not
\* normally.  A full chunk is never the empty one that ends the source.
LEMMA LoopEnds ==
  ASSUME IInv, ChunkFull \/ Eof \/ SyntaxError
  PROVE  IInv'
  <1>0. /\ out \in Seq(Items) /\ Len(out) \in Nat /\ Len(file) \in Nat
        /\ (out # <<>> <=> Len(out) > 0)
    BY LenProperties, EmptySeq DEF IInv, TypeOK
  <1>1. CASE ChunkFull
    <2>1. /\ given' = Len(out) /\ buf_offset' = 0 /\ pc' = "parse" /\ pc = "read"
          /\ UNCHANGED <<file, pos, fp, st, line, out, status>>
      BY <1>1 DEF ChunkFull, GiveChunk, HasRoom, IInv, TypeOK
    <2>2. TypeOK' /\ Room'
      BY <2>1, <1>0 DEF IInv, TypeOK, Room
    <2>3. WellFormed' /\ LastFits' /\ LineIsFileLine'
      BY <2>1 DEF IInv, WellFormed, LastFits, Last, LineIsFileLine, Newlines
    <2>4. Stage' /\ WholePage'
      BY <2>1 DEF IInv, Stage, WholePage
    <2> QED BY <2>2, <2>3, <2>4 DEF IInv
  <1>2. CASE Eof
    <2>1. /\ out' = out \o EofItems /\ given' = Len(out') /\ buf_offset' = 0
          /\ pc' \in {"parse", "ended"} /\ pc = "read" /\ st' = "unknown"
          /\ pos = Len(file) /\ st \in Closable
          /\ UNCHANGED <<file, pos, fp, line, status>>
      BY <1>2 DEF Eof, AtEof, GiveChunk
    <2>2. /\ out' \in Seq(Items) /\ Len(out') \in Nat
          /\ WellFormed' /\ LastFits'
      <3>1. CASE st = "echo2"
        <4>1. EofItems = <<End>> /\ End \in Items /\ End.k = "end"
          BY <3>1, MarkKinds DEF EofItems
        <4>2. /\ out # <<>> /\ Last(out).k \in TextKinds
              /\ Linked(out) /\ out[1].k \in Starters
          BY <3>1, <1>0, Classes DEF IInv, LastFits, Fits, WellFormed, Linked
        <4>3. /\ <<End>> \in Seq(Items) /\ <<End>> # <<>> /\ Linked(<<End>>)
              /\ Follows(Last(out).k, <<End>>[1].k) /\ Last(<<End>>) = End
          BY <4>1, <4>2 DEF Linked, Last, Follows, TextKinds
        <4>4. /\ out' \in Seq(Items) /\ out' # <<>> /\ Linked(out')
              /\ Last(out') = End /\ out'[1] = out[1]
          BY <4>1, <4>2, <4>3, <1>0, <2>1, LinkedConcat
        <4>5. LastFits'
          BY <4>4, <4>1, <2>1, Classes DEF LastFits, Last, Fits
        <4> QED BY <4>2, <4>4, <4>5, LenProperties DEF WellFormed, Linked
      <3>2. CASE st # "echo2"
        <4>1. out' = out
          BY <3>2, <1>0, <2>1, ConcatEmptySeq DEF EofItems
        <4>2. Class(st) = "none" /\ Class("unknown") = "none"
          BY <3>2, <2>1, Classes DEF Closable, CrStates
        <4> QED BY <4>1, <4>2, <1>0, <2>1 DEF IInv, WellFormed, LastFits, Last
      <3> QED BY <3>1, <3>2
    <2>3. TypeOK' /\ Room'
      BY <2>1, <2>2, <1>0, StateNames DEF IInv, TypeOK, Room
    <2>4. LineIsFileLine' /\ Stage' /\ WholePage'
      BY <2>1 DEF IInv, LineIsFileLine, Newlines, Stage, WholePage
    <2> QED BY <2>2, <2>3, <2>4 DEF IInv
  <1>3. CASE SyntaxError
    <2>1. /\ pc' = "done" /\ status' = "ERRRUN" /\ fp' = "closed" /\ pc = "read"
          /\ UNCHANGED <<file, pos, st, line, out, given, buf_offset>>
      BY <1>3 DEF SyntaxError, AtEof, Return
    <2>2. TypeOK' /\ Room' /\ WellFormed' /\ LastFits'
      BY <2>1 DEF IInv, TypeOK, Room, WellFormed, LastFits, Last
    <2>3. LineIsFileLine' /\ Stage' /\ WholePage'
      BY <2>1 DEF IInv, LineIsFileLine, Newlines, Stage, WholePage
    <2> QED BY <2>2, <2>3 DEF IInv
  <1> QED BY <1>1, <1>2, <1>3

\* The steps of luaL_load_lsp_file and of Lua's parser.
LEMMA LoadSteps ==
  ASSUME IInv, Load
  PROVE  IInv'
  <1>1. CASE Open
    <2>1. /\ pc = "start" /\ pos = 0 /\ st = "unknown" /\ st' = "echo1" /\ line' = 1
          /\ \/ fp' = "open" /\ pc' = "parse" /\ status' = status
             \/ fp' = "closed" /\ pc' = "done" /\ status' = "ERRERR"
          /\ UNCHANGED <<file, pos, out, given, buf_offset>>
      BY <1>1 DEF Open, IInv, Stage
    <2>3. LineIsFileLine'
      <3>1. line' = 1 /\ pos' = 0
        BY <2>1
      <3>2. Newlines(pos)' = {}
        BY <3>1 DEF Newlines
      <3>3. Cardinality(Newlines(pos))' = 0
        BY <3>2, FS_EmptySet
      <3> QED BY <3>1, <3>3 DEF LineIsFileLine
    <2>4. LastFits'
      BY <2>1, Classes DEF IInv, LastFits, Last
    <2>5. TypeOK' /\ Room' /\ WellFormed'
      BY <2>1, StateNames DEF IInv, TypeOK, Room, WellFormed
    <2>6. Stage' /\ WholePage'
      BY <2>1 DEF IInv, Stage, WholePage
    <2> QED BY <2>3, <2>4, <2>5, <2>6 DEF IInv
  <1>2. CASE Call
    <2>1. /\ pc = "parse" /\ pc' = "read"
          /\ UNCHANGED <<file, pos, fp, st, line, out, given, buf_offset, status>>
      BY <1>2 DEF Call
    <2>2. TypeOK' /\ Room' /\ WellFormed' /\ LastFits'
      BY <2>1 DEF IInv, TypeOK, Room, WellFormed, LastFits, Last
    <2>3. LineIsFileLine' /\ Stage' /\ WholePage'
      BY <2>1 DEF IInv, LineIsFileLine, Newlines, Stage, WholePage
    <2> QED BY <2>2, <2>3 DEF IInv
  <1>3. CASE ParserError \/ Accept
    <2>1. /\ pc \in {"parse", "ended"} /\ pc' = "done" /\ fp' = "closed"
          /\ status' \in {"OK", "ERRSYNTAX"}
          /\ status' = "OK" => pc = "ended"
          /\ UNCHANGED <<file, pos, st, line, out, given, buf_offset>>
      BY <1>3 DEF ParserError, Accept, Return
    <2>2. TypeOK' /\ Room' /\ WellFormed' /\ LastFits'
      BY <2>1 DEF IInv, TypeOK, Room, WellFormed, LastFits, Last
    <2>3. LineIsFileLine' /\ Stage' /\ WholePage'
      BY <2>1 DEF IInv, LineIsFileLine, Newlines, Stage, WholePage
    <2> QED BY <2>2, <2>3 DEF IInv
  <1> QED BY <1>1, <1>2, <1>3 DEF Load

--------------------------------------------------------------------------------
(* The theorems.                                                           *)

\* The invariant holds before luaL_load_lsp_file opens the page.
LEMMA InitIInv == Init => IInv
  <1> SUFFICES ASSUME Init PROVE IInv
    OBVIOUS
  <1>1. TypeOK /\ Room
    BY LenProperties, EmptySeq DEF Init, TypeOK, Room, States
  <1>2. WellFormed /\ LastFits
    BY EmptySeq, Classes DEF Init, WellFormed, LastFits
  <1>3. LineIsFileLine /\ Stage /\ WholePage
    BY DEF Init, LineIsFileLine, Stage, WholePage
  <1> QED BY <1>1, <1>2, <1>3 DEF IInv

\* Every step, of the reader or around it, preserves the invariant.
LEMMA NextIInv == IInv /\ [Next]_vars => IInv'
  <1> SUFFICES ASSUME IInv, [Next]_vars PROVE IInv'
    OBVIOUS
  <1>1. CASE Load
    BY <1>1, LoadSteps
  <1>2. CASE Reader
    BY <1>2, LoopEnds, EchoSteps, StmtSteps, CommentAndCrSteps DEF Reader, Switch
  <1>3. CASE UNCHANGED vars
    <2>1. TypeOK' /\ Room' /\ WellFormed' /\ LastFits'
      BY <1>3 DEF vars, IInv, TypeOK, Room, WellFormed, LastFits, Last
    <2>2. LineIsFileLine' /\ Stage' /\ WholePage'
      BY <1>3 DEF vars, IInv, LineIsFileLine, Newlines, Stage, WholePage
    <2> QED BY <2>1, <2>2 DEF IInv
  <1> QED BY <1>1, <1>2, <1>3 DEF Next

\* Every reachable state satisfies the inductive invariant.
THEOREM Invariance == Spec => []IInv
  BY InitIInv, NextIInv, PTL DEF Spec

\* The reader's variables stay in their ranges (lsp_State, llsplib.cpp:51).
THEOREM TypeCorrect == Spec => []TypeOK
  <1>1. IInv => TypeOK
    BY DEF IInv
  <1> QED BY <1>1, Invariance, PTL

\* buf is never overrun: a reserve of 8 bytes is enough for any buffer size,
\* and the source has 64 (llsplib.cpp:26).
THEOREM BufferSafe == Spec => []BufferInBounds
  <1>1. IInv => BufferInBounds
    BY DEF IInv, TypeOK, Room, BufferInBounds
  <1> QED BY <1>1, Invariance, PTL

\* The Lua text made of any page is a text of well-formed echos and code, and
\* has closed every echo when lua_load takes it.
THEOREM QuotesAlwaysBalance == Spec => []QuotesBalance
  <1>1. IInv => QuotesBalance
    <2> SUFFICES ASSUME IInv PROVE QuotesBalance
      OBVIOUS
    <2>1. ASSUME pc = "ended" PROVE AtBoundary
      <3>1. Class(st) = "none"
        BY <2>1, Classes DEF IInv, Stage
      <3> QED BY <3>1, EmptySeq DEF IInv, LastFits, Fits, Last, AtBoundary, TypeOK
    <2> QED BY <2>1 DEF QuotesBalance, IInv
  <1> QED BY <1>1, Invariance, PTL

\* The line of an error message is the page's (llsplib.cpp:411).
THEOREM LineCorrect == Spec => []LineIsFileLine
  <1>1. IInv => LineIsFileLine
    BY DEF IInv
  <1> QED BY <1>1, Invariance, PTL

\* lua_load is told that its source has ended at the end of the page only,
\* and the file is closed on every way out of luaL_load_lsp_file.
THEOREM PageIsWhole == Spec => []WholePage
  <1>1. IInv => WholePage
    BY DEF IInv
  <1> QED BY <1>1, Invariance, PTL

--------------------------------------------------------------------------------
(***************************************************************************)
(* The reader implements the template.                                     *)
(***************************************************************************)
\* What the body of a tag gives from i on: its characters, and what is after them
Copied(f, i, j, kind) == IF kind = "#" THEN <<>> ELSE Template!Copy(f, i, j, kind)
Closing(kind) == CASE kind = "code" -> <<Sep>> [] kind = "expr" -> <<SEnd>> [] kind = "#" -> <<>>
AfterBody(f, end, kind) ==
    LET rest == Template!Translations(f)[Template!AfterTag(f, end + 2)]
    IN  IF end = Len(f) THEN [items |-> <<>>, closed |-> FALSE]
                        ELSE [items |-> Closing(kind) \o rest.items, closed |-> rest.closed]
TagBody(f, i, kind) ==
    LET end == Template!TagEnd(f, i)
    IN  [items  |-> Copied(f, i, end, kind) \o AfterBody(f, end, kind).items,
         closed |-> AfterBody(f, end, kind).closed]
\* Text from i on, in an echo that is open
Text(f, i) ==
    LET after == Template!AfterText(f, i, Template!Translations(f))
    IN  [items  |-> Template!Quote(f, i, Template!TextEnd(f, i)) \o (<<End>> \o after.items),
         closed |-> after.closed]

\* What is still to be written in state s, if i is the next character
Rest(f, s, i) ==
    LET T == Template!Translations(f)
    IN  CASE s = "echo1"    -> T[i]
          [] s = "echo2"    -> Text(f, i)
          [] s = "echo3"    -> Text(f, i - 1)
          [] s = "echo4"    -> T[i - 1]
          [] s = "stmt1"    -> Template!Tag(f, i, T)
          [] s = "stmt2"    -> TagBody(f, i, "expr")
          [] s = "stmt3"    -> TagBody(f, i - 1, "expr")
          [] s = "stmt12"   -> TagBody(f, i, "code")
          [] s = "stmt13"   -> TagBody(f, i - 1, "code")
          [] s = "comment1" -> TagBody(f, i, "#")
          [] s = "comment2" -> TagBody(f, i - 1, "#")
          [] s = "cr1"      -> T[Template!AfterTag(f, i - 1)]
          [] s = "cr2"      -> T[Template!AfterTag(f, i - 2)]
          [] OTHER          -> [items |-> <<>>, closed |-> TRUE]

\* The character that the reader holds back in state s
Context(f, s, i) == /\ i \in 1..Len(f)+1
                    /\ s \in {"echo3", "echo4"} => i > 1 /\ f[i - 1] = "<"
                    /\ s \in {"stmt3", "stmt13", "comment2"} => i > 1 /\ f[i - 1] = "?"
                    /\ s = "cr1" => i > 1
                    /\ s = "cr2" => i > 2 /\ f[i - 1] = "CR"

\* What is written and what is still to be written are the page's translation.
Owes == /\ pc # "done" => status = "none"
        /\ pc = "start" => out = <<>>
        /\ pc \in {"parse", "read", "ended"} =>
             /\ Context(file, st, pos + 1)
             /\ out \o Rest(file, st, pos + 1).items = Template!Translation(file).items
             /\ Rest(file, st, pos + 1).closed = Template!Translation(file).closed

--------------------------------------------------------------------------------
(***************************************************************************)
(* Numbers, and the first of a set of positions.                           *)
(***************************************************************************)
\* A set of numbers has a least one.
LEMMA LeastOf == ASSUME NEW S, S \subseteq Nat, S # {}
                 PROVE  \E n \in S : \A m \in S : n <= m
<1>1. \E n \in S : \A m \in S : ~(<<m, n>> \in OpToRel(<, Nat))
  BY NatLessThanWellFounded, WFMin
<1>2. PICK n \in S : \A m \in S : ~(m < n)
  BY <1>1 DEF OpToRel
<1> QED BY <1>2

\* Induction, over a set: no predicate is needed.
LEMMA SetInduction == ASSUME NEW S, 0 \in S, \A n \in Nat : n \in S => n + 1 \in S
                      PROVE  Nat \subseteq S
<1> SUFFICES ASSUME Nat \ S # {} PROVE FALSE
  OBVIOUS
<1>1. PICK n \in Nat \ S : \A m \in Nat \ S : n <= m
  BY LeastOf
<1>2. n # 0 /\ n - 1 \in Nat /\ n - 1 \notin Nat \ S
  BY <1>1
<1>3. (n - 1) + 1 \in S
  BY <1>2
<1> QED BY <1>1, <1>3

\* Min chooses the least.
LEMMA MinOf == ASSUME NEW S, S \subseteq Nat, S # {}
               PROVE  Template!Min(S) \in S /\ \A y \in S : Template!Min(S) <= y
<1>1. \E x \in S : \A y \in S : x <= y
  BY LeastOf
<1> QED BY <1>1 DEF Template!Min

\* The least of a set of numbers is its minimum.
LEMMA MinIs == ASSUME NEW S, S \subseteq Nat, NEW x \in S, \A y \in S : x <= y
               PROVE  Template!Min(S) = x
<1>1. Template!Min(S) \in S /\ \A y \in S : Template!Min(S) <= y
  BY MinOf
<1>2. \A y \in S : y \in Nat
  OBVIOUS
<1> DEFINE m == Template!Min(S)
<1> HIDE DEF m
<1>3. m \in S /\ m <= x /\ x <= m /\ m \in Nat /\ x \in Nat
  BY <1>1, <1>2 DEF m
<1>4. m = x
  BY <1>3
<1> QED BY <1>4 DEF m

(***************************************************************************)
(* Where text and tags end.                                                *)
(***************************************************************************)
\* Text ends before a tag in the page, or with the page.
LEMMA TextEndRange ==
    ASSUME NEW f \in Seq(Chars), NEW i \in 1..Len(f)+1
    PROVE  /\ Template!TextEnd(f, i) \in i-1..Len(f)
           /\ Template!TextEnd(f, i) # Len(f) => Template!TextEnd(f, i) + 2 <= Len(f)
<1> DEFINE S == Template!TagsFrom(f, i)
<1>0. Len(f) \in Nat
  OBVIOUS
<1>1. S \subseteq i..Len(f)-1 /\ S \subseteq Nat
  BY <1>0 DEF Template!TagsFrom
<1>2. CASE S = {}
  BY <1>2, <1>0 DEF Template!TextEnd
<1>3. CASE S # {}
  <2>1. Template!Min(S) \in S
    BY <1>1, <1>3, MinOf
  <2>2. Template!TextEnd(f, i) = Template!Min(S) - 1
    BY <1>3 DEF Template!TextEnd
  <2>3. Template!Min(S) \in i..Len(f)-1
    BY <2>1, <1>1
  <2> QED BY <2>2, <2>3, <1>0
<1> QED BY <1>2, <1>3

\* A tag's body ends before a "?>" in the page, or with the page.
LEMMA TagEndRange ==
    ASSUME NEW f \in Seq(Chars), NEW i \in Nat \ {0}, i <= Len(f) + 2
    PROVE  /\ Template!TagEnd(f, i) \in Nat
           /\ Template!TagEnd(f, i) = Len(f) \/ Template!TagEnd(f, i) \in i-1..Len(f)-2
<1> DEFINE S == Template!ClosesFrom(f, i)
<1>0. Len(f) \in Nat
  OBVIOUS
<1>1. S \subseteq i..Len(f)-1 /\ S \subseteq Nat
  BY <1>0 DEF Template!ClosesFrom
<1>2. CASE S = {}
  BY <1>2, <1>0 DEF Template!TagEnd
<1>3. CASE S # {}
  <2>1. Template!Min(S) \in S
    BY <1>1, <1>3, MinOf
  <2>2. Template!TagEnd(f, i) = Template!Min(S) - 1
    BY <1>3 DEF Template!TagEnd
  <2>3. Template!Min(S) \in i..Len(f)-1
    BY <2>1, <1>1
  <2> QED BY <2>2, <2>3, <1>0
<1> QED BY <1>2, <1>3

\* After a tag, a position in the page or right after it.
LEMMA AfterTagRange ==
    ASSUME NEW f \in Seq(Chars), NEW j \in 0..Len(f)
    PROVE  Template!AfterTag(f, j) \in j+1..Len(f)+1
<1>0. Len(f) \in Nat
  OBVIOUS
<1> DEFINE Is(i, c) == i <= Len(f) /\ f[i] = c
<1>1. CASE Is(j + 1, "CR") /\ Is(j + 2, "LF")
  <2>1. Template!AfterTag(f, j) = j + 3
    BY <1>1 DEF Template!AfterTag
  <2> QED BY <2>1, <1>0, <1>1
<1>2. CASE Is(j + 1, "CR") /\ ~Is(j + 2, "LF")
  <2>1. Template!AfterTag(f, j) = j + 2
    BY <1>2 DEF Template!AfterTag
  <2> QED BY <2>1, <1>0, <1>2
<1>3. CASE Is(j + 1, "LF")
  <2>1. Template!AfterTag(f, j) = j + 2
    BY <1>3 DEF Template!AfterTag
  <2> QED BY <2>1, <1>0, <1>3
<1>4. CASE ~Is(j + 1, "CR") /\ ~Is(j + 1, "LF")
  <2>1. Template!AfterTag(f, j) = j + 1
    BY <1>4 DEF Template!AfterTag
  <2> QED BY <2>1, <1>0
<1> QED BY <1>1, <1>2, <1>3, <1>4

(***************************************************************************)
(* The translation, unfolded.                                              *)
(***************************************************************************)
\* What the page gives from i on, if rest is what it gives from later positions on
FromStep(f, rest, i) == [items  |-> Template!Echo(f, i, Template!TextEnd(f, i))
                                    \o Template!AfterText(f, i, rest).items,
                         closed |-> Template!AfterText(f, i, rest).closed]

\* Only later positions matter.
LEMMA FromStepLater ==
    ASSUME NEW f \in Seq(Chars), NEW i \in 1..Len(f)+1, NEW g, NEW h,
           \A k \in i+1..Len(f)+1 : g[k] = h[k]
    PROVE  FromStep(f, g, i) = FromStep(f, h, i)
<1> DEFINE last == Template!TextEnd(f, i)
           end  == Template!TagEnd(f, last + 4)
           next == Template!AfterTag(f, end + 2)
<1>0. Len(f) \in Nat /\ last \in i-1..Len(f) /\ (last # Len(f) => last + 2 <= Len(f))
  BY TextEndRange
<1> HIDE DEF last
<1>1. CASE last = Len(f)
  <2>1. Template!AfterText(f, i, g) = Template!AfterText(f, i, h)
    BY <1>1 DEF Template!AfterText, last
  <2> QED BY <2>1 DEF FromStep
<1>2. CASE last # Len(f)
  <2>0. (last + 3) + 1 = last + 4
    BY <1>0
  <2>1. Template!AfterText(f, i, g) = Template!Tag(f, last + 3, g)
    BY <1>2 DEF Template!AfterText, last
  <2>2. Template!AfterText(f, i, h) = Template!Tag(f, last + 3, h)
    BY <1>2 DEF Template!AfterText, last
  <2>3. CASE end = Len(f)
    <3>1. Template!Tag(f, last + 3, g) = Template!Tag(f, last + 3, h)
      BY <2>0, <2>3 DEF Template!Tag
    <3> QED BY <3>1, <2>1, <2>2 DEF FromStep
  <2>4. CASE end # Len(f)
    <3>1. end \in last+3..Len(f)-2
      BY <2>4, <1>0, <1>2, TagEndRange
    <3> HIDE DEF end
    <3>2. next \in end+3..Len(f)+1
      BY <3>1, <1>0, AfterTagRange
    <3> HIDE DEF next
    <3>3. next \in i+1..Len(f)+1
      BY <3>1, <3>2, <1>0
    <3>4. g[next] = h[next]
      BY <3>3
    <3>5. Template!Tag(f, last + 3, g) = Template!Tag(f, last + 3, h)
      BY <2>0, <2>4, <3>4, Zenon DEF Template!Tag, next, end
    <3> QED BY <3>5, <2>1, <2>2 DEF FromStep
  <2> QED BY <2>3, <2>4
<1> QED BY <1>1, <1>2

\* The recursive function of the template satisfies its equation on every page.
LEMMA TranslationsUnfold ==
    ASSUME NEW f \in Seq(Chars)
    PROVE  Template!Translations(f)
             = [i \in 1..Len(f)+1 |-> FromStep(f, Template!Translations(f), i)]
<1> DEFINE N == Len(f) + 1
           S == {n \in Nat : n < N => \E g : g = [k \in N-n..N |-> FromStep(f, g, k)]}
<1>0. Len(f) \in Nat
  OBVIOUS
<1>1. 0 \in S
  <2> DEFINE e == [k \in N-0..N |-> 0]
             g == [k \in N-0..N |-> FromStep(f, e, k)]
  <2>1. ASSUME NEW k \in N-0..N PROVE g[k] = FromStep(f, g, k)
    <3>1. k \in 1..Len(f)+1 /\ \A m \in k+1..Len(f)+1 : e[m] = g[m]
      BY <1>0
    <3>2. FromStep(f, e, k) = FromStep(f, g, k)
      <4> HIDE DEF e, g
      <4> QED BY <3>1, FromStepLater
    <3> QED BY <3>2
  <2>2. g = [k \in N-0..N |-> FromStep(f, g, k)]
    BY <2>1
  <2> QED BY <2>2
<1>2. ASSUME NEW n \in Nat, n \in S PROVE n + 1 \in S
  <2> SUFFICES ASSUME n + 1 < N
               PROVE  \E g : g = [k \in N-(n+1)..N |-> FromStep(f, g, k)]
    OBVIOUS
  <2>1. PICK h : h = [k \in N-n..N |-> FromStep(f, h, k)]
    BY <1>0, <1>2
  <2> DEFINE g == [k \in N-(n+1)..N |-> IF k = N-(n+1) THEN FromStep(f, h, k) ELSE h[k]]
  <2>2. ASSUME NEW k \in N-(n+1)..N
        PROVE  FromStep(f, g, k) = FromStep(f, h, k)
    <3>1. k \in 1..Len(f)+1 /\ \A m \in k+1..Len(f)+1 : g[m] = h[m]
      BY <1>0
    <3> HIDE DEF g
    <3> QED BY <3>1, FromStepLater
  <2>3. ASSUME NEW k \in N-(n+1)..N
        PROVE  g[k] = FromStep(f, g, k)
    <3>1. CASE k = N-(n+1)
      BY <3>1, <2>2
    <3>2. CASE k # N-(n+1)
      <4>1. k \in N-n..N
        BY <3>2, <1>0
      <4>2. h[k] = FromStep(f, h, k)
        BY <4>1, <2>1
      <4> QED BY <3>2, <4>2, <2>2
    <3> QED BY <3>1, <3>2
  <2>4. g = [k \in N-(n+1)..N |-> FromStep(f, g, k)]
    BY <2>3
  <2> QED BY <2>4
<1>3. N - 1 \in S
  <2> HIDE DEF S
  <2>1. Nat \subseteq S
    BY <1>1, <1>2, SetInduction
  <2> QED BY <2>1, <1>0
<1>4. \E g : g = [k \in 1..N |-> FromStep(f, g, k)]
  <2>1. N - (N - 1) = 1 /\ N - 1 < N
    BY <1>0
  <2> QED BY <1>3, <2>1
<1> QED BY <1>4, Zenon DEF Template!Translations, FromStep

(***************************************************************************)
(* What is copied.                                                         *)
(***************************************************************************)
\* The template's items are the reader's (the add_ functions, llsplib.cpp:185).
LEMMA TemplateMarks ==
    /\ Template!Mark("beg") = Beg /\ Template!Mark("end") = End
    /\ Template!Mark("sbeg") = SBeg /\ Template!Mark("send") = SEnd
    /\ Template!Mark("sep") = Sep
    /\ \A ch \in Chars : /\ Template!Quoted(ch) = AddChar(ch)
                         /\ Template!Item("code", ch) = Code(ch)
                         /\ Template!Item("expr", ch) = Expr(ch)
<1>1. \A ch \in Chars : Template!Quoted(ch) = AddChar(ch)
  <2> SUFFICES ASSUME NEW ch \in Chars PROVE Template!Quoted(ch) = AddChar(ch)
    OBVIOUS
  <2>1. CASE ch = "ctl"
    BY <2>1 DEF Template!Quoted, Template!Item, AddChar
  <2>2. CASE ch \in Escaped
    BY <2>2 DEF Template!Quoted, Template!Item, AddChar, Escaped
  <2>3. CASE ch # "ctl" /\ ch \notin Escaped
    BY <2>3 DEF Template!Quoted, Template!Item, AddChar, Escaped
  <2> QED BY <2>1, <2>2, <2>3
<1> QED BY <1>1 DEF Template!Mark, Template!Item, Beg, End, SBeg, SEnd, Sep, Mark, Code, Expr

\* A part of a sequence, taken from its front.
LEMMA SubSeqGrows ==
    ASSUME NEW s \in Seq(Items), NEW i \in 1..Len(s)+1, NEW j \in i-1..Len(s)
    PROVE  /\ SubSeq(s, i, j) \in Seq(Items)
           /\ j < i => SubSeq(s, i, j) = <<>>
           /\ i <= j => SubSeq(s, i, j) = <<s[i]>> \o SubSeq(s, i + 1, j)
<1>0. Len(s) \in Nat /\ i \in Int /\ j \in Int
  OBVIOUS
<1>1. \A n \in i..j : s[n] \in Items
  BY <1>0, ElementOfSeq
<1>2. SubSeq(s, i, j) \in Seq(Items)
  BY <1>0, <1>1, SubSeqProperties
<1>3. j < i => SubSeq(s, i, j) = <<>>
  BY <1>0, SubSeqEmpty
<1>4. i <= j => i \in 1..Len(s) /\ j \in i..Len(s)
  BY <1>0
<1> QED BY <1>2, <1>3, <1>4, SubSeqRecursiveFirst

\* Characters that are copied, from the first.
LEMMA CopyGrows ==
    ASSUME NEW f \in Seq(Chars), NEW i \in 1..Len(f)+1, NEW j \in i-1..Len(f),
           NEW kind \in {"code", "expr"}
    PROVE  /\ Template!Copy(f, i, j, kind) \in Seq(Items)
           /\ j < i => Template!Copy(f, i, j, kind) = <<>>
           /\ i <= j => Template!Copy(f, i, j, kind)
                          = <<Template!Item(kind, f[i])>> \o Template!Copy(f, i + 1, j, kind)
<1> DEFINE s == [n \in DOMAIN f |-> Template!Item(kind, f[n])]
<1>1. \A n \in 1..Len(f) : Template!Item(kind, f[n]) \in Items
  <2>1. \A n \in 1..Len(f) : f[n] \in Chars
    BY ElementOfSeq
  <2>2. \A ch \in Chars : Template!Item(kind, ch) \in Items
    BY ItemKinds, TemplateMarks
  <2> QED BY <2>1, <2>2
<1>2. Len(f) \in Nat /\ DOMAIN f = 1..Len(f)
  OBVIOUS
<1>3. s \in Seq(Items) /\ Len(s) = Len(f) /\ (i <= j => s[i] = Template!Item(kind, f[i]))
  BY <1>1, <1>2
<1>4. \A k, m : Template!Copy(f, k, m, kind) = SubSeq(s, k, m)
  BY DEF Template!Copy
<1> HIDE DEF s
<1>5. i \in 1..Len(s)+1 /\ j \in i-1..Len(s)
  BY <1>3
<1>6. /\ SubSeq(s, i, j) \in Seq(Items)
      /\ j < i => SubSeq(s, i, j) = <<>>
      /\ i <= j => SubSeq(s, i, j) = <<s[i]>> \o SubSeq(s, i + 1, j)
  BY <1>3, <1>5, SubSeqGrows
<1> QED BY <1>3, <1>4, <1>6, Zenon

\* Characters that are quoted, from the first.
LEMMA QuoteGrows ==
    ASSUME NEW f \in Seq(Chars), NEW i \in 1..Len(f)+1, NEW j \in i-1..Len(f)
    PROVE  /\ Template!Quote(f, i, j) \in Seq(Items)
           /\ j < i => Template!Quote(f, i, j) = <<>>
           /\ i <= j => Template!Quote(f, i, j)
                          = <<AddChar(f[i])>> \o Template!Quote(f, i + 1, j)
<1> DEFINE s == [n \in DOMAIN f |-> Template!Quoted(f[n])]
<1>1. \A n \in 1..Len(f) : /\ AddChar(f[n]) \in Items
                           /\ Template!Quoted(f[n]) = AddChar(f[n])
  <2>1. \A n \in 1..Len(f) : f[n] \in Chars
    BY ElementOfSeq
  <2> QED BY <2>1, ItemKinds, TemplateMarks
<1>2. Len(f) \in Nat /\ DOMAIN f = 1..Len(f)
  OBVIOUS
<1>3. s \in Seq(Items) /\ Len(s) = Len(f) /\ (i <= j => s[i] = AddChar(f[i]))
  BY <1>1, <1>2
<1>4. \A k, m : Template!Quote(f, k, m) = SubSeq(s, k, m)
  BY DEF Template!Quote
<1> HIDE DEF s
<1>5. i \in 1..Len(s)+1 /\ j \in i-1..Len(s)
  BY <1>3
<1>6. /\ SubSeq(s, i, j) \in Seq(Items)
      /\ j < i => SubSeq(s, i, j) = <<>>
      /\ i <= j => SubSeq(s, i, j) = <<s[i]>> \o SubSeq(s, i + 1, j)
  BY <1>3, <1>5, SubSeqGrows
<1> QED BY <1>3, <1>4, <1>6, Zenon

(***************************************************************************)
(* What the page gives is a sequence of items.                             *)
(***************************************************************************)
Results == [items : Seq(Items), closed : BOOLEAN]

\* Sequences of at most one mark.
LEMMA ItemSeqs ==
    /\ <<>> \in Seq(Items) /\ <<Beg>> \in Seq(Items) /\ <<End>> \in Seq(Items)
    /\ <<SBeg>> \in Seq(Items) /\ <<SEnd>> \in Seq(Items) /\ <<Sep>> \in Seq(Items)
<1>1. \A it \in Items : <<it>> \in Seq(Items)
  OBVIOUS
<1>2. <<>> \in Seq(Items)
  OBVIOUS
<1> QED BY <1>1, <1>2, MarkKinds

\* Two sequences of items, one after the other.
LEMMA Joined == ASSUME NEW s \in Seq(Items), NEW t \in Seq(Items)
                PROVE  s \o t \in Seq(Items)
BY ConcatProperties

\* An echo is a sequence of items.
LEMMA EchoType ==
    ASSUME NEW f \in Seq(Chars), NEW i \in 1..Len(f)+1, NEW j \in i-1..Len(f)
    PROVE  Template!Echo(f, i, j) \in Seq(Items)
<1>1. Template!Quote(f, i, j) \in Seq(Items)
  BY QuoteGrows
<1> DEFINE q == Template!Quote(f, i, j)
<1> HIDE DEF q
<1>2. (<<Beg>> \o q) \o <<End>> \in Seq(Items)
  BY <1>1, ItemSeqs, Joined DEF q
<1>3. Template!Echo(f, i, j) = IF j < i THEN <<>> ELSE (<<Beg>> \o q) \o <<End>>
  BY TemplateMarks DEF Template!Echo, q
<1> QED BY <1>2, <1>3, ItemSeqs

\* So is what opens a tag, and what closes it.
LEMMA TagParts ==
    ASSUME NEW f \in Seq(Chars), NEW i \in 1..Len(f)+1, NEW j \in i-1..Len(f), j >= i \/ i > Len(f)
    PROVE  /\ Template!Opened(f, i, j) \in Seq(Items)
           /\ Template!Closed(f, i) \in Seq(Items)
           /\ Template!Kind(f, i) \in {"=", "#", "code"}
<1>0. Len(f) \in Nat
  OBVIOUS
<1>1. Template!Kind(f, i) \in {"=", "#", "code"}
  BY DEF Template!Kind
<1>2. Template!Closed(f, i) \in Seq(Items)
  BY <1>1, ItemSeqs, TemplateMarks DEF Template!Closed
<1>3. CASE Template!Kind(f, i) = "code"
  <2>1. Template!Opened(f, i, j) = Template!Copy(f, i, j, "code")
    BY <1>3 DEF Template!Opened
  <2> QED BY <2>1, <1>1, <1>2, CopyGrows
<1>4. CASE Template!Kind(f, i) = "="
  <2>0. i <= Len(f)
    BY <1>4 DEF Template!Kind
  <2>1. Template!Opened(f, i, j) = <<SBeg>> \o Template!Copy(f, i + 1, j, "expr")
    BY <1>4, TemplateMarks DEF Template!Opened
  <2>2. i + 1 \in 1..Len(f)+1 /\ j \in (i+1)-1..Len(f)
    BY <1>0, <2>0
  <2>3. Template!Copy(f, i + 1, j, "expr") \in Seq(Items)
    BY <2>2, CopyGrows
  <2> QED BY <2>1, <2>3, <1>1, <1>2, ItemSeqs, Joined
<1>5. CASE Template!Kind(f, i) = "#"
  <2>1. Template!Opened(f, i, j) = <<>>
    BY <1>5 DEF Template!Opened
  <2> QED BY <2>1, <1>1, <1>2, ItemSeqs
<1> QED BY <1>1, <1>3, <1>4, <1>5

\* What a tag gives
LEMMA TagType ==
    ASSUME NEW f \in Seq(Chars), NEW i \in 1..Len(f)+1, NEW rest,
           \A k \in i+1..Len(f)+1 : rest[k] \in Results
    PROVE  Template!Tag(f, i, rest) \in Results
<1> DEFINE end == Template!TagEnd(f, i + 1)
           next == Template!AfterTag(f, end + 2)
           opened == Template!Opened(f, i, end)
           closed == Template!Closed(f, i)
<1>0. Len(f) \in Nat
  OBVIOUS
<1>1. end \in Nat /\ (end = Len(f) \/ end \in i..Len(f)-2)
  <2>1. i + 1 \in Nat \ {0} /\ i + 1 <= Len(f) + 2 /\ (i + 1) - 1 = i
    BY <1>0
  <2> QED BY <2>1, TagEndRange
<1>2. opened \in Seq(Items) /\ closed \in Seq(Items)
  <2> HIDE DEF end
  <2>1. end \in i-1..Len(f) /\ (end >= i \/ i > Len(f))
    BY <1>0, <1>1
  <2> QED BY <2>1, TagParts
<1>3. CASE end = Len(f)
  <2>1. Template!Tag(f, i, rest) = [items |-> opened, closed |-> FALSE]
    BY <1>3 DEF Template!Tag
  <2> HIDE DEF opened
  <2> QED BY <2>1, <1>2 DEF Results
<1>4. CASE end # Len(f)
  <2>1. Template!Tag(f, i, rest) = [items |-> opened \o (closed \o rest[next].items),
                                    closed |-> rest[next].closed]
    BY <1>4 DEF Template!Tag
  <2>2. next \in i+1..Len(f)+1
    <3> HIDE DEF end
    <3>1. end + 2 \in 0..Len(f)
      BY <1>0, <1>1, <1>4
    <3>2. next \in (end+2)+1..Len(f)+1
      BY <3>1, AfterTagRange
    <3> QED BY <3>2, <1>0, <1>1, <1>4
  <2>3. rest[next] \in Results
    BY <2>2
  <2>4. rest[next].items \in Seq(Items) /\ rest[next].closed \in BOOLEAN
    BY <2>3 DEF Results
  <2> HIDE DEF opened, closed, next
  <2>5. opened \o (closed \o rest[next].items) \in Seq(Items)
    BY <2>4, <1>2, Joined
  <2> QED BY <2>1, <2>4, <2>5 DEF Results
<1> QED BY <1>3, <1>4

\* What text is followed by
LEMMA AfterTextType ==
    ASSUME NEW f \in Seq(Chars), NEW i \in 1..Len(f)+1, NEW rest,
           \A k \in i+1..Len(f)+1 : rest[k] \in Results
    PROVE  Template!AfterText(f, i, rest) \in Results
<1> DEFINE last == Template!TextEnd(f, i)
<1>0. Len(f) \in Nat /\ last \in i-1..Len(f) /\ (last # Len(f) => last + 2 <= Len(f))
  BY TextEndRange
<1>1. CASE last = Len(f)
  <2> DEFINE open == i > last \/ ~Template!Opens(f, i, last)
  <2>1. open \in BOOLEAN
    OBVIOUS
  <2>2. Template!AfterText(f, i, rest) = [items |-> <<>>, closed |-> open]
    BY <1>1 DEF Template!AfterText
  <2> HIDE DEF open
  <2> QED BY <2>1, <2>2, ItemSeqs DEF Results
<1>2. CASE last # Len(f)
  <2>1. Template!AfterText(f, i, rest) = Template!Tag(f, last + 3, rest)
    BY <1>2 DEF Template!AfterText
  <2> HIDE DEF last
  <2>2. last + 3 \in 1..Len(f)+1 /\ \A k \in (last+3)+1..Len(f)+1 : rest[k] \in Results
    BY <1>0, <1>2
  <2> QED BY <2>1, <2>2, TagType
<1> QED BY <1>1, <1>2

\* What a page gives from any position on
LEMMA TranslationsType ==
    ASSUME NEW f \in Seq(Chars)
    PROVE  \A i \in 1..Len(f)+1 : Template!Translations(f)[i] \in Results
<1> DEFINE N == Len(f) + 1
           T == Template!Translations(f)
           S == {n \in Nat : \A i \in 1..N : N - n < i => T[i] \in Results}
<1>0. Len(f) \in Nat
  OBVIOUS
<1> HIDE DEF T
<1>1. 0 \in S
  BY <1>0
<1>2. ASSUME NEW n \in Nat, n \in S PROVE n + 1 \in S
  <2> SUFFICES ASSUME NEW i \in 1..N, N - (n + 1) < i PROVE T[i] \in Results
    OBVIOUS
  <2>1. \A k \in i+1..Len(f)+1 : T[k] \in Results
    BY <1>0, <1>2
  <2>2. Template!AfterText(f, i, T) \in Results
    BY <2>1, AfterTextType
  <2>3. T[i] = FromStep(f, T, i)
    BY TranslationsUnfold DEF T
  <2>4. Template!Echo(f, i, Template!TextEnd(f, i)) \in Seq(Items)
    BY TextEndRange, EchoType
  <2> DEFINE a == Template!AfterText(f, i, T)
             e == Template!Echo(f, i, Template!TextEnd(f, i))
  <2>5. T[i] = [items |-> e \o a.items, closed |-> a.closed]
    BY <2>3 DEF FromStep
  <2> HIDE DEF a, e
  <2>6. a.items \in Seq(Items) /\ a.closed \in BOOLEAN
    BY <2>2 DEF Results, a
  <2>7. e \o a.items \in Seq(Items)
    BY <2>4, <2>6, Joined DEF e
  <2> QED BY <2>5, <2>6, <2>7 DEF Results
<1>3. Len(f) + 1 \in S
  <2> HIDE DEF S
  <2>1. Nat \subseteq S
    BY <1>1, <1>2, SetInduction
  <2> QED BY <2>1, <1>0
<1> QED BY <1>3, <1>0 DEF T

(***************************************************************************)
(* Where text that goes on ends.                                           *)
(***************************************************************************)
\* No tag opens before the text.
LEMMA NoneOpens == ASSUME NEW f, NEW i \in Nat, NEW j \in Nat, j < i
                   PROVE  ~Template!Opens(f, i, j)
BY DEF Template!Opens

\* A character that is no '<' is read alone.
LEMMA OpensAfterOther ==
    ASSUME NEW f \in Seq(Chars), NEW i \in 1..Len(f), f[i] # "<", NEW j \in i..Len(f)
    PROVE  Template!Opens(f, i, j) <=> Template!Opens(f, i + 1, j)
<1>0. Len(f) \in Nat
  OBVIOUS
<1>1. ASSUME Template!Opens(f, i, j) PROVE Template!Opens(f, i + 1, j)
  <2>1. PICK k \in i..j : /\ (j - k) % 2 = 0
                          /\ \A n \in k..j : f[n] = "<"
                          /\ k = i \/ f[k - 1] # "<"
    BY <1>1 DEF Template!Opens
  <2>2. k # i
    BY <2>1, <1>0
  <2>3. k \in i+1..j
    BY <2>2, <1>0
  <2> QED BY <2>1, <2>2, <2>3 DEF Template!Opens
<1>2. ASSUME Template!Opens(f, i + 1, j) PROVE Template!Opens(f, i, j)
  <2>1. PICK k \in i+1..j : /\ (j - k) % 2 = 0
                            /\ \A n \in k..j : f[n] = "<"
                            /\ k = i + 1 \/ f[k - 1] # "<"
    BY <1>2 DEF Template!Opens
  <2>2. k \in i..j /\ f[k - 1] # "<"
    BY <2>1, <1>0
  <2> QED BY <2>1, <2>2 DEF Template!Opens
<1> QED BY <1>1, <1>2

\* A '<' is read with the character after it.
LEMMA OpensAfterPair ==
    ASSUME NEW f \in Seq(Chars), NEW i \in 1..Len(f), f[i] = "<", NEW j \in i+1..Len(f)
    PROVE  Template!Opens(f, i, j) <=> Template!Opens(f, i + 2, j)
<1>0. Len(f) \in Nat /\ i \in Nat /\ j \in Nat
  OBVIOUS
<1>a. \A k \in Int : (j - k) % 2 = 0 <=> (j - (k + 2)) % 2 = 0
  BY <1>0
<1>b. (j - (j - 1)) % 2 = 1
  BY <1>0
<1>1. ASSUME Template!Opens(f, i, j) PROVE Template!Opens(f, i + 2, j)
  <2>1. PICK k \in i..j : /\ (j - k) % 2 = 0
                          /\ \A n \in k..j : f[n] = "<"
                          /\ k = i \/ f[k - 1] # "<"
    BY <1>1 DEF Template!Opens
  <2>2. CASE k = i
    <3>0. j # i + 1
      BY <2>1, <2>2, <1>b, <1>0
    <3>1. i + 2 \in i+2..j /\ \A n \in i+2..j : f[n] = "<"
      BY <2>1, <2>2, <3>0, <1>0
    <3>2. (j - (i + 2)) % 2 = 0
      BY <1>a, <2>1, <2>2, <1>0
    <3> QED BY <3>1, <3>2 DEF Template!Opens
  <2>3. CASE k = i + 1
    <3>1. k - 1 = i
      BY <2>3, <1>0
    <3> QED BY <2>1, <2>3, <3>1, <1>0
  <2>4. CASE k # i /\ k # i + 1
    <3>1. k \in i+2..j
      BY <2>4, <1>0
    <3> QED BY <2>1, <2>4, <3>1 DEF Template!Opens
  <2> QED BY <2>2, <2>3, <2>4
<1>2. ASSUME Template!Opens(f, i + 2, j) PROVE Template!Opens(f, i, j)
  <2>1. PICK k \in i+2..j : /\ (j - k) % 2 = 0
                            /\ \A n \in k..j : f[n] = "<"
                            /\ k = i + 2 \/ f[k - 1] # "<"
    BY <1>2 DEF Template!Opens
  <2>2. CASE k = i + 2 /\ f[i + 1] = "<"
    <3>1. \A n \in i..j : f[n] = "<"
      <4>1. \A n \in i..j : n = i \/ n = i + 1 \/ n \in k..j
        BY <2>2, <1>0
      <4> QED BY <4>1, <2>1, <2>2
    <3>2. (j - i) % 2 = 0
      BY <1>a, <2>1, <2>2, <1>0
    <3>3. i \in i..j
      BY <1>0
    <3> QED BY <3>1, <3>2, <3>3 DEF Template!Opens
  <2>3. CASE f[k - 1] # "<"
    <3>1. k \in i..j
      BY <1>0
    <3> QED BY <3>1, <2>1, <2>3 DEF Template!Opens
  <2>4. k = i + 2 => k - 1 = i + 1
    BY <1>0
  <2> QED BY <2>1, <2>2, <2>3, <2>4
<1> QED BY <1>1, <1>2

\* Text goes on from i to m if it ends at the same place from both.
LEMMA TextMoves ==
    ASSUME NEW f \in Seq(Chars), NEW i \in 1..Len(f), NEW m \in i+1..Len(f)+1, NEW rest,
           Template!TagsFrom(f, i) = Template!TagsFrom(f, m),
           Template!Opens(f, i, Len(f)) <=> Template!Opens(f, m, Len(f))
    PROVE  /\ Template!TextEnd(f, i) = Template!TextEnd(f, m)
           /\ Template!AfterText(f, i, rest) = Template!AfterText(f, m, rest)
<1> DEFINE last == Template!TextEnd(f, i)
<1>0. Len(f) \in Nat
  OBVIOUS
<1>1. last = Template!TextEnd(f, m)
  BY Zenon DEF Template!TextEnd
<1>2. CASE last = Len(f)
  <2> DEFINE a == i > last \/ ~Template!Opens(f, i, last)
             b == m > last \/ ~Template!Opens(f, m, last)
  <2>1. a = b
    <3>1. m > Len(f) => ~Template!Opens(f, m, Len(f))
      BY <1>0, NoneOpens
    <3>2. ~(i > Len(f))
      BY <1>0
    <3>3. a <=> b
      BY <1>2, <3>1, <3>2
    <3> HIDE DEF a, b
    <3>4. a \in BOOLEAN /\ b \in BOOLEAN
      BY DEF a, b
    <3> QED BY <3>3, <3>4
  <2>2. Template!AfterText(f, i, rest) = [items |-> <<>>, closed |-> a]
    BY <1>2 DEF Template!AfterText
  <2>3. Template!AfterText(f, m, rest) = [items |-> <<>>, closed |-> b]
    BY <1>1, <1>2 DEF Template!AfterText
  <2> QED BY <1>1, <2>1, <2>2, <2>3
<1>3. CASE last # Len(f)
  <2>1. Template!AfterText(f, i, rest) = Template!Tag(f, last + 3, rest)
    BY <1>3 DEF Template!AfterText
  <2>2. Template!AfterText(f, m, rest) = Template!Tag(f, last + 3, rest)
    BY <1>1, <1>3 DEF Template!AfterText
  <2> QED BY <1>1, <2>1, <2>2
<1> QED BY <1>2, <1>3

\* Text goes on after a character that is no '<'.
LEMMA TextGoesOn ==
    ASSUME NEW f \in Seq(Chars), NEW i \in 1..Len(f), f[i] # "<", NEW rest
    PROVE  /\ Template!TextEnd(f, i) = Template!TextEnd(f, i + 1)
           /\ Template!AfterText(f, i, rest) = Template!AfterText(f, i + 1, rest)
<1>0. Len(f) \in Nat
  OBVIOUS
<1>1. ASSUME NEW j \in i..Len(f)
      PROVE  Template!Opens(f, i, j) <=> Template!Opens(f, i + 1, j)
  BY OpensAfterOther
<1>2. ~Template!Opens(f, i, i)
  <2>1. ~Template!Opens(f, i + 1, i)
    BY NoneOpens
  <2> QED BY <2>1, <1>1
<1>3. Template!TagsFrom(f, i) = Template!TagsFrom(f, i + 1)
  <2>1. \A j : j \in i..(Len(f) - 1) <=> j \in (i+1)..(Len(f) - 1) \/ (j = i /\ i < Len(f))
    BY <1>0
  <2>2. \A j \in i..(Len(f) - 1) : j \in i..Len(f)
    BY <1>0
  <2> QED BY <1>1, <1>2, <2>1, <2>2 DEF Template!TagsFrom
<1>4. Len(f) \in i..Len(f) /\ i + 1 \in i+1..Len(f)+1
  BY <1>0
<1> QED BY <1>1, <1>3, <1>4, TextMoves

\* Text goes on after a '<' and a character that is no '?'.
LEMMA PairGoesOn ==
    ASSUME NEW f \in Seq(Chars), NEW i \in 1..Len(f)-1, f[i] = "<", f[i + 1] # "?", NEW rest
    PROVE  /\ Template!TextEnd(f, i) = Template!TextEnd(f, i + 2)
           /\ Template!AfterText(f, i, rest) = Template!AfterText(f, i + 2, rest)
<1>0. Len(f) \in Nat /\ i \in 1..Len(f)
  OBVIOUS
<1>1. ASSUME NEW j \in i+1..Len(f)
      PROVE  Template!Opens(f, i, j) <=> Template!Opens(f, i + 2, j)
  BY <1>0, OpensAfterPair
<1>2. ~Template!Opens(f, i, i + 1)
  <2>1. ~Template!Opens(f, i + 2, i + 1)
    BY NoneOpens
  <2>2. i + 1 \in i+1..Len(f)
    BY <1>0
  <2> QED BY <2>1, <2>2, <1>1
<1>3. Template!TagsFrom(f, i) = Template!TagsFrom(f, i + 2)
  <2>1. \A j : j \in i..(Len(f) - 1) => j \in (i+2)..(Len(f) - 1) \/ j = i \/ j = i + 1
    BY <1>0
  <2>2. \A j \in (i+2)..(Len(f) - 1) : j \in i..(Len(f) - 1) /\ j \in i+1..Len(f)
    BY <1>0
  <2> QED BY <1>1, <1>2, <2>1, <2>2 DEF Template!TagsFrom
<1>4. Len(f) \in i+1..Len(f) /\ i + 2 \in i+1..Len(f)+1
  BY <1>0
<1> QED BY <1>0, <1>1, <1>3, <1>4, TextMoves

\* A tag opens at i.
LEMMA TextStops ==
    ASSUME NEW f \in Seq(Chars), NEW i \in 1..Len(f)-1, f[i] = "<", f[i + 1] = "?", NEW rest
    PROVE  /\ Template!TextEnd(f, i) = i - 1
           /\ Template!AfterText(f, i, rest) = Template!Tag(f, i + 2, rest)
<1> DEFINE S == Template!TagsFrom(f, i)
<1>0. Len(f) \in Nat /\ i \in i..i /\ i \in i..(Len(f) - 1)
  OBVIOUS
<1>1. Template!Opens(f, i, i)
  <2>1. (i - i) % 2 = 0
    BY <1>0
  <2>2. \A n \in i..i : f[n] = "<"
    BY <1>0
  <2> QED BY <1>0, <2>1, <2>2 DEF Template!Opens
<1>2. i \in S /\ S \subseteq Nat /\ \A y \in S : i <= y
  BY <1>0, <1>1 DEF Template!TagsFrom
<1> HIDE DEF S
<1>3. Template!Min(S) = i
  BY <1>2, MinIs
<1>4. Template!TextEnd(f, i) = i - 1
  BY <1>2, <1>3 DEF Template!TextEnd, S
<1>5. i - 1 # Len(f) /\ (i - 1) + 3 = i + 2
  BY <1>0
<1> QED BY <1>4, <1>5 DEF Template!AfterText

\* The page ends.
LEMMA TextIsOver ==
    ASSUME NEW f \in Seq(Chars), NEW rest
    PROVE  /\ Template!TextEnd(f, Len(f) + 1) = Len(f)
           /\ Template!AfterText(f, Len(f) + 1, rest) = [items |-> <<>>, closed |-> TRUE]
           /\ Len(f) > 0 /\ f[Len(f)] = "<" =>
                ~Template!AfterText(f, Len(f), rest).closed
<1>0. Len(f) \in Nat
  OBVIOUS
<1>1. ASSUME NEW i \in {Len(f), Len(f) + 1} PROVE Template!TextEnd(f, i) = Len(f)
  <2>1. Template!TagsFrom(f, i) = {}
    BY <1>0 DEF Template!TagsFrom
  <2> QED BY <2>1 DEF Template!TextEnd
<1>2. Template!AfterText(f, Len(f) + 1, rest) = [items |-> <<>>, closed |-> TRUE]
  <2>1. Len(f) + 1 > Len(f)
    BY <1>0
  <2>2. (Len(f) + 1 > Len(f) \/ ~Template!Opens(f, Len(f) + 1, Len(f))) = TRUE
    BY <2>1
  <2> QED BY <1>1, <2>2 DEF Template!AfterText
<1>3. ASSUME Len(f) > 0, f[Len(f)] = "<" PROVE ~Template!AfterText(f, Len(f), rest).closed
  <2>1. Template!Opens(f, Len(f), Len(f))
    <3>1. (Len(f) - Len(f)) % 2 = 0 /\ Len(f) \in Len(f)..Len(f)
      BY <1>0
    <3>2. \A n \in Len(f)..Len(f) : f[n] = "<"
      BY <1>0, <1>3
    <3> QED BY <3>1, <3>2 DEF Template!Opens
  <2>2. ~(Len(f) > Len(f))
    BY <1>0
  <2>3. (Len(f) > Len(f) \/ ~Template!Opens(f, Len(f), Len(f))) = FALSE
    BY <2>1, <2>2
  <2>4. Template!AfterText(f, Len(f), rest) = [items |-> <<>>, closed |-> FALSE]
    BY <1>1, <2>3 DEF Template!AfterText
  <2> QED BY <2>4
<1> QED BY <1>1, <1>2, <1>3

(***************************************************************************)
(* Where a tag that goes on ends.                                          *)
(***************************************************************************)
\* A body goes on after a character that does not begin "?>".
LEMMA TagGoesOn ==
    ASSUME NEW f \in Seq(Chars), NEW i \in 1..Len(f),
           f[i] # "?" \/ i = Len(f) \/ f[i + 1] # ">"
    PROVE  Template!TagEnd(f, i) = Template!TagEnd(f, i + 1)
<1>0. Len(f) \in Nat
  OBVIOUS
<1>1. Template!ClosesFrom(f, i) = Template!ClosesFrom(f, i + 1)
  <2>1. \A j : j \in i..(Len(f) - 1) <=> j \in (i+1)..(Len(f) - 1) \/ (j = i /\ i < Len(f))
    BY <1>0
  <2> QED BY <2>1 DEF Template!ClosesFrom
<1> QED BY <1>1, Zenon DEF Template!TagEnd

\* A body ends at "?>".
LEMMA TagStops ==
    ASSUME NEW f \in Seq(Chars), NEW i \in 1..Len(f)-1, f[i] = "?", f[i + 1] = ">"
    PROVE  Template!TagEnd(f, i) = i - 1
<1> DEFINE S == Template!ClosesFrom(f, i)
<1>0. Len(f) \in Nat /\ i \in i..(Len(f) - 1)
  OBVIOUS
<1>1. i \in S /\ S \subseteq Nat /\ \A y \in S : i <= y
  BY <1>0 DEF Template!ClosesFrom
<1> HIDE DEF S
<1>2. Template!Min(S) = i
  BY <1>1, MinIs
<1> QED BY <1>1, <1>2 DEF Template!TagEnd, S

\* A body ends with the page.
LEMMA TagIsOver ==
    ASSUME NEW f \in Seq(Chars), NEW i \in Nat, i >= Len(f)
    PROVE  Template!TagEnd(f, i) = Len(f)
<1>1. Template!ClosesFrom(f, i) = {}
  BY DEF Template!ClosesFrom
<1> QED BY <1>1 DEF Template!TagEnd

(***************************************************************************)
(* What is still to be written, character by character.                    *)
(***************************************************************************)
\* Items can be put together in any order.
LEMMA Assoc == \A a, b, c \in Seq(Items) : (a \o b) \o c = a \o (b \o c)
BY ConcatAssociative

\* Two items are one and one.
LEMMA PairIs == ASSUME NEW a \in Items, NEW b \in Items
                PROVE  <<a>> \o <<b>> = <<a, b>>
<1>1. <<a>> \in Seq(Items) /\ <<b>> \in Seq(Items) /\ <<a, b>> \in Seq(Items)
  OBVIOUS
<1> DEFINE t == <<a>> \o <<b>>
<1>2. t \in Seq(Items) /\ Len(t) = 2 /\ t[1] = a /\ t[2] = b
  BY <1>1, ConcatProperties
<1> HIDE DEF t
<1>3. <<a, b>> = t
  BY <1>1, <1>2, SeqEqual
<1> QED BY <1>3 DEF t

\* Two items before a sequence
LEMMA PairOf == ASSUME NEW a \in Items, NEW b \in Items, NEW s \in Seq(Items)
                PROVE  <<a, b>> \o s = <<a>> \o (<<b>> \o s)
<1>1. <<a>> \in Seq(Items) /\ <<b>> \in Seq(Items)
  OBVIOUS
<1>2. (<<a>> \o <<b>>) \o s = <<a>> \o (<<b>> \o s)
  BY <1>1, Assoc, Zenon
<1> QED BY <1>2, PairIs, Zenon

\* Three items before a sequence
LEMMA TripleOf == ASSUME NEW a \in Items, NEW b \in Items, NEW c \in Items, NEW s \in Seq(Items)
                  PROVE  <<a, b, c>> \o s = <<a>> \o (<<b, c>> \o s)
<1>1. <<a>> \in Seq(Items) /\ <<b, c>> \in Seq(Items)
  OBVIOUS
<1>2. <<a, b, c>> = <<a>> \o <<b, c>>
  OBVIOUS
<1>3. (<<a>> \o <<b, c>>) \o s = <<a>> \o (<<b, c>> \o s)
  BY <1>1, ConcatAssociative
<1> QED BY <1>2, <1>3

\* What text is followed by in the translation
LEMMA AfterTextIs ==
    ASSUME NEW f \in Seq(Chars), NEW i \in 1..Len(f)+1
    PROVE  Template!AfterText(f, i, Template!Translations(f)) \in Results
<1>1. Len(f) \in Nat
  OBVIOUS
<1>2. \A k \in i+1..Len(f)+1 : Template!Translations(f)[k] \in Results
  BY <1>1, TranslationsType
<1> QED BY <1>2, AfterTextType

\* Text in an echo that is open, from a position i, as the sum of its parts
LEMMA TextParts ==
    ASSUME NEW f \in Seq(Chars), NEW i \in 1..Len(f)+1
    PROVE  /\ Text(f, i) \in Results
           /\ Template!Quote(f, i, Template!TextEnd(f, i)) \in Seq(Items)
           /\ <<End>> \o Template!AfterText(f, i, Template!Translations(f)).items \in Seq(Items)
<1> DEFINE a == Template!AfterText(f, i, Template!Translations(f))
           q == Template!Quote(f, i, Template!TextEnd(f, i))
<1>1. a.items \in Seq(Items) /\ a.closed \in BOOLEAN
  BY AfterTextIs DEF Results
<1>2. q \in Seq(Items)
  BY TextEndRange, QuoteGrows
<1>3. Text(f, i) = [items |-> q \o (<<End>> \o a.items), closed |-> a.closed]
  BY DEF Text
<1> HIDE DEF a, q
<1>4. <<End>> \o a.items \in Seq(Items)
  BY <1>1, ItemSeqs, Joined
<1>5. q \o (<<End>> \o a.items) \in Seq(Items)
  BY <1>2, <1>4, Joined
<1>6. Text(f, i) \in Results
  BY <1>1, <1>3, <1>5 DEF Results
<1> QED BY <1>2, <1>4, <1>6 DEF a, q

\* An echo is opened where text begins.
LEMMA EchoOpens ==
    ASSUME NEW f \in Seq(Chars), NEW i \in 1..Len(f), i <= Template!TextEnd(f, i)
    PROVE  /\ Template!Translations(f)[i].items = <<Beg>> \o Text(f, i).items
           /\ Template!Translations(f)[i].closed = Text(f, i).closed
<1> DEFINE T == Template!Translations(f)
           a == Template!AfterText(f, i, T)
           q == Template!Quote(f, i, Template!TextEnd(f, i))
<1>0. Len(f) \in Nat /\ i \in 1..Len(f)+1
  OBVIOUS
<1>1. T[i] = FromStep(f, T, i)
  <2>1. T = [k \in 1..Len(f)+1 |-> FromStep(f, T, k)]
    BY TranslationsUnfold
  <2> HIDE DEF T
  <2> QED BY <2>1, <1>0
<1>2. ~(Template!TextEnd(f, i) < i)
  BY <1>0, TextEndRange
<1>b. Template!Echo(f, i, Template!TextEnd(f, i)) = (<<Beg>> \o q) \o <<End>>
  BY <1>2, TemplateMarks, Zenon DEF Template!Echo
<1>3. T[i].items = ((<<Beg>> \o q) \o <<End>>) \o a.items /\ T[i].closed = a.closed
  <2>1. FromStep(f, T, i) = [items  |-> ((<<Beg>> \o q) \o <<End>>) \o a.items,
                             closed |-> a.closed]
    <3> HIDE DEF q, T
    <3> QED BY <1>b DEF FromStep
  <2> DEFINE its == ((<<Beg>> \o q) \o <<End>>) \o a.items
             cl == a.closed
  <2> HIDE DEF its, cl, T
  <2>2. T[i] = [items |-> its, closed |-> cl]
    BY <1>1, <2>1, Zenon DEF its, cl
  <2>3. T[i].items = its /\ T[i].closed = cl
    BY <2>2
  <2> QED BY <2>3, Zenon DEF its, cl
<1>4. Text(f, i).items = q \o (<<End>> \o a.items) /\ Text(f, i).closed = a.closed
  BY DEF Text
<1>5. q \in Seq(Items) /\ a.items \in Seq(Items)
  BY <1>0, TextParts, AfterTextIs DEF Results
<1> HIDE DEF a, q
<1>6. ((<<Beg>> \o q) \o <<End>>) \o a.items = <<Beg>> \o (q \o (<<End>> \o a.items))
  <2> DEFINE n == a.items
             b == <<Beg>>
             e == <<End>>
  <2> HIDE DEF n, b, e
  <2>1. b \in Seq(Items) /\ e \in Seq(Items) /\ n \in Seq(Items) /\ q \in Seq(Items)
    BY <1>5, ItemSeqs DEF b, e, n
  <2>2. ((b \o q) \o e) \o n = b \o (q \o (e \o n))
    BY <2>1, Joined, Assoc, SMTT(30)
  <2> QED BY <2>2 DEF n, b, e
<1> QED BY <1>3, <1>4, <1>6

\* No text is left at i: no echo is opened, and one that is open is closed.
LEMMA EchoCloses ==
    ASSUME NEW f \in Seq(Chars), NEW i \in 1..Len(f)+1, Template!TextEnd(f, i) = i - 1
    PROVE  LET after == Template!AfterText(f, i, Template!Translations(f))
           IN  /\ Template!Translations(f)[i].items = after.items
               /\ Template!Translations(f)[i].closed = after.closed
               /\ Text(f, i).items = <<End>> \o after.items
               /\ Text(f, i).closed = after.closed
<1> DEFINE T == Template!Translations(f)
           a == Template!AfterText(f, i, T)
<1>0. Len(f) \in Nat /\ i - 1 < i /\ i - 1 \in i-1..Len(f)
  OBVIOUS
<1>1. T[i] = FromStep(f, T, i)
  <2>1. T = [k \in 1..Len(f)+1 |-> FromStep(f, T, k)]
    BY TranslationsUnfold
  <2> HIDE DEF T
  <2> QED BY <2>1, <1>0
<1>2. T[i].items = <<>> \o a.items /\ T[i].closed = a.closed
  BY <1>0, <1>1 DEF FromStep, Template!Echo
<1>3. Text(f, i).items = <<>> \o (<<End>> \o a.items) /\ Text(f, i).closed = a.closed
  <2>1. Template!Quote(f, i, i - 1) = <<>>
    BY <1>0, QuoteGrows
  <2> QED BY <2>1 DEF Text
<1>4. a.items \in Seq(Items) /\ <<End>> \o a.items \in Seq(Items)
  BY AfterTextIs, TextParts DEF Results
<1> HIDE DEF a
<1> QED BY <1>2, <1>3, <1>4, ConcatEmptySeq DEF a

\* One more character of text, of an echo that is open
LEMMA TextRead ==
    ASSUME NEW f \in Seq(Chars), NEW i \in 1..Len(f), f[i] # "<"
    PROVE  /\ Text(f, i).items = <<AddChar(f[i])>> \o Text(f, i + 1).items
           /\ Text(f, i).closed = Text(f, i + 1).closed
           /\ i <= Template!TextEnd(f, i)
<1> DEFINE T == Template!Translations(f)
           last == Template!TextEnd(f, i)
           a == Template!AfterText(f, i, T)
           q == Template!Quote(f, i + 1, last)
<1>0. Len(f) \in Nat /\ i + 1 \in 1..Len(f)+1 /\ i \in 1..Len(f)+1 /\ f[i] \in Chars
  BY ElementOfSeq
<1>1. last = Template!TextEnd(f, i + 1) /\ a = Template!AfterText(f, i + 1, T)
  BY TextGoesOn
<1>2. last \in Nat /\ i <= last /\ last \in i-1..Len(f)
  BY <1>0, <1>1, TextEndRange
<1>3. Template!Quote(f, i, last) = <<AddChar(f[i])>> \o q
  <2> HIDE DEF last
  <2> QED BY <1>0, <1>2, QuoteGrows
<1>4. /\ Text(f, i).items = (<<AddChar(f[i])>> \o q) \o (<<End>> \o a.items)
      /\ Text(f, i).closed = a.closed
  BY <1>3 DEF Text
<1>5. /\ Text(f, i + 1).items = q \o (<<End>> \o a.items)
      /\ Text(f, i + 1).closed = a.closed
  BY <1>1 DEF Text
<1>6. q \in Seq(Items) /\ <<End>> \o a.items \in Seq(Items)
  BY <1>0, <1>1, TextParts
<1>7. <<AddChar(f[i])>> \in Seq(Items)
  <2>1. AddChar(f[i]) \in Items
    BY <1>0, ItemKinds
  <2> QED BY <2>1
<1> HIDE DEF q, a, last
<1> DEFINE r == <<End>> \o a.items
<1> HIDE DEF r
<1>8. (<<AddChar(f[i])>> \o q) \o r = <<AddChar(f[i])>> \o (q \o r)
  BY <1>6, <1>7, Assoc, Zenon DEF r
<1> QED BY <1>2, <1>4, <1>5, <1>8, Zenon DEF r, last

\* A '<' that opens no tag, and the character after it
LEMMA PairRead ==
    ASSUME NEW f \in Seq(Chars), NEW i \in 1..Len(f)-1, f[i] = "<", f[i + 1] # "?"
    PROVE  /\ Text(f, i).items = <<AddChar("<"), AddChar(f[i + 1])>> \o Text(f, i + 2).items
           /\ Text(f, i).closed = Text(f, i + 2).closed
           /\ i <= Template!TextEnd(f, i)
<1> DEFINE T == Template!Translations(f)
           last == Template!TextEnd(f, i)
           a == Template!AfterText(f, i, T)
           q == Template!Quote(f, i + 2, last)
           x == AddChar("<")
           y == AddChar(f[i + 1])
<1>0. /\ Len(f) \in Nat /\ i + 1 \in 1..Len(f)+1 /\ i + 2 \in 1..Len(f)+1
      /\ i \in 1..Len(f)+1 /\ (i + 1) + 1 = i + 2 /\ i + 1 \in 1..Len(f)
  OBVIOUS
<1>a. x \in Items /\ y \in Items /\ <<x>> \in Seq(Items) /\ <<y>> \in Seq(Items)
  <2>1. f[i] \in Chars /\ f[i + 1] \in Chars
    BY <1>0, ElementOfSeq
  <2>2. x \in Items /\ y \in Items
    BY <2>1, ItemKinds
  <2> HIDE DEF x, y
  <2> QED BY <2>2
<1>1. last = Template!TextEnd(f, i + 2) /\ a = Template!AfterText(f, i + 2, T)
  BY PairGoesOn
<1>2. last \in Nat /\ i + 1 <= last /\ last \in i-1..Len(f) /\ last \in (i+1)-1..Len(f)
  BY <1>0, <1>1, TextEndRange
<1>3. Template!Quote(f, i, last) = <<x>> \o (<<y>> \o q)
  <2> HIDE DEF last
  <2>0. i \in 1..Len(f) /\ i <= last /\ last \in i-1..Len(f)
    BY <1>0, <1>2
  <2> HIDE DEF x, y, q, a, T
  <2>1. Template!Quote(f, i, last) = <<AddChar(f[i])>> \o Template!Quote(f, i + 1, last)
    BY <1>0, <2>0, QuoteGrows, Zenon
  <2>2. Template!Quote(f, i + 1, last) = <<y>> \o Template!Quote(f, i + 2, last)
    BY <1>0, <1>2, QuoteGrows DEF y
  <2>3. Template!Quote(f, i, last) = <<x>> \o Template!Quote(f, i + 1, last)
    BY <2>1 DEF x
  <2> QED BY <2>2, <2>3, Zenon DEF q
<1>4. /\ Text(f, i).items = (<<x>> \o (<<y>> \o q)) \o (<<End>> \o a.items)
      /\ Text(f, i).closed = a.closed
  BY <1>3 DEF Text
<1>5. /\ Text(f, i + 2).items = q \o (<<End>> \o a.items)
      /\ Text(f, i + 2).closed = a.closed
  BY <1>1 DEF Text
<1>6. q \in Seq(Items) /\ <<End>> \o a.items \in Seq(Items)
  BY <1>0, <1>1, TextParts
<1> DEFINE r == <<End>> \o a.items
<1> HIDE DEF q, r, x, y
<1>7. (<<x>> \o (<<y>> \o q)) \o r = <<x, y>> \o (q \o r)
  <2>1. r \in Seq(Items)
    BY <1>6 DEF r
  <2>2. q \o r \in Seq(Items)
    BY <1>6, <2>1, Joined
  <2>3. (<<x>> \o (<<y>> \o q)) \o r = <<x>> \o (<<y>> \o (q \o r))
    <3> DEFINE u == <<x>>
               v == <<y>>
    <3>1. u \in Seq(Items) /\ v \in Seq(Items)
      BY <1>a
    <3> HIDE DEF u, v
    <3>2. (u \o (v \o q)) \o r = u \o (v \o (q \o r))
      BY <1>6, <2>1, <3>1, Joined, Assoc, SMTT(30)
    <3> QED BY <3>2 DEF u, v
  <2>4. <<x, y>> \o (q \o r) = <<x>> \o (<<y>> \o (q \o r))
    BY <1>a, <2>2, PairOf
  <2> QED BY <2>3, <2>4
<1>8. i <= last
  BY <1>0, <1>2
<1> HIDE DEF a, last
<1> QED BY <1>4, <1>5, <1>7, <1>8 DEF r, x, y, last

(***************************************************************************)
(* The body of a tag.                                                      *)
(***************************************************************************)
BodyKinds == {"code", "expr", "#"}
\* What a character gives in a body
Given1(ch, kind) == IF kind = "#" THEN <<>> ELSE <<Template!Item(kind, ch)>>

\* The characters of a body, from the first
LEMMA CopiedGrows ==
    ASSUME NEW f \in Seq(Chars), NEW i \in 1..Len(f)+1, NEW j \in i-1..Len(f),
           NEW kind \in BodyKinds
    PROVE  /\ Copied(f, i, j, kind) \in Seq(Items)
           /\ j < i => Copied(f, i, j, kind) = <<>>
           /\ i <= j => /\ Copied(f, i, j, kind) = Given1(f[i], kind) \o Copied(f, i + 1, j, kind)
                        /\ Given1(f[i], kind) \in Seq(Items)
                        /\ Copied(f, i + 1, j, kind) \in Seq(Items)
<1>0. Len(f) \in Nat
  OBVIOUS
<1>1. CASE kind = "#"
  <2>1. /\ Copied(f, i, j, kind) = <<>> /\ Copied(f, i + 1, j, kind) = <<>>
        /\ Given1(f[i], kind) = <<>>
    BY <1>1 DEF Copied, Given1
  <2>2. <<>> \o <<>> = <<>> /\ <<>> \in Seq(Items)
    BY ItemSeqs, ConcatEmptySeq
  <2> QED BY <2>1, <2>2
<1>2. CASE kind # "#"
  <2>1. /\ Copied(f, i, j, kind) = Template!Copy(f, i, j, kind)
        /\ Copied(f, i + 1, j, kind) = Template!Copy(f, i + 1, j, kind)
        /\ Given1(f[i], kind) = <<Template!Item(kind, f[i])>>
        /\ kind \in {"code", "expr"}
    BY <1>2 DEF Copied, Given1, BodyKinds
  <2>2. /\ Template!Copy(f, i, j, kind) \in Seq(Items)
        /\ j < i => Template!Copy(f, i, j, kind) = <<>>
        /\ i <= j => Template!Copy(f, i, j, kind)
                       = <<Template!Item(kind, f[i])>> \o Template!Copy(f, i + 1, j, kind)
    BY <2>1, CopyGrows
  <2>3. ASSUME i <= j
        PROVE  /\ <<Template!Item(kind, f[i])>> \in Seq(Items)
               /\ Template!Copy(f, i + 1, j, kind) \in Seq(Items)
    <3>1. f[i] \in Chars /\ i + 1 \in 1..Len(f)+1 /\ j \in (i+1)-1..Len(f)
      BY <1>0, <2>3, ElementOfSeq
    <3>2. Template!Item(kind, f[i]) \in Items
      BY <2>1, <3>1, ItemKinds, TemplateMarks
    <3>3. <<Template!Item(kind, f[i])>> \in Seq(Items)
      BY <3>2
    <3> QED BY <2>1, <3>1, <3>3, CopyGrows
  <2> QED BY <2>1, <2>2, <2>3
<1> QED BY <1>1, <1>2

\* What a body is followed by
LEMMA AfterBodyType ==
    ASSUME NEW f \in Seq(Chars), NEW end \in Nat, end <= Len(f),
           end = Len(f) \/ end + 2 <= Len(f), NEW kind \in BodyKinds
    PROVE  /\ AfterBody(f, end, kind) \in Results
           /\ Closing(kind) \in Seq(Items)
<1> DEFINE rest == Template!Translations(f)[Template!AfterTag(f, end + 2)]
<1>0. Len(f) \in Nat
  OBVIOUS
<1>1. Closing(kind) \in Seq(Items)
  BY ItemSeqs DEF Closing, BodyKinds
<1>2. CASE end = Len(f)
  <2>1. AfterBody(f, end, kind) = [items |-> <<>>, closed |-> FALSE]
    BY <1>2 DEF AfterBody
  <2> QED BY <1>1, <2>1, ItemSeqs DEF Results
<1>3. CASE end # Len(f)
  <2>1. end + 2 \in 0..Len(f)
    BY <1>0, <1>3
  <2>2. Template!AfterTag(f, end + 2) \in 1..Len(f)+1
    BY <1>0, <2>1, AfterTagRange
  <2>3. rest \in Results
    BY <2>2, TranslationsType
  <2>4. AfterBody(f, end, kind) = [items |-> Closing(kind) \o rest.items, closed |-> rest.closed]
    BY <1>3 DEF AfterBody
  <2> HIDE DEF rest
  <2>5. rest.items \in Seq(Items) /\ rest.closed \in BOOLEAN
    BY <2>3 DEF Results
  <2>6. Closing(kind) \o rest.items \in Seq(Items)
    BY <1>1, <2>5, Joined
  <2> QED BY <1>1, <2>4, <2>5, <2>6 DEF Results
<1> QED BY <1>2, <1>3

\* What a body gives
LEMMA TagBodyType ==
    ASSUME NEW f \in Seq(Chars), NEW i \in 1..Len(f)+1, NEW kind \in BodyKinds
    PROVE  /\ TagBody(f, i, kind) \in Results
           /\ AfterBody(f, Template!TagEnd(f, i), kind) \in Results
           /\ Template!TagEnd(f, i) \in i-1..Len(f)
<1> DEFINE end == Template!TagEnd(f, i)
           a == AfterBody(f, end, kind)
           c == Copied(f, i, end, kind)
<1>0. Len(f) \in Nat
  OBVIOUS
<1>1. end \in Nat /\ (end = Len(f) \/ end \in i-1..Len(f)-2)
  BY <1>0, TagEndRange
<1>2. TagBody(f, i, kind) = [items |-> c \o a.items, closed |-> a.closed]
  BY DEF TagBody
<1> HIDE DEF end
<1>3. end \in i-1..Len(f)
  BY <1>0, <1>1
<1>4. a \in Results
  <2>1. end <= Len(f) /\ (end = Len(f) \/ end + 2 <= Len(f))
    BY <1>0, <1>1
  <2> QED BY <1>1, <2>1, AfterBodyType
<1>5. c \in Seq(Items)
  BY <1>3, CopiedGrows
<1>6. a.items \in Seq(Items) /\ a.closed \in BOOLEAN
  BY <1>4 DEF Results
<1> HIDE DEF a, c
<1>7. c \o a.items \in Seq(Items)
  BY <1>5, <1>6, Joined
<1>8. TagBody(f, i, kind) \in Results
  BY <1>2, <1>6, <1>7 DEF Results
<1> QED BY <1>3, <1>4, <1>8 DEF a, end

\* One more character of a body
LEMMA BodyRead ==
    ASSUME NEW f \in Seq(Chars), NEW i \in 1..Len(f), NEW kind \in BodyKinds,
           f[i] # "?" \/ i = Len(f) \/ f[i + 1] # ">"
    PROVE  /\ TagBody(f, i, kind).items = Given1(f[i], kind) \o TagBody(f, i + 1, kind).items
           /\ TagBody(f, i, kind).closed = TagBody(f, i + 1, kind).closed
           /\ Given1(f[i], kind) \in Seq(Items)
<1> DEFINE end == Template!TagEnd(f, i)
           a == AfterBody(f, end, kind)
           g == Given1(f[i], kind)
           c == Copied(f, i + 1, end, kind)
<1>0. Len(f) \in Nat /\ i \in 1..Len(f)+1 /\ i + 1 \in 1..Len(f)+1
  OBVIOUS
<1>1. end = Template!TagEnd(f, i + 1)
  BY TagGoesOn
<1>2. end \in i..Len(f) /\ end \in i-1..Len(f) /\ i <= end
  <2> HIDE DEF end
  <2>1. end \in (i+1)-1..Len(f)
    BY <1>0, <1>1, TagBodyType
  <2> QED BY <1>0, <2>1
<1>3. Copied(f, i, end, kind) = g \o c /\ g \in Seq(Items) /\ c \in Seq(Items)
  <2> HIDE DEF end
  <2> QED BY <1>0, <1>2, CopiedGrows
<1>4. TagBody(f, i, kind).items = (g \o c) \o a.items /\ TagBody(f, i, kind).closed = a.closed
  BY <1>3 DEF TagBody
<1>5. TagBody(f, i + 1, kind).items = c \o a.items /\ TagBody(f, i + 1, kind).closed = a.closed
  BY <1>1 DEF TagBody
<1>6. a.items \in Seq(Items)
  BY <1>0, TagBodyType DEF Results
<1> DEFINE n == a.items
<1> HIDE DEF n, g, c
<1>7. (g \o c) \o n = g \o (c \o n)
  BY <1>3, <1>6, Assoc, Zenon DEF n
<1> QED BY <1>3, <1>4, <1>5, <1>7, Zenon DEF n, g

\* The "?>" that ends a body
LEMMA BodyStops ==
    ASSUME NEW f \in Seq(Chars), NEW i \in 1..Len(f)-1, NEW kind \in BodyKinds,
           f[i] = "?", f[i + 1] = ">"
    PROVE  LET rest == Template!Translations(f)[Template!AfterTag(f, i + 1)]
           IN  /\ TagBody(f, i, kind).items = Closing(kind) \o rest.items
               /\ TagBody(f, i, kind).closed = rest.closed
<1> DEFINE rest == Template!Translations(f)[Template!AfterTag(f, i + 1)]
           a == AfterBody(f, i - 1, kind)
<1>0. /\ Len(f) \in Nat /\ i \in 1..Len(f)+1 /\ i - 1 \in i-1..Len(f) /\ i - 1 < i
      /\ (i - 1) + 2 = i + 1 /\ i - 1 # Len(f)
  OBVIOUS
<1>1. Template!TagEnd(f, i) = i - 1
  BY TagStops
<1>2. Copied(f, i, i - 1, kind) = <<>>
  BY <1>0, CopiedGrows
<1>3. TagBody(f, i, kind) = [items |-> <<>> \o a.items, closed |-> a.closed]
  BY <1>1, <1>2 DEF TagBody
<1>4. a.items \in Seq(Items)
  BY <1>0, <1>1, TagBodyType DEF Results
<1>5. a = [items |-> Closing(kind) \o rest.items, closed |-> rest.closed]
  BY <1>0 DEF AfterBody
<1> DEFINE n == a.items
<1>6. <<>> \o n = n
  <2> HIDE DEF n
  <2> QED BY <1>4, ConcatEmptySeq DEF n
<1> HIDE DEF rest
<1>7. n = Closing(kind) \o rest.items /\ a.closed = rest.closed
  BY <1>5
<1>8. TagBody(f, i, kind).items = <<>> \o n /\ TagBody(f, i, kind).closed = a.closed
  <2> HIDE DEF a
  <2> QED BY <1>3
<1> HIDE DEF a, n
<1>9. TagBody(f, i, kind).items = Closing(kind) \o rest.items /\ TagBody(f, i, kind).closed = rest.closed
  BY <1>6, <1>7, <1>8, Zenon
<1> QED BY <1>9 DEF rest

\* A page does not end in a tag.
LEMMA BodyIsOver ==
    ASSUME NEW f \in Seq(Chars), NEW i \in 1..Len(f)+1, i >= Len(f), NEW kind \in BodyKinds
    PROVE  ~TagBody(f, i, kind).closed
<1>1. Template!TagEnd(f, i) = Len(f)
  BY TagIsOver
<1>2. AfterBody(f, Len(f), kind) = [items |-> <<>>, closed |-> FALSE]
  BY DEF AfterBody
<1> QED BY <1>1, <1>2 DEF TagBody

\* The first character of a tag says what its body is.
LEMMA TagOpens ==
    ASSUME NEW f \in Seq(Chars), NEW i \in 1..Len(f), NEW kind \in BodyKinds,
           NEW first \in Seq(Items),
           \/ f[i] = "=" /\ kind = "expr" /\ first = <<SBeg>>
           \/ f[i] = "#" /\ kind = "#"    /\ first = <<>>
           \/ f[i] \notin {"=", "#"} /\ kind = "code" /\ first = <<Code(f[i])>>
    PROVE  LET tag == Template!Tag(f, i, Template!Translations(f))
           IN  /\ tag.items = first \o TagBody(f, i + 1, kind).items
               /\ tag.closed = TagBody(f, i + 1, kind).closed
<1> DEFINE end == Template!TagEnd(f, i + 1)
           a == AfterBody(f, end, kind)
           c == Copied(f, i + 1, end, kind)
           rest == Template!Translations(f)[Template!AfterTag(f, end + 2)]
           tag == Template!Tag(f, i, Template!Translations(f))
<1>0. Len(f) \in Nat /\ i \in 1..Len(f)+1 /\ i + 1 \in 1..Len(f)+1 /\ f[i] \in Chars
  BY ElementOfSeq
<1>1. end \in (i+1)-1..Len(f) /\ a \in Results
  BY <1>0, TagBodyType
<1>2. end \in i-1..Len(f) /\ i <= end /\ end \in i..Len(f)
  <2> HIDE DEF end
  <2> QED BY <1>0, <1>1
<1>3. c \in Seq(Items)
  <2> HIDE DEF end
  <2> QED BY <1>0, <1>1, CopiedGrows
<1>4. Template!Opened(f, i, end) = first \o c /\ Template!Closed(f, i) = Closing(kind)
  <2> HIDE DEF end
  <2>1. CASE f[i] = "="
    <3>1. Template!Kind(f, i) = "=" /\ kind = "expr" /\ first = <<SBeg>>
      BY <2>1, <1>0 DEF Template!Kind
    <3>2. Template!Opened(f, i, end) = <<SBeg>> \o Template!Copy(f, i + 1, end, "expr")
      BY <3>1, TemplateMarks DEF Template!Opened
    <3>3. c = Template!Copy(f, i + 1, end, "expr")
      BY <3>1 DEF Copied
    <3>4. Template!Closed(f, i) = <<SEnd>> /\ Closing(kind) = <<SEnd>>
      BY <3>1, TemplateMarks DEF Template!Closed, Closing
    <3> HIDE DEF c
    <3> QED BY <3>1, <3>2, <3>3, <3>4
  <2>2. CASE f[i] = "#"
    <3>1. Template!Kind(f, i) = "#" /\ kind = "#" /\ first = <<>>
      BY <2>2, <1>0 DEF Template!Kind
    <3>2. Template!Opened(f, i, end) = <<>> /\ c = <<>>
      BY <3>1 DEF Template!Opened, Copied
    <3>3. Template!Closed(f, i) = <<>> /\ Closing(kind) = <<>>
      BY <3>1 DEF Template!Closed, Closing
    <3>4. <<>> \o <<>> = <<>>
      BY ItemSeqs, ConcatEmptySeq
    <3> HIDE DEF c
    <3> QED BY <3>1, <3>2, <3>3, <3>4
  <2>3. CASE f[i] \notin {"=", "#"}
    <3>1. Template!Kind(f, i) = "code" /\ kind = "code" /\ first = <<Code(f[i])>>
      BY <2>3, <1>0 DEF Template!Kind
    <3>2. Template!Opened(f, i, end) = Template!Copy(f, i, end, "code")
      BY <3>1 DEF Template!Opened
    <3>3. Template!Copy(f, i, end, "code")
            = <<Template!Item("code", f[i])>> \o Template!Copy(f, i + 1, end, "code")
      BY <1>0, <1>2, CopyGrows
    <3>4. Template!Item("code", f[i]) = Code(f[i])
      BY <1>0, TemplateMarks
    <3>5. c = Template!Copy(f, i + 1, end, "code")
      BY <3>1 DEF Copied
    <3>6. Template!Closed(f, i) = <<Sep>> /\ Closing(kind) = <<Sep>>
      BY <3>1, TemplateMarks DEF Template!Closed, Closing
    <3> HIDE DEF c
    <3> QED BY <3>1, <3>2, <3>3, <3>4, <3>5, <3>6
  <2> QED BY <2>1, <2>2, <2>3
<1>5. /\ TagBody(f, i + 1, kind).items = c \o a.items
      /\ TagBody(f, i + 1, kind).closed = a.closed
  BY DEF TagBody
<1>6. tag.items = (first \o c) \o a.items /\ tag.closed = a.closed
  <2>1. CASE end = Len(f)
    <3>1. tag = [items |-> first \o c, closed |-> FALSE]
      BY <2>1, <1>4 DEF Template!Tag
    <3>2. a = [items |-> <<>>, closed |-> FALSE]
      BY <2>1 DEF AfterBody
    <3>3. (first \o c) \o <<>> = first \o c
      <4> HIDE DEF c
      <4>1. first \o c \in Seq(Items)
        BY <1>3, Joined
      <4> QED BY <4>1, ConcatEmptySeq
    <3> HIDE DEF tag, a, c
    <3> QED BY <3>1, <3>2, <3>3
  <2>2. CASE end # Len(f)
    <3>1. tag = [items |-> (first \o c) \o (Closing(kind) \o rest.items), closed |-> rest.closed]
      BY <2>2, <1>4 DEF Template!Tag
    <3>2. a = [items |-> Closing(kind) \o rest.items, closed |-> rest.closed]
      BY <2>2 DEF AfterBody
    <3> HIDE DEF tag, a, c, rest
    <3> QED BY <3>1, <3>2
  <2> QED BY <2>1, <2>2
<1>7. a.items \in Seq(Items)
  BY <1>1 DEF Results
<1> DEFINE n == a.items
<1> HIDE DEF n, c, tag
<1>8. (first \o c) \o n = first \o (c \o n)
  BY <1>3, <1>7, Assoc, Zenon DEF n
<1> HIDE DEF a
<1>9. tag.items = first \o TagBody(f, i + 1, kind).items /\ tag.closed = TagBody(f, i + 1, kind).closed
  BY <1>5, <1>6, <1>8, Zenon DEF n
<1> QED BY <1>9 DEF tag

(***************************************************************************)
(* What is still to be written, state by state.                            *)
(***************************************************************************)
\* Rest, case by case
LEMMA RestIs ==
    ASSUME NEW f, NEW i
    PROVE  /\ Rest(f, "echo1", i)    = Template!Translations(f)[i]
           /\ Rest(f, "echo2", i)    = Text(f, i)
           /\ Rest(f, "echo3", i)    = Text(f, i - 1)
           /\ Rest(f, "echo4", i)    = Template!Translations(f)[i - 1]
           /\ Rest(f, "stmt1", i)    = Template!Tag(f, i, Template!Translations(f))
           /\ Rest(f, "stmt2", i)    = TagBody(f, i, "expr")
           /\ Rest(f, "stmt3", i)    = TagBody(f, i - 1, "expr")
           /\ Rest(f, "stmt12", i)   = TagBody(f, i, "code")
           /\ Rest(f, "stmt13", i)   = TagBody(f, i - 1, "code")
           /\ Rest(f, "comment1", i) = TagBody(f, i, "#")
           /\ Rest(f, "comment2", i) = TagBody(f, i - 1, "#")
           /\ Rest(f, "cr1", i) = Template!Translations(f)[Template!AfterTag(f, i - 1)]
           /\ Rest(f, "cr2", i) = Template!Translations(f)[Template!AfterTag(f, i - 2)]
           /\ Rest(f, "unknown", i)  = [items |-> <<>>, closed |-> TRUE]
BY DEF Rest

\* Whatever is still to be written is a sequence of items.
LEMMA RestType ==
    ASSUME NEW f \in Seq(Chars), NEW i, NEW s \in States, Context(f, s, i)
    PROVE  Rest(f, s, i) \in Results
<1>0. Len(f) \in Nat /\ i \in 1..Len(f)+1
  BY DEF Context
<1>1. /\ i > 1 => i - 1 \in 1..Len(f)+1
      /\ i - 1 \in 0..Len(f)
      /\ i > 2 => i - 2 \in 0..Len(f)
  BY <1>0
<1>2. \A k \in 1..Len(f)+1 : Template!Translations(f)[k] \in Results
  BY TranslationsType
<1>3. \A k \in 1..Len(f)+1 : Text(f, k) \in Results
  BY TextParts
<1>4. \A k \in 1..Len(f)+1 : \A kind \in BodyKinds : TagBody(f, k, kind) \in Results
  BY TagBodyType
<1>5. \A j \in 0..Len(f) : Template!Translations(f)[Template!AfterTag(f, j)] \in Results
  <2> SUFFICES ASSUME NEW j \in 0..Len(f)
               PROVE  Template!Translations(f)[Template!AfterTag(f, j)] \in Results
    OBVIOUS
  <2>1. Template!AfterTag(f, j) \in j+1..Len(f)+1
    BY AfterTagRange
  <2>2. Template!AfterTag(f, j) \in 1..Len(f)+1
    BY <1>0, <2>1
  <2> QED BY <2>2, <1>2
<1>6. Template!Tag(f, i, Template!Translations(f)) \in Results
  <2>1. \A k \in i+1..Len(f)+1 : Template!Translations(f)[k] \in Results
    BY <1>0, <1>2
  <2> QED BY <1>0, <2>1, TagType
<1>7. "code" \in BodyKinds /\ "expr" \in BodyKinds /\ "#" \in BodyKinds
  BY DEF BodyKinds
<1>8. CASE s \in EchoStates
  BY <1>8, <1>0, <1>1, <1>2, <1>3, RestIs DEF EchoStates, Context
<1>9. CASE s \in StmtStates \cup CommentStates
  BY <1>9, <1>0, <1>1, <1>4, <1>6, <1>7, RestIs DEF StmtStates, CommentStates, Context
<1>10. CASE s \in CrStates
  BY <1>10, <1>1, <1>5, RestIs DEF CrStates, Context
<1>11. CASE s = "unknown"
  <2>1. [items |-> <<>>, closed |-> TRUE] \in Results
    BY ItemSeqs DEF Results
  <2> QED BY <1>11, <2>1, RestIs
<1> QED BY <1>8, <1>9, <1>10, <1>11 DEF States

\* A character, read at i in state s, gives items and leads to state t.
Writes(f, s, i, items, t) == /\ items \in Seq(Items)
                             /\ Context(f, t, i + 1)
                             /\ Rest(f, s, i).items = items \o Rest(f, t, i + 1).items
                             /\ Rest(f, s, i).closed = Rest(f, t, i + 1).closed

\* A character that gives nothing yet
LEMMA WritesNone ==
    ASSUME NEW f \in Seq(Chars), NEW i, NEW s, NEW t \in States,
           Context(f, t, i + 1), Rest(f, s, i) = Rest(f, t, i + 1)
    PROVE  Writes(f, s, i, <<>>, t)
<1>1. Rest(f, t, i + 1).items \in Seq(Items)
  BY RestType DEF Results
<1>2. <<>> \o Rest(f, t, i + 1).items = Rest(f, t, i + 1).items
  BY <1>1, ConcatEmptySeq
<1> QED BY <1>2, ItemSeqs, Zenon DEF Writes

\* The edges of the switch outside of tags (llsplib.cpp:249-302) write what the
\* template asks for.
LEMMA EchoWrites ==
    ASSUME NEW f \in Seq(Chars), NEW i \in 1..Len(f), NEW s \in EchoStates, Context(f, s, i)
    PROVE  LET it == AddChar(f[i])
               lt == AddChar("<")
           IN  /\ s = "echo1" => IF f[i] = "<" THEN Writes(f, s, i, <<>>, "echo4")
                                 ELSE Writes(f, s, i, <<Beg, it>>, "echo2")
               /\ s = "echo2" => IF f[i] = "<" THEN Writes(f, s, i, <<>>, "echo3")
                                 ELSE Writes(f, s, i, <<it>>, "echo2")
               /\ s = "echo3" => IF f[i] = "?" THEN Writes(f, s, i, <<End>>, "stmt1")
                                 ELSE Writes(f, s, i, <<lt, it>>, "echo2")
               /\ s = "echo4" => IF f[i] = "?" THEN Writes(f, s, i, <<>>, "stmt1")
                                 ELSE Writes(f, s, i, <<Beg, lt, it>>, "echo2")
<1> DEFINE it == AddChar(f[i])
           lt == AddChar("<")
           x == Text(f, i + 1)
<1>0. /\ Len(f) \in Nat /\ i + 1 \in 1..Len(f)+1 /\ (i + 1) - 1 = i /\ i + 1 > 1
      /\ i \in 1..Len(f)+1
  OBVIOUS
<1>1. f[i] \in Chars /\ it \in Items /\ lt \in Items
  <2>1. f[i] \in Chars /\ "<" \in Chars
    BY ElementOfSeq DEF Chars
  <2> QED BY <2>1, ItemKinds
<1>2. <<it>> \in Seq(Items) /\ <<Beg, it>> \in Seq(Items) /\ <<lt, it>> \in Seq(Items)
      /\ <<Beg, lt, it>> \in Seq(Items) /\ Beg \in Items
  <2> HIDE DEF it, lt
  <2>1. Beg \in Items
    BY MarkKinds
  <2> QED BY <1>1, <2>1
<1>3. x.items \in Seq(Items)
  BY <1>0, TextParts DEF Results
<1>4. Context(f, "echo2", i + 1) /\ Context(f, "stmt1", i + 1)
  BY <1>0 DEF Context
<1>5. f[i] = "<" => Context(f, "echo3", i + 1) /\ Context(f, "echo4", i + 1)
  BY <1>0 DEF Context
<1>6. "echo3" \in States /\ "echo4" \in States /\ "stmt1" \in States
  BY StateNames
<1>7. CASE s = "echo1"
  <2>1. CASE f[i] = "<"
    <3>1. Rest(f, "echo1", i) = Rest(f, "echo4", i + 1)
      BY <1>0, RestIs
    <3> QED BY <1>5, <1>6, <1>7, <2>1, <3>1, WritesNone
  <2>2. CASE f[i] # "<"
    <3>1. /\ Text(f, i).items = <<it>> \o x.items /\ Text(f, i).closed = x.closed
          /\ i <= Template!TextEnd(f, i)
      BY <2>2, TextRead
    <3>2. /\ Rest(f, s, i).items = <<Beg>> \o (<<it>> \o x.items)
          /\ Rest(f, s, i).closed = x.closed
      <4>1. /\ Template!Translations(f)[i].items = <<Beg>> \o Text(f, i).items
            /\ Template!Translations(f)[i].closed = Text(f, i).closed
        BY <3>1, EchoOpens
      <4>2. Rest(f, s, i) = Template!Translations(f)[i]
        BY <1>7, RestIs
      <4> HIDE DEF it, x
      <4> QED BY <3>1, <4>1, <4>2
    <3>3. <<Beg, it>> \o x.items = <<Beg>> \o (<<it>> \o x.items)
      <4> HIDE DEF it, x
      <4> QED BY <1>1, <1>2, <1>3, PairOf
    <3>4. Rest(f, "echo2", i + 1) = x
      BY RestIs
    <3> HIDE DEF it, x
    <3>5. Writes(f, s, i, <<Beg, it>>, "echo2")
      BY <1>2, <1>4, <3>2, <3>3, <3>4, Zenon DEF Writes
    <3> QED BY <1>7, <2>2, <3>5 DEF it
  <2> QED BY <2>1, <2>2
<1>8. CASE s = "echo2"
  <2>1. CASE f[i] = "<"
    <3>1. Rest(f, "echo2", i) = Rest(f, "echo3", i + 1)
      BY <1>0, RestIs
    <3> QED BY <1>5, <1>6, <1>8, <2>1, <3>1, WritesNone
  <2>2. CASE f[i] # "<"
    <3>1. /\ Text(f, i).items = <<it>> \o x.items /\ Text(f, i).closed = x.closed
      BY <2>2, TextRead
    <3>2. Rest(f, "echo2", i + 1) = x /\ Rest(f, s, i) = Text(f, i)
      BY <1>8, RestIs
    <3> HIDE DEF it, x
    <3>3. Writes(f, s, i, <<it>>, "echo2")
      BY <1>2, <1>4, <3>1, <3>2, Zenon DEF Writes
    <3> QED BY <1>8, <2>2, <3>3 DEF it
  <2> QED BY <2>1, <2>2
<1>9. ASSUME s \in {"echo3", "echo4"}
      PROVE  /\ i - 1 \in 1..Len(f)-1 /\ f[i - 1] = "<" /\ (i - 1) + 1 = i
             /\ (i - 1) + 2 = i + 1 /\ i - 1 \in 1..Len(f) /\ i - 1 \in 1..Len(f)+1
             /\ (i - 1) - 1 = i - 2
  BY <1>0, <1>9 DEF Context
<1>10. ASSUME s \in {"echo3", "echo4"}, f[i] = "?"
       PROVE  LET tag == Template!Tag(f, i + 1, Template!Translations(f))
              IN  /\ Template!Translations(f)[i - 1].items = tag.items
                  /\ Template!Translations(f)[i - 1].closed = tag.closed
                  /\ Text(f, i - 1).items = <<End>> \o tag.items
                  /\ Text(f, i - 1).closed = tag.closed
  <2>1. /\ Template!TextEnd(f, i - 1) = (i - 1) - 1
        /\ Template!AfterText(f, i - 1, Template!Translations(f))
             = Template!Tag(f, i + 1, Template!Translations(f))
    BY <1>9, <1>10, TextStops
  <2> QED BY <2>1, <1>9, <1>10, EchoCloses
<1>11. ASSUME s \in {"echo3", "echo4"}, f[i] # "?"
       PROVE  /\ Text(f, i - 1).items = <<lt, it>> \o x.items
              /\ Text(f, i - 1).closed = x.closed
              /\ Template!Translations(f)[i - 1].items = <<Beg>> \o (<<lt, it>> \o x.items)
              /\ Template!Translations(f)[i - 1].closed = x.closed
  <2>1. /\ Text(f, i - 1).items = <<lt, it>> \o x.items
        /\ Text(f, i - 1).closed = x.closed
        /\ i - 1 <= Template!TextEnd(f, i - 1)
    BY <1>9, <1>11, PairRead
  <2>2. /\ Template!Translations(f)[i - 1].items = <<Beg>> \o Text(f, i - 1).items
        /\ Template!Translations(f)[i - 1].closed = Text(f, i - 1).closed
    BY <1>9, <1>11, <2>1, EchoOpens
  <2> HIDE DEF x, it, lt
  <2> QED BY <2>1, <2>2
<1>12. CASE s = "echo3"
  <2>1. CASE f[i] = "?"
    <3>1. Writes(f, s, i, <<End>>, "stmt1")
      BY <1>12, <2>1, <1>10, <1>4, ItemSeqs, RestIs DEF Writes
    <3> QED BY <1>12, <2>1, <3>1
  <2>2. CASE f[i] # "?"
    <3>1. Rest(f, "echo2", i + 1) = x /\ Rest(f, s, i) = Text(f, i - 1)
      BY <1>12, RestIs
    <3>2. Text(f, i - 1).items = <<lt, it>> \o x.items /\ Text(f, i - 1).closed = x.closed
      BY <1>11, <1>12, <2>2
    <3> HIDE DEF it, lt, x
    <3>3. Writes(f, s, i, <<lt, it>>, "echo2")
      BY <1>2, <1>4, <3>1, <3>2, Zenon DEF Writes
    <3> QED BY <1>12, <2>2, <3>3 DEF it, lt
  <2> QED BY <2>1, <2>2
<1>13. CASE s = "echo4"
  <2>1. CASE f[i] = "?"
    <3> DEFINE tag == Template!Tag(f, i + 1, Template!Translations(f))
    <3>1. Rest(f, "stmt1", i + 1) = tag /\ Rest(f, s, i) = Template!Translations(f)[i - 1]
      BY <1>13, RestIs
    <3>2. Rest(f, s, i).items = tag.items /\ Rest(f, s, i).closed = tag.closed
      BY <1>10, <1>13, <2>1, <3>1
    <3>3. tag.items \in Seq(Items)
      BY <1>4, <1>6, <3>1, RestType DEF Results
    <3> HIDE DEF tag
    <3>4. <<>> \o tag.items = tag.items
      BY <3>3, ConcatEmptySeq
    <3>5. Writes(f, s, i, <<>>, "stmt1")
      BY <1>4, <3>1, <3>2, <3>4, ItemSeqs, Zenon DEF Writes
    <3> QED BY <1>13, <2>1, <3>5
  <2>2. CASE f[i] # "?"
    <3>1. Rest(f, "echo2", i + 1) = x /\ Rest(f, s, i) = Template!Translations(f)[i - 1]
      BY <1>13, RestIs
    <3>2. /\ Template!Translations(f)[i - 1].items = <<Beg>> \o (<<lt, it>> \o x.items)
          /\ Template!Translations(f)[i - 1].closed = x.closed
      BY <1>11, <1>13, <2>2
    <3> HIDE DEF it, lt, x
    <3>3. <<Beg, lt, it>> \o x.items = <<Beg>> \o (<<lt, it>> \o x.items)
      BY <1>1, <1>2, <1>3, TripleOf
    <3>4. Writes(f, s, i, <<Beg, lt, it>>, "echo2")
      BY <1>2, <1>4, <3>1, <3>2, <3>3, Zenon DEF Writes
    <3> QED BY <1>13, <2>2, <3>4 DEF it, lt
  <2> QED BY <2>1, <2>2
<1> HIDE DEF it, lt, x
<1>14. s \in {"echo1", "echo2", "echo3", "echo4"}
  BY DEF EchoStates
<1> QED BY <1>7, <1>8, <1>12, <1>13, <1>14 DEF it, lt

\* So do those in the body of a tag, of each kind (llsplib.cpp:303-361),
LEMMA BodyWrites ==
    ASSUME NEW f \in Seq(Chars), NEW i \in 1..Len(f), NEW kind \in BodyKinds,
           NEW copying \in {"stmt2", "stmt12", "comment1"},
           NEW holding \in {"stmt3", "stmt13", "comment2"},
           \/ kind = "expr" /\ copying = "stmt2" /\ holding = "stmt3"
           \/ kind = "code" /\ copying = "stmt12" /\ holding = "stmt13"
           \/ kind = "#" /\ copying = "comment1" /\ holding = "comment2"
    PROVE  /\ IF f[i] = "?" THEN Writes(f, copying, i, <<>>, holding)
              ELSE Writes(f, copying, i, Given1(f[i], kind), copying)
           /\ Context(f, holding, i) =>
                /\ f[i] = ">" => Writes(f, holding, i, Closing(kind), "cr1")
                /\ f[i] = "?" => Writes(f, holding, i, Given1("?", kind), holding)
                /\ f[i] \notin {">", "?"} =>
                     Writes(f, holding, i, Given1("?", kind) \o Given1(f[i], kind), copying)
<1>0. /\ Len(f) \in Nat /\ i + 1 \in 1..Len(f)+1 /\ (i + 1) - 1 = i /\ i + 1 > 1
      /\ i \in 1..Len(f)+1
  OBVIOUS
<1>1. \A k : Rest(f, copying, k) = TagBody(f, k, kind) /\ Rest(f, holding, k) = TagBody(f, k - 1, kind)
  BY RestIs
<1>2. Context(f, copying, i + 1)
  BY <1>0 DEF Context
<1>3. f[i] = "?" => Context(f, holding, i + 1)
  BY <1>0 DEF Context
<1>4. holding \in States /\ copying \in States
  BY StateNames
<1>5. ASSUME f[i] = "?" PROVE Writes(f, copying, i, <<>>, holding)
  BY <1>0, <1>1, <1>3, <1>4, <1>5, WritesNone
<1>6. ASSUME f[i] # "?" PROVE Writes(f, copying, i, Given1(f[i], kind), copying)
  <2>1. Rest(f, copying, i) = TagBody(f, i, kind) /\ Rest(f, copying, i + 1) = TagBody(f, i + 1, kind)
    BY <1>1, Zenon
  <2>2. /\ TagBody(f, i, kind).items = Given1(f[i], kind) \o TagBody(f, i + 1, kind).items
        /\ TagBody(f, i, kind).closed = TagBody(f, i + 1, kind).closed
        /\ Given1(f[i], kind) \in Seq(Items)
    BY <1>6, BodyRead, Zenon
  <2> QED BY <1>2, <2>1, <2>2, Zenon DEF Writes
<1>7. ASSUME Context(f, holding, i)
      PROVE  /\ i - 1 \in 1..Len(f)-1 /\ f[i - 1] = "?" /\ (i - 1) + 1 = i
             /\ i - 1 \in 1..Len(f)
  BY <1>0, <1>7 DEF Context
<1>8. ASSUME Context(f, holding, i), f[i] = ">"
      PROVE  Writes(f, holding, i, Closing(kind), "cr1")
  <2>1. Rest(f, "cr1", i + 1) = Template!Translations(f)[Template!AfterTag(f, i)]
    BY <1>0, RestIs
  <2>2. /\ TagBody(f, i - 1, kind).items = Closing(kind) \o Rest(f, "cr1", i + 1).items
        /\ TagBody(f, i - 1, kind).closed = Rest(f, "cr1", i + 1).closed
    <3>1. LET rest == Template!Translations(f)[Template!AfterTag(f, (i - 1) + 1)]
          IN  /\ TagBody(f, i - 1, kind).items = Closing(kind) \o rest.items
              /\ TagBody(f, i - 1, kind).closed = rest.closed
      BY <1>7, <1>8, BodyStops, Zenon
    <3> QED BY <1>7, <1>8, <2>1, <3>1
  <2>3. Context(f, "cr1", i + 1)
    BY <1>0 DEF Context
  <2>4. Closing(kind) \in Seq(Items)
    BY ItemSeqs DEF Closing, BodyKinds
  <2> QED BY <1>1, <2>2, <2>3, <2>4, Zenon DEF Writes
<1>9. ASSUME Context(f, holding, i), f[i] # ">"
      PROVE  /\ TagBody(f, i - 1, kind).items = Given1("?", kind) \o TagBody(f, i, kind).items
             /\ TagBody(f, i - 1, kind).closed = TagBody(f, i, kind).closed
             /\ Given1("?", kind) \in Seq(Items)
  <2>1. f[(i - 1) + 1] # ">"
    BY <1>7, <1>9
  <2> QED BY <1>7, <1>9, <2>1, BodyRead
<1>10. ASSUME Context(f, holding, i), f[i] = "?"
       PROVE  Writes(f, holding, i, Given1("?", kind), holding)
  <2>1. Rest(f, holding, i) = TagBody(f, i - 1, kind) /\ Rest(f, holding, i + 1) = TagBody(f, i, kind)
    BY <1>0, <1>1
  <2>2. /\ TagBody(f, i - 1, kind).items = Given1("?", kind) \o TagBody(f, i, kind).items
        /\ TagBody(f, i - 1, kind).closed = TagBody(f, i, kind).closed
        /\ Given1("?", kind) \in Seq(Items)
    BY <1>9, <1>10
  <2> QED BY <1>3, <1>10, <2>1, <2>2, Zenon DEF Writes
<1>11. ASSUME Context(f, holding, i), f[i] \notin {">", "?"}
       PROVE  Writes(f, holding, i, Given1("?", kind) \o Given1(f[i], kind), copying)
  <2> DEFINE q == Given1("?", kind)
             g == Given1(f[i], kind)
             x == TagBody(f, i + 1, kind)
  <2>1. /\ TagBody(f, i - 1, kind).items = q \o TagBody(f, i, kind).items
        /\ TagBody(f, i - 1, kind).closed = TagBody(f, i, kind).closed
        /\ q \in Seq(Items)
    BY <1>9, <1>11
  <2>2. /\ TagBody(f, i, kind).items = g \o x.items
        /\ TagBody(f, i, kind).closed = x.closed
        /\ g \in Seq(Items)
    BY <1>11, BodyRead
  <2>3. x.items \in Seq(Items)
    BY <1>0, TagBodyType DEF Results
  <2>4. Rest(f, holding, i) = TagBody(f, i - 1, kind) /\ Rest(f, copying, i + 1) = x
    BY <1>1
  <2> HIDE DEF q, g, x
  <2> DEFINE n == x.items
  <2> HIDE DEF n
  <2>5. q \o (g \o n) = (q \o g) \o n
    BY <2>1, <2>2, <2>3, Assoc, Zenon DEF n
  <2>6. q \o g \in Seq(Items)
    BY <2>1, <2>2, Joined
  <2>7. Writes(f, holding, i, q \o g, copying)
    BY <1>2, <2>1, <2>2, <2>4, <2>5, <2>6, Zenon DEF Writes, n
  <2> QED BY <2>7 DEF q, g
<1> QED BY <1>5, <1>6, <1>8, <1>10, <1>11

\* that of a tag's first character
LEMMA TagWrites ==
    ASSUME NEW f \in Seq(Chars), NEW i \in 1..Len(f)
    PROVE  /\ f[i] = "=" => Writes(f, "stmt1", i, <<SBeg>>, "stmt2")
           /\ f[i] = "#" => Writes(f, "stmt1", i, <<>>, "comment1")
           /\ f[i] \notin {"=", "#"} => Writes(f, "stmt1", i, <<Code(f[i])>>, "stmt12")
<1>0. Len(f) \in Nat /\ i + 1 \in 1..Len(f)+1 /\ f[i] \in Chars
  BY ElementOfSeq
<1> DEFINE tag == Template!Tag(f, i, Template!Translations(f))
<1>1. Rest(f, "stmt1", i) = tag
  BY RestIs
<1>2. /\ Context(f, "stmt2", i + 1) /\ Context(f, "comment1", i + 1)
      /\ Context(f, "stmt12", i + 1)
  BY <1>0 DEF Context
<1>3. /\ "code" \in BodyKinds /\ "expr" \in BodyKinds /\ "#" \in BodyKinds
  BY DEF BodyKinds
<1>4. ASSUME f[i] = "=" PROVE Writes(f, "stmt1", i, <<SBeg>>, "stmt2")
  <2>1. /\ tag.items = <<SBeg>> \o TagBody(f, i + 1, "expr").items
        /\ tag.closed = TagBody(f, i + 1, "expr").closed
    BY <1>3, <1>4, ItemSeqs, TagOpens
  <2>2. Rest(f, "stmt2", i + 1) = TagBody(f, i + 1, "expr")
    BY RestIs
  <2> HIDE DEF tag
  <2> QED BY <1>1, <1>2, <2>1, <2>2, ItemSeqs, Zenon DEF Writes
<1>5. ASSUME f[i] = "#" PROVE Writes(f, "stmt1", i, <<>>, "comment1")
  <2>1. /\ tag.items = <<>> \o TagBody(f, i + 1, "#").items
        /\ tag.closed = TagBody(f, i + 1, "#").closed
    BY <1>3, <1>5, ItemSeqs, TagOpens
  <2>2. Rest(f, "comment1", i + 1) = TagBody(f, i + 1, "#")
    BY RestIs
  <2> HIDE DEF tag
  <2> QED BY <1>1, <1>2, <2>1, <2>2, ItemSeqs, Zenon DEF Writes
<1>6. ASSUME f[i] \notin {"=", "#"} PROVE Writes(f, "stmt1", i, <<Code(f[i])>>, "stmt12")
  <2>0. <<Code(f[i])>> \in Seq(Items)
    <3>1. Code(f[i]) \in Items
      BY <1>0, ItemKinds
    <3> QED BY <3>1
  <2>1. /\ tag.items = <<Code(f[i])>> \o TagBody(f, i + 1, "code").items
        /\ tag.closed = TagBody(f, i + 1, "code").closed
    BY <1>3, <1>6, <2>0, TagOpens
  <2>2. Rest(f, "stmt12", i + 1) = TagBody(f, i + 1, "code")
    BY RestIs
  <2> HIDE DEF tag
  <2> QED BY <1>1, <1>2, <2>0, <2>1, <2>2, Zenon DEF Writes
<1> QED BY <1>4, <1>5, <1>6

\* and those after a tag, where a character can be given back.
LEMMA CrWrites ==
    ASSUME NEW f \in Seq(Chars), NEW i \in 1..Len(f)
    PROVE  /\ Context(f, "cr1", i) =>
                /\ f[i] = "CR" => Writes(f, "cr1", i, <<>>, "cr2")
                /\ f[i] = "LF" => Writes(f, "cr1", i, <<>>, "echo1")
                /\ f[i] \notin {"CR", "LF"} => Rest(f, "cr1", i) = Rest(f, "echo1", i)
           /\ Context(f, "cr2", i) =>
                IF f[i] = "LF" THEN Writes(f, "cr2", i, <<>>, "echo1")
                ELSE Rest(f, "cr2", i) = Rest(f, "echo1", i)
<1>0. /\ Len(f) \in Nat /\ i + 1 \in 1..Len(f)+1 /\ (i - 1) + 1 = i /\ (i - 1) + 2 = i + 1
      /\ (i - 2) + 1 = i - 1 /\ (i - 2) + 2 = i /\ (i - 2) + 3 = i + 1 /\ i <= Len(f)
      /\ (i + 1) - 2 = i - 1 /\ i - 1 <= Len(f) /\ (i + 1) - 1 = i
  OBVIOUS
<1>1. "cr2" \in States /\ "echo1" \in States /\ Context(f, "echo1", i + 1)
  BY <1>0, StateNames DEF Context
<1>2. ASSUME Context(f, "cr1", i), f[i] = "CR" PROVE Writes(f, "cr1", i, <<>>, "cr2")
  <2>1. Context(f, "cr2", i + 1)
    BY <1>0, <1>2 DEF Context
  <2>2. Rest(f, "cr1", i) = Rest(f, "cr2", i + 1)
    BY <1>0, RestIs
  <2> QED BY <1>1, <2>1, <2>2, WritesNone
<1>3. ASSUME f[i] = "LF" PROVE Writes(f, "cr1", i, <<>>, "echo1")
  <2>1. Template!AfterTag(f, i - 1) = i + 1
    BY <1>0, <1>3 DEF Template!AfterTag
  <2>2. Rest(f, "cr1", i) = Rest(f, "echo1", i + 1)
    BY <2>1, RestIs
  <2> QED BY <1>1, <2>2, WritesNone
<1>4. ASSUME f[i] \notin {"CR", "LF"} PROVE Rest(f, "cr1", i) = Rest(f, "echo1", i)
  <2>1. Template!AfterTag(f, i - 1) = i
    BY <1>0, <1>4 DEF Template!AfterTag
  <2> QED BY <2>1, RestIs
<1>5. ASSUME Context(f, "cr2", i), f[i] = "LF" PROVE Writes(f, "cr2", i, <<>>, "echo1")
  <2>1. f[i - 1] = "CR"
    BY <1>5 DEF Context
  <2>2. Template!AfterTag(f, i - 2) = i + 1
    BY <1>0, <1>5, <2>1 DEF Template!AfterTag
  <2>3. Rest(f, "cr2", i) = Rest(f, "echo1", i + 1)
    BY <2>2, RestIs
  <2> QED BY <1>1, <2>3, WritesNone
<1>6. ASSUME Context(f, "cr2", i), f[i] # "LF" PROVE Rest(f, "cr2", i) = Rest(f, "echo1", i)
  <2>1. f[i - 1] = "CR"
    BY <1>6 DEF Context
  <2>2. Template!AfterTag(f, i - 2) = i
    BY <1>0, <1>6, <2>1 DEF Template!AfterTag
  <2> QED BY <2>2, RestIs
<1> QED BY <1>2, <1>3, <1>4, <1>5, <1>6

\* At the end of the page an open echo is closed, and an open tag is an error.
LEMMA EndWrites ==
    ASSUME NEW f \in Seq(Chars), NEW s \in States \ {"unknown"}, Context(f, s, Len(f) + 1)
    PROVE  /\ s \notin Closable => ~Rest(f, s, Len(f) + 1).closed
           /\ s \in Closable => /\ Rest(f, s, Len(f) + 1).closed
                                /\ Rest(f, s, Len(f) + 1).items = IF s = "echo2" THEN <<End>> ELSE <<>>
<1> DEFINE T == Template!Translations(f)
<1>0. /\ Len(f) \in Nat /\ Len(f) + 1 \in 1..Len(f)+1 /\ (Len(f) + 1) - 1 = Len(f)
      /\ (Len(f) + 1) - 2 = Len(f) - 1 /\ (Len(f) - 1) + 1 = Len(f) /\ (Len(f) - 1) + 2 = Len(f) + 1
      /\ (Len(f) + 1) + 1 > Len(f) /\ Len(f) + 1 > Len(f) /\ Len(f) + 2 > Len(f)
  OBVIOUS
<1>1. Len(f) + 1 > 1 => Len(f) \in 1..Len(f)+1 /\ Len(f) \in 1..Len(f) /\ Len(f) > 0
  BY <1>0
<1> DEFINE e == Template!AfterText(f, Len(f) + 1, T)
<1>2. e = [items |-> <<>>, closed |-> TRUE]
  BY TextIsOver
<1>3. /\ T[Len(f) + 1].items = <<>> /\ T[Len(f) + 1].closed
      /\ Text(f, Len(f) + 1).items = <<End>> /\ Text(f, Len(f) + 1).closed
  <2>1. Template!TextEnd(f, Len(f) + 1) = (Len(f) + 1) - 1
    BY <1>0, TextIsOver
  <2>2. /\ T[Len(f) + 1].items = e.items /\ T[Len(f) + 1].closed = e.closed
        /\ Text(f, Len(f) + 1).items = <<End>> \o e.items
        /\ Text(f, Len(f) + 1).closed = e.closed
    BY <1>0, <2>1, EchoCloses
  <2>3. <<End>> \o <<>> = <<End>>
    BY ItemSeqs, ConcatEmptySeq
  <2> HIDE DEF e, T
  <2> QED BY <1>2, <2>2, <2>3
<1>4. CASE s \in {"echo3", "echo4"}
  <2>1. Len(f) > 0 /\ f[Len(f)] = "<"
    BY <1>0, <1>1, <1>4 DEF Context
  <2>2. ~Template!AfterText(f, Len(f), T).closed
    BY <2>1, TextIsOver
  <2>3. Text(f, Len(f)).closed = Template!AfterText(f, Len(f), T).closed
    BY DEF Text
  <2>4. T[Len(f)].closed = Template!AfterText(f, Len(f), T).closed
    <3>1. T = [k \in 1..Len(f)+1 |-> FromStep(f, T, k)]
      BY TranslationsUnfold
    <3>2. Len(f) \in 1..Len(f)+1
      BY <2>1, <1>0
    <3> HIDE DEF T
    <3>3. T[Len(f)] = FromStep(f, T, Len(f))
      BY <3>1, <3>2
    <3> QED BY <3>3 DEF FromStep
  <2>5. ~Rest(f, s, Len(f) + 1).closed
    <3>1. Rest(f, s, Len(f) + 1) \in {Text(f, Len(f)), T[Len(f)]}
      BY <1>0, <1>4, RestIs
    <3> HIDE DEF T
    <3> QED BY <3>1, <2>2, <2>3, <2>4
  <2>6. s \notin Closable
    BY <1>4 DEF Closable, CrStates
  <2> QED BY <2>5, <2>6
<1>5. CASE s \in (StmtStates \cup CommentStates) \ {"stmt1"}
  <2>1. "code" \in BodyKinds /\ "expr" \in BodyKinds /\ "#" \in BodyKinds
    BY DEF BodyKinds
  <2>2. \A kind \in BodyKinds : ~TagBody(f, Len(f) + 1, kind).closed
    BY <1>0, BodyIsOver
  <2>3. CASE s \in {"stmt2", "stmt12", "comment1"}
    <3>1. ~Rest(f, s, Len(f) + 1).closed
      BY <2>1, <2>2, <2>3, RestIs
    <3> QED BY <3>1, <2>3 DEF Closable, CrStates
  <2>4. CASE s \in {"stmt3", "stmt13", "comment2"}
    <3>1. Len(f) \in 1..Len(f)+1
      BY <1>0, <1>1, <2>4 DEF Context
    <3>2. \A kind \in BodyKinds : ~TagBody(f, Len(f), kind).closed
      BY <1>0, <3>1, BodyIsOver
    <3>3. ~Rest(f, s, Len(f) + 1).closed
      BY <1>0, <2>1, <2>4, <3>2, RestIs
    <3> QED BY <3>3, <2>4 DEF Closable, CrStates
  <2> QED BY <1>5, <2>3, <2>4 DEF StmtStates, CommentStates
<1>6. CASE s = "stmt1"
  <2>1. Template!TagEnd(f, (Len(f) + 1) + 1) = Len(f)
    <3>1. (Len(f) + 1) + 1 \in Nat /\ (Len(f) + 1) + 1 >= Len(f)
      BY <1>0
    <3> QED BY <3>1, TagIsOver
  <2>2. Template!Tag(f, Len(f) + 1, T) = [items |-> Template!Opened(f, Len(f) + 1, Len(f)), closed |-> FALSE]
    BY <2>1 DEF Template!Tag
  <2>3. ~Rest(f, s, Len(f) + 1).closed
    BY <1>6, <2>2, RestIs
  <2> QED BY <2>3, <1>6 DEF Closable, CrStates
<1>7. CASE s \in CrStates
  <2>1. Template!AfterTag(f, Len(f)) = Len(f) + 1
    BY <1>0 DEF Template!AfterTag
  <2>2. s = "cr2" => Template!AfterTag(f, Len(f) - 1) = Len(f) + 1
    <3> SUFFICES ASSUME s = "cr2" PROVE Template!AfterTag(f, Len(f) - 1) = Len(f) + 1
      OBVIOUS
    <3>1. f[Len(f)] = "CR"
      BY <1>0 DEF Context
    <3> QED BY <1>0, <3>1 DEF Template!AfterTag
  <2>3. Rest(f, s, Len(f) + 1) = T[Len(f) + 1]
    BY <1>0, <1>7, <2>1, <2>2, RestIs DEF CrStates
  <2> HIDE DEF T
  <2> QED BY <1>3, <1>7, <2>3 DEF Closable, CrStates
<1>8. CASE s \in {"echo1", "echo2"}
  <2>1. /\ Rest(f, "echo1", Len(f) + 1) = T[Len(f) + 1]
        /\ Rest(f, "echo2", Len(f) + 1) = Text(f, Len(f) + 1)
    BY RestIs
  <2> HIDE DEF T
  <2> QED BY <1>3, <1>8, <2>1 DEF Closable
<1>9. \/ s \in {"echo1", "echo2"} \/ s \in {"echo3", "echo4"} \/ s = "stmt1"
      \/ s \in CrStates \/ s \in (StmtStates \cup CommentStates) \ {"stmt1"}
  BY DEF States, EchoStates
<1> QED BY <1>4, <1>5, <1>6, <1>7, <1>8, <1>9

(***************************************************************************)
(* The steps of the reader keep what is owed.                              *)
(***************************************************************************)
\* An edge that writes what the template asks for keeps what is owed.
LEMMA OwesGoto ==
    ASSUME IInv, Owes, AtSwitch, NEW t \in States, NEW items, Goto(t, items),
           Writes(file, st, pos + 1, items, t)
    PROVE  Owes'
<1>1. /\ out' = out \o items /\ pos' = pos + 1 /\ st' = t
      /\ UNCHANGED <<file, given, pc, status>>
  BY DEF Goto, Getc, Put
<1>2. pos \in Nat /\ out \in Seq(Items) /\ file \in Seq(Chars) /\ pc = "read"
  BY DEF IInv, TypeOK, AtSwitch
<1> DEFINE n == Rest(file, t, pos + 1 + 1).items
<1>3. /\ Context(file, t, pos + 1 + 1) /\ items \in Seq(Items)
      /\ Rest(file, st, pos + 1).items = items \o n
      /\ Rest(file, st, pos + 1).closed = Rest(file, t, pos + 1 + 1).closed
  BY Zenon DEF Writes
<1>4. /\ out \o Rest(file, st, pos + 1).items = Template!Translation(file).items
      /\ Rest(file, st, pos + 1).closed = Template!Translation(file).closed
      /\ status = "none"
  BY <1>2 DEF Owes
<1>5. n \in Seq(Items)
  BY <1>2, <1>3, RestType DEF Results
<1> HIDE DEF n
<1>6. (out \o items) \o n = out \o (items \o n)
  BY <1>2, <1>3, <1>5, Assoc, Zenon
<1>7. /\ Context(file, st, pos + 1)' /\ status' = "none" /\ pc' = "read"
      /\ Rest(file, st, pos + 1)' = Rest(file, t, pos + 1 + 1)
      /\ Template!Translation(file)' = Template!Translation(file)
  <2>1. Context(file, st, pos + 1)' <=> Context(file, t, pos + 1 + 1)
    BY <1>1 DEF Context
  <2>2. Rest(file, st, pos + 1)' = Rest(file, t, pos + 1 + 1)
    BY <1>1
  <2>3. Template!Translation(file)' = Template!Translation(file)
    BY <1>1
  <2> QED BY <1>1, <1>2, <1>3, <1>4, <2>1, <2>2, <2>3
<1>8. (out \o Rest(file, st, pos + 1).items)' = (out \o items) \o n
  BY <1>1, <1>7, Zenon DEF n
<1>9. (out \o Rest(file, st, pos + 1).items = Template!Translation(file).items)'
  BY <1>3, <1>4, <1>6, <1>7, <1>8, Zenon
<1>10. (Rest(file, st, pos + 1).closed = Template!Translation(file).closed)'
  BY <1>3, <1>4, <1>7, Zenon
<1> QED BY <1>7, <1>9, <1>10 DEF Owes

\* So does a character that is given back.
LEMMA OwesUnget ==
    ASSUME IInv, Owes, AtSwitch, Unget("echo1"),
           Rest(file, st, pos + 1) = Rest(file, "echo1", pos + 1)
    PROVE  Owes'
<1>1. st' = "echo1" /\ UNCHANGED <<file, pos, fp, line, out, given, buf_offset, pc, status>>
  BY DEF Unget
<1>2. pc = "read" /\ Context(file, "echo1", pos + 1)
  BY DEF IInv, TypeOK, AtSwitch, Owes, Context
<1>3. Rest(file, st, pos + 1)' = Rest(file, st, pos + 1)
  BY <1>1, Zenon
<1>4. Context(file, st, pos + 1)'
  BY <1>1, <1>2 DEF Context
<1>5. Template!Translation(file)' = Template!Translation(file)
  BY <1>1, Zenon
<1> QED BY <1>1, <1>2, <1>3, <1>4, <1>5 DEF Owes

\* Every case of the switch is such an edge.
LEMMA SwitchOwes ==
    ASSUME IInv, Owes, Switch
    PROVE  Owes'
<1>1. /\ AtSwitch /\ pos + 1 \in 1..Len(file) /\ file \in Seq(Chars)
      /\ Ch = file[pos + 1] /\ Context(file, st, pos + 1) /\ Ch \in Chars
  <2>1. AtSwitch
    BY DEF Switch, Echo1, Echo2, Echo3, Echo4, Stmt1, Stmt2, Stmt3, Stmt12, Stmt13, Body, Held,
           Comment1, Comment2, Cr1, Cr2, Reading, AtSwitch
  <2>2. pos \in Nat /\ Len(file) \in Nat /\ file \in Seq(Chars) /\ pos < Len(file)
    BY <2>1 DEF IInv, TypeOK, AtSwitch
  <2>3. Ch \in Chars
    BY <2>1, ChIsChar DEF IInv
  <2> QED BY <2>1, <2>2, <2>3 DEF Owes, AtSwitch, Ch
<1>2. ASSUME NEW t \in States, NEW items, Goto(t, items), Writes(file, st, pos + 1, items, t)
      PROVE  Owes'
  BY <1>1, <1>2, OwesGoto
<1> USE StateNames
<1>3. CASE Echo1 \/ Echo2 \/ Echo3 \/ Echo4
  <2>0. st \in {"echo1", "echo2", "echo3", "echo4"} /\ st \in EchoStates
    BY <1>3 DEF Echo1, Echo2, Echo3, Echo4, Reading, EchoStates
  <2> DEFINE it == AddChar(Ch)
             lt == AddChar("<")
  <2>1. /\ st = "echo1" => IF Ch = "<" THEN Writes(file, st, pos + 1, <<>>, "echo4")
                           ELSE Writes(file, st, pos + 1, <<Beg, it>>, "echo2")
        /\ st = "echo2" => IF Ch = "<" THEN Writes(file, st, pos + 1, <<>>, "echo3")
                           ELSE Writes(file, st, pos + 1, <<it>>, "echo2")
        /\ st = "echo3" => IF Ch = "?" THEN Writes(file, st, pos + 1, <<End>>, "stmt1")
                           ELSE Writes(file, st, pos + 1, <<lt, it>>, "echo2")
        /\ st = "echo4" => IF Ch = "?" THEN Writes(file, st, pos + 1, <<>>, "stmt1")
                           ELSE Writes(file, st, pos + 1, <<Beg, lt, it>>, "echo2")
    <3> HIDE DEF it, lt
    <3>1. it = AddChar(file[pos + 1]) /\ lt = AddChar("<") /\ Ch = file[pos + 1]
      BY <1>1 DEF it, lt
    <3> QED BY <1>1, <2>0, <3>1, EchoWrites
  <2>2. /\ st = "echo1" => IF Ch = "<" THEN Goto("echo4", <<>>) ELSE Goto("echo2", <<Beg, it>>)
        /\ st = "echo2" => IF Ch = "<" THEN Goto("echo3", <<>>) ELSE Goto("echo2", <<it>>)
        /\ st = "echo3" => IF Ch = "?" THEN Goto("stmt1", <<End>>) ELSE Goto("echo2", <<lt, it>>)
        /\ st = "echo4" => IF Ch = "?" THEN Goto("stmt1", <<>>) ELSE Goto("echo2", <<Beg, lt, it>>)
    <3> HIDE DEF it, lt
    <3> QED BY <1>3 DEF Echo1, Echo2, Echo3, Echo4, Reading, it, lt
  <2> HIDE DEF it, lt
  <2>3. {"echo2", "echo3", "echo4", "stmt1"} \subseteq States
    OBVIOUS
  <2>4. CASE st = "echo1"
    BY <1>2, <2>1, <2>2, <2>3, <2>4
  <2>5. CASE st = "echo2"
    BY <1>2, <2>1, <2>2, <2>3, <2>5
  <2>6. CASE st = "echo3"
    BY <1>2, <2>1, <2>2, <2>3, <2>6
  <2>7. CASE st = "echo4"
    BY <1>2, <2>1, <2>2, <2>3, <2>7
  <2> QED BY <2>0, <2>4, <2>5, <2>6, <2>7
<1>4. CASE Stmt1
  <2>1. /\ Ch = "=" => Writes(file, st, pos + 1, <<SBeg>>, "stmt2")
        /\ Ch = "#" => Writes(file, st, pos + 1, <<>>, "comment1")
        /\ Ch \notin {"=", "#"} => Writes(file, st, pos + 1, <<Code(Ch)>>, "stmt12")
    <3>1. st = "stmt1"
      BY <1>4 DEF Stmt1, Reading
    <3> QED BY <1>1, <3>1, TagWrites
  <2>2. /\ Ch = "=" => Goto("stmt2", <<SBeg>>)
        /\ Ch = "#" => Goto("comment1", <<>>)
        /\ Ch \notin {"=", "#"} => Goto("stmt12", <<Code(Ch)>>)
    BY <1>4 DEF Stmt1
  <2>3. {"stmt2", "stmt12", "comment1"} \subseteq States
    OBVIOUS
  <2> QED BY <1>2, <2>1, <2>2, <2>3
\* The three kinds of bodies
<1>5. ASSUME NEW kind \in BodyKinds,
             NEW copying \in {"stmt2", "stmt12", "comment1"},
             NEW holding \in {"stmt3", "stmt13", "comment2"},
             \/ kind = "expr" /\ copying = "stmt2" /\ holding = "stmt3"
             \/ kind = "code" /\ copying = "stmt12" /\ holding = "stmt13"
             \/ kind = "#" /\ copying = "comment1" /\ holding = "comment2",
             \/ /\ st = copying
                /\ Ch = "?" => Goto(holding, <<>>)
                /\ Ch # "?" => Goto(copying, Given1(Ch, kind))
             \/ /\ st = holding
                /\ Ch = ">" => Goto("cr1", Closing(kind))
                /\ Ch = "?" => Goto(holding, Given1("?", kind))
                /\ Ch \notin {">", "?"} => Goto(copying, Given1("?", kind) \o Given1(Ch, kind))
      PROVE  Owes'
  <2>1. /\ IF Ch = "?" THEN Writes(file, copying, pos + 1, <<>>, holding)
           ELSE Writes(file, copying, pos + 1, Given1(Ch, kind), copying)
        /\ Context(file, holding, pos + 1) =>
             /\ Ch = ">" => Writes(file, holding, pos + 1, Closing(kind), "cr1")
             /\ Ch = "?" => Writes(file, holding, pos + 1, Given1("?", kind), holding)
             /\ Ch \notin {">", "?"} =>
                  Writes(file, holding, pos + 1, Given1("?", kind) \o Given1(Ch, kind), copying)
    BY <1>1, <1>5, BodyWrites
  <2>2. copying \in States /\ holding \in States /\ "cr1" \in States
    OBVIOUS
  <2>3. CASE st = copying
    BY <1>2, <1>5, <2>1, <2>2, <2>3
  <2>4. CASE st = holding
    BY <1>1, <1>2, <1>5, <2>1, <2>2, <2>4
  <2> QED BY <1>5, <2>3, <2>4
<1>6. /\ Given1(Ch, "#") = <<>> /\ Given1("?", "#") = <<>>
      /\ Given1(Ch, "code") = <<Code(Ch)>> /\ Given1("?", "code") = <<Code("?")>>
      /\ Given1(Ch, "expr") = <<Expr(Ch)>> /\ Given1("?", "expr") = <<Expr("?")>>
  <2>1. "?" \in Chars
    BY DEF Chars
  <2> QED BY <1>1, <2>1, TemplateMarks DEF Given1
<1>7. /\ "#" \in BodyKinds /\ "code" \in BodyKinds /\ "expr" \in BodyKinds
      /\ Closing("#") = <<>> /\ Closing("code") = <<Sep>> /\ Closing("expr") = <<SEnd>>
  BY DEF BodyKinds, Closing
<1>8. /\ <<Expr("?")>> \o <<Expr(Ch)>> = <<Expr("?"), Expr(Ch)>>
      /\ <<Code("?")>> \o <<Code(Ch)>> = <<Code("?"), Code(Ch)>>
  <2>1. "?" \in Chars
    BY DEF Chars
  <2> QED BY <1>1, <2>1, ItemKinds, PairIs
<1>9. CASE Stmt2 \/ Stmt3
  <2>1. \/ /\ st = "stmt2"
           /\ Ch = "?" => Goto("stmt3", <<>>)
           /\ Ch # "?" => Goto("stmt2", <<Expr(Ch)>>)
        \/ /\ st = "stmt3"
           /\ Ch = ">" => Goto("cr1", <<SEnd>>)
           /\ Ch = "?" => Goto("stmt3", <<Expr("?")>>)
           /\ Ch \notin {">", "?"} => Goto("stmt2", <<Expr("?"), Expr(Ch)>>)
    BY <1>9 DEF Stmt2, Stmt3, Body, Held, Reading
  <2>2. Given1("?", "expr") \o Given1(Ch, "expr") = <<Expr("?"), Expr(Ch)>>
    BY <1>6, <1>8, Zenon
  <2> QED BY <1>5, <1>6, <1>7, <2>1, <2>2
<1>10. CASE Stmt12 \/ Stmt13
  <2>1. \/ /\ st = "stmt12"
           /\ Ch = "?" => Goto("stmt13", <<>>)
           /\ Ch # "?" => Goto("stmt12", <<Code(Ch)>>)
        \/ /\ st = "stmt13"
           /\ Ch = ">" => Goto("cr1", <<Sep>>)
           /\ Ch = "?" => Goto("stmt13", <<Code("?")>>)
           /\ Ch \notin {">", "?"} => Goto("stmt12", <<Code("?"), Code(Ch)>>)
    BY <1>10 DEF Stmt12, Stmt13, Body, Held, Reading
  <2>2. Given1("?", "code") \o Given1(Ch, "code") = <<Code("?"), Code(Ch)>>
    BY <1>6, <1>8, Zenon
  <2> QED BY <1>5, <1>6, <1>7, <2>1, <2>2
<1>11. CASE Comment1 \/ Comment2
  <2>1. \/ /\ st = "comment1"
           /\ Ch = "?" => Goto("comment2", <<>>)
           /\ Ch # "?" => Goto("comment1", <<>>)
        \/ /\ st = "comment2"
           /\ Ch = ">" => Goto("cr1", <<>>)
           /\ Ch = "?" => Goto("comment2", <<>>)
           /\ Ch \notin {">", "?"} => Goto("comment1", <<>>)
    BY <1>11 DEF Comment1, Comment2, Reading
  <2>2. Given1("?", "#") \o Given1(Ch, "#") = <<>>
    <3>1. <<>> \o <<>> = <<>>
      BY ItemSeqs, ConcatEmptySeq
    <3> QED BY <1>6, <3>1, Zenon
  <2> QED BY <1>5, <1>6, <1>7, <2>1, <2>2
<1>12. CASE Cr1
  <2>1. /\ st = "cr1" /\ Ch = "CR" => Goto("cr2", <<>>)
        /\ Ch = "LF" => Goto("echo1", <<>>)
        /\ Ch \notin {"CR", "LF"} => Unget("echo1")
    BY <1>12 DEF Cr1, Reading
  <2>2. st = "cr1"
    BY <1>12 DEF Cr1, Reading
  <2>3. /\ Ch = "CR" => Writes(file, st, pos + 1, <<>>, "cr2")
        /\ Ch = "LF" => Writes(file, st, pos + 1, <<>>, "echo1")
        /\ Ch \notin {"CR", "LF"} => Rest(file, st, pos + 1) = Rest(file, "echo1", pos + 1)
    BY <1>1, <2>2, CrWrites
  <2>4. CASE Ch = "CR"
    BY <1>2, <2>1, <2>2, <2>3, <2>4
  <2>5. CASE Ch = "LF"
    BY <1>2, <2>1, <2>3, <2>5
  <2>6. CASE Ch \notin {"CR", "LF"}
    BY <1>1, <2>1, <2>3, <2>6, OwesUnget
  <2> QED BY <2>4, <2>5, <2>6
<1>13. CASE Cr2
  <2>1. st = "cr2" /\ (Ch = "LF" => Goto("echo1", <<>>)) /\ (Ch # "LF" => Unget("echo1"))
    BY <1>13 DEF Cr2, Reading
  <2>2. IF Ch = "LF" THEN Writes(file, st, pos + 1, <<>>, "echo1")
        ELSE Rest(file, st, pos + 1) = Rest(file, "echo1", pos + 1)
    BY <1>1, <2>1, CrWrites
  <2>3. CASE Ch = "LF"
    BY <1>2, <2>1, <2>2, <2>3
  <2>4. CASE Ch # "LF"
    BY <1>1, <2>1, <2>2, <2>4, OwesUnget
  <2> QED BY <2>3, <2>4
<1> QED BY <1>3, <1>4, <1>9, <1>10, <1>11, <1>12, <1>13 DEF Switch

\* The steps that neither read a character nor write an item
LEMMA OwesStays ==
    ASSUME Owes, UNCHANGED <<file, pos, st, out, status>>,
           pc \in {"parse", "read", "ended"}, pc' \in {"parse", "read", "ended"}
    PROVE  Owes'
<1>1. Context(file, st, pos + 1)' <=> Context(file, st, pos + 1)
  BY DEF Context
<1>2. Rest(file, st, pos + 1)' = Rest(file, st, pos + 1)
  BY Zenon
<1>3. Template!Translation(file)' = Template!Translation(file)
  BY Zenon
<1> QED BY <1>1, <1>2, <1>3 DEF Owes

\* At the end of the page nothing is owed any more.
LEMMA EofOwes ==
    ASSUME IInv, Owes, Eof
    PROVE  /\ Owes'
           /\ EofItems \in Seq(Items)
<1>1. /\ pc = "read" /\ pos = Len(file) /\ st \in Closable /\ file \in Seq(Chars)
      /\ out' = out \o EofItems /\ st' = "unknown" /\ pc' \in {"parse", "ended"}
      /\ UNCHANGED <<file, pos, status>> /\ out \in Seq(Items)
  BY DEF Eof, AtEof, GiveChunk, IInv, TypeOK
<1>2. EofItems \in Seq(Items)
  BY ItemSeqs DEF EofItems
<1>3. /\ Context(file, st, pos + 1) /\ status = "none"
      /\ out \o Rest(file, st, pos + 1).items = Template!Translation(file).items
      /\ Rest(file, st, pos + 1).closed = Template!Translation(file).closed
  BY <1>1 DEF Owes
<1>4. Rest(file, st, pos + 1).items = EofItems /\ Rest(file, st, pos + 1).closed
  <2>1. CASE st = "unknown"
    <3>1. Rest(file, st, pos + 1) = [items |-> <<>>, closed |-> TRUE]
      BY <2>1, RestIs
    <3> QED BY <2>1, <3>1 DEF EofItems
  <2>2. CASE st # "unknown"
    <3>1. st \in States \ {"unknown"} /\ Context(file, st, Len(file) + 1)
      BY <1>1, <1>3, <2>2 DEF IInv, TypeOK
    <3> QED BY <1>1, <3>1, EndWrites DEF EofItems
  <2> QED BY <2>1, <2>2
<1>5. out' \in Seq(Items) /\ out' = Template!Translation(file).items
  BY <1>1, <1>2, <1>3, <1>4, Joined
<1>6. Template!Translation(file).closed
  BY <1>3, <1>4
<1>7. Rest(file, st, pos + 1)' = [items |-> <<>>, closed |-> TRUE]
  BY <1>1, RestIs
<1>8. out' \o <<>> = out'
  BY <1>5, ConcatEmptySeq
<1>9. Context(file, st, pos + 1)'
  BY <1>1, <1>3 DEF Context
<1>10. Template!Translation(file)' = Template!Translation(file)
  BY <1>1, Zenon
<1>11. Template!Translation(file).closed = TRUE
  <2>1. Template!Translation(file).closed \in BOOLEAN
    <3>1. 1 \in 1..Len(file)+1
      BY <1>1
    <3> QED BY <1>1, <3>1, TranslationsType DEF Template!Translation, Results
  <2> QED BY <1>6, <2>1
<1>12. (out \o Rest(file, st, pos + 1).items = Template!Translation(file).items)'
  <2>1. Rest(file, st, pos + 1).items' = <<>>
    BY <1>7
  <2> QED BY <1>5, <1>8, <1>10, <2>1, Zenon
<1>13. (Rest(file, st, pos + 1).closed = Template!Translation(file).closed)'
  <2>1. Rest(file, st, pos + 1).closed' = TRUE
    BY <1>7
  <2> QED BY <1>10, <1>11, <2>1, Zenon
<1>14. (pc # "done" => status = "none")' /\ (pc = "start" => out = <<>>)'
  BY <1>1, <1>3
<1> QED BY <1>2, <1>9, <1>12, <1>13, <1>14 DEF Owes

\* When the page is opened all of it is owed.
LEMMA OpenOwes ==
    ASSUME IInv, Owes, Open
    PROVE  Owes'
<1>1. /\ pc = "start" /\ pos = 0 /\ st' = "echo1" /\ file \in Seq(Chars)
      /\ UNCHANGED <<file, pos, out>>
      /\ (pc' = "parse" /\ status' = status) \/ pc' = "done"
  BY DEF Open, IInv, TypeOK, Stage
<1>2. out = <<>> /\ status = "none"
  BY <1>1 DEF Owes
<1>3. CASE pc' = "done"
  BY <1>3 DEF Owes
<1>4. CASE pc' = "parse" /\ status' = status
  <2>1. pos + 1 = 1 /\ 1 \in 1..Len(file)+1
    BY <1>1
  <2>2. Rest(file, st, pos + 1)' = Template!Translation(file)
    BY <1>1, <2>1, RestIs DEF Template!Translation
  <2>3. Template!Translation(file)' = Template!Translation(file)
    BY <1>1, Zenon
  <2>4. Template!Translation(file).items \in Seq(Items)
    BY <1>1, <2>1, TranslationsType DEF Template!Translation, Results
  <2>5. <<>> \o Template!Translation(file).items = Template!Translation(file).items
    BY <2>4, ConcatEmptySeq
  <2>6. Context(file, st, pos + 1)'
    BY <1>1, <2>1 DEF Context
  <2>7. (out \o Rest(file, st, pos + 1).items = Template!Translation(file).items)'
    BY <1>1, <1>2, <2>2, <2>3, <2>5, Zenon
  <2>8. (Rest(file, st, pos + 1).closed = Template!Translation(file).closed)'
    BY <2>2, <2>3, Zenon
  <2> QED BY <1>2, <1>4, <2>6, <2>7, <2>8 DEF Owes
<1> QED BY <1>1, <1>3, <1>4

\* Every step keeps what is owed.
LEMMA NextOwes == IInv /\ Owes /\ [Next]_vars => Owes'
<1> SUFFICES ASSUME IInv, Owes, [Next]_vars PROVE Owes'
  OBVIOUS
<1>1. CASE Open
  BY <1>1, OpenOwes
<1>2. CASE Call
  BY <1>2, OwesStays DEF Call
<1>3. CASE ParserError \/ Accept
  BY <1>3 DEF ParserError, Accept, Return, Owes
<1>4. CASE ChunkFull
  BY <1>4, OwesStays DEF ChunkFull, GiveChunk
<1>5. CASE Eof
  BY <1>5, EofOwes
<1>6. CASE SyntaxError
  BY <1>6 DEF SyntaxError, AtEof, Return, Owes
<1>7. CASE Switch
  BY <1>7, SwitchOwes
<1>8. CASE UNCHANGED vars
  <2>1. UNCHANGED <<file, pos, st, out, status, pc>>
    BY <1>8 DEF vars
  <2>2. CASE pc \in {"parse", "read", "ended"}
    BY <2>1, <2>2, OwesStays
  <2>3. CASE pc \notin {"parse", "read", "ended"}
    BY <2>1, <2>3 DEF Owes
  <2> QED BY <2>2, <2>3
<1> QED BY <1>1, <1>2, <1>3, <1>4, <1>5, <1>6, <1>7, <1>8 DEF Next, Load, Reader

(***************************************************************************)
(* Every step is a step of the template, or none.                          *)
(***************************************************************************)
\* A part of a sequence is a prefix of whatever the sequence grows to.
LEMMA PrefixOfPart ==
    ASSUME NEW s \in Seq(Items), NEW t \in Seq(Items), NEW n \in 0..Len(s)
    PROVE  Template!IsPrefix(SubSeq(s, 1, n), s \o t)
<1>0. Len(s) \in Nat /\ Len(t) \in Nat
  OBVIOUS
<1> DEFINE p == SubSeq(s, 1, n)
           q == s \o t
<1>1. p \in Seq(Items) /\ Len(p) = n /\ \A i \in 1..n : p[i] = s[i]
  <2>1. \A i \in 1..n : s[i] \in Items
    BY <1>0, ElementOfSeq
  <2>2. Len(p) = n
    BY <1>0, <2>1, SubSeqProperties
  <2> QED BY <1>0, <2>1, <2>2, SubSeqProperties
<1>2. q \in Seq(Items) /\ Len(q) = Len(s) + Len(t) /\ \A i \in 1..n : q[i] = s[i]
  BY <1>0, ConcatProperties
<1> HIDE DEF p, q
<1>3. SubSeq(p, 1, n) = SubSeq(q, 1, n)
  <2>1. /\ SubSeq(p, 1, n) \in Seq(Items) /\ Len(SubSeq(p, 1, n)) = n
        /\ \A i \in 1..n : SubSeq(p, 1, n)[i] = p[i]
    <3>1. \A i \in 1..n : p[i] \in Items
      BY <1>1, ElementOfSeq
    <3> QED BY <1>0, <1>1, <3>1, SubSeqProperties
  <2>2. /\ SubSeq(q, 1, n) \in Seq(Items) /\ Len(SubSeq(q, 1, n)) = n
        /\ \A i \in 1..n : SubSeq(q, 1, n)[i] = q[i]
    <3>1. \A i \in 1..n : q[i] \in Items
      BY <1>0, <1>2, ElementOfSeq
    <3> QED BY <1>0, <1>2, <3>1, SubSeqProperties
  <2>3. \A i \in 1..n : SubSeq(p, 1, n)[i] = SubSeq(q, 1, n)[i]
    BY <1>1, <1>2, <2>1, <2>2
  <2> QED BY <2>1, <2>2, <2>3, SeqEqual
<1>4. n <= Len(q)
  BY <1>0, <1>2
<1> QED BY <1>1, <1>3, <1>4 DEF Template!IsPrefix, p, q

\* What has been delivered stays delivered.
LEMMA DeliveredStays ==
    ASSUME NEW s \in Seq(Items), NEW t \in Seq(Items), NEW n \in 0..Len(s)
    PROVE  SubSeq(s \o t, 1, n) = SubSeq(s, 1, n)
<1>1. Len(SubSeq(s, 1, n)) = n
  <2>1. \A i \in 1..n : s[i] \in Items
    BY ElementOfSeq
  <2> QED BY <2>1, SubSeqProperties
<1>2. Template!IsPrefix(SubSeq(s, 1, n), s \o t)
  BY PrefixOfPart
<1>3. SubSeq(SubSeq(s, 1, n), 1, n) = SubSeq(s, 1, n)
  <2>1. SubSeq(s, 1, n) \in Seq(Items)
    <3>1. \A i \in 1..n : s[i] \in Items
      BY ElementOfSeq
    <3> QED BY <3>1, SubSeqProperties
  <2> QED BY <1>1, <2>1, SubSeqFull
<1> QED BY <1>1, <1>2, <1>3 DEF Template!IsPrefix

\* A chunk is given to lua_load.
LEMMA GiveStep ==
    ASSUME IInv, IInv', Owes, Owes', NEW items \in Seq(Items),
           pc = "read", pc' \in {"parse", "ended"}, out' = out \o items, given' = Len(out'),
           UNCHANGED <<file, status>>
    PROVE  [Template!Next]_<<file, SubSeq(out, 1, given), status>>
<1>1. /\ out \in Seq(Items) /\ file \in Seq(Chars) /\ given \in 0..Len(out)
      /\ status = "none" /\ out' \in Seq(Items) /\ st' \in States /\ file' = file
  BY DEF IInv, TypeOK, Owes
<1> DEFINE was == SubSeq(out, 1, given)
           rest == Rest(file', st', pos' + 1)
           all == Template!Translation(file).items
<1>2. was' = out'
  <2>1. was' = SubSeq(out', 1, Len(out'))
    OBVIOUS
  <2>2. SubSeq(out', 1, Len(out')) = out'
    BY <1>1, SubSeqFull
  <2> QED BY <2>1, <2>2
<1>3. Template!IsPrefix(was, out')
  BY <1>1, PrefixOfPart
<1>4. out' \o rest.items = all /\ rest.items \in Seq(Items)
  <2>1. Context(file', st', pos' + 1) /\ out' \o rest.items = Template!Translation(file').items
    BY DEF Owes
  <2>2. rest \in Results
    BY <1>1, <2>1, RestType
  <2> HIDE DEF rest
  <2> QED BY <1>1, <2>1, <2>2 DEF Results
<1>5. Template!IsPrefix(out', all)
  <2>1. Len(out') \in 0..Len(out') /\ SubSeq(out', 1, Len(out')) = out'
    BY <1>1, SubSeqFull
  <2>2. Template!IsPrefix(SubSeq(out', 1, Len(out')), out' \o rest.items)
    <3> HIDE DEF rest
    <3> QED BY <1>1, <1>4, <2>1, PrefixOfPart
  <2> QED BY <1>4, <2>1, <2>2
<1>6. CASE was = out'
  BY <1>1, <1>2, <1>6
<1>7. CASE was # out'
  <2>1. Template!IsStrictPrefix(was, out')
    BY <1>3, <1>7 DEF Template!IsStrictPrefix
  <2>2. Template!Deliver
    <3> HIDE DEF all
    <3>1. Template!IsStrictPrefix(SubSeq(out, 1, given), SubSeq(out, 1, given)')
      BY <1>2, <2>1
    <3>2. Template!IsPrefix(SubSeq(out, 1, given)', Template!Translation(file).items)
      BY <1>2, <1>5 DEF all
    <3> QED BY <1>1, <3>1, <3>2 DEF Template!Deliver
  <2> QED BY <2>2 DEF Template!Next
<1> QED BY <1>6, <1>7

\* A character is read: lua_load sees nothing.
LEMMA HiddenStep ==
    ASSUME IInv, NEW items \in Seq(Items), out' = out \o items, UNCHANGED <<file, given, status>>
    PROVE  UNCHANGED <<file, SubSeq(out, 1, given), status>>
<1>1. out \in Seq(Items) /\ given \in 0..Len(out)
  BY DEF IInv, TypeOK
<1>2. SubSeq(out \o items, 1, given) = SubSeq(out, 1, given)
  BY <1>1, DeliveredStays
<1> QED BY <1>2

\* No case of the switch is seen by lua_load.
LEMMA SwitchHidden ==
    ASSUME IInv, Switch
    PROVE  UNCHANGED <<file, SubSeq(out, 1, given), status>>
<1>1. ASSUME NEW t, NEW items \in Seq(Items), Goto(t, items)
      PROVE  UNCHANGED <<file, SubSeq(out, 1, given), status>>
  BY <1>1, HiddenStep DEF Goto, Put
<1>2. ASSUME NEW t, Unget(t)
      PROVE  UNCHANGED <<file, SubSeq(out, 1, given), status>>
  BY <1>2 DEF Unget
<1>3. Ch \in Chars
  <2>1. AtSwitch
    BY DEF Switch, Echo1, Echo2, Echo3, Echo4, Stmt1, Stmt2, Stmt3, Stmt12, Stmt13, Body, Held,
           Comment1, Comment2, Cr1, Cr2, Reading, AtSwitch
  <2> QED BY <2>1, ChIsChar DEF IInv
<1> DEFINE it == AddChar(Ch)
           lt == AddChar("<")
           ec == Expr(Ch)
           eq == Expr("?")
           cc == Code(Ch)
           cq == Code("?")
<1>4. it \in Items /\ lt \in Items /\ ec \in Items /\ eq \in Items /\ cc \in Items /\ cq \in Items
  <2>1. "<" \in Chars /\ "?" \in Chars
    BY DEF Chars
  <2> QED BY <1>3, <2>1, ItemKinds
<1> HIDE DEF it, lt, ec, eq, cc, cq
<1>5. /\ <<it>> \in Seq(Items) /\ <<Beg, it>> \in Seq(Items) /\ <<lt, it>> \in Seq(Items)
      /\ <<Beg, lt, it>> \in Seq(Items) /\ <<ec>> \in Seq(Items) /\ <<eq>> \in Seq(Items)
      /\ <<eq, ec>> \in Seq(Items) /\ <<cc>> \in Seq(Items) /\ <<cq>> \in Seq(Items)
      /\ <<cq, cc>> \in Seq(Items)
  <2>1. Beg \in Items
    BY MarkKinds
  <2> QED BY <1>4, <2>1
<1> USE <1>1, <1>5, ItemSeqs
<1>6. CASE Echo1 \/ Echo2
  BY <1>6 DEF Echo1, Echo2, it
<1>7. CASE Echo3 \/ Echo4
  BY <1>7 DEF Echo3, Echo4, it, lt
<1>8. CASE Stmt1
  BY <1>8 DEF Stmt1, cc
<1>9. CASE Stmt2 \/ Stmt12
  BY <1>9 DEF Stmt2, Stmt12, Body, cc, ec
<1>10. CASE Stmt3
  BY <1>10 DEF Stmt3, Held, ec, eq
<1>11. CASE Stmt13
  BY <1>11 DEF Stmt13, Held, cc, cq
<1>12. CASE Comment1 \/ Comment2
  BY <1>12 DEF Comment1, Comment2
<1>13. CASE Cr1 \/ Cr2
  <2>1. \/ Goto("cr2", <<>>) \/ Goto("echo1", <<>>) \/ Unget("echo1")
    BY <1>13 DEF Cr1, Cr2
  <2> QED BY <2>1, <1>2
<1> QED BY <1>6, <1>7, <1>8, <1>9, <1>10, <1>11, <1>12, <1>13 DEF Switch

\* The steps of luaL_load_lsp_file are the template's verdicts.
LEMMA LoadImplements ==
    ASSUME IInv, Owes, Load
    PROVE  [Template!Next]_<<file, SubSeq(out, 1, given), status>>
<1>1. out \in Seq(Items) /\ given \in 0..Len(out)
  BY DEF IInv, TypeOK
<1>2. CASE Open
  <2>1. pc = "start" /\ out = <<>> /\ status = "none" /\ UNCHANGED <<file, out, given>>
    BY <1>2 DEF Open, Owes
  <2>2. SubSeq(out, 1, given) = <<>>
    <3>1. Len(out) = 0
      BY <2>1
    <3>2. given = 0
      BY <1>1, <3>1
    <3> QED BY <3>2, SubSeqEmpty
  <2>3. CASE status' = status
    BY <2>1, <2>3
  <2>4. CASE status' = "ERRERR"
    BY <2>1, <2>2, <2>4 DEF Template!Next, Template!Fail
  <2> QED BY <1>2, <2>3, <2>4 DEF Open
<1>3. CASE Call
  BY <1>3 DEF Call
<1>4. CASE ParserError
  <2>1. /\ status' = "ERRSYNTAX" /\ status = "none" /\ UNCHANGED <<file, out, given>>
    BY <1>4 DEF ParserError, Return, Owes
  <2>2. PICK i \in 1..given : out[i].k \in {"code", "expr", "send"}
    BY <1>4 DEF ParserError
  <2>3. i \in DOMAIN SubSeq(out, 1, given) /\ SubSeq(out, 1, given)[i] = out[i]
    <3> DEFINE d == SubSeq(out, 1, given)
    <3>1. \A n \in 1..given : out[n] \in Items
      BY <1>1, ElementOfSeq
    <3>2. given \in Nat /\ (1 <= given <=> given # 0)
      BY <1>1
    <3>3. d \in Seq(Items) /\ Len(d) = given /\ \A n \in 1..given : d[n] = out[n]
      <4>1. Len(d) = given
        BY <3>1, <3>2, SubSeqProperties
      <4> QED BY <3>1, <3>2, <4>1, SubSeqProperties
    <3> HIDE DEF d
    <3>4. DOMAIN d = 1..given
      BY <3>3
    <3> QED BY <3>3, <3>4 DEF d
  <2>4. Template!Fail
    BY <2>1, <2>2, <2>3, Zenon DEF Template!Fail
  <2> QED BY <2>4 DEF Template!Next
<1>5. CASE Accept
  <2>1. /\ pc = "ended" /\ status' = "OK" /\ status = "none" /\ st = "unknown"
        /\ given = Len(out) /\ UNCHANGED <<file, out, given>>
    BY <1>5 DEF Accept, Return, Owes, IInv, Stage, WholePage
  <2>2. SubSeq(out, 1, given) = out
    BY <1>1, <2>1, SubSeqFull
  <2>3. /\ out \o Rest(file, st, pos + 1).items = Template!Translation(file).items
        /\ Rest(file, st, pos + 1).closed = Template!Translation(file).closed
    BY <2>1 DEF Owes
  <2>4. Rest(file, st, pos + 1) = [items |-> <<>>, closed |-> TRUE]
    BY <2>1, RestIs
  <2>5. out = Template!Translation(file).items /\ Template!Translation(file).closed
    BY <1>1, <2>3, <2>4, ConcatEmptySeq
  <2>6. Template!Take
    BY <2>1, <2>2, <2>5 DEF Template!Take
  <2> QED BY <2>6 DEF Template!Next
<1> QED BY <1>2, <1>3, <1>4, <1>5 DEF Load

\* The steps of lsp_reader deliver, fail or are not seen.
LEMMA ReaderImplements ==
    ASSUME IInv, IInv', Owes, Owes', Reader
    PROVE  [Template!Next]_<<file, SubSeq(out, 1, given), status>>
<1>1. CASE ChunkFull
  <2>1. /\ pc = "read" /\ pc' \in {"parse", "ended"} /\ given' = Len(out)
        /\ UNCHANGED <<file, out, status>>
    BY <1>1 DEF ChunkFull, GiveChunk
  <2>2. out' = out \o <<>> /\ given' = Len(out')
    BY <2>1, ConcatEmptySeq DEF IInv, TypeOK
  <2> QED BY <2>1, <2>2, ItemSeqs, GiveStep
<1>2. CASE Eof
  <2>1. /\ pc = "read" /\ pc' \in {"parse", "ended"} /\ given' = Len(out')
        /\ out' = out \o EofItems /\ UNCHANGED <<file, status>>
    BY <1>2 DEF Eof, AtEof, GiveChunk
  <2>2. EofItems \in Seq(Items)
    BY <1>2, EofOwes
  <2> QED BY <2>1, <2>2, GiveStep
<1>3. CASE SyntaxError
  <2>1. /\ pc = "read" /\ pos = Len(file) /\ st \notin Closable /\ status' = "ERRRUN"
        /\ UNCHANGED <<file, out, given>>
    BY <1>3 DEF SyntaxError, AtEof, Return
  <2>2. /\ Context(file, st, pos + 1) /\ status = "none"
        /\ Rest(file, st, pos + 1).closed = Template!Translation(file).closed
    BY <2>1 DEF Owes
  <2>3. file \in Seq(Chars) /\ st \in States \ {"unknown"}
    BY <2>1 DEF IInv, TypeOK, Closable
  <2>4. ~Rest(file, st, pos + 1).closed
    BY <2>1, <2>2, <2>3, EndWrites
  <2>5. Template!Fail
    BY <2>1, <2>2, <2>4 DEF Template!Fail
  <2> QED BY <2>5 DEF Template!Next
<1>4. CASE Switch
  BY <1>4, SwitchHidden
<1> QED BY <1>1, <1>2, <1>3, <1>4 DEF Reader

\* lua_load receives the translation of the page, piece by piece, and no load ends
\* with another verdict than the page's: luaL_load_lsp_file (llsplib.cpp:226)
\* implements LspTemplate, whatever the page and wherever the buffer cuts it.
THEOREM ReaderImplementsTemplate == Spec => ImplementsTemplate
<1>1. Init => Owes
  BY DEF Init, Owes
<1>2. Init => Template!Init
  <2>1. SubSeq(<<>>, 1, 0) = <<>>
    BY SubSeqEmpty
  <2> QED BY <2>1 DEF Init, Template!Init
<1>3. IInv /\ IInv' /\ Owes /\ Owes' /\ [Next]_vars
        => [Template!Next]_<<file, SubSeq(out, 1, given), status>>
  <2>1. ASSUME UNCHANGED vars PROVE UNCHANGED <<file, SubSeq(out, 1, given), status>>
    BY <2>1 DEF vars
  <2> QED BY <2>1, LoadImplements, ReaderImplements DEF Next
<1>4. Spec => []Owes
  BY <1>1, NextOwes, Invariance, PTL DEF Spec
<1>5. ImplementsTemplate <=> Template!Init /\ [][Template!Next]_<<file, SubSeq(out, 1, given), status>>
  BY DEF ImplementsTemplate, Template!Spec
<1> QED BY <1>2, <1>3, <1>4, <1>5, Invariance, PTL DEF Spec
================================================================================
