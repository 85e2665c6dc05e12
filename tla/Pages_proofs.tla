------------------------------ MODULE Pages_proofs -----------------------------
(***************************************************************************)
(* What llsplib.cpp does for its pages, for any pages, hosts and range of  *)
(* size_t, and any processes, versions and length of time.                 *)
(*                                                                         *)
(* PageOutput implements OutStream: the client gets the page's text in     *)
(* order, nothing twice, and nothing is left out unless a write has        *)
(* failed.  Every step is shown to send a prefix of the text it is about,  *)
(* and to lose the rest of it only by a failure (Sends).  That this is     *)
(* what is Left before and after needs where the loop is: above all that   *)
(* -1 finds the offset at 0, so that it wraps beyond every text (Offset).  *)
(*                                                                         *)
(* ScriptCache never shows half a compiled page.  When no page is edited   *)
(* between being read and being written compiled, what is written at the   *)
(* time of the page or later is its last version (CacheInTime), although   *)
(* it may replace a newer one when it is renamed.                          *)
(***************************************************************************)
EXTENDS MCPages, SequenceTheorems, WellFoundedInduction, TLAPS

Octets == Nat \X Nat \X Nat
Labels == {"arg", "write", "sep", "done", "error"}

\* Where the loops are
Place == pc \in {"arg", "write", "sep"} =>
           /\ c \in 1..Len(page) /\ i \in 1..(Len(args) + 1)
           /\ pc # "arg" => i <= Len(args)
\* Apache writes a text at once, or not at all: its offset is never in the middle.
Offset == pc = "write" => /\ ll \in Nat
                          /\ host = "apache" => ll = 0 \/ ll >= length
IInv == /\ page \in Pages /\ host \in Hosts /\ pc \in Labels
        /\ io \in {"good", "short", "broken"}
        /\ Place /\ Offset
--------------------------------------------------------------------------------
(***************************************************************************)
(* Texts, one after the other.                                             *)
(***************************************************************************)
\* A set of numbers has a least one.
LEMMA LeastOf == ASSUME NEW T, T \subseteq Nat, T # {}
                 PROVE  \E n \in T : \A m \in T : n <= m
<1>1. \E n \in T : \A m \in T : ~(<<m, n>> \in OpToRel(<, Nat))
  BY NatLessThanWellFounded, WFMin
<1>2. PICK n \in T : \A m \in T : ~(m < n)
  BY <1>1 DEF OpToRel
<1> QED BY <1>2

\* Induction, over a set: no predicate is needed.
LEMMA SetInduction == ASSUME NEW T, 0 \in T, \A n \in Nat : n \in T => n + 1 \in T
                      PROVE  Nat \subseteq T
<1> SUFFICES ASSUME Nat \ T # {} PROVE FALSE
  OBVIOUS
<1>1. PICK n \in Nat \ T : \A m \in Nat \ T : n <= m
  BY LeastOf
<1>2. n # 0 /\ n - 1 \in Nat /\ n - 1 \notin Nat \ T
  BY <1>1
<1>3. (n - 1) + 1 \in T
  BY <1>2
<1> QED BY <1>1, <1>3

\* What the texts give from k on, if f is what they give later
FromStep(texts, f, k) == IF k > Len(texts) THEN <<>> ELSE texts[k] \o f[k + 1]

\* The recursive function satisfies its equation, for any number of texts.
LEMMA FromUnfolds ==
    ASSUME NEW texts, Len(texts) \in Nat
    PROVE  From(texts) = [k \in 1..(Len(texts) + 1) |-> FromStep(texts, From(texts), k)]
<1> DEFINE N == Len(texts) + 1
           S == {n \in Nat : n < N => \E f : f = [k \in N-n..N |-> FromStep(texts, f, k)]}
<1>1. 0 \in S
  <2> DEFINE f == [k \in N-0..N |-> <<>>]
  <2>1. \A k \in N-0..N : FromStep(texts, f, k) = <<>>
    BY DEF FromStep
  <2>2. f = [k \in N-0..N |-> FromStep(texts, f, k)]
    BY <2>1
  <2> QED BY <2>2
<1>2. ASSUME NEW n \in Nat, n \in S PROVE n + 1 \in S
  <2> SUFFICES ASSUME n + 1 < N
               PROVE  \E f : f = [k \in N-(n+1)..N |-> FromStep(texts, f, k)]
    OBVIOUS
  <2>1. PICK h : h = [k \in N-n..N |-> FromStep(texts, h, k)]
    BY <1>2
  <2> DEFINE f == [k \in N-(n+1)..N |-> IF k = N-(n+1) THEN FromStep(texts, h, k) ELSE h[k]]
  <2>2. ASSUME NEW k \in N-(n+1)..N PROVE FromStep(texts, f, k) = FromStep(texts, h, k)
    <3>1. k <= Len(texts) => k + 1 \in N-(n+1)..N /\ k + 1 # N-(n+1)
      OBVIOUS
    <3>2. k <= Len(texts) => f[k + 1] = h[k + 1]
      BY <3>1
    <3> HIDE DEF f
    <3> QED BY <3>2 DEF FromStep
  <2>3. ASSUME NEW k \in N-(n+1)..N PROVE f[k] = FromStep(texts, f, k)
    <3>1. CASE k = N-(n+1)
      BY <3>1, <2>2
    <3>2. CASE k # N-(n+1)
      <4>1. k \in N-n..N
        BY <3>2
      <4>2. h[k] = FromStep(texts, h, k)
        BY <4>1, <2>1
      <4> QED BY <3>2, <4>2, <2>2
    <3> QED BY <3>1, <3>2
  <2>4. f = [k \in N-(n+1)..N |-> FromStep(texts, f, k)]
    BY <2>3
  <2> QED BY <2>4
<1>3. N - 1 \in S
  <2> HIDE DEF S
  <2>1. Nat \subseteq S
    BY <1>1, <1>2, SetInduction
  <2> QED BY <2>1
<1>4. \E f : f = [k \in 1..N |-> FromStep(texts, f, k)]
  <2>1. N - (N - 1) = 1 /\ N - 1 < N
    OBVIOUS
  <2> QED BY <1>3, <2>1
<1> QED BY <1>4, Zenon DEF From, FromStep

\* From the last text on there is nothing more, from each other one on its text and the rest.
LEMMA FromIs ==
    ASSUME NEW texts \in Seq(Seq(Octets))
    PROVE  /\ From(texts)[Len(texts) + 1] = <<>>
           /\ \A k \in 1..Len(texts) : From(texts)[k] = texts[k] \o From(texts)[k + 1]
           /\ \A k \in 1..(Len(texts) + 1) : From(texts)[k] \in Seq(Octets)
<1>0. Len(texts) \in Nat /\ \A k \in 1..Len(texts) : texts[k] \in Seq(Octets)
  OBVIOUS
<1>1. \A k \in 1..(Len(texts) + 1) : From(texts)[k] = FromStep(texts, From(texts), k)
  <2> DEFINE f == From(texts)
             g == [k \in 1..(Len(texts) + 1) |-> FromStep(texts, f, k)]
  <2>1. f = g
    BY <1>0, FromUnfolds
  <2>2. \A k \in 1..(Len(texts) + 1) : g[k] = FromStep(texts, f, k)
    OBVIOUS
  <2> HIDE DEF f, g
  <2> QED BY <2>1, <2>2 DEF f
<1> DEFINE f == From(texts)
<1> HIDE DEF f
<1>a. \A k \in 1..(Len(texts) + 1) : f[k] = FromStep(texts, f, k)
  BY <1>1 DEF f
<1>2. f[Len(texts) + 1] = <<>>
  <2> DEFINE n == Len(texts) + 1
  <2>1. n \in 1..(Len(texts) + 1) /\ n > Len(texts)
    BY <1>0
  <2> HIDE DEF n
  <2>2. f[n] = <<>>
    BY <1>a, <2>1 DEF FromStep
  <2> QED BY <2>2 DEF n
<1>3. \A k \in 1..Len(texts) : f[k] = texts[k] \o f[k + 1]
  <2> SUFFICES ASSUME NEW k \in 1..Len(texts) PROVE f[k] = texts[k] \o f[k + 1]
    OBVIOUS
  <2>1. k \in 1..(Len(texts) + 1) /\ ~(k > Len(texts))
    BY <1>0
  <2> QED BY <1>a, <2>1, Zenon DEF FromStep
<1>4. \A k \in 1..(Len(texts) + 1) : f[k] \in Seq(Octets)
  <2> DEFINE S == {n \in Nat : n <= Len(texts) => f[Len(texts) + 1 - n] \in Seq(Octets)}
  <2>1. 0 \in S
    <3>1. <<>> \in Seq(Octets)
      OBVIOUS
    <3>2. Len(texts) + 1 - 0 = Len(texts) + 1
      BY <1>0
    <3> QED BY <1>2, <3>1, <3>2
  <2>2. ASSUME NEW n \in Nat, n \in S PROVE n + 1 \in S
    <3> SUFFICES ASSUME n + 1 <= Len(texts) PROVE f[Len(texts) + 1 - (n + 1)] \in Seq(Octets)
      OBVIOUS
    <3> DEFINE k == Len(texts) + 1 - (n + 1)
    <3>1. k \in 1..Len(texts) /\ k + 1 = Len(texts) + 1 - n
      BY <1>0
    <3>2. f[k + 1] \in Seq(Octets)
      BY <1>0, <2>2, <3>1
    <3>3. f[k] = texts[k] \o f[k + 1] /\ texts[k] \in Seq(Octets)
      BY <1>0, <1>3, <3>1
    <3> HIDE DEF k
    <3>4. f[k] \in Seq(Octets)
      BY <3>2, <3>3, ConcatProperties
    <3> QED BY <3>4 DEF k
  <2>3. Nat \subseteq S
    <3> HIDE DEF S
    <3> QED BY <2>1, <2>2, SetInduction
  <2>4. ASSUME NEW k \in 1..(Len(texts) + 1) PROVE f[k] \in Seq(Octets)
    <3> DEFINE n == Len(texts) + 1 - k
    <3>1. n \in Nat /\ n <= Len(texts) /\ Len(texts) + 1 - n = k
      BY <1>0
    <3>2. n \in S
      BY <2>3, <3>1
    <3> QED BY <3>1, <3>2
  <2> QED BY <2>4
<1> QED BY <1>2, <1>3, <1>4 DEF f

(***************************************************************************)
(* The texts of arguments, calls and pages.                                *)
(***************************************************************************)
LEMMA PageTypes ==
    ASSUME NEW p \in Pages
    PROVE  /\ Len(p) \in Nat
           /\ \A d \in 1..Len(p) : /\ p[d].fn \in {"echo", "print"}
                                   /\ p[d].args \in Seq(Lengths \cup {NoString})
                                   /\ Len(p[d].args) \in Nat
<1>1. p \in Seq([fn : {"echo", "print"}, args : Seq(Lengths \cup {NoString})])
  BY PagesAssumption
<1>2. \A d \in 1..Len(p) : p[d] \in [fn : {"echo", "print"}, args : Seq(Lengths \cup {NoString})]
  BY <1>1, ElementOfSeq
<1> QED BY <1>1, <1>2

\* How long the text of an argument is
Size(a) == IF a = NoString THEN 0 ELSE a

LEMMA ArgumentIs ==
    ASSUME NEW p \in Pages, NEW d \in 1..Len(p), NEW j \in 1..Len(p[d].args)
    PROVE  /\ Size(p[d].args[j]) \in Lengths
           /\ Bytes(p, d, j) \in Seq(Octets) /\ Len(Bytes(p, d, j)) = Size(p[d].args[j])
           /\ Separator(p, d, j) \in Seq(Octets)
<1>1. Len(p) \in Nat /\ Len(p[d].args) \in Nat /\ d \in Nat /\ j \in Nat
  BY PageTypes
<1> DEFINE n == Size(p[d].args[j])
<1>2. n \in Lengths
  <2>1. p[d].args[j] \in Lengths \cup {NoString}
    BY PageTypes, ElementOfSeq
  <2>2. 0 \in Lengths
    BY PagesAssumption DEF Lengths
  <2> QED BY <2>1, <2>2 DEF Size
<1>3. n \in Nat
  BY <1>2, PagesAssumption DEF Lengths
<1>4. Bytes(p, d, j) = [k \in 1..n |-> <<d, j, k>>]
  BY Zenon DEF Bytes, Size
<1> HIDE DEF n
<1>5. [k \in 1..n |-> <<d, j, k>>] \in Seq(Octets) /\ Len([k \in 1..n |-> <<d, j, k>>]) = n
  <2>1. \A k \in 1..n : <<d, j, k>> \in Octets
    BY <1>1, <1>3 DEF Octets
  <2> QED BY <1>3, <2>1
<1>6. Separator(p, d, j) \in Seq(Octets)
  <2>1. <<d, j, 0>> \in Octets
    BY <1>1 DEF Octets
  <2> DEFINE o == <<d, j, 0>>
  <2> HIDE DEF o
  <2>2. <<o>> \in Seq(Octets) /\ <<>> \in Seq(Octets)
    BY <2>1 DEF o
  <2> QED BY <2>2 DEF Separator, o
<1> QED BY <1>2, <1>4, <1>5, <1>6 DEF n

LEMMA NewLineIs ==
    ASSUME NEW p \in Pages, NEW d \in 1..Len(p)
    PROVE  NewLine(p, d) \in Seq(Octets)
<1>1. <<d, 0, 0>> \in Octets
  BY PageTypes DEF Octets
<1> DEFINE o == <<d, 0, 0>>
<1> HIDE DEF o
<1>2. <<o>> \in Seq(Octets) /\ <<>> \in Seq(Octets)
  BY <1>1 DEF o
<1> QED BY <1>2 DEF NewLine, o

\* A call gives its arguments' texts, each with what follows it, and its end of line.
LEMMA CallIs ==
    ASSUME NEW p \in Pages, NEW d \in 1..Len(p)
    PROVE  /\ \A j \in 1..Len(p[d].args) :
                CallText(p, d)[j] = (Bytes(p, d, j) \o Separator(p, d, j)) \o CallText(p, d)[j + 1]
           /\ CallText(p, d)[Len(p[d].args) + 1] = NewLine(p, d)
           /\ \A j \in 1..(Len(p[d].args) + 1) : CallText(p, d)[j] \in Seq(Octets)
<1> DEFINE n == Len(p[d].args)
           parts == [j \in 1..(n + 1) |-> IF j > n THEN NewLine(p, d)
                                          ELSE Bytes(p, d, j) \o Separator(p, d, j)]
           t == CallText(p, d)
<1>1. n \in Nat
  BY PageTypes
<1>2. NewLine(p, d) \in Seq(Octets)
  BY NewLineIs
<1>3. \A j \in 1..n : Bytes(p, d, j) \o Separator(p, d, j) \in Seq(Octets)
  BY ArgumentIs, ConcatProperties
<1>4. parts \in Seq(Seq(Octets)) /\ Len(parts) = n + 1
  BY <1>1, <1>2, <1>3
<1>5. /\ parts[n + 1] = NewLine(p, d)
      /\ \A j \in 1..n : parts[j] = Bytes(p, d, j) \o Separator(p, d, j)
  BY <1>1
<1>6. t = From(parts)
  BY Zenon DEF CallText
<1> HIDE DEF t, parts
<1>7. /\ t[(n + 1) + 1] = <<>>
      /\ \A k \in 1..(n + 1) : t[k] = parts[k] \o t[k + 1]
      /\ \A k \in 1..((n + 1) + 1) : t[k] \in Seq(Octets)
  BY <1>4, <1>6, FromIs
<1>8. t[n + 1] = NewLine(p, d)
  <2>1. n + 1 \in 1..(n + 1)
    BY <1>1
  <2>2. t[n + 1] = NewLine(p, d) \o <<>>
    BY <1>5, <1>7, <2>1, Zenon
  <2> QED BY <1>2, <2>2, ConcatEmptySeq
<1>9. ASSUME NEW j \in 1..n
      PROVE  t[j] = (Bytes(p, d, j) \o Separator(p, d, j)) \o t[j + 1]
  <2>1. j \in 1..(n + 1)
    BY <1>1
  <2>2. t[j] = parts[j] \o t[j + 1] /\ parts[j] = Bytes(p, d, j) \o Separator(p, d, j)
    BY <1>5, <1>7, <2>1
  <2> QED BY <2>2
<1>10. \A j \in 1..(n + 1) : t[j] \in Seq(Octets)
  BY <1>1, <1>7
<1> QED BY <1>8, <1>9, <1>10, Zenon DEF t

\* A page gives what its calls do.
LEMMA PageIs ==
    ASSUME NEW p \in Pages
    PROVE  /\ PageText(p)[Len(p) + 1] = <<>>
           /\ \A d \in 1..Len(p) : PageText(p)[d] = CallText(p, d)[1] \o PageText(p)[d + 1]
           /\ \A d \in 1..(Len(p) + 1) : PageText(p)[d] \in Seq(Octets)
<1> DEFINE calls == [d \in 1..Len(p) |-> CallText(p, d)[1]]
           t == PageText(p)
<1>1. Len(p) \in Nat /\ \A d \in 1..Len(p) : 1 \in 1..(Len(p[d].args) + 1)
  BY PageTypes
<1>2. \A d \in 1..Len(p) : CallText(p, d)[1] \in Seq(Octets)
  BY <1>1, CallIs
<1>3. calls \in Seq(Seq(Octets)) /\ Len(calls) = Len(p)
  BY <1>1, <1>2
<1>4. \A d \in 1..Len(p) : calls[d] = CallText(p, d)[1]
  OBVIOUS
<1>5. t = From(calls)
  BY Zenon DEF PageText
<1> HIDE DEF t, calls
<1>6. /\ t[Len(p) + 1] = <<>>
      /\ \A k \in 1..Len(p) : t[k] = calls[k] \o t[k + 1]
      /\ \A k \in 1..(Len(p) + 1) : t[k] \in Seq(Octets)
  BY <1>3, <1>5, FromIs
<1> QED BY <1>4, <1>6 DEF t

(***************************************************************************)
(* What is left.                                                           *)
(***************************************************************************)
\* What call d of p gives from argument j on, and the calls after it
After(p, d, j) == CallText(p, d)[j] \o PageText(p)[d + 1]
Text(p, d, j, n) == SubSeq(Bytes(p, d, j), n + 1, Len(Bytes(p, d, j)))
Owed(p, l, d, j, n) ==
    CASE l \in {"done", "error"} -> <<>>
      [] l = "arg"   -> After(p, d, j)
      [] l = "write" -> Text(p, d, j, n) \o (Separator(p, d, j) \o After(p, d, j + 1))
      [] l = "sep"   -> Separator(p, d, j) \o After(p, d, j + 1)

LEMMA AfterIs ==
    ASSUME NEW p \in Pages, NEW d \in 1..Len(p)
    PROVE  /\ \A j \in 1..Len(p[d].args) :
                After(p, d, j) = Bytes(p, d, j) \o (Separator(p, d, j) \o After(p, d, j + 1))
           /\ After(p, d, Len(p[d].args) + 1) = NewLine(p, d) \o PageText(p)[d + 1]
           /\ After(p, d, 1) = PageText(p)[d]
           /\ \A j \in 1..(Len(p[d].args) + 1) : After(p, d, j) \in Seq(Octets)
           /\ PageText(p)[d + 1] \in Seq(Octets)
<1> DEFINE n == Len(p[d].args)
           q == PageText(p)[d + 1]
           t == CallText(p, d)
<1>1. n \in Nat /\ Len(p) \in Nat /\ d + 1 \in 1..(Len(p) + 1)
  BY PageTypes
<1>2. q \in Seq(Octets)
  BY <1>1, PageIs
<1>3. /\ \A j \in 1..n : t[j] = (Bytes(p, d, j) \o Separator(p, d, j)) \o t[j + 1]
      /\ t[n + 1] = NewLine(p, d)
      /\ \A j \in 1..(n + 1) : t[j] \in Seq(Octets)
  BY CallIs
<1>4. PageText(p)[d] = t[1] \o q
  BY PageIs
<1>5. \A j : After(p, d, j) = t[j] \o q
  BY Zenon DEF After
<1> HIDE DEF t, q, n
<1>6. ASSUME NEW j \in 1..n
      PROVE  t[j] \o q = Bytes(p, d, j) \o (Separator(p, d, j) \o (t[j + 1] \o q))
  <2> DEFINE a == Bytes(p, d, j)
             b == Separator(p, d, j)
             u == t[j + 1]
  <2>1. a \in Seq(Octets) /\ b \in Seq(Octets)
    BY ArgumentIs DEF n
  <2>2. u \in Seq(Octets) /\ t[j] = (a \o b) \o u
    <3>1. j + 1 \in 1..(n + 1)
      BY <1>1
    <3> QED BY <1>3, <3>1
  <2> HIDE DEF a, b, u
  <2>3. a \o b \in Seq(Octets) /\ u \o q \in Seq(Octets)
    BY <1>2, <2>1, <2>2, ConcatProperties
  <2>4. ((a \o b) \o u) \o q = (a \o b) \o (u \o q)
    BY <1>2, <2>2, <2>3, ConcatAssociative
  <2>5. (a \o b) \o (u \o q) = a \o (b \o (u \o q))
    <3> DEFINE w == u \o q
    <3>1. w \in Seq(Octets)
      BY <2>3
    <3> HIDE DEF w
    <3>2. (a \o b) \o w = a \o (b \o w)
      BY <2>1, <3>1, ConcatAssociative
    <3> QED BY <3>2 DEF w
  <2>6. t[j] \o q = a \o (b \o (u \o q))
    BY <2>2, <2>4, <2>5
  <2> QED BY <2>6 DEF a, b, u
<1>7. \A j \in 1..(n + 1) : t[j] \o q \in Seq(Octets)
  BY <1>2, <1>3, ConcatProperties
<1>8. \A j \in 1..n : After(p, d, j) = Bytes(p, d, j) \o (Separator(p, d, j) \o After(p, d, j + 1))
  BY <1>5, <1>6
<1>9. /\ After(p, d, n + 1) = NewLine(p, d) \o q
      /\ After(p, d, 1) = PageText(p)[d]
      /\ \A j \in 1..(n + 1) : After(p, d, j) \in Seq(Octets)
  BY <1>3, <1>4, <1>5, <1>7
<1> QED BY <1>2, <1>8, <1>9 DEF n, q

\* What is left is what is owed, now and after a step.
LEMMA LeftIs ==
    ASSUME page \in Pages, pc \in Labels, Place
    PROVE  Left = Owed(page, pc, c, i, ll)
<1>1. pc = "write" => length = Len(Bytes(page, c, i))
  BY ArgumentIs DEF Place, length, args, Size
<1> QED BY <1>1 DEF Left, Owed, After, Text, Labels

LEMMA LeftNext ==
    ASSUME page' \in Pages, pc' \in Labels, Place'
    PROVE  Left' = Owed(page', pc', c', i', ll')
<1>1. pc' = "write" => length' = Len(Bytes(page', c', i'))
  BY ArgumentIs DEF Place, length, args, Size
<1> QED BY <1>1 DEF Left, Owed, After, Text, Labels

\* A prefix of a text, and what is left of it, when other text follows
LEMMA Sent ==
    ASSUME NEW text \in Seq(Octets), NEW rest \in Seq(Octets), NEW m \in 0..Len(text), NEW k \in 0..m
    PROVE  /\ m \in 0..Len(text \o rest)
           /\ SubSeq(text \o rest, 1, k) = SubSeq(text, 1, k)
           /\ SubSeq(text \o rest, m + 1, Len(text \o rest)) = SubSeq(text, m + 1, Len(text)) \o rest
<1> DEFINE all == text \o rest
           head == SubSeq(text, m + 1, Len(text))
<1>1. /\ all \in Seq(Octets) /\ Len(all) = Len(text) + Len(rest)
      /\ \A n \in 1..Len(text) + Len(rest) : all[n] = IF n <= Len(text) THEN text[n] ELSE rest[n - Len(text)]
  BY ConcatProperties
<1>2. Len(text) \in Nat /\ Len(rest) \in Nat /\ m \in Nat /\ k \in Nat /\ m <= Len(text) /\ k <= m
  OBVIOUS
<1> HIDE DEF all
<1>3. SubSeq(all, 1, k) = SubSeq(text, 1, k)
  BY <1>1, <1>2
<1>4. /\ head \in Seq(Octets) /\ Len(head) = Len(text) - m
      /\ \A n \in 1..Len(text) - m : head[n] = text[m + n]
  BY <1>2
<1> DEFINE tail == SubSeq(all, m + 1, Len(all))
           other == head \o rest
<1>5. /\ tail \in Seq(Octets) /\ Len(tail) = Len(all) - m
      /\ \A n \in 1..Len(all) - m : tail[n] = all[m + n]
  BY <1>1, <1>2
<1> HIDE DEF head, tail
<1>6. /\ other \in Seq(Octets) /\ Len(other) = (Len(text) - m) + Len(rest)
      /\ \A n \in 1..(Len(text) - m) + Len(rest) :
           other[n] = IF n <= Len(text) - m THEN head[n] ELSE rest[n - (Len(text) - m)]
  <2>1. /\ other \in Seq(Octets) /\ Len(other) = Len(head) + Len(rest)
        /\ \A n \in 1..Len(head) + Len(rest) :
             other[n] = IF n <= Len(head) THEN head[n] ELSE rest[n - Len(head)]
    BY <1>4, ConcatProperties
  <2> QED BY <1>4, <2>1, Zenon
<1> HIDE DEF other
<1>7. Len(tail) = Len(other)
  BY <1>1, <1>2, <1>5, <1>6
<1>8. ASSUME NEW n \in 1..Len(tail) PROVE tail[n] = other[n]
  <2>1. n \in 1..(Len(text) + Len(rest)) - m /\ m + n \in 1..Len(text) + Len(rest)
    BY <1>1, <1>2, <1>5
  <2>2. tail[n] = all[m + n]
    BY <1>1, <1>5, <2>1
  <2>3. CASE n <= Len(text) - m
    <3>1. all[m + n] = text[m + n] /\ head[n] = text[m + n] /\ other[n] = head[n]
      BY <1>1, <1>2, <1>4, <1>6, <2>1, <2>3
    <3> QED BY <2>2, <3>1
  <2>4. CASE ~(n <= Len(text) - m)
    <3>1. all[m + n] = rest[(m + n) - Len(text)] /\ other[n] = rest[n - (Len(text) - m)]
      BY <1>1, <1>2, <1>6, <2>1, <2>4
    <3>2. (m + n) - Len(text) = n - (Len(text) - m)
      BY <1>2, <2>1
    <3> QED BY <2>2, <3>1, <3>2
  <2> QED BY <2>3, <2>4
<1>9. tail = other
  BY <1>5, <1>6, <1>7, <1>8, SeqEqual
<1>10. m \in 0..Len(all)
  BY <1>1, <1>2
<1> QED BY <1>3, <1>9, <1>10, Zenon DEF all, tail, other, head

\* A step that sends k bytes of a text, and loses those up to m, is one of the stream.
LEMMA Sends ==
    ASSUME NEW text \in Seq(Octets), NEW rest \in Seq(Octets), NEW m \in 0..Len(text), NEW k \in 0..m,
           Left = text \o rest, Left' = SubSeq(text, m + 1, Len(text)) \o rest,
           out' = out \o SubSeq(text, 1, k),
           k < m => io' # "good", io # "good" => io' # "good",
           pc # "error", pc' # "error"
    PROVE  Stream!Send
<1>1. /\ m \in 0..Len(Left) /\ out' = out \o SubSeq(Left, 1, k)
      /\ Left' = SubSeq(Left, m + 1, Len(Left))
  BY Sent
<1> QED BY <1>1 DEF Stream!Send

\* What is left of an argument's text after n bytes more
LEMMA TextMoves ==
    ASSUME NEW p \in Pages, NEW d \in 1..Len(p), NEW j \in 1..Len(p[d].args), NEW a \in Nat
    PROVE  /\ Text(p, d, j, a) \in Seq(Octets)
           /\ a >= Len(Bytes(p, d, j)) => Text(p, d, j, a) = <<>>
           /\ a <= Len(Bytes(p, d, j)) =>
                /\ Len(Text(p, d, j, a)) = Len(Bytes(p, d, j)) - a
                /\ \A n \in 0..(Len(Bytes(p, d, j)) - a) :
                     SubSeq(Text(p, d, j, a), n + 1, Len(Text(p, d, j, a))) = Text(p, d, j, a + n)
<1> DEFINE b == Bytes(p, d, j)
           t(e) == SubSeq(b, e + 1, Len(b))
<1>1. b \in Seq(Octets) /\ Len(b) \in Nat
  BY ArgumentIs
<1>2. \A e : Text(p, d, j, e) = t(e)
  BY Zenon DEF Text
<1> HIDE DEF b
<1>3. ASSUME NEW e \in Nat
      PROVE  /\ t(e) \in Seq(Octets) /\ Len(t(e)) = IF e <= Len(b) THEN Len(b) - e ELSE 0
             /\ \A k \in 1..(Len(b) - e) : t(e)[k] = b[e + k]
  <2>1. \A k \in (e + 1)..Len(b) : b[k] \in Octets
    BY <1>1, ElementOfSeq
  <2>2. /\ t(e) \in Seq(Octets)
        /\ Len(t(e)) = IF e + 1 <= Len(b) THEN Len(b) - (e + 1) + 1 ELSE 0
        /\ \A k \in 1..(Len(b) - (e + 1) + 1) : t(e)[k] = b[(e + 1) + k - 1]
    BY <1>1, <2>1, SubSeqProperties
  <2>3. Len(t(e)) = IF e <= Len(b) THEN Len(b) - e ELSE 0
    BY <1>1, <2>2
  <2>4. ASSUME NEW k \in 1..(Len(b) - e) PROVE t(e)[k] = b[e + k]
    <3>1. (e + 1) + k - 1 = e + k /\ k \in 1..(Len(b) - (e + 1) + 1)
      BY <1>1
    <3> QED BY <2>2, <3>1
  <2> QED BY <2>2, <2>3, <2>4
<1>4. a >= Len(b) => t(a) = <<>>
  BY <1>1, SubSeqEmpty
<1>5. ASSUME a <= Len(b), NEW n \in 0..(Len(b) - a)
      PROVE  SubSeq(t(a), n + 1, Len(t(a))) = t(a + n)
  <2> DEFINE u == t(a)
             v == t(a + n)
             w == SubSeq(u, n + 1, Len(u))
  <2>1. /\ u \in Seq(Octets) /\ Len(u) = Len(b) - a
        /\ \A k \in 1..(Len(b) - a) : u[k] = b[a + k]
    BY <1>3, <1>5
  <2>2. a + n \in Nat /\ a + n <= Len(b)
    BY <1>1, <1>5
  <2>3. /\ v \in Seq(Octets) /\ Len(v) = Len(b) - (a + n)
        /\ \A k \in 1..(Len(b) - (a + n)) : v[k] = b[(a + n) + k]
    BY <1>3, <2>2
  <2> HIDE DEF u, v
  <2>4. \A k \in (n + 1)..Len(u) : u[k] \in Octets
    BY <2>1, ElementOfSeq
  <2>5. /\ w \in Seq(Octets)
        /\ Len(w) = IF n + 1 <= Len(u) THEN Len(u) - (n + 1) + 1 ELSE 0
        /\ \A k \in 1..(Len(u) - (n + 1) + 1) : w[k] = u[(n + 1) + k - 1]
    BY <1>1, <2>1, <2>4, SubSeqProperties
  <2> HIDE DEF w
  <2>6. Len(w) = Len(v)
    BY <1>1, <1>5, <2>1, <2>3, <2>5
  <2>7. ASSUME NEW k \in 1..Len(w) PROVE w[k] = v[k]
    <3>1. /\ k \in 1..(Len(u) - (n + 1) + 1) /\ (n + 1) + k - 1 = n + k
          /\ n + k \in 1..(Len(b) - a) /\ k \in 1..(Len(b) - (a + n)) /\ a + (n + k) = (a + n) + k
      BY <1>1, <1>5, <2>1, <2>3, <2>6
    <3>2. w[k] = u[n + k]
      BY <2>5, <3>1
    <3>3. u[n + k] = b[a + (n + k)]
      BY <2>1, <3>1
    <3>4. v[k] = b[(a + n) + k]
      BY <2>3, <3>1
    <3> QED BY <3>1, <3>2, <3>3, <3>4
  <2>8. w = v
    BY <2>3, <2>5, <2>6, <2>7, SeqEqual
  <2> QED BY <2>8, Zenon DEF u, v, w
<1>6. a <= Len(b) => Len(t(a)) = Len(b) - a
  BY <1>1, <1>3
<1> HIDE DEF t
<1>7. t(a) \in Seq(Octets)
  BY <1>3
<1> QED BY <1>2, <1>4, <1>5, <1>6, <1>7, Zenon DEF b

\* size_t counts as far as it goes.
LEMMA SmallMod == /\ \A a \in Nat : a < SizeMod => a % SizeMod = a
                  /\ \A a \in Nat : a % SizeMod \in Nat
<1>1. SizeMod \in Nat /\ SizeMod > 2
  BY PagesAssumption
<1> QED BY <1>1
--------------------------------------------------------------------------------
(***************************************************************************)
(* The loops stay where they are.                                          *)
(***************************************************************************)
\* Where a call is, its argument has the text that is being written.
LEMMA Here ==
    ASSUME page \in Pages, pc \in {"arg", "write", "sep"}, Place
    PROVE  /\ Len(page) \in Nat /\ c \in 1..Len(page)
           /\ Len(page[c].args) \in Nat /\ i \in 1..(Len(page[c].args) + 1)
           /\ pc # "arg" => i \in 1..Len(page[c].args)
           /\ i \in 1..Len(page[c].args) =>
                /\ length = Len(Bytes(page, c, i))
                /\ length \in Nat /\ length < SizeMod - 1
<1>1. /\ Len(page) \in Nat /\ c \in 1..Len(page)
      /\ Len(page[c].args) \in Nat /\ i \in 1..(Len(page[c].args) + 1)
      /\ pc # "arg" => i \in 1..Len(page[c].args)
  BY PageTypes DEF Place, args
<1>2. ASSUME i \in 1..Len(page[c].args)
      PROVE  /\ length = Len(Bytes(page, c, i))
             /\ length \in Nat /\ length < SizeMod - 1
  <2>1. length = Size(page[c].args[i])
    BY Zenon DEF length, args, Size
  <2>2. Size(page[c].args[i]) \in Lengths /\ Len(Bytes(page, c, i)) = Size(page[c].args[i])
    BY <1>1, <1>2, ArgumentIs
  <2> QED BY <2>1, <2>2, PagesAssumption DEF Lengths
<1> QED BY <1>1, <1>2

\* What lwrite may do with the rest of an argument, and where the offset is then
LEMMA WriteIs ==
    ASSUME IInv, Write
    PROVE  /\ ll \in Nat /\ ll < length
           /\ \E n \in Nat :
                \/ /\ n = length - ll /\ n > 0 /\ Goes(Text(page, c, i, ll), n, io)
                   /\ ll' = length /\ pc' = "write"
                \/ /\ \E k \in 0..(length - ll) : Goes(Text(page, c, i, ll), k, "broken")
                   /\ ll' \in Nat /\ ll' >= length /\ pc' = "write"
                \/ /\ host = "stdio" /\ n < length - ll /\ n > 0
                   /\ \E state \in {"short", "broken"} : Goes(Text(page, c, i, ll), n, state)
                   /\ ll' = ll + n /\ pc' = "write"
                \/ /\ host = "stdio" /\ n = 0
                   /\ \E state \in {"short", "broken"} : Goes(Text(page, c, i, ll), n, state)
                   /\ ll' = ll /\ pc' = "sep"
<1> DEFINE text == Text(page, c, i, ll)
<1>1. pc = "write" /\ ll \in Nat /\ ll < length /\ (host = "apache" => ll = 0)
  <2>1. pc = "write" /\ ll < length /\ ll \in Nat /\ (host = "apache" => ll = 0 \/ ll >= length)
    BY DEF IInv, Offset, Write
  <2>2. length \in Nat
    BY <2>1, Here DEF IInv
  <2> QED BY <2>1, <2>2
<1>2. /\ page \in Pages /\ c \in 1..Len(page) /\ i \in 1..Len(page[c].args)
      /\ length = Len(Bytes(page, c, i)) /\ length \in Nat /\ length < SizeMod - 1
  BY <1>1, Here DEF IInv
<1>3. SizeMod \in Nat /\ SizeMod > 2
  BY PagesAssumption
<1>4. SubSeq(Bytes(page, c, i), ll + 1, length) = text
  BY <1>2 DEF Text
<1>5. Len(text) = length - ll
  <2>1. ll <= Len(Bytes(page, c, i))
    BY <1>1, <1>2
  <2>2. Len(text) = Len(Bytes(page, c, i)) - ll
    BY <1>1, <1>2, <2>1, TextMoves, Zenon
  <2> QED BY <1>2, <2>2, Zenon
<1> HIDE DEF text
<1>6. PICK n \in 0..MinusOne : /\ Lwrite(text, n)
                               /\ ll' = IF n = 0 THEN ll ELSE (ll + n) % SizeMod
                               /\ pc' = IF n = 0 THEN "sep" ELSE "write"
  BY <1>4, Zenon DEF Write, Gives_up, Advanced
<1>7. n \in Nat
  BY <1>3, <1>6 DEF MinusOne
<1>8. CASE io # "broken" /\ n = Len(text) /\ Goes(text, n, io)
  <2>1. n = length - ll /\ n > 0 /\ ll + n = length
    BY <1>1, <1>2, <1>5, <1>8
  <2>2. ll' = length /\ pc' = "write"
    BY <1>2, <1>3, <1>6, <2>1, SmallMod
  <2> QED BY <1>1, <1>7, <1>8, <2>1, <2>2 DEF text
<1>9. CASE /\ host = "apache" /\ n = MinusOne
           /\ \E k \in 0..(IF io = "broken" THEN 0 ELSE Len(text)) : Goes(text, k, "broken")
  <2>1. \E k \in 0..(length - ll) : Goes(text, k, "broken")
    BY <1>1, <1>2, <1>5, <1>9
  <2>2. ll + n = SizeMod - 1 /\ n # 0
    BY <1>1, <1>3, <1>9 DEF MinusOne
  <2>3. ll' = SizeMod - 1 /\ pc' = "write"
    BY <1>3, <1>6, <2>2, SmallMod
  <2>4. ll' \in Nat /\ ll' >= length
    BY <1>2, <1>3, <2>3
  <2> QED BY <1>1, <1>7, <2>1, <2>3, <2>4 DEF text
<1>10. CASE /\ host = "stdio" /\ n < Len(text)
            /\ \E state \in {"short", "broken"} : Goes(text, n, state)
  <2>1. CASE n = 0
    BY <1>1, <1>6, <1>7, <1>10, <2>1 DEF text
  <2>2. CASE n # 0
    <3>1. n < length - ll /\ n > 0 /\ ll + n \in Nat /\ ll + n < SizeMod
      BY <1>1, <1>2, <1>3, <1>5, <1>7, <1>10, <2>2
    <3>2. ll' = ll + n /\ pc' = "write"
      BY <1>6, <2>2, <3>1, SmallMod
    <3> QED BY <1>1, <1>7, <1>10, <3>1, <3>2 DEF text
  <2> QED BY <2>1, <2>2
<1> QED BY <1>6, <1>8, <1>9, <1>10 DEF Lwrite

LEMMA InitInv == Init => IInv
<1> SUFFICES ASSUME Init PROVE IInv
  OBVIOUS
<1>1. Len(page) \in Nat /\ (page # <<>> => Len(page) # 0)
  <2>1. page \in Seq([fn : {"echo", "print"}, args : Seq(Lengths \cup {NoString})])
    BY PagesAssumption DEF Init
  <2> QED BY <2>1
<1>2. page # <<>> => Len(page[1].args) \in Nat
  BY <1>1, PageTypes DEF Init
<1> QED BY <1>1, <1>2 DEF Init, IInv, Labels, Place, Offset, args

LEMMA NextInv == IInv /\ [Next]_vars => IInv'
<1> SUFFICES ASSUME IInv, [Next]_vars PROVE IInv'
  OBVIOUS
<1> USE DEF IInv, Labels
<1>1. CASE Convert
  <2>1. pc' = "write" /\ ll' = 0 /\ UNCHANGED <<page, host, c, i, io>> /\ pc = "arg" /\ i <= Len(args)
    BY <1>1 DEF Convert
  <2> QED BY <2>1 DEF Place, Offset, args
<1>2. CASE NotAString
  BY <1>2 DEF NotAString, Place, Offset
<1>3. CASE Write
  <2>1. pc = "write" /\ UNCHANGED <<page, host, c, i>>
    BY <1>3 DEF Write
  <2>2. Place'
    <3>1. pc' \in {"write", "sep"}
      BY <1>3, WriteIs
    <3> QED BY <2>1, <3>1 DEF Place, args
  <2>3. io' \in {"good", "short", "broken"} /\ pc' \in {"write", "sep"}
    BY <1>3, WriteIs DEF Goes
  <2>4. length' = length /\ length \in Nat
    BY <2>1, Here DEF length, args
  <2>5. Offset'
    BY <1>3, <2>1, <2>4, WriteIs, PagesAssumption DEF Offset
  <2> QED BY <2>1, <2>2, <2>3, <2>5
<1>4. CASE Written
  BY <1>4 DEF Written, Place, Offset, args
<1>5. CASE PutSeparator
  <2>1. io' \in {"good", "short", "broken"}
    BY <1>5 DEF PutSeparator, Lputc, Goes
  <2>2. /\ pc' = "arg" /\ UNCHANGED <<page, host, c>> /\ pc = "sep" /\ i' = i + 1
    BY <1>5 DEF PutSeparator
  <2>3. Place'
    BY <2>2, Here DEF Place, args
  <2> QED BY <2>1, <2>2, <2>3 DEF Offset
<1>6. CASE Return
  <2>1. io' \in {"good", "short", "broken"}
    BY <1>6 DEF Return, Lputc, Goes
  <2>2. /\ pc = "arg" /\ UNCHANGED <<page, host>>
        /\ \/ pc' = "done"
           \/ c # Len(page) /\ pc' = "arg" /\ c' = c + 1 /\ i' = 1
    BY <1>6 DEF Return
  <2>3. Place'
    <3>1. CASE pc' = "done"
      BY <3>1 DEF Place
    <3>2. CASE c # Len(page) /\ pc' = "arg" /\ c' = c + 1 /\ i' = 1
      <4>1. c' \in 1..Len(page') /\ page' \in Pages
        BY <2>2, <3>2, Here
      <4>2. Len(page'[c'].args) \in Nat
        BY <4>1, PageTypes
      <4> QED BY <3>2, <4>1, <4>2 DEF Place, args
    <3> QED BY <2>2, <3>1, <3>2
  <2> QED BY <2>1, <2>2, <2>3 DEF Offset
<1>7. CASE UNCHANGED vars
  BY <1>7 DEF vars, Place, Offset, args, length
<1> QED BY <1>1, <1>2, <1>3, <1>4, <1>5, <1>6, <1>7 DEF Next
--------------------------------------------------------------------------------
(***************************************************************************)
(* Each step is one of the stream, or none.                                *)
(***************************************************************************)
LEMMA OwedIs ==
    ASSUME NEW p, NEW d, NEW j, NEW n
    PROVE  /\ Owed(p, "done", d, j, n) = <<>> /\ Owed(p, "error", d, j, n) = <<>>
           /\ Owed(p, "arg", d, j, n) = After(p, d, j)
           /\ Owed(p, "write", d, j, n) = Text(p, d, j, n) \o (Separator(p, d, j) \o After(p, d, j + 1))
           /\ Owed(p, "sep", d, j, n) = Separator(p, d, j) \o After(p, d, j + 1)
BY DEF Owed

\* What follows the text of an argument
LEMMA RestIs ==
    ASSUME NEW p \in Pages, NEW d \in 1..Len(p), NEW j \in 1..Len(p[d].args)
    PROVE  /\ Separator(p, d, j) \in Seq(Octets) /\ After(p, d, j + 1) \in Seq(Octets)
           /\ Separator(p, d, j) \o After(p, d, j + 1) \in Seq(Octets)
<1>1. j + 1 \in 1..(Len(p[d].args) + 1)
  BY PageTypes
<1>2. Separator(p, d, j) \in Seq(Octets) /\ After(p, d, j + 1) \in Seq(Octets)
  BY <1>1, ArgumentIs, AfterIs
<1> QED BY <1>2, ConcatProperties

LEMMA InitMaps == Init => Stream!Init
<1> SUFFICES ASSUME Init PROVE Stream!Init
  OBVIOUS
<1>1. IInv /\ page \in Pages /\ c = 1 /\ i = 1 /\ pc = (IF page = <<>> THEN "done" ELSE "arg")
  BY InitInv DEF Init
<1>2. Left = Owed(page, pc, c, i, ll)
  BY <1>1, LeftIs DEF IInv
<1>3. Left = PageText(page)[1]
  <2>1. CASE page = <<>>
    <3>1. Len(page) + 1 = 1
      BY <2>1
    <3>2. PageText(page)[1] = <<>>
      BY <1>1, <3>1, PageIs
    <3> QED BY <1>1, <1>2, <2>1, <3>2, OwedIs
  <2>2. CASE page # <<>>
    <3>1. pc = "arg"
      BY <1>1, <2>2
    <3>2. c \in 1..Len(page)
      BY <1>1, <3>1, Here DEF IInv
    <3>3. After(page, 1, 1) = PageText(page)[1]
      BY <1>1, <3>2, AfterIs
    <3> QED BY <1>1, <1>2, <3>1, <3>3, OwedIs
  <2> QED BY <2>1, <2>2
<1>4. Left \in {PageText(p)[1] : p \in Pages}
  BY <1>1, <1>3
<1>5. pc # "error" /\ out = <<>> /\ io = "good"
  BY DEF Init
<1> QED BY <1>4, <1>5 DEF Stream!Init

LEMMA ConvertMaps == ASSUME IInv, IInv', Convert PROVE UNCHANGED Stream!vars
<1>1. /\ pc = "arg" /\ pc' = "write" /\ ll' = 0 /\ UNCHANGED <<page, host, c, i, out, io>>
      /\ i \in 1..Len(page[c].args) /\ c \in 1..Len(page) /\ page \in Pages
  BY Here DEF Convert, args, IInv
<1>2. Left = After(page, c, i)
  BY <1>1, LeftIs, OwedIs DEF IInv
<1>3. Left' = Text(page, c, i, 0) \o (Separator(page, c, i) \o After(page, c, i + 1))
  <2>1. Left' = Owed(page', pc', c', i', ll')
    BY LeftNext DEF IInv
  <2> QED BY <1>1, <2>1, OwedIs
<1>4. Text(page, c, i, 0) = Bytes(page, c, i)
  <2>1. Bytes(page, c, i) \in Seq(Octets)
    BY <1>1, ArgumentIs
  <2> QED BY <2>1, SubSeqFull DEF Text
<1>5. Left' = Left
  BY <1>1, <1>2, <1>3, <1>4, AfterIs
<1> QED BY <1>1, <1>5 DEF Stream!vars

LEMMA NotAStringMaps == ASSUME IInv, IInv', NotAString PROVE Stream!Raise
<1>1. pc = "arg" /\ pc' = "error" /\ UNCHANGED <<out, io>>
  BY DEF NotAString
<1>2. Left' = <<>>
  <2>1. Left' = Owed(page', pc', c', i', ll')
    BY LeftNext DEF IInv
  <2> QED BY <1>1, <2>1, OwedIs
<1> QED BY <1>1, <1>2 DEF Stream!Raise

LEMMA WrittenMaps == ASSUME IInv, IInv', Written PROVE UNCHANGED Stream!vars
<1>1. /\ pc = "write" /\ ll >= length /\ pc' = "sep" /\ UNCHANGED <<page, c, i, ll, out, io>>
      /\ page \in Pages /\ ll \in Nat
  BY DEF Written, IInv, Offset
<1>2. i \in 1..Len(page[c].args) /\ c \in 1..Len(page) /\ length = Len(Bytes(page, c, i))
  BY <1>1, Here DEF IInv
<1> DEFINE rest == Separator(page, c, i) \o After(page, c, i + 1)
<1>3. Left = Text(page, c, i, ll) \o rest
  BY <1>1, LeftIs, OwedIs DEF IInv
<1>4. Left' = rest
  <2>1. Left' = Owed(page', pc', c', i', ll')
    BY LeftNext DEF IInv
  <2> QED BY <1>1, <2>1, OwedIs
<1>5. Text(page, c, i, ll) = <<>> /\ rest \in Seq(Octets)
  BY <1>1, <1>2, TextMoves, RestIs
<1> HIDE DEF rest
<1>6. Left' = Left
  BY <1>3, <1>4, <1>5, ConcatEmptySeq
<1> QED BY <1>1, <1>6 DEF Stream!vars

LEMMA WriteMaps == ASSUME IInv, IInv', Write PROVE Stream!Send
<1> DEFINE text == Text(page, c, i, ll)
           rest == Separator(page, c, i) \o After(page, c, i + 1)
<1>1. pc = "write" /\ UNCHANGED <<page, c, i>> /\ page \in Pages
  BY DEF Write, IInv
<1>2. /\ i \in 1..Len(page[c].args) /\ c \in 1..Len(page)
      /\ length = Len(Bytes(page, c, i)) /\ length \in Nat
  BY <1>1, Here DEF IInv
<1>3. ll \in Nat /\ ll < length
  BY WriteIs
<1>4. /\ text \in Seq(Octets) /\ Len(text) = length - ll
      /\ \A n \in 0..(length - ll) : SubSeq(text, n + 1, Len(text)) = Text(page, c, i, ll + n)
  <2>1. ll <= Len(Bytes(page, c, i))
    BY <1>2, <1>3
  <2>2. /\ text \in Seq(Octets) /\ Len(text) = Len(Bytes(page, c, i)) - ll
        /\ \A n \in 0..(Len(Bytes(page, c, i)) - ll) :
             SubSeq(text, n + 1, Len(text)) = Text(page, c, i, ll + n)
    BY <1>1, <1>2, <1>3, <2>1, TextMoves, Zenon
  <2> QED BY <1>2, <2>2, Zenon
<1>5. rest \in Seq(Octets)
  BY <1>1, <1>2, RestIs
<1>6. Left = text \o rest
  BY <1>1, LeftIs, OwedIs DEF IInv
<1>7. /\ pc' = "write" => Left' = Text(page, c, i, ll') \o rest
      /\ pc' = "sep" => Left' = rest
  <2>1. Left' = Owed(page, pc', c, i, ll')
    BY <1>1, LeftNext DEF IInv
  <2>2. Owed(page, "write", c, i, ll') = Text(page, c, i, ll') \o rest
    BY OwedIs, Zenon
  <2>3. Owed(page, "sep", c, i, ll') = rest
    BY OwedIs, Zenon
  <2> QED BY <2>1, <2>2, <2>3, Zenon
<1>8. \A e \in Nat : e >= length => Text(page, c, i, e) = <<>>
  <2>1. \A e \in Nat : e >= Len(Bytes(page, c, i)) => Text(page, c, i, e) = <<>>
    BY <1>1, <1>2, TextMoves, Zenon
  <2>2. length = Len(Bytes(page, c, i))
    BY <1>2
  <2> QED BY <2>1, <2>2
<1>9. PICK n \in Nat :
        \/ /\ n = length - ll /\ n > 0 /\ Goes(text, n, io)
           /\ ll' = length /\ pc' = "write"
        \/ /\ \E k \in 0..(length - ll) : Goes(text, k, "broken")
           /\ ll' \in Nat /\ ll' >= length /\ pc' = "write"
        \/ /\ host = "stdio" /\ n < length - ll /\ n > 0
           /\ \E state \in {"short", "broken"} : Goes(text, n, state)
           /\ ll' = ll + n /\ pc' = "write"
        \/ /\ host = "stdio" /\ n = 0
           /\ \E state \in {"short", "broken"} : Goes(text, n, state)
           /\ ll' = ll /\ pc' = "sep"
  BY WriteIs
<1> HIDE DEF text, rest
<1>10. SubSeq(text, Len(text) + 1, Len(text)) = <<>> /\ <<>> \o rest = rest
  BY <1>4, <1>5, SubSeqEmpty, ConcatEmptySeq
<1>11. CASE n = length - ll /\ Goes(text, n, io) /\ ll' = length /\ pc' = "write"
  <2>1. n = Len(text) /\ n \in 0..Len(text)
    BY <1>4, <1>11
  <2>2. Left' = SubSeq(text, n + 1, Len(text)) \o rest
    BY <1>2, <1>7, <1>8, <1>10, <1>11, <2>1
  <2>3. n \in 0..n /\ out' = out \o SubSeq(text, 1, n) /\ io' = io
    BY <1>11 DEF Goes
  <2>4. ~(n < n) /\ pc # "error" /\ pc' # "error"
    BY <1>1, <1>11
  <2> QED BY <1>4, <1>5, <1>6, <2>1, <2>2, <2>3, <2>4, Sends, Zenon
<1>12. CASE /\ \E k \in 0..(length - ll) : Goes(text, k, "broken")
            /\ ll' \in Nat /\ ll' >= length /\ pc' = "write"
  <2> DEFINE m == Len(text)
  <2>1. PICK k \in 0..m : Goes(text, k, "broken")
    BY <1>4, <1>12
  <2>2. m \in 0..Len(text)
    BY <1>4
  <2>3. Left' = SubSeq(text, m + 1, Len(text)) \o rest
    BY <1>7, <1>8, <1>10, <1>12
  <2> HIDE DEF m
  <2>4. out' = out \o SubSeq(text, 1, k) /\ io' = "broken"
    BY <2>1 DEF Goes
  <2> QED BY <1>1, <1>4, <1>5, <1>6, <1>12, <2>2, <2>3, <2>4, Sends
<1>13. CASE /\ n < length - ll
            /\ \E state \in {"short", "broken"} : Goes(text, n, state)
            /\ ll' = ll + n /\ pc' = "write"
  <2>1. n \in 0..Len(text) /\ n \in 0..n /\ n \in 0..(length - ll)
    BY <1>4, <1>13
  <2>2. Left' = SubSeq(text, n + 1, Len(text)) \o rest
    BY <1>4, <1>7, <1>13, <2>1
  <2>3. out' = out \o SubSeq(text, 1, n) /\ io' # "good"
    BY <1>13 DEF Goes
  <2> QED BY <1>1, <1>4, <1>5, <1>6, <1>13, <2>1, <2>2, <2>3, Sends
<1>14. CASE /\ n = 0 /\ pc' = "sep"
            /\ \E state \in {"short", "broken"} : Goes(text, n, state)
  <2> DEFINE m == Len(text)
  <2>1. m \in 0..Len(text) /\ n \in 0..m
    BY <1>4, <1>14
  <2>2. Left' = SubSeq(text, m + 1, Len(text)) \o rest
    BY <1>7, <1>10, <1>14
  <2> HIDE DEF m
  <2>3. out' = out \o SubSeq(text, 1, n) /\ io' # "good"
    BY <1>14 DEF Goes
  <2> QED BY <1>1, <1>4, <1>5, <1>6, <1>14, <2>1, <2>2, <2>3, Sends
<1> QED BY <1>9, <1>11, <1>12, <1>13, <1>14

\* lputc sends all of a text or, when it fails, nothing.
LEMMA PutMaps ==
    ASSUME NEW text \in Seq(Octets), NEW rest \in Seq(Octets), Lputc(text),
           Left = text \o rest, Left' = rest, pc # "error", pc' # "error"
    PROVE  Stream!Send
<1> DEFINE m == Len(text)
<1>1. m \in 0..Len(text) /\ m \in 0..m /\ 0 \in 0..m
  OBVIOUS
<1>2. SubSeq(text, m + 1, Len(text)) = <<>> /\ <<>> \o rest = rest
  BY <1>1, SubSeqEmpty, ConcatEmptySeq
<1>3. Left' = SubSeq(text, m + 1, Len(text)) \o rest
  BY <1>2
<1> HIDE DEF m
<1>4. CASE Goes(text, Len(text), io)
  <2>1. out' = out \o SubSeq(text, 1, m) /\ io' = io
    BY <1>4 DEF Goes, m
  <2>2. ~(m < m)
    BY <1>1
  <2> QED BY <1>1, <1>3, <2>1, <2>2, Sends
<1>5. CASE Goes(text, 0, IF io = "broken" \/ host = "apache" THEN "broken" ELSE "short")
  <2>1. out' = out \o SubSeq(text, 1, 0) /\ io' # "good"
    BY <1>5 DEF Goes
  <2> QED BY <1>1, <1>3, <2>1, Sends
<1> QED BY <1>4, <1>5 DEF Lputc

LEMMA PutSeparatorMaps == ASSUME IInv, IInv', PutSeparator PROVE Stream!Send
<1>1. /\ pc = "sep" /\ pc' = "arg" /\ i' = i + 1 /\ UNCHANGED <<page, c>> /\ page \in Pages
      /\ Lputc(Separator(page, c, i))
  BY DEF PutSeparator, IInv
<1>2. i \in 1..Len(page[c].args) /\ c \in 1..Len(page)
  BY <1>1, Here DEF IInv
<1>3. Separator(page, c, i) \in Seq(Octets) /\ After(page, c, i + 1) \in Seq(Octets)
  BY <1>1, <1>2, RestIs
<1>4. Left = Separator(page, c, i) \o After(page, c, i + 1)
  BY <1>1, LeftIs, OwedIs DEF IInv
<1>5. Left' = After(page, c, i + 1)
  <2>1. Left' = Owed(page', pc', c', i', ll')
    BY LeftNext DEF IInv
  <2> QED BY <1>1, <2>1, OwedIs
<1> QED BY <1>1, <1>3, <1>4, <1>5, PutMaps

LEMMA ReturnMaps == ASSUME IInv, IInv', Return PROVE Stream!Send
<1>1. /\ pc = "arg" /\ i > Len(page[c].args) /\ UNCHANGED page /\ page \in Pages
      /\ Lputc(NewLine(page, c))
      /\ \/ c = Len(page) /\ pc' = "done"
         \/ c # Len(page) /\ pc' = "arg" /\ c' = c + 1 /\ i' = 1
  BY DEF Return, IInv, args
<1>2. c \in 1..Len(page) /\ i = Len(page[c].args) + 1
  BY <1>1, Here DEF IInv
<1>3. /\ NewLine(page, c) \in Seq(Octets) /\ PageText(page)[c + 1] \in Seq(Octets)
      /\ After(page, c, i) = NewLine(page, c) \o PageText(page)[c + 1]
  BY <1>1, <1>2, AfterIs, NewLineIs
<1>4. Left = NewLine(page, c) \o PageText(page)[c + 1]
  BY <1>1, <1>3, LeftIs, OwedIs DEF IInv
<1>5. Left' = PageText(page)[c + 1]
  <2>1. Left' = Owed(page', pc', c', i', ll')
    BY LeftNext DEF IInv
  <2>2. CASE c = Len(page) /\ pc' = "done"
    BY <1>1, <2>1, <2>2, PageIs, OwedIs
  <2>3. CASE c # Len(page) /\ pc' = "arg" /\ c' = c + 1 /\ i' = 1
    <3>1. c + 1 \in 1..Len(page)
      BY <1>1, <1>2, <2>3, PageTypes
    <3>2. After(page, c + 1, 1) = PageText(page)[c + 1]
      BY <1>1, <3>1, AfterIs
    <3> QED BY <1>1, <2>1, <2>3, <3>2, OwedIs
  <2> QED BY <1>1, <2>2, <2>3
<1>6. pc # "error" /\ pc' # "error"
  BY <1>1
<1> QED BY <1>1, <1>3, <1>4, <1>5, <1>6, PutMaps

LEMMA NextMaps == IInv /\ IInv' /\ [Next]_vars => [Stream!Next]_(Stream!vars)
<1> SUFFICES ASSUME IInv, IInv', [Next]_vars PROVE [Stream!Next]_(Stream!vars)
  OBVIOUS
<1>1. CASE Convert
  BY <1>1, ConvertMaps
<1>2. CASE NotAString
  BY <1>2, NotAStringMaps DEF Stream!Next
<1>3. CASE Write
  BY <1>3, WriteMaps DEF Stream!Next
<1>4. CASE Written
  BY <1>4, WrittenMaps
<1>5. CASE PutSeparator
  BY <1>5, PutSeparatorMaps DEF Stream!Next
<1>6. CASE Return
  BY <1>6, ReturnMaps DEF Stream!Next
<1>7. CASE UNCHANGED vars
  BY <1>7 DEF vars, Stream!vars, Left, length, args
<1> QED BY <1>1, <1>2, <1>3, <1>4, <1>5, <1>6, <1>7 DEF Next

\* Whatever lua_echo and lua_print write, the client gets the text of the page
\* in order and nothing of it twice, however lwrite cuts it up and wherever it
\* fails; and nothing is left out unless a write has failed.
THEOREM OutputImplementsStream == PagesSpec => ImplementsStream
<1>1. PagesInit => IInv /\ Stream!Init
  BY InitInv, InitMaps DEF PagesInit
<1>2. [Outputs \/ Executes]_allVars => [Next]_vars
  BY DEF Outputs, Executes, allVars
<1>3. IInv /\ [Outputs \/ Executes]_allVars => IInv' /\ [Stream!Next]_(Stream!vars)
  BY <1>2, NextInv, NextMaps
<1> QED BY <1>1, <1>3, PTL DEF PagesSpec, Stream!Spec, ImplementsStream
--------------------------------------------------------------------------------
(***************************************************************************)
(* The cache of compiled pages (ScriptCache), for any set of processes,    *)
(* any number of versions and any length of time.                          *)
(***************************************************************************)
CacheLabels == {"idle", "lstat1", "lstat2", "choose", "load", "mkstemp", "dump", "rename",
           "loadfile", "run"}
Dumping == {"mkstemp", "dump", "rename"}

CacheTyped ==
    /\ use_cache \in UseCache
    /\ source \in Cache!FileType /\ cache \in Cache!FileType
    /\ latest \in 1..MaxVersion /\ clock \in 1..MaxTime
    /\ at \in [Procs -> CacheLabels]
    /\ mtime1 \in [Procs -> 0..MaxTime] /\ mtime2 \in [Procs -> 0..MaxTime]
    /\ chunk \in [Procs -> 0..MaxVersion] /\ tmp \in [Procs -> Cache!FileType]
    /\ first \in [Procs -> 0..MaxVersion] /\ ran \in [Procs -> 0..MaxVersion]
    /\ undone \in [Procs -> BOOLEAN]
    /\ source = Cache!NoFile \/ (source.ver = latest /\ source.mtime >= 1)

\* Only a whole file is renamed.
CacheWhole == /\ cache.whole
         /\ \A q \in Procs : at[q] = "rename" => tmp[q].whole

\* The page as long as nobody deletes it, and what is compiled of it.
CacheCompiled ==
    /\ use_cache # 0 => source # Cache!NoFile
    /\ cache.ver <= latest
    /\ \A q \in Procs :
         /\ first[q] <= latest
         /\ at[q] \in Dumping => use_cache = 2 /\ chunk[q] >= first[q]
         /\ at[q] \in {"mkstemp", "dump"} => chunk[q] = latest
         /\ at[q] = "rename" => tmp[q].ver <= latest

\* A compiled file, renamed or not, that is not older than the page is of its last
\* version, and so it was when a process on its way to it looked at the page.
InTime(file) ==
    /\ source.mtime <= file.mtime => file.ver = latest
    /\ \A q \in Procs : at[q] = "lstat2" /\ mtime1[q] <= file.mtime => file.ver >= first[q]
CacheInTime ==
    use_cache = 2 =>
        /\ InTime(cache)
        /\ \A q \in Procs :
             /\ at[q] = "rename" => InTime(tmp[q])
             /\ at[q] = "choose" /\ mtime1[q] <= mtime2[q] => cache.ver >= first[q] \/ undone[q]
             /\ at[q] = "loadfile" => cache.ver >= first[q] \/ undone[q]

\* What is executed, or is about to be.
CacheExecuted ==
    use_cache # 1 => \A q \in Procs :
        /\ at[q] \in {"lstat1", "lstat2", "choose", "loadfile"} => use_cache = 2
        /\ at[q] = "run" => chunk[q] >= first[q] \/ undone[q]
        /\ ran[q] # 0 => ran[q] >= first[q] \/ undone[q]

--------------------------------------------------------------------------------
LEMMA CacheTypedInit == Cache!Init => CacheTyped
<1> SUFFICES ASSUME Cache!Init PROVE CacheTyped
  OBVIOUS
<1>1. MaxVersion \in Nat /\ MaxVersion >= 1 /\ MaxTime \in Nat /\ MaxTime >= 1
  BY PartsAssumption DEF Cache!CacheAssumption
<1>2. Cache!NoFile \in Cache!FileType /\ Cache!File(1, 1, TRUE) \in Cache!FileType
  BY <1>1 DEF Cache!File, Cache!NoFile, Cache!FileType
<1>3. source \in Cache!FileType /\ cache \in Cache!FileType
  BY <1>2 DEF Cache!Init
<1>4. source.ver = latest /\ source.mtime >= 1
  BY DEF Cache!Init, Cache!File
<1>5. at \in [Procs -> CacheLabels] /\ tmp \in [Procs -> Cache!FileType]
  BY <1>2 DEF Cache!Init, CacheLabels
<1>6. use_cache \in UseCache /\ latest \in 1..MaxVersion /\ clock \in 1..MaxTime
  BY <1>1 DEF Cache!Init
<1>7. mtime1 \in [Procs -> 0..MaxTime] /\ mtime2 \in [Procs -> 0..MaxTime]
  BY <1>1 DEF Cache!Init
<1>8. /\ chunk \in [Procs -> 0..MaxVersion] /\ first \in [Procs -> 0..MaxVersion]
      /\ ran \in [Procs -> 0..MaxVersion] /\ undone \in [Procs -> BOOLEAN]
  BY <1>1 DEF Cache!Init
<1> QED
  BY <1>3, <1>4, <1>5, <1>6, <1>7, <1>8 DEF CacheTyped

LEMMA CacheTypedNext == CacheTyped /\ [Cache!Next]_(Cache!vars) => CacheTyped'
<1> SUFFICES ASSUME CacheTyped, [Cache!Next]_(Cache!vars) PROVE CacheTyped'
  OBVIOUS
<1> USE PartsAssumption DEF Cache!CacheAssumption, CacheTyped, Cache!FileType, CacheLabels
<1>1. CASE Cache!Tick
  BY <1>1 DEF Cache!Tick, Cache!local
<1>2. CASE Cache!Edit
  BY <1>2 DEF Cache!Edit, Cache!local, Cache!File, Cache!NoFile
<1>3. CASE Cache!Delete
  BY <1>3 DEF Cache!Delete, Cache!local, Cache!File, Cache!NoFile
<1>4. ASSUME NEW p \in Procs, Cache!Step(p) PROVE CacheTyped'
  <2>1. CASE Cache!Call(p)
    BY <2>1 DEF Cache!Call, Cache!At, Cache!Go, Cache!FirstStep, Cache!disk
  <2>2. CASE Cache!Lstat1(p)
    BY <2>2 DEF Cache!Lstat1, Cache!At, Cache!Go, Cache!MTime, Cache!disk
  <2>3. CASE Cache!Lstat2(p)
    BY <2>3 DEF Cache!Lstat2, Cache!At, Cache!Go, Cache!MTime, Cache!disk
  <2>4. CASE Cache!Choose(p)
    BY <2>4 DEF Cache!Choose, Cache!At, Cache!Go, Cache!disk
  <2>5. CASE Cache!Load(p)
    BY <2>5 DEF Cache!Load, Cache!At, Cache!Go, Cache!disk
  <2>6. CASE Cache!MkStemp(p)
    BY <2>6 DEF Cache!MkStemp, Cache!At, Cache!Go, Cache!disk
  <2>7. CASE Cache!Dump(p)
    BY <2>7 DEF Cache!Dump, Cache!At, Cache!Go, Cache!AfterDump, Cache!disk, Cache!File
  <2>8. CASE Cache!Rename(p)
    BY <2>8 DEF Cache!Rename, Cache!At, Cache!Go, Cache!Replaced
  <2>9. CASE Cache!LoadFile(p)
    <3>1. chunk' = chunk \/ chunk' = [chunk EXCEPT ![p] = cache.ver]
      BY <2>9 DEF Cache!LoadFile
    <3>2. cache.ver \in 0..MaxVersion
      OBVIOUS
    <3>3. chunk' \in [Procs -> 0..MaxVersion]
      BY <1>4, <3>1, <3>2
    <3>4. at' = [at EXCEPT ![p] = "run"] \/ at' = [at EXCEPT ![p] = "idle"]
      BY <2>9 DEF Cache!LoadFile, Cache!Go
    <3>5. at' \in [Procs -> CacheLabels]
      BY <1>4, <3>4
    <3>6. UNCHANGED <<Cache!disk, mtime1, mtime2, tmp, first, ran, undone>>
      BY <2>9 DEF Cache!LoadFile
    <3> QED
      BY <3>3, <3>5, <3>6 DEF Cache!disk
  <2>10. CASE Cache!Run(p)
    BY <2>10 DEF Cache!Run, Cache!At, Cache!Go, Cache!disk
  <2> QED
    BY <1>4, <2>1, <2>2, <2>3, <2>4, <2>5, <2>6, <2>7, <2>8, <2>9, <2>10 DEF Cache!Step
<1>5. ASSUME NEW p \in Procs, Cache!Crash(p) PROVE CacheTyped'
  BY <1>5 DEF Cache!Crash, Cache!disk
<1>6. CASE UNCHANGED Cache!vars
  BY <1>6 DEF Cache!vars
<1> QED
  BY <1>1, <1>2, <1>3, <1>4, <1>5, <1>6 DEF Cache!Next

LEMMA CacheWholeNext == CacheTyped /\ CacheWhole /\ [Cache!Next]_(Cache!vars) => CacheWhole'
<1> SUFFICES ASSUME CacheTyped, CacheWhole, [Cache!Next]_(Cache!vars) PROVE CacheWhole'
  OBVIOUS
<1> USE DEF CacheTyped, Cache!FileType, CacheLabels, CacheWhole
<1>1. CASE Cache!Tick
  BY <1>1 DEF Cache!Tick, Cache!local
<1>2. CASE Cache!Edit
  BY <1>2 DEF Cache!Edit, Cache!local, Cache!File
<1>3. CASE Cache!Delete
  BY <1>3 DEF Cache!Delete, Cache!local
<1>4. ASSUME NEW p \in Procs, Cache!Step(p) PROVE CacheWhole'
  <2>1. CASE Cache!Call(p)
    BY <2>1 DEF Cache!Call, Cache!At, Cache!Go, Cache!FirstStep, Cache!disk
  <2>2. CASE Cache!Lstat1(p)
    BY <2>2 DEF Cache!Lstat1, Cache!At, Cache!Go, Cache!MTime, Cache!disk
  <2>3. CASE Cache!Lstat2(p)
    BY <2>3 DEF Cache!Lstat2, Cache!At, Cache!Go, Cache!MTime, Cache!disk
  <2>4. CASE Cache!Choose(p)
    BY <2>4 DEF Cache!Choose, Cache!At, Cache!Go, Cache!disk
  <2>5. CASE Cache!Load(p)
    BY <2>5 DEF Cache!Load, Cache!At, Cache!Go, Cache!disk
  <2>6. CASE Cache!MkStemp(p)
    BY <2>6 DEF Cache!MkStemp, Cache!At, Cache!Go, Cache!disk
  <2>7. CASE Cache!Dump(p)
    BY <2>7 DEF Cache!Dump, Cache!At, Cache!Go, Cache!AfterDump, Cache!disk, Cache!File
  <2>8. CASE Cache!Rename(p)
    BY <2>8 DEF Cache!Rename, Cache!At, Cache!Go, Cache!Replaced
  <2>9. CASE Cache!LoadFile(p)
    BY <2>9 DEF Cache!LoadFile, Cache!At, Cache!Go, Cache!disk
  <2>10. CASE Cache!Run(p)
    BY <2>10 DEF Cache!Run, Cache!At, Cache!Go, Cache!disk
  <2> QED
    BY <1>4, <2>1, <2>2, <2>3, <2>4, <2>5, <2>6, <2>7, <2>8, <2>9, <2>10 DEF Cache!Step
<1>5. ASSUME NEW p \in Procs, Cache!Crash(p) PROVE CacheWhole'
  BY <1>5 DEF Cache!Crash, Cache!disk
<1>6. CASE UNCHANGED Cache!vars
  BY <1>6 DEF Cache!vars
<1> QED
  BY <1>1, <1>2, <1>3, <1>4, <1>5, <1>6 DEF Cache!Next

LEMMA CacheCompiledNext ==
  Quiet /\ CacheTyped /\ CacheCompiled /\ [Cache!Next]_(Cache!vars) => CacheCompiled'
<1> SUFFICES ASSUME Quiet, CacheTyped, CacheCompiled, [Cache!Next]_(Cache!vars) PROVE CacheCompiled'
  OBVIOUS
<1> USE DEF CacheTyped, Cache!FileType, CacheLabels, Dumping, CacheCompiled
<1>1. CASE Cache!Tick
  BY <1>1 DEF Cache!Tick, Cache!local
<1>2. CASE Cache!Edit
  BY <1>2 DEF Cache!Edit, Cache!local, Cache!File, Cache!MayEdit, Cache!NoFile
<1>3. CASE Cache!Delete
  BY <1>3 DEF Cache!Delete, Cache!local, Cache!NoFile
<1>4. ASSUME NEW p \in Procs, Cache!Step(p) PROVE CacheCompiled'
  <2>1. CASE Cache!Call(p)
    BY <2>1 DEF Cache!Call, Cache!At, Cache!Go, Cache!FirstStep, Cache!disk, Cache!NoFile,
         Cache!File
  <2>2. CASE Cache!Lstat1(p)
    BY <2>2 DEF Cache!Lstat1, Cache!At, Cache!Go, Cache!MTime, Cache!disk
  <2>3. CASE Cache!Lstat2(p)
    BY <2>3 DEF Cache!Lstat2, Cache!At, Cache!Go, Cache!MTime, Cache!disk
  <2>4. CASE Cache!Choose(p)
    BY <2>4 DEF Cache!Choose, Cache!At, Cache!Go, Cache!disk
  <2>5. CASE Cache!Load(p)
    BY <2>5 DEF Cache!Load, Cache!At, Cache!Go, Cache!disk, Cache!NoFile, Cache!File
  <2>6. CASE Cache!MkStemp(p)
    BY <2>6 DEF Cache!MkStemp, Cache!At, Cache!Go, Cache!disk
  <2>7. CASE Cache!Dump(p)
    BY <2>7 DEF Cache!Dump, Cache!At, Cache!Go, Cache!AfterDump, Cache!disk, Cache!File
  <2>8. CASE Cache!Rename(p)
    BY <2>8 DEF Cache!Rename, Cache!At, Cache!Go, Cache!Replaced
  <2>9. CASE Cache!LoadFile(p)
    BY <2>9 DEF Cache!LoadFile, Cache!At, Cache!Go, Cache!disk
  <2>10. CASE Cache!Run(p)
    BY <2>10 DEF Cache!Run, Cache!At, Cache!Go, Cache!disk
  <2> QED
    BY <1>4, <2>1, <2>2, <2>3, <2>4, <2>5, <2>6, <2>7, <2>8, <2>9, <2>10 DEF Cache!Step
<1>5. ASSUME NEW p \in Procs, Cache!Crash(p) PROVE CacheCompiled'
  BY <1>5 DEF Cache!Crash, Cache!disk
<1>6. CASE UNCHANGED Cache!vars
  BY <1>6 DEF Cache!vars
<1> QED
  BY <1>1, <1>2, <1>3, <1>4, <1>5, <1>6 DEF Cache!Next

LEMMA CacheInTimeNext ==
  Quiet /\ CacheTyped /\ CacheCompiled /\ CacheInTime /\ [Cache!Next]_(Cache!vars) => CacheInTime'
<1> SUFFICES ASSUME Quiet, CacheTyped, CacheCompiled, CacheInTime, [Cache!Next]_(Cache!vars)
              PROVE CacheInTime'
  OBVIOUS
<1> USE DEF CacheTyped, Cache!FileType, CacheLabels, CacheCompiled, Dumping, CacheInTime, InTime
<1>1. CASE Cache!Tick
  BY <1>1 DEF Cache!Tick, Cache!local
<1>2. CASE Cache!Edit
  BY <1>2 DEF Cache!Edit, Cache!local, Cache!File, Cache!MayEdit, Cache!NoFile
<1>3. CASE Cache!Delete
  BY <1>3 DEF Cache!Delete, Cache!local, Cache!NoFile
<1>4. ASSUME NEW p \in Procs, Cache!Step(p) PROVE CacheInTime'
  <2>1. CASE Cache!Call(p)
    BY <2>1 DEF Cache!Call, Cache!At, Cache!Go, Cache!FirstStep, Cache!disk
  <2>2. CASE Cache!Lstat1(p)
    BY <2>2 DEF Cache!Lstat1, Cache!At, Cache!Go, Cache!MTime, Cache!disk, Cache!NoFile, Cache!File
  <2>3. CASE Cache!Lstat2(p)
    BY <2>3 DEF Cache!Lstat2, Cache!At, Cache!Go, Cache!MTime, Cache!disk, Cache!NoFile, Cache!File
  <2>4. CASE Cache!Choose(p)
    BY <2>4 DEF Cache!Choose, Cache!At, Cache!Go, Cache!disk, Cache!MustCompile
  <2>5. CASE Cache!Load(p)
    BY <2>5 DEF Cache!Load, Cache!At, Cache!Go, Cache!disk
  <2>6. CASE Cache!MkStemp(p)
    BY <2>6 DEF Cache!MkStemp, Cache!At, Cache!Go, Cache!disk
  <2>7. CASE Cache!Dump(p)
    BY <2>7 DEF Cache!Dump, Cache!At, Cache!Go, Cache!AfterDump, Cache!disk, Cache!File
  <2>8. CASE Cache!Rename(p)
    BY <2>8 DEF Cache!Rename, Cache!At, Cache!Go, Cache!Replaced
  <2>9. CASE Cache!LoadFile(p)
    BY <2>9 DEF Cache!LoadFile, Cache!At, Cache!Go, Cache!disk
  <2>10. CASE Cache!Run(p)
    BY <2>10 DEF Cache!Run, Cache!At, Cache!Go, Cache!disk
  <2> QED
    BY <1>4, <2>1, <2>2, <2>3, <2>4, <2>5, <2>6, <2>7, <2>8, <2>9, <2>10 DEF Cache!Step
<1>5. ASSUME NEW p \in Procs, Cache!Crash(p) PROVE CacheInTime'
  BY <1>5 DEF Cache!Crash, Cache!disk
<1>6. CASE UNCHANGED Cache!vars
  BY <1>6 DEF Cache!vars
<1> QED
  BY <1>1, <1>2, <1>3, <1>4, <1>5, <1>6 DEF Cache!Next

LEMMA CacheExecutedNext ==
  Quiet /\ CacheTyped /\ CacheCompiled /\ CacheInTime /\ CacheExecuted /\ [Cache!Next]_(Cache!vars) => CacheExecuted'
<1> SUFFICES ASSUME Quiet, CacheTyped, CacheCompiled, CacheInTime, CacheExecuted, [Cache!Next]_(Cache!vars)
             PROVE CacheExecuted'
  OBVIOUS
<1> USE PartsAssumption DEF Cache!CacheAssumption, CacheTyped, Cache!FileType, CacheLabels,
   CacheCompiled, Dumping, CacheInTime, InTime, CacheExecuted
<1>1. CASE Cache!Tick
  BY <1>1 DEF Cache!Tick, Cache!local
<1>2. CASE Cache!Edit
  BY <1>2 DEF Cache!Edit, Cache!local, Cache!File, Cache!MayEdit, Cache!NoFile
<1>3. CASE Cache!Delete
  BY <1>3 DEF Cache!Delete, Cache!local, Cache!NoFile
<1>4. ASSUME NEW p \in Procs, Cache!Step(p) PROVE CacheExecuted'
  <2>1. CASE Cache!Call(p)
    BY <2>1 DEF Cache!Call, Cache!At, Cache!Go, Cache!FirstStep, Cache!disk
  <2>2. CASE Cache!Lstat1(p)
    BY <2>2 DEF Cache!Lstat1, Cache!At, Cache!Go, Cache!MTime, Cache!disk
  <2>3. CASE Cache!Lstat2(p)
    BY <2>3 DEF Cache!Lstat2, Cache!At, Cache!Go, Cache!MTime, Cache!disk
  <2>4. CASE Cache!Choose(p)
    BY <2>4 DEF Cache!Choose, Cache!At, Cache!Go, Cache!disk, Cache!MustCompile
  <2>5. CASE Cache!Load(p)
    BY <2>5 DEF Cache!Load, Cache!At, Cache!Go, Cache!disk, Cache!NoFile, Cache!File
  <2>6. CASE Cache!MkStemp(p)
    BY <2>6 DEF Cache!MkStemp, Cache!At, Cache!Go, Cache!disk
  <2>7. CASE Cache!Dump(p)
    BY <2>7 DEF Cache!Dump, Cache!At, Cache!Go, Cache!AfterDump, Cache!disk, Cache!File
  <2>8. CASE Cache!Rename(p)
    BY <2>8 DEF Cache!Rename, Cache!At, Cache!Go, Cache!Replaced
  <2>9. CASE Cache!LoadFile(p)
    BY <2>9 DEF Cache!LoadFile, Cache!At, Cache!Go, Cache!disk
  <2>10. CASE Cache!Run(p)
    BY <2>10 DEF Cache!Run, Cache!At, Cache!Go, Cache!disk
  <2> QED
    BY <1>4, <2>1, <2>2, <2>3, <2>4, <2>5, <2>6, <2>7, <2>8, <2>9, <2>10 DEF Cache!Step
<1>5. ASSUME NEW p \in Procs, Cache!Crash(p) PROVE CacheExecuted'
  BY <1>5 DEF Cache!Crash, Cache!disk
<1>6. CASE UNCHANGED Cache!vars
  BY <1>6 DEF Cache!vars
<1> QED
  BY <1>1, <1>2, <1>3, <1>4, <1>5, <1>6 DEF Cache!Next

--------------------------------------------------------------------------------
LEMMA CacheWholeInit == Cache!Init => CacheWhole
<1> SUFFICES ASSUME Cache!Init PROVE CacheWhole
  OBVIOUS
<1>1. \/ cache = [ver |-> 0, mtime |-> 0, whole |-> TRUE]
      \/ cache = [ver |-> 1, mtime |-> 1, whole |-> TRUE]
  BY DEF Cache!Init, Cache!File, Cache!NoFile
<1>2. cache.whole
  BY <1>1
<1>3. \A q \in Procs : at[q] # "rename"
  BY DEF Cache!Init
<1> QED
  BY <1>2, <1>3 DEF CacheWhole

LEMMA CacheOrderInit == Cache!Init => CacheCompiled /\ CacheInTime /\ CacheExecuted
<1> SUFFICES ASSUME Cache!Init PROVE CacheCompiled /\ CacheInTime /\ CacheExecuted
  OBVIOUS
<1>1. Cache!NoFile.ver = 0 /\ Cache!NoFile.mtime = 0
  BY DEF Cache!File, Cache!NoFile
<1>2. /\ source.ver = 1 /\ source.mtime = 1 /\ latest = 1
      /\ cache = Cache!NoFile \/ (cache.ver = 1 /\ cache.mtime = 1)
  BY DEF Cache!Init, Cache!File
<1>3. \A q \in Procs : at[q] = "idle" /\ first[q] = 0 /\ ran[q] = 0
  BY DEF Cache!Init
<1> QED
  BY <1>1, <1>2, <1>3 DEF CacheCompiled, CacheInTime, InTime, CacheExecuted, Dumping

\* A step of the pages is one of the cache, or leaves it as it is.
LEMMA CacheSteps == /\ PagesInit => Cache!Init
                    /\ [Outputs \/ Executes]_allVars => [Cache!Next]_(Cache!vars)
  BY DEF PagesInit, Outputs, Executes, allVars, cacheVars, Cache!vars

\* The variables of the cache keep their ranges, whatever the bounds.
THEOREM CacheTypeCorrect == PagesSpec => []Cache!TypeOK
<1>1. CacheTyped => Cache!TypeOK
  BY DEF CacheTyped, Cache!TypeOK, Cache!NoFile, Cache!File, Cache!FileType
<1> QED
  BY <1>1, CacheTypedInit, CacheTypedNext, CacheSteps, PTL DEF PagesSpec

\* No process ever finds half a compiled file, wherever others fail or die.
THEOREM CacheIsWhole == PagesSpec => []NeverTorn
<1>1. CacheWhole => NeverTorn
  BY DEF CacheWhole, NeverTorn, Cache!NeverTorn
<1> QED
  BY <1>1, CacheTypedInit, CacheTypedNext, CacheWholeInit, CacheWholeNext, CacheSteps,
       PTL DEF PagesSpec

\* As long as pages are edited in quiet moments, a call never executes a page older
\* than the one it began with, but for an older compiled file that replaced it since.
THEOREM QuietEditsAreSeen == Quiet => (PagesSpec => []Fresh)
<1> SUFFICES ASSUME Quiet PROVE PagesSpec => []Fresh
  OBVIOUS
<1>1. CacheCompiled /\ CacheInTime /\ CacheExecuted /\ CacheTyped /\ [Cache!Next]_(Cache!vars)
      => (CacheCompiled /\ CacheInTime /\ CacheExecuted)'
  BY CacheCompiledNext, CacheInTimeNext, CacheExecutedNext
<1>2. CacheExecuted => Fresh
  BY DEF CacheExecuted, Fresh, Cache!Fresh
<1> QED
  BY <1>1, <1>2, CacheTypedInit, CacheTypedNext, CacheOrderInit, CacheSteps, PTL DEF PagesSpec

\* And an older version that is renamed over a newer one is built again by the next
\* call, as it is older than the page.
THEOREM QuietCacheIsRebuilt == Quiet => (PagesSpec => []StaleIsOlder)
<1> SUFFICES ASSUME Quiet PROVE PagesSpec => []StaleIsOlder
  OBVIOUS
<1>1. CacheCompiled /\ CacheInTime /\ CacheTyped /\ [Cache!Next]_(Cache!vars) => (CacheCompiled /\ CacheInTime)'
  BY CacheCompiledNext, CacheInTimeNext
<1>2. CacheTyped /\ CacheCompiled /\ CacheInTime => StaleIsOlder
  BY DEF CacheTyped, CacheCompiled, CacheInTime, InTime, StaleIsOlder, Cache!StaleIsOlder, Cache!FileType
<1> QED
  BY <1>1, <1>2, CacheTypedInit, CacheTypedNext, CacheOrderInit, CacheSteps, PTL DEF PagesSpec
================================================================================
