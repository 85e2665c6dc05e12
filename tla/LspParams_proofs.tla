---------------------------- MODULE LspParams_proofs ----------------------------
(***************************************************************************)
(* For any texts, any cookie's name and any size of tmp: args makes the    *)
(* table of the pairs of its text, and luaL_lsp_session_init finds the     *)
(* session of the first cookie of its name, or makes one.                  *)
(***************************************************************************)
EXTENDS LspParams, SequenceTheorems, WellFoundedInduction, TLAPS

\* The provers know of no string that it is in STRING.
Chars == STRING \cup {BLANK, "byte", ".", "new"}
Types == /\ TypeOK
         /\ buf \in Seq(Chars) /\ session \in Seq(Chars) /\ out \in Seq(Chars)
         /\ table = [n \in DOMAIN table |-> table[n]]
         /\ pc = "urldecode" => parses = "args"
         /\ pc = "generate" => parses = "cookie"

\* The piece that args is in, and its last '=' so far
InPiece == /\ offset1 <= i
           /\ offset1 = 0 \/ p[offset1] = "&"
           /\ \A k \in offset1+1..i : p[k] # "&"
InValue == IF offset2 = 0 THEN length1 = 0 /\ \A k \in offset1+1..i : p[k] # "="
           ELSE /\ offset2 \in offset1+1..i /\ length1 = offset2 - 1 - offset1
                /\ p[offset2] = "=" /\ \A k \in offset2+1..i : p[k] # "="
\* What TakePair has found
Pair == [piece |-> [from |-> offset1, to |-> i], eq |-> offset2]
AtPair == /\ i = Len(p) \/ p[i + 1] = "&"
          /\ length1 # 0 /\ length2 # 0 /\ length2 = i - offset2

\* The table of the pairs before the piece that args is in
Before(n) == {q \in Pairs(p) : q.at < n}
Holds(n) == /\ DOMAIN table = {q.name : q \in Before(n)}
            /\ \A q \in Before(n) :
                 (\A r \in Before(n) : r.name = q.name => r.at <= q.at) /\ WellFormed(q.value)
                    => table[q.name] = Decoded(q.value)
\* What is still to be decoded makes the value complete.
Value == SubSeq(p, offset2 + 1, offset2 + length2)
Remaining == WellFormed(Value) => /\ s <= offset2 + length2
                                  /\ buf \o DecodedFrom(Value)[s - offset2 + 1] = Decoded(Value)
ArgsInv == parses = "args" =>
             /\ pc # "done" => InPiece /\ InValue /\ Holds(offset1)
             /\ pc = "urldecode" => AtPair /\ Remaining
             /\ pc = "done" => offset1 = Len(p) + 1 /\ Holds(offset1)

\* The cookie that is looked at is the first that may be the session's.
CookieInv == parses = "cookie" =>
               /\ pc = "scan" => /\ session = <<>> /\ out = <<>>
                                 /\ i = 0 \/ p[i] = SEMI
                                 /\ \A q \in CookieSplits : i <= q.piece.from
               /\ pc = "generate" => /\ out = <<>>
                                     /\ Given = {} => session = <<>>
                                     /\ \A q \in Given : session = Fitting(q.value)
               /\ pc = "done" => SessionOfCookie

IInv == Types /\ ArgsInv /\ CookieInv
--------------------------------------------------------------------------------
(***************************************************************************)
(* Numbers, and the positions that are chosen.                             *)
(***************************************************************************)
\* A set of numbers has a least one.
LEMMA LeastOf == ASSUME NEW T, T \subseteq Nat, T # {}
                 PROVE  \E n \in T : \A m \in T : n <= m
<1>1. \E n \in T : \A m \in T : ~(<<m, n>> \in OpToRel(<, Nat))
  BY NatLessThanWellFounded, WFMin
<1>2. PICK n \in T : \A m \in T : ~(m < n)
  BY <1>1 DEF OpToRel
<1> QED BY <1>2

\* Induction, over a set: no predicate is needed.
LEMMA SetInduction == ASSUME NEW T, 0 \in T, \A n \in Nat : n \in T => n + 1 \in T
                      PROVE  Nat \subseteq T
<1> SUFFICES ASSUME Nat \ T # {} PROVE FALSE
  OBVIOUS
<1>1. PICK n \in Nat \ T : \A m \in Nat \ T : n <= m
  BY LeastOf
<1>2. n # 0 /\ n - 1 \in Nat /\ n - 1 \notin Nat \ T
  BY <1>1
<1>3. (n - 1) + 1 \in T
  BY <1>2
<1> QED BY <1>1, <1>3

LEMMA BlankIsNone == BLANK # NUL /\ BLANK # SEMI /\ BLANK # "="
BY Zenon DEF BLANK, NUL, SEMI
LEMMA CharsHas == /\ BLANK \in Chars /\ "byte" \in Chars /\ "." \in Chars /\ "new" \in Chars
                  /\ \A t \in Seq(STRING) : t \in Seq(Chars)
BY SeqMonotonic DEF Chars

\* AfterBlanks and PositionOf choose what they describe.
LEMMA BlanksEnd ==
    ASSUME p \in Seq(Chars), NEW n \in 0..Len(p)
    PROVE  /\ AfterBlanks(n) \in n..Len(p)
           /\ Char(AfterBlanks(n)) # BLANK
           /\ \A k \in n..AfterBlanks(n)-1 : Char(k) = BLANK
<1> DEFINE T == {m \in n..Len(p) : Char(m) # BLANK}
<1>1. Len(p) \in Nat
  OBVIOUS
<1>2. Char(Len(p)) # BLANK
  <2>1. Char(Len(p)) = NUL
    BY <1>1 DEF Char
  <2> QED BY <2>1, BlankIsNone
<1>3. T \subseteq Nat /\ Len(p) \in T
  <2>1. Len(p) \in n..Len(p)
    BY <1>1
  <2>2. \A m \in n..Len(p) : m \in Nat
    BY <1>1
  <2> QED BY <2>1, <2>2, <1>2
<1>4. PICK m \in T : \A k \in T : m <= k
  BY <1>3, LeastOf
<1>5. \A k \in n..m-1 : Char(k) = BLANK
  BY <1>1, <1>4
<1>6. \E x \in n..Len(p) : Char(x) # BLANK /\ \A k \in n..x-1 : Char(k) = BLANK
  BY <1>4, <1>5
<1> QED BY <1>6 DEF AfterBlanks

LEMMA PositionFound ==
    ASSUME p \in Seq(Chars), NEW n \in 0..Len(p), NEW c
    PROVE  /\ PositionOf(c, n) \in n..Len(p)
           /\ PositionOf(c, n) = Len(p) \/ Char(PositionOf(c, n)) = c
           /\ \A k \in n..PositionOf(c, n)-1 : Char(k) # c
<1> DEFINE T == {m \in n..Len(p) : m = Len(p) \/ Char(m) = c}
<1>1. Len(p) \in Nat
  OBVIOUS
<1>3. T \subseteq Nat /\ Len(p) \in T
  BY <1>1
<1>4. PICK m \in T : \A k \in T : m <= k
  BY <1>3, LeastOf
<1>5. \A k \in n..m-1 : Char(k) # c
  BY <1>1, <1>4
<1>6. \E x \in n..Len(p) : (x = Len(p) \/ Char(x) = c) /\ \A k \in n..x-1 : Char(k) # c
  BY <1>4, <1>5
<1> QED BY <1>6 DEF PositionOf

(***************************************************************************)
(* The reference for urldecode, unfolded.                                  *)
(***************************************************************************)
\* What is decoded from k on, if f is what is decoded from later positions on
DecodeStep(v, f, k) == IF k > Len(v) THEN <<>>
                       ELSE IF v[k] = "%" THEN <<"byte">> \o f[k + 3]
                       ELSE <<IF v[k] = "+" THEN BLANK ELSE v[k]>> \o f[k + 1]

LEMMA DecodeUnfolds ==
    ASSUME NEW v \in Seq(Chars)
    PROVE  DecodedFrom(v) = [k \in 1..Len(v) + 3 |-> DecodeStep(v, DecodedFrom(v), k)]
<1> DEFINE N == Len(v) + 3
           T == {n \in Nat : n < N => \E f : f = [k \in N-n..N |-> DecodeStep(v, f, k)]}
<1>0. Len(v) \in Nat
  OBVIOUS
<1>1. 0 \in T
  <2> DEFINE f == [k \in N-0..N |-> <<>>]
  <2>1. f = [k \in N-0..N |-> DecodeStep(v, f, k)]
    BY <1>0 DEF DecodeStep
  <2> QED BY <2>1
<1>2. ASSUME NEW n \in Nat, n \in T PROVE n + 1 \in T
  <2> SUFFICES ASSUME n + 1 < N
               PROVE  \E g : g = [k \in N-(n+1)..N |-> DecodeStep(v, g, k)]
    OBVIOUS
  <2>1. PICK f : f = [k \in N-n..N |-> DecodeStep(v, f, k)]
    BY <1>0, <1>2
  <2> DEFINE g == [k \in N-(n+1)..N |-> IF k = N-(n+1) THEN DecodeStep(v, f, k) ELSE f[k]]
  <2>2. ASSUME NEW k \in N-(n+1)..N
        PROVE  DecodeStep(v, g, k) = DecodeStep(v, f, k)
    BY <1>0 DEF DecodeStep
  <2>3. ASSUME NEW k \in N-(n+1)..N
        PROVE  g[k] = DecodeStep(v, g, k)
    <3>1. CASE k = N-(n+1)
      BY <3>1, <2>2
    <3>2. CASE k # N-(n+1)
      <4>1. k \in N-n..N
        BY <3>2, <1>0
      <4>2. f[k] = DecodeStep(v, f, k)
        BY <4>1, <2>1
      <4> QED BY <3>2, <4>2, <2>2
    <3> QED BY <3>1, <3>2
  <2>4. g = [k \in N-(n+1)..N |-> DecodeStep(v, g, k)]
    BY <2>3
  <2> QED BY <2>4
<1>3. N - 1 \in T
  <2> HIDE DEF T
  <2>1. Nat \subseteq T
    BY <1>1, <1>2, SetInduction
  <2> QED BY <2>1, <1>0
<1>4. \E f : f = [k \in 1..N |-> DecodeStep(v, f, k)]
  <2>1. N - (N - 1) = 1 /\ N - 1 < N
    BY <1>0
  <2> QED BY <1>3, <2>1
<1> QED BY <1>4 DEF DecodedFrom, DecodeStep

LEMMA DecodedIsText ==
    ASSUME NEW v \in Seq(Chars), NEW k \in 1..Len(v)+3
    PROVE  DecodedFrom(v)[k] \in Seq(Chars)
<1> DEFINE N == Len(v) + 3
           f == DecodedFrom(v)
           T == {n \in Nat : \A m \in 1..N : N - n <= m => f[m] \in Seq(Chars)}
<1> HIDE DEF f
<1>0. Len(v) \in Nat
  OBVIOUS
<1>a. \A m \in 1..N : f[m] = DecodeStep(v, f, m)
  BY DecodeUnfolds DEF f
<1>b. <<>> \in Seq(Chars)
  OBVIOUS
<1>c. \A m \in 1..Len(v) : v[m] \in Chars
  BY ElementOfSeq
<1>d. \A c \in Chars : <<c>> \in Seq(Chars)
  OBVIOUS
<1>e. "byte" \in Chars /\ BLANK \in Chars
  BY CharsHas
<1>1. 0 \in T
  <2> SUFFICES ASSUME NEW m \in 1..N, N - 0 <= m PROVE f[m] \in Seq(Chars)
    OBVIOUS
  <2>1. m > Len(v)
    BY <1>0
  <2>2. DecodeStep(v, f, m) = <<>>
    BY <2>1 DEF DecodeStep
  <2> QED BY <2>2, <1>a, <1>b
<1>2. ASSUME NEW n \in Nat, n \in T PROVE n + 1 \in T
  <2> SUFFICES ASSUME NEW m \in 1..N, N - (n + 1) <= m PROVE f[m] \in Seq(Chars)
    OBVIOUS
  <2>1. CASE m > Len(v)
    BY <2>1, <1>a, <1>b DEF DecodeStep
  <2>2. CASE m <= Len(v)
    <3>0. f[m] = DecodeStep(v, f, m) /\ ~(m > Len(v))
      BY <2>2, <1>0, <1>a
    <3>1. m + 1 \in 1..N /\ m + 3 \in 1..N /\ N - n <= m + 1 /\ N - n <= m + 3
      BY <2>2, <1>0
    <3>2. f[m + 1] \in Seq(Chars) /\ f[m + 3] \in Seq(Chars)
      BY <3>1, <1>2
    <3>3. CASE v[m] = "%"
      <4>1. f[m] = <<"byte">> \o f[m + 3]
        BY <3>0, <3>3, Zenon DEF DecodeStep
      <4>2. <<"byte">> \in Seq(Chars)
        BY <1>d, <1>e
      <4> QED BY <4>1, <4>2, <3>2, ConcatProperties
    <3>4. CASE v[m] # "%"
      <4> DEFINE c == IF v[m] = "+" THEN BLANK ELSE v[m]
      <4>1. f[m] = <<c>> \o f[m + 1]
        BY <3>0, <3>4, Zenon DEF DecodeStep
      <4>2. <<c>> \in Seq(Chars)
        BY <1>c, <1>d, <1>e, <2>2, <1>0
      <4> HIDE DEF c
      <4> QED BY <4>1, <4>2, <3>2, ConcatProperties
    <3> QED BY <3>3, <3>4
  <2> QED BY <2>1, <2>2, <1>0
<1>3. N \in T
  <2> HIDE DEF T
  <2>1. Nat \subseteq T
    BY <1>1, <1>2, SetInduction
  <2> QED BY <2>1, <1>0
<1> QED BY <1>3, <1>0 DEF f

--------------------------------------------------------------------------------
(***************************************************************************)
(* The pairs of a text, where args has one.                                *)
(***************************************************************************)
\* The only piece that begins between a and b, where there is one, is that one.
LEMMA PieceAt ==
    ASSUME p \in Seq(Chars), NEW c, NEW a \in Nat, NEW b \in 0..Len(p), a <= b,
           \A k \in a+1..b : p[k] # c, b = Len(p) \/ p[b + 1] = c,
           NEW q \in Pieces(p, c), a <= q.from, q.from <= b
    PROVE  q = [from |-> a, to |-> b]
<1>0. Len(p) \in Nat
  OBVIOUS
<1>1. /\ q = [from |-> q.from, to |-> q.to]
      /\ q.from \in 0..Len(p) /\ q.to \in 0..Len(p) /\ q.from <= q.to
      /\ q.from = 0 \/ p[q.from] = c
      /\ q.to = Len(p) \/ p[q.to + 1] = c
      /\ \A k \in q.from+1..q.to : p[k] # c
  BY DEF Pieces
<1>2. q.from = a
  BY <1>0, <1>1
<1>3. ~(q.to < b)
  <2> SUFFICES ASSUME q.to < b PROVE FALSE
    OBVIOUS
  <2>1. q.to + 1 \in a+1..b /\ q.to # Len(p)
    BY <1>0, <1>1, <1>2
  <2> QED BY <2>1, <1>1
<1>4. ~(b < q.to)
  <2> SUFFICES ASSUME b < q.to PROVE FALSE
    OBVIOUS
  <2>1. b + 1 \in q.from+1..q.to /\ b # Len(p)
    BY <1>0, <1>1, <1>2
  <2> QED BY <2>1, <1>1
<1>5. q.to = b
  BY <1>0, <1>1, <1>3, <1>4
<1> QED BY <1>1, <1>2, <1>5

\* If it has a name and a value, its '=' is the one args has found.
LEMMA SplitAt ==
    ASSUME p \in Seq(Chars), i \in 0..Len(p), offset1 \in Nat, InPiece, InValue,
           i = Len(p) \/ p[i + 1] = "&",
           NEW q \in Splits(p), offset1 <= q.piece.from, q.piece.from <= i
    PROVE  /\ q = Pair
           /\ offset2 # 0 /\ length1 # 0 /\ i - offset2 # 0
<1>0. Len(p) \in Nat
  OBVIOUS
<1>1. /\ q = [piece |-> q.piece, eq |-> q.eq]
      /\ q.piece \in Pieces(p, "&") /\ q.eq \in 1..Len(p)
      /\ q.piece.from + 1 < q.eq /\ q.eq < q.piece.to /\ p[q.eq] = "="
      /\ \A k \in q.eq+1..q.piece.to : p[k] # "="
  BY DEF Splits
<1>2. q.piece = [from |-> offset1, to |-> i]
  <2> DEFINE r == q.piece
  <2>1. r \in Pieces(p, "&") /\ offset1 <= r.from /\ r.from <= i
    BY <1>1
  <2> HIDE DEF r
  <2>2. offset1 <= i /\ \A k \in offset1+1..i : p[k] # "&"
    BY DEF InPiece
  <2>3. r = [from |-> offset1, to |-> i]
    BY <2>1, <2>2, PieceAt
  <2> QED BY <2>3 DEF r
<1>3. q.piece.from = offset1 /\ q.piece.to = i
  BY <1>2
<1>4. offset2 # 0
  <2> SUFFICES ASSUME offset2 = 0 PROVE FALSE
    OBVIOUS
  <2>1. \A k \in offset1+1..i : p[k] # "="
    BY DEF InValue
  <2> QED BY <1>0, <1>1, <1>3, <2>1
<1>5. /\ offset2 \in offset1+1..i /\ length1 = offset2 - 1 - offset1
      /\ p[offset2] = "=" /\ \A k \in offset2+1..i : p[k] # "="
  BY <1>4 DEF InValue
<1>6. q.eq = offset2
  <2>1. ~(q.eq < offset2)
    BY <1>0, <1>1, <1>3, <1>5
  <2>2. ~(offset2 < q.eq)
    BY <1>0, <1>1, <1>3, <1>5
  <2> QED BY <1>0, <1>1, <1>5, <2>1, <2>2
<1>7. length1 # 0 /\ i - offset2 # 0
  BY <1>0, <1>1, <1>3, <1>5, <1>6
<1> QED BY <1>1, <1>2, <1>4, <1>6, <1>7 DEF Pair

\* And if args has found a name and a value, it is a pair.
LEMMA PairIsSplit ==
    ASSUME p \in Seq(Chars), i \in 0..Len(p), offset1 \in Nat, InPiece, InValue,
           i = Len(p) \/ p[i + 1] = "&", length1 # 0, i - offset2 # 0
    PROVE  /\ Pair \in Splits(p)
           /\ offset2 \in offset1+1..i /\ length1 = offset2 - 1 - offset1
<1>0. Len(p) \in Nat
  OBVIOUS
<1>1. /\ offset2 \in offset1+1..i /\ length1 = offset2 - 1 - offset1
      /\ p[offset2] = "=" /\ \A k \in offset2+1..i : p[k] # "="
  BY DEF InValue
<1>2. [from |-> offset1, to |-> i] \in Pieces(p, "&")
  BY <1>0 DEF Pieces, InPiece
<1> DEFINE piece == [from |-> offset1, to |-> i]
<1>3. piece.from = offset1 /\ piece.to = i
  OBVIOUS
<1>4. piece.from + 1 < offset2 /\ offset2 < piece.to /\ offset2 \in 1..Len(p)
  BY <1>0, <1>1
<1> HIDE DEF piece
<1>5. [piece |-> piece, eq |-> offset2] \in Splits(p)
  BY <1>1, <1>2, <1>3, <1>4 DEF Splits, piece
<1> QED BY <1>1, <1>5 DEF Pair, piece

\* What a split gives to the table
AsPair(q) == [at |-> q.piece.from, name |-> SubSeq(p, q.piece.from + 1, q.eq - 1),
              value |-> SubSeq(p, q.eq + 1, q.piece.to)]
LEMMA BeforeIs ==
    ASSUME NEW n, NEW x
    PROVE  x \in Before(n) <=> \E q \in Splits(p) : q.piece.from < n /\ x = AsPair(q)
BY DEF Before, Pairs, AsPair

\* A piece without a pair adds nothing, and one with a pair adds that.
LEMMA BeforeGrows ==
    ASSUME p \in Seq(Chars), i \in 0..Len(p), offset1 \in Nat, InPiece, InValue,
           i = Len(p) \/ p[i + 1] = "&"
    PROVE  Before(i + 1) = IF length1 # 0 /\ i - offset2 # 0 THEN Before(offset1) \cup {AsPair(Pair)}
                           ELSE Before(offset1)
<1>0. Len(p) \in Nat
  OBVIOUS
<1>1. \A q \in Splits(p) : q.piece.from \in Nat
  BY DEF Splits, Pieces
<1>2. ASSUME NEW q \in Splits(p), q.piece.from < i + 1
      PROVE  q.piece.from < offset1 \/ (q = Pair /\ length1 # 0 /\ i - offset2 # 0)
  <2>1. CASE offset1 <= q.piece.from
    BY <2>1, <1>0, <1>1, <1>2, SplitAt
  <2> QED BY <2>1, <1>1
<1>3. \A q \in Splits(p) : q.piece.from < offset1 => q.piece.from < i + 1
  BY <1>0, <1>1 DEF InPiece
<1>4. Pair.piece.from < i + 1
  BY <1>0 DEF InPiece, Pair
<1>5. \A x : x \in Before(offset1) => x \in Before(i + 1)
  BY <1>3, BeforeIs
<1>6. CASE length1 # 0 /\ i - offset2 # 0
  <2>1. Pair \in Splits(p)
    BY <1>6, PairIsSplit
  <2>2. AsPair(Pair) \in Before(i + 1)
    BY <2>1, <1>4, BeforeIs
  <2>3. \A x : x \in Before(i + 1) => x \in Before(offset1) \/ x = AsPair(Pair)
    BY <1>2, BeforeIs
  <2> QED BY <1>5, <1>6, <2>2, <2>3
<1>7. CASE ~(length1 # 0 /\ i - offset2 # 0)
  <2>1. \A x : x \in Before(i + 1) => x \in Before(offset1)
    BY <1>2, <1>7, BeforeIs
  <2> QED BY <1>5, <1>7, <2>1
<1> QED BY <1>6, <1>7

--------------------------------------------------------------------------------
(***************************************************************************)
(* args.                                                                   *)
(***************************************************************************)
\* The table is the same, and so is what is before.
LEMMA HoldsUnchanged ==
    ASSUME p' = p, table' = table, NEW n, Holds(n), NEW m, m' = n
    PROVE  Holds(m)'
BY DEF Holds, Before

LEMMA InitInv == Init => IInv
<1> SUFFICES ASSUME Init PROVE IInv
  OBVIOUS
<1>1. p \in Seq(STRING)
  BY TextAssumption DEF Init
<1>2. Len(p) \in Nat
  BY <1>1
<1>3. Types
  <2>1. buf \in Seq(Chars) /\ session \in Seq(Chars) /\ out \in Seq(Chars)
    BY DEF Init
  <2>2. TypeOK
    <3>1. parses \in {"args", "cookie"} /\ i \in 0..Len(p) /\ offset1 \in 0..Len(p) + 1
      BY <1>2 DEF Init
    <3>2. length1 \in 0..Len(p) /\ offset2 \in 0..Len(p) /\ length2 \in 0..Len(p) /\ offset2 = 0
      BY <1>2 DEF Init
    <3>3. pc = "scan"
      BY DEF Init
    <3> QED BY <1>1, <3>1, <3>2, <3>3 DEF TypeOK
  <2>3. table = [n \in DOMAIN table |-> table[n]]
    BY DEF Init
  <2> QED BY <2>1, <2>2, <2>3 DEF Types, Init
<1>4. ArgsInv
  <2>1. Before(0) = {}
    BY DEF Before, Pairs, Splits, Pieces
  <2>2. Holds(0)
    BY <2>1 DEF Holds, Init
  <2>3. InPiece /\ InValue
    BY DEF InPiece, InValue, Init
  <2> QED BY <2>2, <2>3 DEF ArgsInv, Init
<1>5. CookieInv
  <2>0. ASSUME NEW q \in CookieSplits PROVE q.piece.from \in 0..Len(p)
    <3>1. q.piece \in Pieces(p, SEMI)
      BY DEF CookieSplits
    <3> DEFINE r == q.piece
    <3>2. r \in Pieces(p, SEMI)
      BY <3>1
    <3> HIDE DEF r
    <3>3. r \in [from : 0..Len(p), to : 0..Len(p)]
      BY <3>2 DEF Pieces
    <3>4. r.from \in 0..Len(p)
      BY <3>3
    <3> QED BY <3>4 DEF r
  <2>2. \A q \in CookieSplits : i <= q.piece.from
    <3>1. i = 0
      BY DEF Init
    <3> QED BY <1>2, <2>0, <3>1
  <2> QED BY <2>2 DEF CookieInv, Init
<1> QED BY <1>3, <1>4, <1>5 DEF IInv

LEMMA TextOK == ASSUME Types PROVE p \in Seq(Chars) /\ Len(p) \in Nat /\ i \in 0..Len(p)
BY CharsHas DEF Types, TypeOK

LEMMA EqualsInv == IInv /\ Equals => IInv'
<1> SUFFICES ASSUME IInv, Equals PROVE IInv'
  OBVIOUS
<1>0. p \in Seq(Chars) /\ Len(p) \in Nat /\ i \in 0..Len(p)
  BY TextOK DEF IInv
<1>1. /\ parses = "args" /\ pc = "scan" /\ i < Len(p) /\ p[i + 1] = "="
      /\ length1' = i - offset1 /\ offset2' = i + 1 /\ i' = i + 1
      /\ UNCHANGED <<parses, p, pc, offset1, length2, s, buf, table, session, out>>
  BY DEF Equals, Scans, Char
<1>2. Types /\ InPiece /\ InValue /\ Holds(offset1)
  BY <1>1 DEF IInv, ArgsInv
<1>3. Types'
  <2>1. TypeOK'
    BY <1>0, <1>1, <1>2 DEF Types, TypeOK, InPiece
  <2> QED BY <1>1, <1>2, <2>1 DEF Types
<1>4. InPiece'
  BY <1>0, <1>1, <1>2 DEF Types, TypeOK, InPiece
<1>5. InValue'
  <2>1. offset1 \in Nat /\ offset1 <= i
    BY <1>2, <1>0 DEF Types, TypeOK, InPiece
  <2>2. offset2' # 0 /\ offset2' \in offset1'+1..i' /\ length1' = offset2' - 1 - offset1'
    BY <1>0, <1>1, <2>1
  <2>3. p'[offset2'] = "=" /\ \A k \in offset2'+1..i' : p'[k] # "="
    BY <1>0, <1>1
  <2> QED BY <2>2, <2>3 DEF InValue
<1>6. Holds(offset1)'
  BY <1>1, <1>2, HoldsUnchanged
<1>7. ArgsInv' /\ CookieInv'
  BY <1>1, <1>4, <1>5, <1>6 DEF ArgsInv, CookieInv
<1> QED BY <1>3, <1>7 DEF IInv

LEMMA OtherInv == IInv /\ Other => IInv'
<1> SUFFICES ASSUME IInv, Other PROVE IInv'
  OBVIOUS
<1>0. p \in Seq(Chars) /\ Len(p) \in Nat /\ i \in 0..Len(p)
  BY TextOK DEF IInv
<1>1. /\ parses = "args" /\ pc = "scan" /\ i < Len(p) /\ p[i + 1] \notin {"=", "&"} /\ i' = i + 1
      /\ UNCHANGED <<parses, p, pc, offset1, length1, offset2, length2, s, buf, table, session, out>>
  BY DEF Other, Scans, Char, scan
<1>2. Types /\ InPiece /\ InValue /\ Holds(offset1)
  BY <1>1 DEF IInv, ArgsInv
<1>3. Types'
  BY <1>0, <1>1, <1>2 DEF Types, TypeOK
<1>4. InPiece'
  BY <1>0, <1>1, <1>2 DEF Types, TypeOK, InPiece
<1>5. InValue'
  BY <1>0, <1>1, <1>2 DEF Types, TypeOK, InValue
<1>6. Holds(offset1)'
  BY <1>1, <1>2, HoldsUnchanged
<1>7. ArgsInv' /\ CookieInv'
  BY <1>1, <1>4, <1>5, <1>6 DEF ArgsInv, CookieInv
<1> QED BY <1>3, <1>7 DEF IInv

\* Ready, after a piece: nothing of the next one has been seen.
LEMMA ReadyInv ==
    ASSUME Types, InPiece, parses = "args", i = Len(p) \/ p[i + 1] = "&",
           Ready, p' = p, parses' = parses, Holds(offset1)', s' = s,
           table' = [n \in DOMAIN table' |-> table'[n]],
           buf \in Seq(Chars), buf' = buf, session' = session, out' = out
    PROVE  IInv'
<1>0. p \in Seq(Chars) /\ Len(p) \in Nat /\ i \in 0..Len(p)
  BY TextOK
<1>1. /\ pc' = IF i < Len(p) THEN "scan" ELSE "done"
      /\ i' = IF i < Len(p) THEN i + 1 ELSE i
      /\ offset1' = i + 1 /\ offset2' = 0 /\ length2' = 0 /\ length1' = 0
  BY DEF Ready, NextPair
<1>2. pc' # "urldecode" /\ pc' # "generate"
  BY <1>1
<1>3. Types'
  <2>1. TypeOK'
    <3>1. pc' \in {"scan", "done"} /\ i' \in 0..Len(p) /\ offset1' \in 0..Len(p) + 1
      BY <1>0, <1>1
    <3>2. 0 \in 0..Len(p)
      BY <1>0
    <3> QED BY <1>1, <1>2, <3>1, <3>2 DEF Types, TypeOK
  <2> QED BY <1>2, <2>1 DEF Types
<1>4. CASE i < Len(p)
  <2>1. pc' = "scan" /\ i' = i + 1 /\ p[i + 1] = "&"
    BY <1>1, <1>4
  <2>2. InPiece' /\ InValue'
    BY <1>0, <1>1, <2>1 DEF InPiece, InValue
  <2> QED BY <1>3, <2>1, <2>2 DEF IInv, ArgsInv, CookieInv
<1>5. CASE i = Len(p)
  <2>1. pc' = "done" /\ offset1' = Len(p') + 1
    BY <1>0, <1>1, <1>5
  <2> QED BY <1>3, <2>1 DEF IInv, ArgsInv, CookieInv
<1> QED BY <1>0, <1>4, <1>5

LEMMA AtEnd == ASSUME p \in Seq(Chars), i \in 0..Len(p), EndsPair
               PROVE  parses = "args" /\ pc = "scan" /\ (i = Len(p) \/ p[i + 1] = "&")
BY DEF EndsPair, Scans, Char

LEMMA SkipPairInv == IInv /\ SkipPair => IInv'
<1> SUFFICES ASSUME IInv, SkipPair PROVE IInv'
  OBVIOUS
<1>0. p \in Seq(Chars) /\ Len(p) \in Nat /\ i \in 0..Len(p)
  BY TextOK DEF IInv
<1>1. /\ EndsPair /\ ~(length1 # 0 /\ i - offset2 # 0) /\ Ready
      /\ UNCHANGED <<parses, p, s, buf, table, session, out>>
  BY DEF SkipPair, IsPair
<1>2. parses = "args" /\ pc = "scan" /\ (i = Len(p) \/ p[i + 1] = "&")
  BY <1>0, <1>1, AtEnd
<1>3. Types /\ InPiece /\ InValue /\ Holds(offset1) /\ offset1 \in Nat
  BY <1>2, <1>0 DEF IInv, ArgsInv, Types, TypeOK
<1>4. Before(i + 1) = Before(offset1)
  BY <1>0, <1>1, <1>2, <1>3, BeforeGrows
<1>5. Holds(i + 1)
  BY <1>3, <1>4 DEF Holds
<1>6. Holds(offset1)'
  BY <1>1, <1>5 DEF Holds, Before, Ready, NextPair
<1>7. buf \in Seq(Chars) /\ table' = [n \in DOMAIN table' |-> table'[n]]
  BY <1>1, <1>3 DEF Types
<1> QED BY <1>1, <1>2, <1>3, <1>6, <1>7, ReadyInv

LEMMA TakePairInv == IInv /\ TakePair => IInv'
<1> SUFFICES ASSUME IInv, TakePair PROVE IInv'
  OBVIOUS
<1>0. p \in Seq(Chars) /\ Len(p) \in Nat /\ i \in 0..Len(p)
  BY TextOK DEF IInv
<1>1. /\ EndsPair /\ length1 # 0 /\ i - offset2 # 0
      /\ length2' = i - offset2 /\ pc' = "urldecode" /\ s' = offset2 /\ buf' = <<>>
      /\ UNCHANGED <<parses, p, i, offset1, length1, offset2, table, session, out>>
  BY DEF TakePair, IsPair
<1>2. parses = "args" /\ pc = "scan" /\ (i = Len(p) \/ p[i + 1] = "&")
  BY <1>0, <1>1, AtEnd
<1>3. Types /\ InPiece /\ InValue /\ Holds(offset1) /\ offset1 \in Nat
  BY <1>2, <1>0 DEF IInv, ArgsInv, Types, TypeOK
<1>4. offset2 \in offset1+1..i /\ length1 = offset2 - 1 - offset1
  BY <1>0, <1>1, <1>2, <1>3, PairIsSplit
<1>5. Types'
  <2>1. TypeOK'
    <3>1. length2' \in 0..Len(p) /\ offset2 + length2' <= i /\ offset2 \in 0..Len(p)
      BY <1>0, <1>1, <1>3, <1>4
    <3>2. s' \in offset2'..Len(p')
      BY <1>0, <1>1, <1>4, <1>3
    <3> QED BY <1>1, <1>2, <1>3, <3>1, <3>2 DEF Types, TypeOK
  <2>2. <<>> \in Seq(Chars)
    OBVIOUS
  <2>3. buf' \in Seq(Chars)
    BY <1>1, <2>2, Zenon
  <2> QED BY <1>1, <1>2, <1>3, <2>1, <2>3 DEF Types
<1>6. InPiece' /\ InValue' /\ Holds(offset1)'
  BY <1>1, <1>3 DEF InPiece, InValue, Holds, Before
<1>7. AtPair'
  BY <1>0, <1>1, <1>2 DEF AtPair
<1>8. Remaining'
  <2> DEFINE v == Value'
  <2>1. s' - offset2' + 1 = 1 /\ s' <= offset2' + length2'
    BY <1>0, <1>1, <1>4, <1>3
  <2>2. v \in Seq(Chars)
    <3>1. \A k \in offset2+1..i : p[k] \in Chars
      BY <1>0, <1>4, <1>3, ElementOfSeq
    <3>2. v = SubSeq(p, offset2 + 1, offset2 + length2')
      BY <1>1 DEF Value
    <3>3. offset2 + length2' = i
      BY <1>0, <1>1, <1>4, <1>3
    <3> QED BY <3>1, <3>2, <3>3, <1>0, <1>4, <1>3, SubSeqProperties
  <2> HIDE DEF v
  <2>3. DecodedFrom(v)[1] \in Seq(Chars)
    <3>1. Len(v) \in Nat
      BY <2>2
    <3>2. 1 \in 1..Len(v) + 3
      BY <3>1
    <3> QED BY <2>2, <3>2, DecodedIsText
  <2>4. buf' \o DecodedFrom(v)[1] = DecodedFrom(v)[1]
    BY <1>1, <2>3, ConcatEmptySeq
  <2> QED BY <2>1, <2>4 DEF Remaining, Decoded, v
<1>9. ArgsInv' /\ CookieInv'
  BY <1>1, <1>2, <1>6, <1>7, <1>8 DEF ArgsInv, CookieInv
<1> QED BY <1>5, <1>9 DEF IInv

\* Where urldecode is: the value, its length and its characters.
LEMMA ValueIs ==
    ASSUME IInv, pc = "urldecode"
    PROVE  /\ Value \in Seq(Chars) /\ Len(Value) = length2 /\ Value = SubSeq(p, offset2 + 1, i)
           /\ \A k \in 1..length2 : Value[k] = p[offset2 + k]
           /\ offset2 \in offset1+1..i /\ length1 = offset2 - 1 - offset1
           /\ offset1 \in Nat /\ length2 = i - offset2 /\ s \in offset2..Len(p)
           /\ parses = "args" /\ AtPair /\ Remaining /\ InPiece /\ InValue /\ Holds(offset1)
<1>0. p \in Seq(Chars) /\ Len(p) \in Nat /\ i \in 0..Len(p)
  BY TextOK DEF IInv
<1>1. /\ parses = "args" /\ AtPair /\ Remaining /\ InPiece /\ InValue /\ Holds(offset1)
      /\ offset1 \in Nat /\ s \in offset2..Len(p)
  BY <1>0 DEF IInv, ArgsInv, Types, TypeOK
<1>2. (i = Len(p) \/ p[i + 1] = "&") /\ length1 # 0 /\ length2 = i - offset2 /\ i - offset2 # 0
  BY <1>1 DEF AtPair
<1>3. offset2 \in offset1+1..i /\ length1 = offset2 - 1 - offset1
  BY <1>0, <1>1, <1>2, PairIsSplit
<1>4. offset2 + length2 = i
  BY <1>0, <1>1, <1>2, <1>3
<1>5. Value = SubSeq(p, offset2 + 1, i)
  BY <1>4 DEF Value
<1>6. \A k \in offset2+1..i : p[k] \in Chars
  BY <1>0, <1>1, <1>3, ElementOfSeq
<1>7. offset2 \in Nat /\ i \in Int /\ offset2 + 1 \in Int /\ offset2 + 1 <= i
  BY <1>0, <1>1, <1>2, <1>3
<1>8. /\ Value \in Seq(Chars)
      /\ Len(Value) = i - (offset2 + 1) + 1
      /\ \A k \in 1..i - (offset2 + 1) + 1 : Value[k] = p[offset2 + 1 + k - 1]
  BY <1>5, <1>6, <1>7, SubSeqProperties
<1>9. \A k \in 1..length2 : Value[k] = p[offset2 + k]
  BY <1>2, <1>7, <1>8
<1> QED BY <1>1, <1>2, <1>3, <1>5, <1>7, <1>8, <1>9

LEMMA SetFieldInv == IInv /\ SetField => IInv'
<1> SUFFICES ASSUME IInv, SetField PROVE IInv'
  OBVIOUS
<1> DEFINE name == Slice(offset1, length1)
           pair == AsPair(Pair)
<1>0. p \in Seq(Chars) /\ Len(p) \in Nat /\ i \in 0..Len(p)
  BY TextOK DEF IInv
<1>1. /\ pc = "urldecode" /\ s >= offset2 + length2 /\ Ready
      /\ table' = [n \in DOMAIN table \cup {name} |-> IF n = name THEN buf ELSE table[n]]
      /\ UNCHANGED <<parses, p, s, buf, session, out>>
  BY DEF SetField
<1>2. /\ Value \in Seq(Chars) /\ Len(Value) = length2 /\ Value = SubSeq(p, offset2 + 1, i)
      /\ offset2 \in offset1+1..i /\ length1 = offset2 - 1 - offset1
      /\ offset1 \in Nat /\ length2 = i - offset2 /\ s \in offset2..Len(p)
      /\ parses = "args" /\ AtPair /\ Remaining /\ InPiece /\ InValue /\ Holds(offset1)
  BY <1>1, ValueIs
<1>3. (i = Len(p) \/ p[i + 1] = "&") /\ length1 # 0 /\ i - offset2 # 0
  BY <1>2 DEF AtPair
<1>4. Types
  BY DEF IInv
<1>5. pair.at = offset1 /\ pair.name = name /\ pair.value = Value
  <2>1. offset1 + length1 = offset2 - 1
    BY <1>0, <1>2
  <2> QED BY <1>2, <2>1 DEF AsPair, Pair, Slice
<1>6. Before(i + 1) = Before(offset1) \cup {pair}
  BY <1>0, <1>2, <1>3, BeforeGrows
<1>7. WellFormed(Value) => buf = Decoded(Value)
  <2> SUFFICES ASSUME WellFormed(Value) PROVE buf = Decoded(Value)
    OBVIOUS
  <2>1. s - offset2 + 1 = length2 + 1 /\ buf \o DecodedFrom(Value)[s - offset2 + 1] = Decoded(Value)
    BY <1>0, <1>1, <1>2 DEF Remaining
  <2>2. length2 + 1 \in 1..Len(Value)+3 /\ length2 + 1 > Len(Value)
    BY <1>0, <1>2
  <2>3. DecodedFrom(Value)[length2 + 1] = DecodeStep(Value, DecodedFrom(Value), length2 + 1)
    <3> DEFINE v == Value
               F == DecodedFrom(v)
    <3>1. F = [k \in 1..Len(v)+3 |-> DecodeStep(v, F, k)]
      BY <1>2, DecodeUnfolds
    <3> HIDE DEF v, F
    <3>2. length2 + 1 \in 1..Len(v)+3
      BY <2>2 DEF v
    <3>3. F[length2 + 1] = DecodeStep(v, F, length2 + 1)
      BY <3>1, <3>2
    <3> QED BY <3>3 DEF v, F
  <2>4. DecodedFrom(Value)[length2 + 1] = <<>>
    BY <2>2, <2>3, Zenon DEF DecodeStep
  <2>5. buf \in Seq(Chars)
    BY <1>4 DEF Types
  <2>6. buf \o <<>> = buf
    BY <2>5, ConcatEmptySeq
  <2> QED BY <2>1, <2>4, <2>6
<1>8. \A q \in Before(offset1) : q.at \in Nat /\ q.at < offset1
  <2>1. \A q \in Splits(p) : q.piece.from \in Nat
    BY <1>0 DEF Splits, Pieces
  <2> QED BY <2>1, BeforeIs DEF AsPair
<1> HIDE DEF pair, name
<1>9. DOMAIN table' = {q.name : q \in Before(i + 1)}
  <2>1. DOMAIN table = {q.name : q \in Before(offset1)}
    BY <1>2 DEF Holds
  <2>2. DOMAIN table' = DOMAIN table \cup {name}
    BY <1>1
  <2> QED BY <2>1, <2>2, <1>5, <1>6
<1>10. ASSUME NEW q \in Before(i + 1), WellFormed(q.value),
              \A r \in Before(i + 1) : r.name = q.name => r.at <= q.at
       PROVE  table'[q.name] = Decoded(q.value)
  <2>1. CASE q = pair
    <3>1. buf = Decoded(q.value)
      BY <2>1, <1>5, <1>7, <1>10
    <3>2. name \in DOMAIN table \cup {name} /\ q.name = name
      BY <2>1, <1>5
    <3>3. table'[name] = buf
      BY <1>1, <3>2
    <3> QED BY <3>1, <3>2, <3>3
  <2>2. CASE q # pair
    <3>1. q \in Before(offset1)
      BY <2>2, <1>6
    <3>2. q.name # name
      <4> SUFFICES ASSUME q.name = name PROVE FALSE
        OBVIOUS
      <4>1. pair \in Before(i + 1) /\ pair.name = q.name
        BY <1>5, <1>6
      <4>2. offset1 <= q.at
        BY <4>1, <1>5, <1>10
      <4> QED BY <4>2, <3>1, <1>8, <1>2
    <3>3. table[q.name] = Decoded(q.value)
      BY <3>1, <1>2, <1>6, <1>10 DEF Holds
    <3>4. q.name \in DOMAIN table
      BY <3>1, <1>2 DEF Holds
    <3>5. table'[q.name] = table[q.name]
      BY <1>1, <3>2, <3>4
    <3> QED BY <3>3, <3>5
  <2> QED BY <2>1, <2>2
<1>11. Holds(offset1)'
  <2>1. p' = p /\ offset1' = i + 1
    BY <1>1 DEF Ready, NextPair
  <2> QED BY <2>1, <1>9, <1>10 DEF Holds, Before
<1>12. buf \in Seq(Chars) /\ table' = [n \in DOMAIN table' |-> table'[n]]
  BY <1>1, <1>4 DEF Types
<1> QED BY <1>1, <1>2, <1>3, <1>4, <1>11, <1>12, ReadyInv

(***************************************************************************)
(* urldecode: a step that adds what, of n characters.                      *)
(***************************************************************************)
LEMMA DecodeInv ==
    ASSUME IInv, pc = "urldecode", InDecode, NEW what \in Seq(Chars), NEW n \in Nat,
           buf' = buf \o what, s' = s + n, s < offset2 + length2, s + n <= Len(p),
           WellFormed(Value) =>
              /\ s + n <= offset2 + length2
              /\ DecodedFrom(Value)[s - offset2 + 1]
                   = what \o DecodedFrom(Value)[s - offset2 + 1 + n]
    PROVE  IInv'
<1>0. p \in Seq(Chars) /\ Len(p) \in Nat /\ i \in 0..Len(p)
  BY TextOK DEF IInv
<1>1. UNCHANGED <<parses, p, pc, i, offset1, length1, offset2, length2, table, session, out>>
  BY DEF InDecode, scan
<1>2. /\ Value \in Seq(Chars) /\ Len(Value) = length2
      /\ offset2 \in offset1+1..i /\ offset1 \in Nat /\ length2 = i - offset2 /\ s \in offset2..Len(p)
      /\ parses = "args" /\ AtPair /\ Remaining /\ InPiece /\ InValue /\ Holds(offset1)
  BY ValueIs
<1>3. Types
  BY DEF IInv
<1>4. Types'
  <2>1. TypeOK'
    <3>1. s' \in offset2'..Len(p')
      BY <1>0, <1>1, <1>2
    <3> QED BY <1>1, <1>3, <3>1 DEF Types, TypeOK
  <2>2. buf' \in Seq(Chars)
    BY <1>3, ConcatProperties DEF Types
  <2> QED BY <1>1, <1>3, <2>1, <2>2 DEF Types
<1>5. InPiece' /\ InValue' /\ AtPair' /\ Holds(offset1)'
  BY <1>1, <1>2 DEF InPiece, InValue, AtPair, Holds, Before
<1>6. Value' = Value
  BY <1>1 DEF Value
<1>7. Remaining'
  <2> SUFFICES ASSUME WellFormed(Value)
               PROVE  /\ s' <= offset2 + length2
                      /\ buf' \o DecodedFrom(Value)[s' - offset2 + 1] = Decoded(Value)
    BY <1>1, <1>6 DEF Remaining
  <2> DEFINE k == s - offset2 + 1
  <2>1. s' <= offset2 + length2 /\ s' - offset2 + 1 = k + n
    BY <1>0, <1>2
  <2>2. k + n \in 1..Len(Value)+3
    BY <1>0, <1>2
  <2>3. DecodedFrom(Value)[k + n] \in Seq(Chars)
    BY <1>2, <2>2, DecodedIsText
  <2>4. buf \o DecodedFrom(Value)[k] = Decoded(Value)
    BY <1>2 DEF Remaining
  <2>5. DecodedFrom(Value)[k] = what \o DecodedFrom(Value)[k + n]
    OBVIOUS
  <2>6. (buf \o what) \o DecodedFrom(Value)[k + n] = buf \o (what \o DecodedFrom(Value)[k + n])
    <3>1. buf \in Seq(Chars)
      BY <1>3 DEF Types
    <3> DEFINE rest == DecodedFrom(Value)[k + n]
    <3>2. rest \in Seq(Chars)
      BY <2>3
    <3> HIDE DEF rest
    <3>3. (buf \o what) \o rest = buf \o (what \o rest)
      BY <3>1, <3>2, ConcatAssociative
    <3> QED BY <3>3 DEF rest
  <2> HIDE DEF k
  <2> QED BY <2>1, <2>4, <2>5, <2>6
<1>8. ArgsInv' /\ CookieInv'
  BY <1>1, <1>2, <1>5, <1>7 DEF ArgsInv, CookieInv
<1> QED BY <1>4, <1>8 DEF IInv

\* What the reference does at s.
LEMMA AtS ==
    ASSUME IInv, pc = "urldecode", s < offset2 + length2
    PROVE  /\ Char(s) = p[s + 1] /\ p[s + 1] \in Chars
           /\ s + 1 <= Len(p) /\ s + 1 <= offset2 + length2 /\ offset2 + length2 <= Len(p)
           /\ s \in Nat /\ Len(p) \in Nat /\ offset2 + length2 \in Nat
           /\ DecodedFrom(Value)[s - offset2 + 1]
                = IF Char(s) = "%" THEN <<"byte">> \o DecodedFrom(Value)[s - offset2 + 1 + 3]
                  ELSE <<IF Char(s) = "+" THEN BLANK ELSE Char(s)>>
                         \o DecodedFrom(Value)[s - offset2 + 1 + 1]
           /\ WellFormed(Value) /\ Char(s) = "%" =>
                 s + 3 <= offset2 + length2 /\ Char(s + 1) = "h" /\ Char(s + 2) = "h"
<1>0. p \in Seq(Chars) /\ Len(p) \in Nat /\ i \in 0..Len(p)
  BY TextOK DEF IInv
<1>2. /\ Value \in Seq(Chars) /\ Len(Value) = length2
      /\ \A k \in 1..length2 : Value[k] = p[offset2 + k]
      /\ offset2 \in offset1+1..i /\ offset1 \in Nat /\ length2 = i - offset2 /\ s \in offset2..Len(p)
  BY ValueIs
<1> DEFINE k == s - offset2 + 1
           v == Value
           F == DecodedFrom(v)
<1>3. /\ s + 1 <= Len(p) /\ s + 1 <= offset2 + length2 /\ offset2 + length2 = i
      /\ s \in Nat /\ offset2 + length2 \in Nat /\ k \in 1..length2 /\ offset2 + k = s + 1
  BY <1>0, <1>2
<1>4. Char(s) = p[s + 1] /\ p[s + 1] \in Chars /\ Value[k] = Char(s)
  <2>1. s + 1 \in 1..Len(p) /\ s < Len(p)
    BY <1>0, <1>3
  <2>2. p[s + 1] \in Chars
    BY <1>0, <2>1, ElementOfSeq
  <2>3. Value[k] = p[s + 1]
    BY <1>2, <1>3
  <2> QED BY <2>1, <2>2, <2>3 DEF Char
<1>5. F[k] = DecodeStep(v, F, k)
  <2>1. F = [m \in 1..Len(v)+3 |-> DecodeStep(v, F, m)]
    BY <1>2, DecodeUnfolds
  <2>2. k \in 1..Len(v)+3
    BY <1>2, <1>3
  <2> HIDE DEF F, v, k
  <2> QED BY <2>1, <2>2
<1>6. ~(k > Len(v))
  BY <1>2, <1>3
<1>7. F[k] = IF Char(s) = "%" THEN <<"byte">> \o F[k + 3]
             ELSE <<IF Char(s) = "+" THEN BLANK ELSE Char(s)>> \o F[k + 1]
  <2> HIDE DEF F, k
  <2> QED BY <1>4, <1>5, <1>6, Zenon DEF DecodeStep
<1>8. ASSUME WellFormed(v), Char(s) = "%"
      PROVE  s + 3 <= offset2 + length2 /\ Char(s + 1) = "h" /\ Char(s + 2) = "h"
  <2>1. k \in 1..Len(v) /\ v[k] = "%"
    BY <1>2, <1>3, <1>4, <1>8
  <2>2. k + 2 <= Len(v) /\ v[k + 1] = "h" /\ v[k + 2] = "h"
    BY <1>8, <2>1 DEF WellFormed
  <2>3. k + 1 \in 1..length2 /\ k + 2 \in 1..length2 /\ s + 3 <= offset2 + length2
    BY <1>0, <1>2, <1>3, <2>2
  <2>4. offset2 + (k + 1) = (s + 1) + 1 /\ offset2 + (k + 2) = (s + 2) + 1
    BY <1>2, <1>3
  <2>5. p[(s + 1) + 1] = "h" /\ p[(s + 2) + 1] = "h"
    <3>1. v[k + 1] = p[offset2 + (k + 1)] /\ v[k + 2] = p[offset2 + (k + 2)]
      BY <1>2, <2>3
    <3> QED BY <2>2, <2>4, <3>1
  <2>6. s + 1 < Len(p) /\ s + 2 < Len(p)
    BY <1>0, <1>2, <1>3, <2>3
  <2> QED BY <2>3, <2>5, <2>6 DEF Char
<1> QED BY <1>0, <1>3, <1>4, <1>7, <1>8

LEMMA PlusInv == IInv /\ Plus => IInv'
<1> SUFFICES ASSUME IInv, Plus PROVE IInv'
  OBVIOUS
<1>1. /\ pc = "urldecode" /\ s < offset2 + length2 /\ Char(s) = "+"
      /\ buf' = buf \o <<BLANK>> /\ s' = s + 1 /\ InDecode
  BY DEF Plus, Decodes, Add
<1>2. <<BLANK>> \in Seq(Chars)
  BY CharsHas
<1>3. /\ s + 1 <= Len(p) /\ s + 1 <= offset2 + length2
      /\ DecodedFrom(Value)[s - offset2 + 1] = <<BLANK>> \o DecodedFrom(Value)[s - offset2 + 1 + 1]
  BY <1>1, AtS
<1> QED BY <1>1, <1>2, <1>3, DecodeInv

LEMMA PlainInv == IInv /\ Plain => IInv'
<1> SUFFICES ASSUME IInv, Plain PROVE IInv'
  OBVIOUS
<1>1. /\ pc = "urldecode" /\ s < offset2 + length2 /\ Char(s) # "+" /\ Char(s) # "%"
      /\ buf' = buf \o <<Char(s)>> /\ s' = s + 1 /\ InDecode
  BY DEF Plain, Decodes, Add
<1>2. <<Char(s)>> \in Seq(Chars)
  BY <1>1, AtS
<1>3. /\ s + 1 <= Len(p) /\ s + 1 <= offset2 + length2
      /\ DecodedFrom(Value)[s - offset2 + 1] = <<Char(s)>> \o DecodedFrom(Value)[s - offset2 + 1 + 1]
  BY <1>1, AtS
<1> QED BY <1>1, <1>2, <1>3, DecodeInv

LEMMA EscapeInv == IInv /\ Escape => IInv'
<1> SUFFICES ASSUME IInv, Escape PROVE IInv'
  OBVIOUS
<1>1. pc = "urldecode" /\ s < offset2 + length2 /\ Char(s) = "%" /\ InDecode /\ Percent
  BY DEF Escape, Decodes
<1>2. /\ s + 1 <= Len(p) /\ s \in Nat /\ Len(p) \in Nat
      /\ DecodedFrom(Value)[s - offset2 + 1] = <<"byte">> \o DecodedFrom(Value)[s - offset2 + 1 + 3]
      /\ WellFormed(Value) => s + 3 <= offset2 + length2 /\ Char(s + 1) = "h" /\ Char(s + 2) = "h"
  BY <1>1, AtS
<1>3. <<>> \in Seq(Chars) /\ <<"byte">> \in Seq(Chars) /\ <<".">> \in Seq(Chars)
  BY CharsHas
<1>4. "h" # NUL
  BY DEF NUL
<1>5. CASE Char(s + 1) = NUL /\ Add(<<>>, 1)
  <2>1. ~WellFormed(Value)
    BY <1>2, <1>4, <1>5
  <2>2. buf' = buf \o <<>> /\ s' = s + 1
    BY <1>5 DEF Add
  <2> QED BY <1>1, <1>2, <1>3, <2>1, <2>2, DecodeInv
<1>6. CASE Char(s + 1) # NUL /\ Char(s + 2) = NUL /\ Add(<<>>, 2)
  <2>1. ~WellFormed(Value)
    BY <1>2, <1>4, <1>6
  <2>2. buf' = buf \o <<>> /\ s' = s + 2
    BY <1>6 DEF Add
  <2>3. s + 2 <= Len(p)
    BY <1>2, <1>6 DEF Char
  <2> QED BY <1>1, <1>2, <1>3, <2>1, <2>2, <2>3, DecodeInv
<1>7. ASSUME Char(s + 1) # NUL, Char(s + 2) # NUL,
             NEW c1 \in Hex(Char(s + 1)), NEW c2 \in Hex(Char(s + 2)),
             Add(<<IF c1 /\ c2 THEN "byte" ELSE ".">>, 3)
      PROVE  IInv'
  <2> DEFINE what == <<IF c1 /\ c2 THEN "byte" ELSE ".">>
  <2>1. what \in Seq(Chars)
    <3>1. what \in {<<"byte">>, <<".">>}
      BY Zenon
    <3> HIDE DEF what
    <3> QED BY <1>3, <3>1
  <2>2. buf' = buf \o what /\ s' = s + 3
    BY <1>7, Zenon DEF Add
  <2>3. s + 3 <= Len(p)
    BY <1>2, <1>7 DEF Char
  <2>4. ASSUME WellFormed(Value) PROVE what = <<"byte">>
    <3>1. c1 /\ c2
      <4>1. c1 \in {TRUE} /\ c2 \in {TRUE}
        BY <1>2, <1>7, <2>4, Zenon DEF Hex
      <4> QED BY <4>1
    <3> QED BY <3>1
  <2> HIDE DEF what
  <2> QED BY <1>1, <1>2, <2>1, <2>2, <2>3, <2>4, DecodeInv
<1> QED BY <1>1, <1>5, <1>6, <1>7 DEF Percent

--------------------------------------------------------------------------------
(***************************************************************************)
(* luaL_lsp_session_init.                                                  *)
(***************************************************************************)
\* The cookie at i, with the names of the code
P1 == AfterBlanks(i)
P2 == PositionOf(SEMI, P1)
P3 == PositionOf("=", P1)
End == P1 + Least(P2 - P1, SizeofTmp - 1)
Found == P3 < End /\ Named(P1, P3)
ThePiece == [from |-> i, to |-> P2]
TheSplit == [piece |-> ThePiece, eq |-> P3 + 1]

LEMMA NameOK == /\ CookieName \in Seq(STRING) /\ Len(CookieName) \in Nat
                /\ SizeofTmp \in Nat /\ SizeofTmp > Len(CookieName) + 2
                /\ \A k \in 1..Len(CookieName) : CookieName[k] # BLANK /\ CookieName[k] # "="
                                                 /\ CookieName[k] # SEMI
<1>1. /\ CookieName \in Seq(STRING)
      /\ SizeofTmp \in Nat /\ SizeofTmp > Len(CookieName) + 2
  BY TextAssumption
<1>2. \A k \in 1..Len(CookieName) : CookieName[k] \notin {BLANK, SEMI, "="}
  BY TextAssumption
<1>3. Len(CookieName) \in Nat
  BY <1>1
<1> QED BY <1>1, <1>2, <1>3

LEMMA Positions ==
    ASSUME p \in Seq(Chars), i \in 0..Len(p)
    PROVE  /\ P1 \in i..Len(p) /\ P2 \in P1..Len(p) /\ P3 \in P1..Len(p)
           /\ \A k \in i+1..P1 : p[k] = BLANK
           /\ P1 < Len(p) => p[P1 + 1] # BLANK
           /\ P2 < Len(p) => p[P2 + 1] = SEMI
           /\ \A k \in i+1..P2 : p[k] # SEMI
           /\ P3 < Len(p) => p[P3 + 1] = "="
           /\ \A k \in P1+1..P3 : p[k] # "="
<1>0. Len(p) \in Nat
  OBVIOUS
<1>1. P1 \in i..Len(p) /\ Char(P1) # BLANK /\ \A k \in i..P1-1 : Char(k) = BLANK
  BY BlanksEnd DEF P1
<1>2. P1 \in 0..Len(p)
  BY <1>0, <1>1
<1>3. P2 \in P1..Len(p) /\ (P2 = Len(p) \/ Char(P2) = SEMI) /\ \A k \in P1..P2-1 : Char(k) # SEMI
  BY <1>2, PositionFound DEF P2
<1>4. P3 \in P1..Len(p) /\ (P3 = Len(p) \/ Char(P3) = "=") /\ \A k \in P1..P3-1 : Char(k) # "="
  BY <1>2, PositionFound DEF P3
<1>5. \A k \in 1..Len(p) : Char(k - 1) = p[k]
  <2> SUFFICES ASSUME NEW k \in 1..Len(p) PROVE Char(k - 1) = p[k]
    OBVIOUS
  <2>1. k - 1 < Len(p) /\ (k - 1) + 1 = k
    BY <1>0
  <2> QED BY <2>1 DEF Char
<1>6. \A k \in i+1..P1 : p[k] = BLANK
  <2> SUFFICES ASSUME NEW k \in i+1..P1 PROVE p[k] = BLANK
    OBVIOUS
  <2>1. k - 1 \in i..P1-1 /\ k \in 1..Len(p)
    BY <1>0, <1>1
  <2> QED BY <2>1, <1>1, <1>5
<1>7. \A k \in i+1..P2 : p[k] # SEMI
  <2> SUFFICES ASSUME NEW k \in i+1..P2 PROVE p[k] # SEMI
    OBVIOUS
  <2>0. k \in Int /\ P1 \in Int /\ i \in Int /\ i + 1 <= k /\ k <= P2
    BY <1>0, <1>2, <1>3
  <2>1. CASE k <= P1
    <3>1. k \in i+1..P1
      BY <2>0, <2>1
    <3> QED BY <3>1, <1>6, BlankIsNone
  <2>2. CASE k > P1
    <3>1. k - 1 \in P1..P2-1 /\ k \in 1..Len(p)
      BY <2>2, <1>0, <1>2, <1>3
    <3> QED BY <3>1, <1>3, <1>5
  <2> QED BY <2>0, <2>1, <2>2
<1>8. \A k \in P1+1..P3 : p[k] # "="
  <2> SUFFICES ASSUME NEW k \in P1+1..P3 PROVE p[k] # "="
    OBVIOUS
  <2>1. k - 1 \in P1..P3-1 /\ k \in 1..Len(p)
    BY <1>0, <1>2, <1>4
  <2> QED BY <2>1, <1>4, <1>5
<1>9. /\ P1 < Len(p) => p[P1 + 1] # BLANK
      /\ P2 < Len(p) => p[P2 + 1] = SEMI
      /\ P3 < Len(p) => p[P3 + 1] = "="
  <2>1. P1 < Len(p) => p[P1 + 1] # BLANK
    BY <1>1 DEF Char
  <2>2. P2 < Len(p) => p[P2 + 1] = SEMI
    BY <1>0, <1>3 DEF Char
  <2>3. P3 < Len(p) => p[P3 + 1] = "="
    BY <1>0, <1>4 DEF Char
  <2> QED BY <2>1, <2>2, <2>3
<1> QED BY <1>1, <1>3, <1>4, <1>6, <1>7, <1>8, <1>9

LEMMA SplitFacts ==
    ASSUME NEW q \in CookieSplits
    PROVE  /\ q = [piece |-> q.piece, eq |-> q.eq] /\ q.piece \in Pieces(p, SEMI)
           /\ q.eq \in 1..Len(p) /\ p[q.eq] = "="
           /\ q.piece.from < q.eq /\ q.eq <= q.piece.to
           /\ q.piece.from \in 0..Len(p) /\ q.piece.to \in 0..Len(p)
           /\ q.piece.from = 0 \/ p[q.piece.from] = SEMI
           /\ \E a \in q.piece.from+1..q.eq :
                 /\ SubSeq(p, a, q.eq - 1) = CookieName
                 /\ \A k \in q.piece.from+1..a-1 : p[k] = BLANK
<1>1. /\ q \in [piece : Pieces(p, SEMI), eq : 1..Len(p)]
      /\ q.piece.from < q.eq /\ q.eq <= q.piece.to /\ p[q.eq] = "="
      /\ \E a \in q.piece.from+1..q.eq :
            /\ SubSeq(p, a, q.eq - 1) = CookieName
            /\ \A k \in q.piece.from+1..a-1 : p[k] = BLANK
  BY DEF CookieSplits
<1>2. q = [piece |-> q.piece, eq |-> q.eq] /\ q.piece \in Pieces(p, SEMI) /\ q.eq \in 1..Len(p)
  BY <1>1
<1> DEFINE r == q.piece
<1>3. r \in Pieces(p, SEMI)
  BY <1>2
<1> HIDE DEF r
<1>4. r \in [from : 0..Len(p), to : 0..Len(p)] /\ (r.from = 0 \/ p[r.from] = SEMI)
  BY <1>3 DEF Pieces
<1>5. r.from \in 0..Len(p) /\ r.to \in 0..Len(p)
  BY <1>4
<1> QED BY <1>1, <1>2, <1>4, <1>5 DEF r

\* A cookie of the name, where the code looks, is found there.
LEMMA SplitFound ==
    ASSUME p \in Seq(Chars), i \in 0..Len(p), NEW q \in CookieSplits,
           i <= q.piece.from, q.piece.from <= P2
    PROVE  Found /\ q = TheSplit
<1>0. Len(p) \in Nat
  OBVIOUS
<1> DEFINE L == Len(CookieName)
<1>1. /\ P1 \in i..Len(p) /\ P2 \in P1..Len(p) /\ P3 \in P1..Len(p)
      /\ \A k \in i+1..P1 : p[k] = BLANK
      /\ P1 < Len(p) => p[P1 + 1] # BLANK
      /\ P2 < Len(p) => p[P2 + 1] = SEMI
      /\ \A k \in i+1..P2 : p[k] # SEMI
      /\ P3 < Len(p) => p[P3 + 1] = "="
      /\ \A k \in P1+1..P3 : p[k] # "="
  BY Positions
<1>2. P1 \in Nat /\ P2 \in Nat /\ P3 \in Nat /\ i \in Nat /\ i <= P1 /\ P1 <= P2 /\ P1 <= P3 /\ P2 <= Len(p)
  BY <1>0, <1>1
<1>3. /\ q = [piece |-> q.piece, eq |-> q.eq] /\ q.piece \in Pieces(p, SEMI)
      /\ q.eq \in 1..Len(p) /\ p[q.eq] = "=" /\ q.piece.from < q.eq /\ q.eq <= q.piece.to
  BY SplitFacts
<1>4. q.piece = ThePiece
  <2> DEFINE r == q.piece
  <2>1. r \in Pieces(p, SEMI) /\ i <= r.from /\ r.from <= P2
    BY <1>3
  <2>2. P2 = Len(p) \/ p[P2 + 1] = SEMI
    BY <1>0, <1>1, <1>2
  <2>3. P2 \in 0..Len(p) /\ i <= P2
    BY <1>0, <1>2
  <2> HIDE DEF r
  <2>4. r = [from |-> i, to |-> P2]
    BY <1>1, <1>2, <2>1, <2>2, <2>3, PieceAt
  <2> QED BY <2>4 DEF r, ThePiece
<1>5. q.piece.from = i /\ q.piece.to = P2
  BY <1>4 DEF ThePiece
<1>6. PICK a \in i+1..q.eq : /\ SubSeq(p, a, q.eq - 1) = CookieName
                             /\ \A k \in i+1..a-1 : p[k] = BLANK
  BY <1>5, SplitFacts
<1>7. a \in Nat /\ i + 1 <= a /\ a <= q.eq /\ q.eq <= P2
  BY <1>0, <1>2, <1>3, <1>5, <1>6
<1>8. /\ Len(SubSeq(p, a, q.eq - 1)) = q.eq - a
      /\ \A k \in 1..q.eq-a : SubSeq(p, a, q.eq - 1)[k] = p[a + k - 1]
  <2>0. q.eq \in Int /\ q.eq <= Len(p)
    BY <1>0, <1>3
  <2>1. \A k \in a..q.eq-1 : p[k] \in Chars
    BY <1>0, <1>2, <1>7, <2>0, ElementOfSeq
  <2>2. a \in Int /\ q.eq - 1 \in Int
    BY <1>3, <1>7
  <2>3. /\ Len(SubSeq(p, a, q.eq - 1)) = IF a <= q.eq - 1 THEN (q.eq - 1) - a + 1 ELSE 0
        /\ \A k \in 1..(q.eq - 1)-a+1 : SubSeq(p, a, q.eq - 1)[k] = p[a + k - 1]
    BY <2>1, <2>2, SubSeqProperties
  <2>5. (q.eq - 1) - a + 1 = q.eq - a /\ (~(a <= q.eq - 1) => q.eq - a = 0)
    BY <2>0, <1>7
  <2> QED BY <2>3, <2>5
<1>9. q.eq - a = L /\ \A k \in 1..L : CookieName[k] = p[a + k - 1]
  BY <1>6, <1>8
<1>10. L \in Nat /\ SizeofTmp \in Nat /\ SizeofTmp > L + 2
  BY NameOK
<1>11. \A k \in a..q.eq-1 : p[k] # BLANK /\ p[k] # "="
  <2> SUFFICES ASSUME NEW k \in a..q.eq-1 PROVE p[k] # BLANK /\ p[k] # "="
    OBVIOUS
  <2>1. k - a + 1 \in 1..L /\ a + (k - a + 1) - 1 = k
    BY <1>3, <1>7, <1>9, <1>10
  <2>2. CookieName[k - a + 1] = p[k]
    BY <2>1, <1>9
  <2> QED BY <2>1, <2>2, NameOK
<1>12. a = P1 + 1
  <2>1. ~(P1 + 1 < a)
    <3> SUFFICES ASSUME P1 + 1 < a PROVE FALSE
      OBVIOUS
    <3>1. P1 + 1 \in i+1..a-1 /\ P1 < Len(p)
      BY <1>0, <1>2, <1>3, <1>7
    <3>2. p[P1 + 1] = BLANK
      BY <3>1, <1>6
    <3> QED BY <3>1, <3>2, <1>1
  <2>2. ~(a < P1 + 1)
    <3> SUFFICES ASSUME a < P1 + 1 PROVE FALSE
      OBVIOUS
    <3>1. a \in i+1..P1
      BY <1>2, <1>7
    <3>2. p[a] = BLANK
      BY <3>1, <1>1
    <3>3. p[a] # BLANK
      <4>1. CASE a = q.eq
        BY <4>1, <1>3, BlankIsNone
      <4>2. CASE a # q.eq
        <5>1. a \in a..q.eq-1
          BY <4>2, <1>3, <1>7
        <5> QED BY <5>1, <1>11
      <4> QED BY <4>1, <4>2
    <3> QED BY <3>2, <3>3
  <2> QED BY <2>1, <2>2, <1>2, <1>7
<1>13. P3 = q.eq - 1
  <2>1. ~(P3 < q.eq - 1)
    <3> SUFFICES ASSUME P3 < q.eq - 1 PROVE FALSE
      OBVIOUS
    <3>1. P3 + 1 \in a..q.eq-1 /\ P3 < Len(p)
      BY <1>2, <1>3, <1>7, <1>12
    <3> QED BY <3>1, <1>1, <1>11
  <2>2. ~(q.eq - 1 < P3)
    <3> SUFFICES ASSUME q.eq - 1 < P3 PROVE FALSE
      OBVIOUS
    <3>1. q.eq \in P1+1..P3
      BY <1>2, <1>3, <1>7, <1>12
    <3> QED BY <3>1, <1>1, <1>3
  <2> QED BY <2>1, <2>2, <1>2, <1>3
<1>14. P3 < End
  <2>1. P3 < P2 /\ P3 = P1 + L
    BY <1>2, <1>3, <1>7, <1>9, <1>10, <1>12, <1>13
  <2> QED BY <2>1, <1>2, <1>10 DEF End, Least
<1>15. Named(P1, P3)
  <2>1. P1 + (P3 - P1) = q.eq - 1
    BY <1>2, <1>3, <1>13
  <2> QED BY <1>6, <1>12, <2>1 DEF Named, Slice
<1>16. q = TheSplit
  <2>1. q.eq = P3 + 1
    BY <1>2, <1>3, <1>13
  <2> QED BY <1>3, <1>4, <2>1 DEF TheSplit
<1> QED BY <1>14, <1>15, <1>16 DEF Found

\* What the code finds is a cookie of the name.
LEMMA FoundIsSplit ==
    ASSUME p \in Seq(Chars), i \in 0..Len(p), i = 0 \/ p[i] = SEMI, Found
    PROVE  /\ TheSplit \in CookieSplits
           /\ P3 = P1 + Len(CookieName) /\ P3 < P2
<1>0. Len(p) \in Nat
  OBVIOUS
<1> DEFINE L == Len(CookieName)
<1>1. /\ P1 \in i..Len(p) /\ P2 \in P1..Len(p) /\ P3 \in P1..Len(p)
      /\ \A k \in i+1..P1 : p[k] = BLANK
      /\ P2 < Len(p) => p[P2 + 1] = SEMI
      /\ \A k \in i+1..P2 : p[k] # SEMI
      /\ P3 < Len(p) => p[P3 + 1] = "="
  BY Positions
<1>2. P1 \in Nat /\ P2 \in Nat /\ P3 \in Nat /\ i \in Nat /\ i <= P1 /\ P1 <= P2 /\ P1 <= P3 /\ P2 <= Len(p)
  BY <1>0, <1>1
<1>3. L \in Nat /\ SizeofTmp \in Nat /\ SizeofTmp > L + 2
  BY NameOK
<1>4. P3 < P2
  BY <1>2, <1>3 DEF Found, End, Least
<1>5. SubSeq(p, P1 + 1, P3) = CookieName
  <2>1. P1 + (P3 - P1) = P3
    BY <1>2
  <2> QED BY <2>1 DEF Found, Named, Slice
<1>6. P3 = P1 + L
  <2>1. \A k \in P1+1..P3 : p[k] \in Chars
    BY <1>0, <1>2, <1>4, ElementOfSeq
  <2>2. P1 + 1 \in Int /\ P3 \in Int
    BY <1>2
  <2>3. Len(SubSeq(p, P1 + 1, P3)) = IF P1 + 1 <= P3 THEN P3 - (P1 + 1) + 1 ELSE 0
    BY <2>1, <2>2, SubSeqProperties
  <2> QED BY <2>3, <1>2, <1>5
<1>7. ThePiece \in Pieces(p, SEMI)
  <2>1. i \in 0..Len(p) /\ P2 \in 0..Len(p) /\ i <= P2
    BY <1>0, <1>2
  <2>2. P2 = Len(p) \/ p[P2 + 1] = SEMI
    BY <1>0, <1>1, <1>2
  <2> QED BY <1>1, <2>1, <2>2 DEF ThePiece, Pieces
<1>8. ThePiece.from = i /\ ThePiece.to = P2
  BY DEF ThePiece
<1>9. p[P3 + 1] = "=" /\ P3 + 1 \in 1..Len(p) /\ i < P3 + 1 /\ P3 + 1 <= P2
  BY <1>0, <1>1, <1>2, <1>4
<1>10. \E a \in i+1..P3+1 : /\ SubSeq(p, a, (P3 + 1) - 1) = CookieName
                             /\ \A k \in i+1..a-1 : p[k] = BLANK
  <2>1. P1 + 1 \in i+1..P3+1 /\ (P3 + 1) - 1 = P3 /\ (P1 + 1) - 1 = P1
    BY <1>2
  <2> QED BY <1>1, <1>5, <2>1
<1>11. TheSplit.piece = ThePiece /\ TheSplit.eq = P3 + 1 /\ TheSplit \in [piece : Pieces(p, SEMI), eq : 1..Len(p)]
  BY <1>7, <1>9 DEF TheSplit
<1>12. TheSplit \in CookieSplits
  BY <1>8, <1>9, <1>10, <1>11 DEF CookieSplits
<1> QED BY <1>4, <1>6, <1>12

\* What a split gives to the session
AsCookie(q) == [at |-> q.piece.from, value |-> SubSeq(p, q.eq + 1, q.piece.to)]
LEMMA CookieOK ==
    ASSUME p \in Seq(Chars), NEW r \in CookieValues
    PROVE  /\ r.value \in Seq(Chars)
           /\ \E q \in CookieSplits : r = AsCookie(q) /\ r.at = q.piece.from
<1>0. Len(p) \in Nat
  OBVIOUS
<1>1. PICK q \in CookieSplits : r = AsCookie(q)
  BY DEF CookieValues, AsCookie
<1>2. q.eq \in 1..Len(p) /\ q.piece.to \in 0..Len(p)
  BY SplitFacts
<1>3. \A k \in q.eq+1..q.piece.to : p[k] \in Chars
  BY <1>0, <1>2, ElementOfSeq
<1>4. q.eq + 1 \in Int /\ q.piece.to \in Int
  BY <1>2
<1>5. SubSeq(p, q.eq + 1, q.piece.to) \in Seq(Chars)
  BY <1>3, <1>4, SubSeqProperties
<1>6. r.value = SubSeq(p, q.eq + 1, q.piece.to) /\ r.at = q.piece.from
  BY <1>1 DEF AsCookie
<1> QED BY <1>1, <1>5, <1>6

\* What fits of a value: of its own characters, and none only if it has none.
LEMMA FittingOK ==
    ASSUME NEW v \in Seq(Chars)
    PROVE  Fitting(v) \in Seq(Chars) /\ (Fitting(v) = <<>> <=> v = <<>>)
<1> DEFINE n == Least(Len(v), SizeofTmp - Len(CookieName) - 2)
<1>0. Len(v) \in Nat
  OBVIOUS
<1>1. n \in Nat /\ n <= Len(v) /\ (n = 0 <=> Len(v) = 0)
  BY <1>0, NameOK DEF Least
<1> HIDE DEF n
<1>2. \A k \in 1..n : v[k] \in Chars
  BY <1>0, <1>1, ElementOfSeq
<1>3. /\ SubSeq(v, 1, n) \in Seq(Chars)
      /\ Len(SubSeq(v, 1, n)) = IF 1 <= n THEN n - 1 + 1 ELSE 0
  BY <1>1, <1>2, SubSeqProperties
<1>4. Len(SubSeq(v, 1, n)) = n
  BY <1>1, <1>3
<1>5. \A t \in Seq(Chars) : t = <<>> <=> Len(t) = 0
  BY EmptySeq
<1>6. SubSeq(v, 1, n) = <<>> <=> v = <<>>
  BY <1>1, <1>3, <1>4, <1>5
<1> QED BY <1>3, <1>6 DEF Fitting, n

\* What is copied is what fits of the cookie's value.
LEMMA CopyFits ==
    ASSUME p \in Seq(Chars), i \in 0..Len(p), P3 = P1 + Len(CookieName), P3 < P2
    PROVE  Slice(P3 + 1, End - P3 - 1) = Fitting(SubSeq(p, (P3 + 1) + 1, P2))
<1> DEFINE L == Len(CookieName)
           v == SubSeq(p, (P3 + 1) + 1, P2)
           n == Least(Len(v), SizeofTmp - L - 2)
           t == SubSeq(p, (P3 + 1) + 1, End)
<1>0. Len(p) \in Nat
  OBVIOUS
<1>1. P1 \in Nat /\ P2 \in Nat /\ P3 \in Nat /\ P1 <= P2 /\ P1 <= P3 /\ P2 <= Len(p)
  <2>1. P1 \in i..Len(p) /\ P2 \in P1..Len(p) /\ P3 \in P1..Len(p)
    BY Positions
  <2> QED BY <1>0, <2>1
<1>2. L \in Nat /\ SizeofTmp \in Nat /\ SizeofTmp > L + 2
  BY NameOK
<1>3. \A k \in (P3 + 1) + 1 .. P2 : p[k] \in Chars
  BY <1>0, <1>1, ElementOfSeq
<1>4. v \in Seq(Chars) /\ Len(v) = P2 - P3 - 1 /\ \A k \in 1..P2-P3-1 : v[k] = p[P3 + 1 + k]
  <2>1. (P3 + 1) + 1 \in Int /\ P2 \in Int
    BY <1>1
  <2>2. /\ v \in Seq(Chars)
        /\ Len(v) = IF (P3 + 1) + 1 <= P2 THEN P2 - ((P3 + 1) + 1) + 1 ELSE 0
        /\ \A k \in 1..P2 - ((P3 + 1) + 1) + 1 : v[k] = p[(P3 + 1) + 1 + k - 1]
    BY <1>3, <2>1, SubSeqProperties
  <2> HIDE DEF v
  <2>3. Len(v) = P2 - P3 - 1
    BY <1>1, <2>2
  <2>4. ASSUME NEW k \in 1..P2-P3-1 PROVE v[k] = p[P3 + 1 + k]
    <3>1. k \in 1..P2 - ((P3 + 1) + 1) + 1 /\ (P3 + 1) + 1 + k - 1 = P3 + 1 + k
      BY <1>1
    <3>2. v[k] = p[(P3 + 1) + 1 + k - 1]
      BY <3>1, <2>2
    <3> QED BY <3>1, <3>2
  <2> QED BY <2>2, <2>3, <2>4
<1> HIDE DEF v
<1>5. n \in Nat /\ n <= P2 - P3 - 1 /\ End = P3 + 1 + n
  <2> DEFINE a == P2 - P3 - 1
             b == SizeofTmp - L - 2
             d == P2 - P1
             e == SizeofTmp - 1
  <2>1. a \in Nat /\ b \in Nat /\ d = a + L + 1 /\ e = b + L + 1 /\ P3 = P1 + L
    BY <1>1, <1>2
  <2>2. n = Least(a, b) /\ End = P1 + Least(d, e)
    BY <1>4, Zenon DEF End
  <2>3. a = P2 - P3 - 1
    OBVIOUS
  <2> HIDE DEF n, L, a, b, d, e
  <2>4. CASE a < b
    <3>1. Least(a, b) = a /\ Least(d, e) = d
      BY <1>2, <2>1, <2>4 DEF Least
    <3> QED BY <1>1, <1>2, <2>1, <2>2, <2>3, <3>1
  <2>5. CASE ~(a < b)
    <3>1. Least(a, b) = b /\ Least(d, e) = e
      BY <1>2, <2>1, <2>5 DEF Least
    <3> QED BY <1>1, <1>2, <2>1, <2>2, <2>3, <2>5, <3>1
  <2> QED BY <2>4, <2>5
<1> HIDE DEF n
<1>6. t \in Seq(Chars) /\ Len(t) = n /\ \A k \in 1..n : t[k] = p[P3 + 1 + k]
  <2>1. (P3 + 1) + 1 \in Int /\ End \in Int
    BY <1>1, <1>5
  <2>2. \A k \in (P3 + 1) + 1 .. End : p[k] \in Chars
    BY <1>1, <1>3, <1>5
  <2>3. /\ t \in Seq(Chars)
        /\ Len(t) = IF (P3 + 1) + 1 <= End THEN End - ((P3 + 1) + 1) + 1 ELSE 0
        /\ \A k \in 1..End - ((P3 + 1) + 1) + 1 : t[k] = p[(P3 + 1) + 1 + k - 1]
    BY <2>1, <2>2, SubSeqProperties
  <2> HIDE DEF t
  <2>4. Len(t) = n
    BY <1>1, <1>5, <2>3
  <2>5. ASSUME NEW k \in 1..n PROVE t[k] = p[P3 + 1 + k]
    <3>1. k \in 1..End - ((P3 + 1) + 1) + 1 /\ (P3 + 1) + 1 + k - 1 = P3 + 1 + k
      BY <1>1, <1>5
    <3>2. t[k] = p[(P3 + 1) + 1 + k - 1]
      BY <3>1, <2>3
    <3> QED BY <3>1, <3>2
  <2> QED BY <2>3, <2>4, <2>5
<1> HIDE DEF t
<1>7. t = SubSeq(v, 1, n)
  <2>1. \A k \in 1..n : v[k] \in Chars
    BY <1>1, <1>4, <1>5, ElementOfSeq
  <2>2. /\ SubSeq(v, 1, n) \in Seq(Chars)
        /\ Len(SubSeq(v, 1, n)) = IF 1 <= n THEN n - 1 + 1 ELSE 0
        /\ \A k \in 1..n - 1 + 1 : SubSeq(v, 1, n)[k] = v[1 + k - 1]
    BY <1>5, <2>1, SubSeqProperties
  <2>3. Len(SubSeq(v, 1, n)) = n
    BY <1>5, <2>2
  <2>4. ASSUME NEW k \in 1..n PROVE SubSeq(v, 1, n)[k] = t[k]
    <3>1. k \in 1..n - 1 + 1 /\ 1 + k - 1 = k /\ k \in 1..P2-P3-1
      BY <1>1, <1>5
    <3>2. SubSeq(v, 1, n)[k] = v[1 + k - 1]
      BY <2>2, <3>1
    <3>3. SubSeq(v, 1, n)[k] = v[k]
      BY <3>1, <3>2
    <3> QED BY <1>4, <1>6, <3>1, <3>3
  <2> DEFINE u == SubSeq(v, 1, n)
  <2>5. u \in Seq(Chars) /\ Len(u) = Len(t) /\ \A k \in 1..Len(u) : u[k] = t[k]
    BY <1>6, <2>2, <2>3, <2>4
  <2> HIDE DEF u
  <2>6. u = t
    BY <1>6, <2>5, SeqEqual
  <2> QED BY <2>6 DEF u
<1>8. Slice(P3 + 1, End - P3 - 1) = t
  <2>1. (P3 + 1) + (End - P3 - 1) = End
    BY <1>1, <1>5
  <2> QED BY <2>1, Zenon DEF Slice, t
<1> QED BY <1>7, <1>8 DEF Fitting, n, v

\* The one cookie that may be given, when the code has found one.
LEMMA GivenFound ==
    ASSUME p \in Seq(Chars), i \in 0..Len(p), i = 0 \/ p[i] = SEMI, Found,
           \A q \in CookieSplits : i <= q.piece.from
    PROVE  /\ Slice(P3 + 1, End - P3 - 1) \in Seq(Chars)
           /\ Given = {} => Slice(P3 + 1, End - P3 - 1) = <<>>
           /\ \A r \in Given : Slice(P3 + 1, End - P3 - 1) = Fitting(r.value)
<1>0. Len(p) \in Nat
  OBVIOUS
<1> DEFINE c == AsCookie(TheSplit)
           v == SubSeq(p, (P3 + 1) + 1, P2)
<1>1. TheSplit \in CookieSplits /\ P3 = P1 + Len(CookieName) /\ P3 < P2
  BY FoundIsSplit
<1>2. c \in CookieValues
  BY <1>1 DEF CookieValues, AsCookie
<1>3. c.at = i /\ c.value = v
  BY DEF AsCookie, TheSplit, ThePiece
<1>4. v \in Seq(Chars)
  BY <1>2, <1>3, CookieOK
<1> HIDE DEF c, v
<1>5. Slice(P3 + 1, End - P3 - 1) = Fitting(v)
  BY <1>1, CopyFits DEF v
<1>6. ASSUME NEW r \in CookieValues PROVE i <= r.at /\ (r.at = i => r = c)
  <2>1. PICK q \in CookieSplits : r = AsCookie(q) /\ r.at = q.piece.from
    BY CookieOK
  <2>2. i <= q.piece.from
    BY <2>1
  <2>3. ASSUME r.at = i PROVE r = c
    <3>1. i <= P2
      BY <1>0, Positions
    <3>2. q = TheSplit
      BY <2>1, <2>3, <3>1, <1>0, SplitFound
    <3> QED BY <2>1, <3>2 DEF c
  <2> QED BY <2>1, <2>2, <2>3
<1>7. \A r \in Given : r = c
  <2> SUFFICES ASSUME NEW r \in Given PROVE r = c
    OBVIOUS
  <2>1. r \in CookieValues /\ r.at <= c.at
    BY <1>2 DEF Given
  <2>2. r.at \in Int
    <3>1. PICK q \in CookieSplits : r.at = q.piece.from
      BY <2>1, CookieOK
    <3> QED BY <3>1, <1>0, SplitFacts
  <2> QED BY <2>1, <2>2, <1>0, <1>3, <1>6
<1>8. ASSUME Given = {} PROVE v = <<>>
  <2> SUFFICES ASSUME v # <<>> PROVE FALSE
    OBVIOUS
  <2>1. \A r \in CookieValues : c.at <= r.at
    BY <1>3, <1>6
  <2>2. c \in Given
    BY <1>2, <1>3, <2>1 DEF Given
  <2> QED BY <1>8, <2>2
<1>9. Fitting(v) \in Seq(Chars) /\ (v = <<>> => Fitting(v) = <<>>)
  BY <1>4, FittingOK
<1> QED BY <1>3, <1>5, <1>7, <1>8, <1>9

LEMMA CookieStepInv == IInv /\ Cookie => IInv'
<1> SUFFICES ASSUME IInv, Cookie PROVE IInv'
  OBVIOUS
<1>0. p \in Seq(Chars) /\ Len(p) \in Nat /\ i \in 0..Len(p)
  BY TextOK DEF IInv
<1> DEFINE stops == Found \/ P2 = Len(p)
<1>1. /\ parses = "cookie" /\ pc = "scan"
      /\ session' = IF Found THEN Slice(P3 + 1, End - P3 - 1) ELSE session
      /\ pc' = IF stops THEN "generate" ELSE "scan"
      /\ i' = IF stops THEN i ELSE P2 + 1
      /\ UNCHANGED <<parses, p, offset1, length1, offset2, length2, s, buf, table, out>>
  BY DEF Cookie, P1, P2, P3, End, Found, scan
<1>2. /\ session = <<>> /\ out = <<>> /\ (i = 0 \/ p[i] = SEMI)
      /\ \A q \in CookieSplits : i <= q.piece.from
  BY <1>1 DEF IInv, CookieInv
<1>3. Types
  BY DEF IInv
<1>4. P2 \in Nat /\ i <= P2 /\ P2 <= Len(p) /\ (P2 < Len(p) => p[P2 + 1] = SEMI)
      /\ \A k \in i+1..P2 : p[k] # SEMI
  <2>1. /\ P1 \in i..Len(p) /\ P2 \in P1..Len(p) /\ (P2 < Len(p) => p[P2 + 1] = SEMI)
        /\ \A k \in i+1..P2 : p[k] # SEMI
    BY <1>0, Positions
  <2> QED BY <1>0, <2>1
<1>5. session' \in Seq(Chars)
  <2>1. <<>> \in Seq(Chars)
    OBVIOUS
  <2>2. CASE Found
    BY <1>0, <1>1, <1>2, <2>2, GivenFound
  <2>3. CASE ~Found
    BY <1>1, <1>2, <2>1, <2>3, Zenon
  <2> QED BY <2>2, <2>3
<1>6. Types'
  <2>1. TypeOK'
    <3>1. i' \in 0..Len(p) /\ pc' \in {"scan", "generate"}
      BY <1>0, <1>1, <1>4
    <3> QED BY <1>1, <1>3, <3>1 DEF Types, TypeOK
  <2> QED BY <1>1, <1>3, <1>5, <2>1 DEF Types
<1>7. Given' = Given /\ CookieSplits' = CookieSplits
  BY <1>1 DEF Given, CookieValues, CookieSplits
\* If nothing was found, this was no cookie of the name.
<1>8. ASSUME ~Found, NEW q \in CookieSplits PROVE P2 < q.piece.from
  <2>1. ~(q.piece.from <= P2)
    BY <1>0, <1>2, <1>8, SplitFound
  <2> QED BY <2>1, <1>4, SplitFacts, <1>0
<1>9. CASE Found
  <2>1. pc' = "generate" /\ session' = Slice(P3 + 1, End - P3 - 1)
    BY <1>1, <1>9
  <2>2. /\ Given = {} => session' = <<>>
        /\ \A r \in Given : session' = Fitting(r.value)
    BY <1>0, <1>2, <1>9, <2>1, GivenFound
  <2>3. CookieInv'
    BY <1>1, <1>2, <1>7, <2>1, <2>2 DEF CookieInv, Fitting
  <2> QED BY <1>1, <1>6, <2>3 DEF IInv, ArgsInv
<1>10. CASE ~Found /\ P2 = Len(p)
  <2>1. pc' = "generate" /\ session' = <<>>
    BY <1>1, <1>2, <1>10
  <2>2. CookieSplits = {}
    <3> SUFFICES ASSUME NEW q \in CookieSplits PROVE FALSE
      OBVIOUS
    <3>1. P2 < q.piece.from /\ q.piece.from \in 0..Len(p)
      BY <1>8, <1>10, SplitFacts
    <3> QED BY <1>0, <1>10, <3>1
  <2>3. Given = {}
    BY <2>2 DEF Given, CookieValues
  <2>4. CookieInv'
    BY <1>1, <1>2, <1>7, <2>1, <2>3 DEF CookieInv
  <2> QED BY <1>1, <1>6, <2>4 DEF IInv, ArgsInv
<1>11. CASE ~Found /\ P2 # Len(p)
  <2>1. pc' = "scan" /\ session' = <<>> /\ i' = P2 + 1 /\ p[i'] = SEMI
    BY <1>0, <1>1, <1>2, <1>4, <1>11
  <2>2. \A q \in CookieSplits : i' <= q.piece.from
    <3> SUFFICES ASSUME NEW q \in CookieSplits PROVE P2 + 1 <= q.piece.from
      BY <2>1
    <3>1. P2 < q.piece.from /\ q.piece.from \in 0..Len(p)
      BY <1>8, <1>11, SplitFacts
    <3> QED BY <1>0, <1>4, <3>1
  <2>3. CookieInv'
    BY <1>1, <1>2, <1>7, <2>1, <2>2 DEF CookieInv
  <2> QED BY <1>1, <1>6, <2>3 DEF IInv, ArgsInv
<1> QED BY <1>9, <1>10, <1>11

LEMMA GenerateInv == IInv /\ Generate => IInv'
<1> SUFFICES ASSUME IInv, Generate PROVE IInv'
  OBVIOUS
<1>0. p \in Seq(Chars)
  BY TextOK DEF IInv
<1>1. /\ pc = "generate" /\ pc' = "done"
      /\ UNCHANGED <<parses, p, i, offset1, length1, offset2, length2, s, buf, table>>
  BY DEF Generate, scan
<1>2. \/ session # <<>> /\ session' = session /\ out' = out
      \/ session = <<>> /\ session' = session /\ out' = out
      \/ session = <<>> /\ session' = <<"new">> /\ out' = <<"new">>
  BY DEF Generate
<1>3. Types /\ parses = "cookie"
  BY <1>1 DEF IInv, Types
<1>4. out = <<>> /\ (Given = {} => session = <<>>) /\ \A r \in Given : session = Fitting(r.value)
  BY <1>1, <1>3 DEF IInv, CookieInv
<1>5. <<"new">> \in Seq(Chars)
  BY CharsHas
<1>6. session' \in Seq(Chars) /\ out' \in Seq(Chars)
  BY <1>2, <1>3, <1>5, Zenon DEF Types
<1>7. Types'
  <2>1. TypeOK'
    BY <1>1, <1>3 DEF Types, TypeOK
  <2> QED BY <1>1, <1>3, <1>6, <2>1 DEF Types
<1>8. Given' = Given
  BY <1>1 DEF Given, CookieValues, CookieSplits
<1>9. \A r \in Given : session # <<>>
  <2> SUFFICES ASSUME NEW r \in Given PROVE session # <<>>
    OBVIOUS
  <2>1. r \in CookieValues /\ r.value # <<>>
    BY DEF Given
  <2>2. r.value \in Seq(Chars)
    BY <1>0, <2>1, CookieOK
  <2>3. Fitting(r.value) # <<>>
    BY <2>1, <2>2, FittingOK
  <2> QED BY <2>3, <1>4
<1>10. Given = {} => session' = out'
  BY <1>2, <1>4, Zenon
<1>11. Given # {} => out' = <<>> /\ session' = session
  BY <1>2, <1>4, <1>9
<1>12. SessionOfCookie'
  BY <1>4, <1>8, <1>10, <1>11, Zenon DEF SessionOfCookie, Fitting
<1>13. ArgsInv' /\ CookieInv'
  BY <1>1, <1>3, <1>12 DEF ArgsInv, CookieInv
<1> QED BY <1>7, <1>13 DEF IInv

--------------------------------------------------------------------------------
(***************************************************************************)
(* The theorems.                                                           *)
(***************************************************************************)
LEMMA StutterInv == IInv /\ UNCHANGED vars => IInv'
<1> SUFFICES ASSUME IInv, UNCHANGED vars PROVE IInv'
  OBVIOUS
<1>1. UNCHANGED <<parses, p, pc, i, offset1, length1, offset2, length2, s, buf, table, session, out>>
  BY DEF vars
<1>2. Types' /\ Given' = Given /\ CookieSplits' = CookieSplits
  BY <1>1 DEF IInv, Types, TypeOK, Given, CookieValues, CookieSplits
<1>3. ArgsInv'
  BY <1>1 DEF IInv, ArgsInv, InPiece, InValue, Holds, Before, AtPair, Remaining, Value
<1>4. CookieInv'
  BY <1>1, <1>2 DEF IInv, CookieInv, SessionOfCookie, Fitting
<1> QED BY <1>2, <1>3, <1>4 DEF IInv

\* Every step of the two parsers keeps the invariant.
LEMMA Invariant == Spec => []IInv
<1>1. IInv /\ [Next]_vars => IInv'
  BY EqualsInv, OtherInv, SkipPairInv, TakePairInv, SetFieldInv, PlusInv, PlainInv, EscapeInv,
     CookieStepInv, GenerateInv, StutterInv DEF Next, Args, SessionInit
<1> QED BY <1>1, InitInv, PTL DEF Spec

\* No position passes the end of its text, also where urldecode looks two
\* characters ahead: only the NUL after the last one is read (llspaux.cpp:75).
THEOREM PositionsInText == Spec => []TypeOK
<1>1. IInv => TypeOK
  BY DEF IInv, Types
<1> QED BY <1>1, Invariant, PTL

\* When args returns, its table is that of the pairs of the text, decoded.
THEOREM TableIsRight == Spec => []ArgsOfPairs
<1>1. IInv => ArgsOfPairs
  <2> SUFFICES ASSUME IInv, parses = "args", pc = "done"
               PROVE  /\ DOMAIN table = {q.name : q \in Pairs(p)}
                      /\ \A q \in Pairs(p) :
                           (\A r \in Pairs(p) : r.name = q.name => r.at <= q.at) /\ WellFormed(q.value)
                              => table[q.name] = Decoded(q.value)
    BY DEF ArgsOfPairs
  <2>1. offset1 = Len(p) + 1 /\ Holds(offset1)
    BY DEF IInv, ArgsInv
  <2>2. Len(p) \in Nat
    BY TextOK DEF IInv
  <2>3. \A q \in Splits(p) : q.piece.from \in 0..Len(p)
    BY <2>2 DEF Splits, Pieces
  <2>4. \A q \in Pairs(p) : q.at < offset1
    BY <2>1, <2>2, <2>3 DEF Pairs
  <2>5. Before(offset1) = Pairs(p)
    BY <2>4 DEF Before
  <2> QED BY <2>1, <2>5 DEF Holds
<1> QED BY <1>1, Invariant, PTL

\* When luaL_lsp_session_init returns, the session is that of the first cookie of
\* the name, cut to what fits into tmp, or the new one that the client is sent.
THEOREM SessionIsRight == Spec => []SessionOfCookie
<1>1. IInv => SessionOfCookie
  <2>1. parses # "cookie" \/ pc # "done" => SessionOfCookie
    BY DEF SessionOfCookie
  <2> QED BY <2>1 DEF IInv, CookieInv
<1> QED BY <1>1, Invariant, PTL
================================================================================
