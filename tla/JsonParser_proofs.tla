--------------------------- MODULE JsonParser_proofs ---------------------------
(***************************************************************************)
(* The decoder keeps its state stack and the Lua stack together, for any   *)
(* texts and any depth, also when the depth check fails; and for any plain *)
(* text, as long as that check is not reached, it gives what the recursive *)
(* grammar of JsonGrammar does.                                            *)
(***************************************************************************)
EXTENDS JsonParser, SequenceTheorems, FiniteSetTheorems, WellFoundedInduction, TLAPS

USE DepthAssumption

ValueTypes == {"nil", "true", "number", "string", "array", "object"}
IsValue(v) == /\ v = [t |-> v.t, s |-> v.s, m |-> v.m] /\ v.t \in ValueTypes
              /\ v.m = [x \in DOMAIN v.m |-> v.m[x]]
\* A sequence of whatever it holds
Listed(q) == q \in Seq({q[n] : n \in 1..Len(q)})

Typed == /\ text \in Texts
         /\ i \in 1..(Len(text) + 2)
         /\ index \in 0..MaxDepth
         /\ st \in [0..MaxDepth -> States]
         /\ key \in [0..MaxDepth -> Nat]
         /\ ptr \in 0..(Len(text) + 1)
         /\ Listed(lua) /\ \A n \in 1..Len(lua) : IsValue(lua[n])
         /\ status \in {"run", "ok", "error"}

\* The state of a level while one above it is read
Waiting == {"array_value", "object_key", "object_value_2"}
Arrays  == {"array", "array_value"}
Objects == {"object", "object_key", "object_value", "object_value_2"}
\* What a level has on the Lua stack then, and what it has when it is the last one
Under(s) == IF s = "object_value_2" THEN 2 ELSE 1
Above(s) == CASE s \in {"value", "string", "number", "literal"} -> 0
              [] s \in {"array", "object", "delim"}             -> 1
              [] s \in {"array_value", "object_key", "object_value"} -> 2
              [] s = "object_value_2"                           -> 3

\* h[d] is the height of the Lua stack below level d
Table(h, d) ==
    /\ st[d] \in Arrays  => lua[h[d] + 1].t = "array"
    /\ st[d] \in Objects => lua[h[d] + 1].t = "object"
    /\ st[d] \in {"object_value", "object_value_2"} => lua[h[d] + 2].t = "string"
Waits(h, d) ==
    /\ st[d] \in Waiting
    /\ h[d + 1] = h[d] + Under(st[d])
    /\ st[d] = "object_key" => d + 1 = index /\ st[index] = "string"
Fits(h) ==
    /\ h \in [1..MaxDepth -> Nat]
    /\ st[0] = "value"
    /\ \A d \in 1..index : Table(h, d) /\ (d < index => Waits(h, d))
    /\ \A d \in 1..index, e \in 1..index : d < e => h[d] + Under(st[d]) <= h[e]
    /\ index > 0 => /\ Len(lua) = h[index] + Above(st[index])
                    /\ st[index] = "object_key" => lua[h[index] + 2].t = "string"
                    /\ st[index] = "delim" => index = 1
                    /\ st[index] \in {"string", "number", "literal"} => ptr \in 1..i
--------------------------------------------------------------------------------
(***************************************************************************)
(* Sequences.                                                              *)
(***************************************************************************)
LEMMA ListedIs == ASSUME NEW S, NEW q \in Seq(S) PROVE Listed(q)
<1> DEFINE T == {q[n] : n \in 1..Len(q)}
<1>1. Len(q) \in Nat /\ \A n \in 1..Len(q) : q[n] \in T
  BY LenProperties
<1> HIDE DEF T
<1>2. SubSeq(q, 1, Len(q)) \in Seq(T)
  BY <1>1, SubSeqProperties
<1>3. q \in Seq(T)
  BY <1>2, SubSeqFull
<1> QED
  BY <1>3 DEF Listed, T

LEMMA AppendIs ==
    ASSUME NEW q, Listed(q), NEW v
    PROVE  /\ Listed(Append(q, v)) /\ Len(q) \in Nat /\ Len(Append(q, v)) = Len(q) + 1
           /\ \A n \in 1..Len(q) : Append(q, v)[n] = q[n]
           /\ Append(q, v)[Len(q) + 1] = v
<1> DEFINE S == {q[n] : n \in 1..Len(q)} \cup {v}
<1>1. q \in Seq(S)
  BY SeqMonotonic DEF Listed
<1>2. Append(q, v) \in Seq(S)
  BY <1>1
<1>3. Listed(Append(q, v))
  BY <1>2, ListedIs
<1> QED
  BY <1>1, <1>3

LEMMA FrontIs ==
    ASSUME NEW q, Listed(q), NEW m \in 0..Len(q)
    PROVE  /\ Listed(SubSeq(q, 1, m)) /\ Len(q) \in Nat /\ Len(SubSeq(q, 1, m)) = m
           /\ \A n \in 1..m : SubSeq(q, 1, m)[n] = q[n]
<1> DEFINE S == {q[n] : n \in 1..Len(q)}
<1>1. q \in Seq(S)
  BY DEF Listed
<1>2. SubSeq(q, 1, m) \in Seq(S) /\ Len(SubSeq(q, 1, m)) = m
  BY <1>1, SubSeqProperties
<1>3. Listed(SubSeq(q, 1, m))
  BY <1>2, ListedIs
<1>4. \A n \in 1..m : SubSeq(q, 1, m)[n] = q[n]
  BY <1>1, SubSeqProperties
<1> QED
  BY <1>1, <1>2, <1>3, <1>4

\* What lua_rawset leaves on the stack: the table, and what is below it.
LEMMA ReplaceIs ==
    ASSUME NEW q, Listed(q), NEW m \in 1..Len(q), NEW v
    PROVE  /\ Listed(Append(SubSeq(q, 1, m - 1), v))
           /\ Len(Append(SubSeq(q, 1, m - 1), v)) = m
           /\ \A n \in 1..(m - 1) : Append(SubSeq(q, 1, m - 1), v)[n] = q[n]
           /\ Append(SubSeq(q, 1, m - 1), v)[m] = v
<1>1. Len(q) \in Nat
  BY DEF Listed
<1>2. m - 1 \in 0..Len(q)
  BY <1>1
<1> DEFINE r == SubSeq(q, 1, m - 1)
<1>3. Listed(r) /\ Len(r) = m - 1 /\ \A n \in 1..(m - 1) : r[n] = q[n]
  BY <1>2, FrontIs
<1> HIDE DEF r
<1>4. /\ Listed(Append(r, v)) /\ Len(Append(r, v)) = Len(r) + 1
      /\ \A n \in 1..Len(r) : Append(r, v)[n] = r[n]
      /\ Append(r, v)[Len(r) + 1] = v
  BY <1>3, AppendIs
<1>5. /\ Listed(Append(r, v)) /\ Len(Append(r, v)) = m
      /\ \A n \in 1..(m - 1) : Append(r, v)[n] = q[n]
      /\ Append(r, v)[m] = v
  BY <1>1, <1>3, <1>4
<1> QED
  BY <1>5 DEF r

LEMMA RawSetIs == ASSUME NEW v, IsValue(v), NEW k, NEW w
                  PROVE  IsValue(RawSet(v, k, w)) /\ RawSet(v, k, w).t = v.t
<1> DEFINE m == IF w = Nil THEN [x \in DOMAIN v.m \ {k} |-> v.m[x]]
                ELSE [x \in DOMAIN v.m \cup {k} |-> IF x = k THEN w ELSE v.m[x]]
<1>1. RawSet(v, k, w) = [v EXCEPT !.m = m]
  BY DEF RawSet
<1>3. m = [x \in DOMAIN m |-> m[x]]
  <2>1. w = Nil => m = [x \in DOMAIN m |-> m[x]]
    OBVIOUS
  <2>2. w # Nil => m = [x \in DOMAIN m |-> m[x]]
    OBVIOUS
  <2> QED
    BY <2>1, <2>2
<1> HIDE DEF m
<1>2. [v EXCEPT !.m = m] = [t |-> v.t, s |-> v.s, m |-> m]
  BY DEF IsValue
<1> QED
  BY <1>1, <1>2, <1>3 DEF IsValue

LEMMA ScalarIs == ASSUME NEW kind \in ValueTypes, NEW s
                  PROVE  IsValue(Scalar(kind, s)) /\ Scalar(kind, s).t = kind
  BY DEF IsValue, Scalar
LEMMA NewTableIs == ASSUME NEW kind \in {"array", "object"}
                    PROVE  IsValue(NewTable(kind)) /\ NewTable(kind).t = kind
  BY DEF IsValue, NewTable, ValueTypes
--------------------------------------------------------------------------------
(***************************************************************************)
(* The parts of a step.                                                    *)
(***************************************************************************)
\* What a step leaves of the Lua stack
Keeps(m) == \A n \in 1..m : lua'[n] = lua[n]

\* The last level changes its state: it is below a value no more, or not yet.
LEMMA SetFits ==
    ASSUME Typed, NEW h, Fits(h), index > 0, NEW s \in States, Set(s), Keeps(h[index]),
           Len(lua') = h[index] + Above(s),
           s \in Arrays  => lua'[h[index] + 1].t = "array",
           s \in Objects => lua'[h[index] + 1].t = "object",
           s \in {"object_key", "object_value", "object_value_2"} => lua'[h[index] + 2].t = "string",
           s = "delim" => index = 1,
           s \in {"string", "number", "literal"} => ptr' \in 1..i',
           index > 1 /\ st[index - 1] = "object_key" => s = "string"
    PROVE  Fits(h)'
<1>1. index' = index /\ st' = [st EXCEPT ![index] = s] /\ index \in 1..MaxDepth
  BY DEF Set, Typed
<1>2. \A d \in 0..MaxDepth : st'[d] = IF d = index THEN s ELSE st[d]
  BY <1>1 DEF Typed
<1>3. h \in [1..MaxDepth -> Nat] /\ st'[0] = "value"
  BY <1>1, <1>2 DEF Fits
<1>4. \A d \in 1..index, e \in 1..index : d < e => h[d] + Under(st'[d]) <= h[e]
  BY <1>1, <1>2 DEF Fits
<1>5. ASSUME NEW d \in 1..index, d < index PROVE Table(h, d)' /\ Waits(h, d)'
  <2>1. Table(h, d) /\ Waits(h, d) /\ st'[d] = st[d] /\ d \in 1..MaxDepth
    BY <1>1, <1>2, <1>5 DEF Fits
  <2>2. h[d] + Under(st[d]) <= h[index] /\ h[d] \in Nat /\ h[index] \in Nat
    BY <1>1, <1>3, <1>5 DEF Fits
  <2>3. lua'[h[d] + 1] = lua[h[d] + 1]
    <3>1. h[d] + 1 \in 1..h[index]
      BY <2>2 DEF Under
    <3> QED
      BY <3>1 DEF Keeps
  <2>4. st[d] \in {"object_value", "object_value_2"} => lua'[h[d] + 2] = lua[h[d] + 2]
    <3>1. st[d] \in {"object_value", "object_value_2"} => Under(st[d]) = 2
      BY <2>1 DEF Under, Waits, Waiting
    <3> QED
      BY <2>2, <3>1 DEF Keeps
  <2>5. Table(h, d)'
    BY <2>1, <2>3, <2>4 DEF Table
  <2>6. st[d] = "object_key" => d + 1 = index /\ d = index - 1 /\ s = "string"
    BY <1>1, <2>1, <1>5 DEF Waits
  <2>7. Waits(h, d)'
    BY <1>1, <1>2, <2>1, <2>6 DEF Waits
  <2> QED
    BY <2>5, <2>7
<1>6. Table(h, index)'
  BY <1>1, <1>2 DEF Table
<1>7. \A d \in 1..index' : Table(h, d)' /\ (d < index' => Waits(h, d)')
  BY <1>1, <1>5, <1>6
<1>8. /\ Len(lua') = h[index'] + Above(st'[index'])
      /\ st'[index'] = "object_key" => lua'[h[index'] + 2].t = "string"
      /\ st'[index'] = "delim" => index' = 1
      /\ st'[index'] \in {"string", "number", "literal"} => ptr' \in 1..i'
  BY <1>1, <1>2
<1> QED
  BY <1>1, <1>3, <1>4, <1>7, <1>8 DEF Fits

\* A value is complete, and the last level goes away.
LEMMA LeaveFits ==
    ASSUME Typed, NEW h, Fits(h), index > 0, Leave, Keeps(h[index]),
           Len(lua') = h[index] + 1,
           index > 1 /\ st[index - 1] = "object_key" => lua'[h[index] + 1].t = "string"
    PROVE  Fits(h)'
<1>0. index \in 1..MaxDepth /\ h \in [1..MaxDepth -> Nat]
  BY DEF Typed, Fits
<1> DEFINE Below(d, e) == d < e => h[d] + Under(st[d]) <= h[e]
<1>3. \A d \in 1..index, e \in 1..index : Below(d, e)
  BY DEF Fits
<1>1. CASE index > 1
  <2>1. index' = index - 1 /\ st' = st /\ index - 1 \in 1..MaxDepth
    BY <1>0, <1>1 DEF Leave, Pop
  <2>2. \A d \in 1..(index - 1), e \in 1..(index - 1) : d < e => h[d] + Under(st'[d]) <= h[e]
    BY <1>0, <1>3, <2>1
  <2>3. ASSUME NEW d \in 1..(index - 1) PROVE Table(h, d)' /\ (d < index - 1 => Waits(h, d)')
    <3>1. Table(h, d) /\ Waits(h, d) /\ d \in 1..MaxDepth
      BY <1>0, <2>3 DEF Fits
    <3>2. h[d] + Under(st[d]) <= h[index] /\ h[d] \in Nat /\ h[index] \in Nat
      <4>1. d \in 1..index /\ index \in 1..index /\ d < index
        BY <1>0, <2>3
      <4>2. Below(d, index)
        BY <1>3, <4>1
      <4> QED
        BY <1>0, <3>1, <4>1, <4>2
    <3>3. lua'[h[d] + 1] = lua[h[d] + 1]
      <4>1. h[d] + 1 \in 1..h[index]
        BY <3>2 DEF Under
      <4> QED
        BY <4>1 DEF Keeps
    <3>4. st[d] \in {"object_value", "object_value_2"} => lua'[h[d] + 2] = lua[h[d] + 2]
      <4>1. st[d] \in {"object_value", "object_value_2"} => Under(st[d]) = 2
        BY <3>1 DEF Under, Waits, Waiting
      <4> QED
        BY <3>2, <4>1 DEF Keeps
    <3>5. Table(h, d)'
      <4>1. st'[d] = st[d]
        BY <2>1
      <4> QED
        BY <3>1, <3>3, <3>4, <4>1 DEF Table
    <3>6. d < index - 1 => st[d] # "object_key"
      BY <3>1, <1>0 DEF Waits
    <3>7. d < index - 1 => Waits(h, d)'
      BY <2>1, <3>1, <3>6 DEF Waits
    <3> QED
      BY <3>5, <3>7
  <2>4. Waits(h, index - 1)
    BY <1>0, <1>1, <2>1 DEF Fits
  <2>5. h[index] = h[index - 1] + Under(st[index - 1]) /\ h[index - 1] \in Nat /\ h[index] \in Nat
    BY <1>0, <2>1, <2>4 DEF Waits
  <2>6. Len(lua') = h[index - 1] + Above(st[index - 1])
    BY <2>4, <2>5 DEF Waits, Waiting, Under, Above
  <2>7. st[index - 1] = "object_key" => lua'[h[index - 1] + 2].t = "string"
    <3>1. st[index - 1] = "object_key" => h[index] + 1 = h[index - 1] + 2
      BY <2>5 DEF Under
    <3> QED
      BY <1>1, <3>1
  <2>8. st[index - 1] \notin {"delim", "string", "number", "literal"}
    BY <2>4 DEF Waits, Waiting
  <2>9. st'[0] = "value"
    BY <2>1 DEF Fits
  <2> QED
    BY <1>0, <2>1, <2>2, <2>3, <2>6, <2>7, <2>8, <2>9 DEF Fits
<1>2. CASE ~(index > 1)
  <2>1. index = 1 /\ Set("delim") /\ "delim" \in States
    BY <1>0, <1>2 DEF Leave, States
  <2>2. Above("delim") = 1 /\ "delim" \notin Arrays /\ "delim" \notin Objects
    BY DEF Above, Arrays, Objects
  <2> QED
    BY <2>1, <2>2, SetFits
<1> QED
  BY <1>1, <1>2

\* A level begins on top of the last one, and with it a value.
LEMMA PushFits ==
    ASSUME Typed, NEW h, Fits(h), NEW g, g = [h EXCEPT ![index'] = Len(lua)],
           index > 0, NEW s \in States, NEW p \in {"value", "string"},
           SetAndPush(s, p), lua' = lua,
           st[index] \in {"array", "object", "object_value"}, s \in Waiting,
           Above(st[index]) = Under(s),
           s \in Arrays <=> st[index] \in Arrays,
           s = "object_key" => p = "string",
           s = "object_value_2" => st[index] = "object_value",
           p = "string" => ptr' \in 1..i'
    PROVE  Fits(g)'
<1>1. index' = index + 1 /\ index + 1 \in 1..MaxDepth /\ index \in 1..MaxDepth
  BY DEF SetAndPush, Typed
<1>2. \A d \in 0..MaxDepth : st'[d] = IF d = index + 1 THEN p ELSE IF d = index THEN s ELSE st[d]
  BY <1>1 DEF Typed, SetAndPush
<1>3. h \in [1..MaxDepth -> Nat] /\ Len(lua) \in Nat
  BY DEF Fits, Typed, Listed
<1>4. g \in [1..MaxDepth -> Nat] /\ g[index + 1] = Len(lua) /\ \A d \in 1..index : g[d] = h[d]
  BY <1>1, <1>3
<1>5. Len(lua) = h[index] + Under(s) /\ h[index] \in Nat
  BY <1>1, <1>3 DEF Fits
<1>6. s = "object_value_2" => lua'[h[index] + 2].t = "string"
  BY <1>1 DEF Fits, Table
<1>7. s \in Arrays => lua'[h[index] + 1].t = "array"
  BY <1>1 DEF Fits, Table
<1>8. s \in Objects => lua'[h[index] + 1].t = "object"
  BY <1>1 DEF Fits, Table, Arrays, Objects
<1>9. ASSUME NEW d \in 1..index, d = index PROVE Table(g, d)' /\ Waits(g, d)'
  <2>1. st'[d] = s /\ st'[d + 1] = p /\ g[d] = h[index] /\ g[d + 1] = Len(lua)
    BY <1>1, <1>2, <1>4, <1>9
  <2>2. Table(g, d)'
    BY <1>6, <1>7, <1>8, <2>1 DEF Table, Waiting
  <2>3. Waits(g, d)'
    BY <1>1, <1>5, <1>9, <2>1 DEF Waits
  <2> QED
    BY <2>2, <2>3
<1>11. ASSUME NEW d \in 1..index, d < index PROVE Table(g, d)' /\ Waits(g, d)'
  <2>1. Table(h, d) /\ Waits(h, d) /\ st'[d] = st[d] /\ d + 1 \in 1..index
    BY <1>1, <1>2, <1>11 DEF Fits
  <2>2. g[d] = h[d] /\ g[d + 1] = h[d + 1]
    BY <1>4, <2>1
  <2>3. Table(g, d)'
    BY <2>1, <2>2 DEF Table
  <2>4. st[d] # "object_key"
    BY <2>1 DEF Waits
  <2> QED
    BY <2>1, <2>2, <2>3, <2>4 DEF Waits
<1>12. ASSUME NEW d, d = index + 1 PROVE Table(g, d)'
  BY <1>1, <1>2, <1>12 DEF Table, Arrays, Objects
<1>13. \A d \in 1..index' : Table(g, d)' /\ (d < index' => Waits(g, d)')
  <2> SUFFICES ASSUME NEW d \in 1..(index + 1)
               PROVE  Table(g, d)' /\ (d < index + 1 => Waits(g, d)')
    BY <1>1
  <2>1. CASE d = index + 1
    BY <1>12, <2>1 DEF Table
  <2>2. CASE d = index
    BY <1>1, <1>9, <2>2 DEF Table, Waits
  <2>3. CASE d < index
    BY <1>1, <1>11, <2>3 DEF Table, Waits
  <2> QED
    BY <1>1, <2>1, <2>2, <2>3
<1>14. \A d \in 1..index', e \in 1..index' : d < e => g[d] + Under(st'[d]) <= g[e]
  <2> SUFFICES ASSUME NEW d \in 1..index', NEW e \in 1..index', d < e
               PROVE  g[d] + Under(st'[d]) <= g[e]
    OBVIOUS
  <2>1. CASE e <= index
    <3>1. d \in 1..index /\ e \in 1..index /\ index \in Nat
      BY <1>1, <2>1
    <3>2. h[d] + Under(st[d]) <= h[e]
      BY <3>1 DEF Fits
    <3>3. d < index
      BY <2>1, <3>1
    <3> QED
      BY <1>1, <1>2, <1>4, <3>1, <3>2, <3>3
  <2>2. CASE e = index + 1 /\ d = index
    BY <1>1, <1>2, <1>4, <1>5, <2>2
  <2>3. CASE e = index + 1 /\ d < index
    <3>1. g[d] + Under(st'[d]) <= h[index] /\ g[d] \in Nat
      BY <1>1, <1>2, <1>3, <1>4, <2>3 DEF Fits
    <3> QED
      BY <1>1, <1>4, <1>5, <2>3, <3>1 DEF Under
  <2> QED
    BY <1>1, <2>1, <2>2, <2>3
<1>15. /\ Len(lua') = g[index'] + Above(st'[index'])
       /\ st'[index'] \notin {"object_key", "delim", "number", "literal"}
       /\ st'[index'] = "string" => ptr' \in 1..i'
  BY <1>1, <1>2, <1>3, <1>4 DEF Above
<1>16. st'[0] = "value"
  BY <1>1, <1>2 DEF Fits
<1> QED
  BY <1>4, <1>13, <1>14, <1>15, <1>16 DEF Fits

\* The first value of a text begins, or another one at the top.
LEMMA TopFits ==
    ASSUME Typed, NEW h, Fits(h), NEW g, g = [h EXCEPT ![index'] = Len(lua)],
           NEW s \in {"array", "object", "string", "number", "literal"},
           index' = 1, st'[0] = "value", st'[1] = s,
           Len(lua') = Len(lua) + Above(s),
           s \in {"array", "object"} => lua'[Len(lua) + 1].t = s,
           s \in {"string", "number", "literal"} => ptr' \in 1..i'
    PROVE  Fits(g)'
<1>1. Len(lua) \in Nat /\ h \in [1..MaxDepth -> Nat]
  BY DEF Typed, Listed, Fits
<1>2. g \in [1..MaxDepth -> Nat] /\ g[1] = Len(lua)
  BY <1>1
<1>3. ASSUME NEW d \in 1..index' PROVE Table(g, d)' /\ ~(d < index')
  <2>1. d = 1
    OBVIOUS
  <2>2. st'[d] = s /\ g[d] = Len(lua)
    BY <1>2, <2>1
  <2> QED
    BY <2>1, <2>2 DEF Table, Arrays, Objects
<1>4. \A d \in 1..index', e \in 1..index' : ~(d < e)
  OBVIOUS
<1>5. Len(lua') = g[index'] + Above(st'[index'])
  BY <1>2
<1> QED
  BY <1>2, <1>3, <1>4, <1>5 DEF Fits

\* What the heights are after a step, except if the depth check fails.
Grown(h) == IF index' = index + 1 THEN [h EXCEPT ![index'] = Len(lua)] ELSE h

LEMMA EnterFits ==
    ASSUME Typed, NEW h, Fits(h), NEW g, g = Grown(h), st[index] = "value",
           NEW s \in {"array", "object", "string", "number", "literal"}, Enter(s),
           Keeps(Len(lua)), Len(lua') = Len(lua) + Above(s),
           s \in {"array", "object"} => lua'[Len(lua) + 1].t = s,
           s \in {"string", "number", "literal"} => ptr' \in 1..i'
    PROVE  index' \in 0..MaxDepth /\ st' \in [0..MaxDepth -> States] /\ Fits(g)'
<1>1. s \in States /\ "value" \in States
  BY DEF States
<1>2. CASE index > 0
  <2>1. Set(s) /\ g = h /\ index' = index
    BY <1>2 DEF Enter, Grown, Set, Typed
  <2>2. Len(lua) = h[index] /\ h[index] \in Nat
    <3>1. index \in 1..MaxDepth /\ h[index] \in Nat /\ Len(lua) = h[index] + Above("value")
      BY <1>2 DEF Fits, Typed
    <3> QED
      BY <3>1 DEF Above
  <2>3. ~(index > 1 /\ st[index - 1] = "object_key")
    <3> SUFFICES ASSUME index > 1, st[index - 1] = "object_key" PROVE FALSE
      OBVIOUS
    <3>1. index - 1 \in 1..index /\ index - 1 < index
      BY DEF Typed
    <3>2. Waits(h, index - 1)
      BY <3>1 DEF Fits
    <3> QED
      BY <3>2 DEF Waits
  <2>4. /\ s \in Arrays  => s = "array"
        /\ s \in Objects => s = "object"
        /\ s \notin {"object_key", "object_value", "object_value_2", "delim"}
    BY DEF Arrays, Objects
  <2>5. Fits(h)'
    BY <1>1, <1>2, <2>1, <2>2, <2>3, <2>4, SetFits
  <2>6. st' \in [0..MaxDepth -> States]
    BY <1>1, <2>1 DEF Set, Typed
  <2> QED
    BY <2>1, <2>5, <2>6 DEF Typed
<1>3. CASE ~(index > 0)
  <2>1. index = 0 /\ index' = 1 /\ SetAndPush("value", s) /\ 1 \in 0..MaxDepth
    BY <1>3 DEF Enter, SetAndPush, Typed
  <2>2. st' \in [0..MaxDepth -> States] /\ st'[0] = "value" /\ st'[1] = s
    BY <1>1, <2>1 DEF SetAndPush, Typed
  <2>3. g = [h EXCEPT ![index'] = Len(lua)]
    BY <2>1 DEF Grown
  <2>4. Fits(g)'
    BY <2>1, <2>2, <2>3, TopFits
  <2> QED
    BY <2>1, <2>2, <2>4
<1> QED
  BY <1>2, <1>3

\* Where a character is read, or the end of the text.
LEMMA InText == ASSUME Typed, NEW n, Char(n) # "NUL"
                PROVE  n \in 1..Len(text)
<1>1. text \in Seq(Chars)
  BY TextsAssumption DEF Typed
<1>2. n \in DOMAIN text
  BY DEF Char
<1> QED
  BY <1>1, <1>2, LenProperties

LEMMA ReadIs == ASSUME Typed, i <= Len(text) + 1, Read
                PROVE  i' = i + 1 /\ i' \in 1..(Len(text) + 2) /\ Len(text) \in Nat
<1>1. Len(text) \in Nat
  BY TextsAssumption, LenProperties DEF Typed
<1> QED
  BY <1>1 DEF Typed, Read

\* What is not read or written by a step
LEMMA OthersTyped ==
    ASSUME Typed, UNCHANGED text, i' \in 1..(Len(text) + 2),
           index' \in 0..MaxDepth, st' \in [0..MaxDepth -> States], key' \in [0..MaxDepth -> Nat],
           ptr' \in 0..(Len(text) + 1), Listed(lua'), \A n \in 1..Len(lua') : IsValue(lua'[n]),
           status' \in {"run", "ok", "error"}
    PROVE  Typed'
  BY DEF Typed

LEMMA SameFits == ASSUME NEW h, Fits(h), UNCHANGED <<index, st, lua>>,
                         st[index] \in {"string", "number", "literal"} /\ index > 0 => ptr' \in 1..i'
                  PROVE  Fits(h)'
<1>1. ASSUME NEW d \in 1..index PROVE Table(h, d)' /\ (d < index => Waits(h, d)')
  BY <1>1 DEF Fits, Table, Waits
<1> QED
  BY <1>1 DEF Fits
--------------------------------------------------------------------------------
(***************************************************************************)
(* Every action keeps the two stacks together.                             *)
(***************************************************************************)
LEMMA BlankFits == ASSUME Typed, NEW h, Fits(h), NEW g, g = Grown(h), Blank
                   PROVE  Typed' /\ Fits(g)'
<1>1. st[index] \notin {"string", "number", "literal"} /\ i <= Len(text) + 1 /\ Read
  BY DEF Blank, In, SkipsBlanks
<1>2. UNCHANGED <<text, index, st, key, ptr, lua, status>>
  BY DEF Blank
<1>3. Typed'
  BY <1>1, <1>2, ReadIs DEF Typed
<1>4. g = h
  BY <1>2 DEF Grown, Typed
<1>5. Fits(h)'
  BY <1>1, <1>2, SameFits
<1> QED
  BY <1>3, <1>4, <1>5

LEMMA ErrorFits == ASSUME Typed, NEW h, Fits(h), NEW g, g = Grown(h), Error
                   PROVE  Typed' /\ Fits(g)'
<1>1. status' = "error" /\ UNCHANGED <<text, i, index, st, key, ptr, lua>>
  BY DEF Error
<1>2. Typed'
  BY <1>1 DEF Typed
<1>3. g = h
  BY <1>1 DEF Grown, Typed
<1>4. st[index] \in {"string", "number", "literal"} /\ index > 0 => ptr' \in 1..i'
  BY <1>1 DEF Fits
<1>5. Fits(h)'
  BY <1>1, <1>4, SameFits
<1> QED
  BY <1>2, <1>3, <1>5

\* A table is put on the Lua stack, and a value in it begins.
LEMMA BeginTableFits ==
    ASSUME Typed, NEW h, Fits(h), NEW g, g = Grown(h), NEW kind \in {"array", "object"},
           In("value"), lua' = Append(lua, NewTable(kind)), Enter(kind), Read,
           key' \in [0..MaxDepth -> Nat], UNCHANGED <<text, ptr, status>>
    PROVE  Typed' /\ Fits(g)'
<1>1. i <= Len(text) + 1 /\ st[index] = "value"
  BY DEF In
<1>2. IsValue(NewTable(kind)) /\ NewTable(kind).t = kind
  BY NewTableIs
<1>3. /\ Listed(lua') /\ Len(lua) \in Nat /\ Len(lua') = Len(lua) + 1
      /\ \A n \in 1..Len(lua) : lua'[n] = lua[n]
      /\ lua'[Len(lua) + 1] = NewTable(kind)
  BY AppendIs DEF Typed
<1>4. \A n \in 1..Len(lua') : IsValue(lua'[n])
  <2> SUFFICES ASSUME NEW n \in 1..(Len(lua) + 1) PROVE IsValue(lua'[n])
    BY <1>3
  <2>1. CASE n = Len(lua) + 1
    BY <1>2, <1>3, <2>1
  <2>2. CASE n \in 1..Len(lua)
    BY <1>3, <2>2 DEF Typed
  <2> QED
    BY <1>3, <2>1, <2>2
<1>5. Above(kind) = 1
  BY DEF Above
<1>6. index' \in 0..MaxDepth /\ st' \in [0..MaxDepth -> States] /\ Fits(g)'
  BY <1>1, <1>2, <1>3, <1>5, EnterFits DEF Keeps
<1>7. ptr' \in 0..(Len(text) + 1) /\ status' \in {"run", "ok", "error"} /\ text' = text
  BY DEF Typed
<1>8. Typed'
  BY <1>1, <1>3, <1>4, <1>6, <1>7, ReadIs, OthersTyped
<1> QED
  BY <1>6, <1>8

LEMMA BeginTokenFits == ASSUME Typed, NEW h, Fits(h), NEW g, g = Grown(h), BeginToken
                        PROVE  Typed' /\ Fits(g)'
<1>1. i <= Len(text) + 1 /\ st[index] = "value" /\ Read
  BY DEF BeginToken, In
<1>2. UNCHANGED <<text, key, lua, status>> /\ Len(lua) \in Nat
  BY DEF BeginToken, Typed, Listed
<1>3. i' = i + 1 /\ i' \in 1..(Len(text) + 2) /\ Len(text) \in Nat
  BY <1>1, ReadIs
<1>4. Ch # "NUL"
  BY DEF BeginToken, Num, Lit
<1>5. i \in 1..Len(text)
  BY <1>4, InText DEF Ch
<1>6. PICK s \in {"string", "number", "literal"} : Enter(s) /\ ptr' \in {i, i + 1}
  BY DEF BeginToken
<1>7. ptr' \in 1..i' /\ ptr' \in 0..(Len(text) + 1)
  BY <1>3, <1>5, <1>6
<1>8. Above(s) = 0
  BY <1>6 DEF Above
<1>9. index' \in 0..MaxDepth /\ st' \in [0..MaxDepth -> States] /\ Fits(g)'
  BY <1>1, <1>2, <1>6, <1>7, <1>8, EnterFits DEF Keeps
<1>10. Typed'
  BY <1>2, <1>3, <1>7, <1>9 DEF Typed
<1> QED
  BY <1>9, <1>10

\* A token goes on.
LEMMA MoreFits == ASSUME Typed, NEW h, Fits(h), NEW g, g = Grown(h),
                         i' \in (i + 1)..(Len(text) + 2),
                         UNCHANGED <<text, index, st, key, ptr, lua, status>>
                  PROVE  Typed' /\ Fits(g)'
<1>1. i \in Nat /\ Len(text) \in Nat
  BY TextsAssumption, LenProperties DEF Typed
<1>2. i' \in 1..(Len(text) + 2)
  BY <1>1 DEF Typed
<1>3. Typed'
  BY <1>2 DEF Typed
<1>4. g = h
  BY DEF Grown, Typed
<1>5. st[index] \in {"string", "number", "literal"} /\ index > 0 => ptr' \in 1..i'
  BY <1>1 DEF Fits
<1>6. Fits(h)'
  BY <1>5, SameFits
<1> QED
  BY <1>3, <1>4, <1>6

\* A token ends, and its value is put on the Lua stack.
LEMMA PushValueFits ==
    ASSUME Typed, NEW h, Fits(h), NEW g, g = Grown(h), NEW v, IsValue(v),
           NEW s \in {"string", "number", "literal"}, In(s), s = "string" => v.t = "string",
           PushValue(v), i' \in {i, i + 1}
    PROVE  Typed' /\ Fits(g)'
<1>1. st[index] = s /\ i <= Len(text) + 1 /\ index \in 0..MaxDepth
  BY DEF In, Typed
<1>2. index \in 1..MaxDepth
  BY <1>1 DEF Fits, Typed
<1>3. ptr \in 1..i /\ Len(lua) = h[index] /\ h[index] \in Nat
  <2>1. h[index] \in Nat /\ Len(lua) = h[index] + Above(s) /\ ptr \in 1..i
    BY <1>1, <1>2 DEF Fits
  <2> QED
    BY <2>1 DEF Above
<1>4. lua' = Append(lua, v) /\ ptr' = 0 /\ Leave /\ UNCHANGED <<text, key, status>>
  BY <1>3 DEF PushValue
<1>5. /\ Listed(lua') /\ Len(lua') = Len(lua) + 1
      /\ \A n \in 1..Len(lua) : lua'[n] = lua[n]
      /\ lua'[Len(lua) + 1] = v
  BY <1>4, AppendIs DEF Typed
<1>6. \A n \in 1..Len(lua') : IsValue(lua'[n])
  <2> SUFFICES ASSUME NEW n \in 1..(Len(lua) + 1) PROVE IsValue(lua'[n])
    BY <1>5
  <2>1. CASE n = Len(lua) + 1
    BY <1>5, <2>1
  <2>2. CASE n \in 1..Len(lua)
    BY <1>5, <2>2 DEF Typed
  <2> QED
    BY <1>3, <2>1, <2>2
<1>7. index > 1 /\ st[index - 1] = "object_key" => lua'[h[index] + 1].t = "string"
  <2> SUFFICES ASSUME index > 1, st[index - 1] = "object_key" PROVE v.t = "string"
    BY <1>3, <1>5
  <2>1. Waits(h, index - 1)
    BY <1>2 DEF Fits
  <2> QED
    BY <1>1, <2>1 DEF Waits
<1>8. Fits(h)'
  BY <1>2, <1>3, <1>4, <1>5, <1>7, LeaveFits DEF Keeps
<1>9. index' \in 0..index /\ st' \in [0..MaxDepth -> States]
  BY <1>2, <1>4 DEF Leave, Pop, Set, Typed, States
<1>10. g = h
  BY <1>2, <1>9 DEF Grown
<1>11. i' \in 1..(Len(text) + 2) /\ Len(text) \in Nat
  <2>1. Len(text) \in Nat
    BY TextsAssumption, LenProperties DEF Typed
  <2> QED
    BY <1>1, <2>1 DEF Typed
<1>12. Typed'
  BY <1>2, <1>4, <1>5, <1>6, <1>9, <1>11 DEF Typed
<1> QED
  BY <1>8, <1>10, <1>12

LEMMA StringFits == ASSUME Typed, NEW h, Fits(h), NEW g, g = Grown(h), String
                    PROVE  Typed' /\ Fits(g)'
<1>1. In("string") /\ i <= Len(text) + 1 /\ Len(text) \in Nat /\ i \in Nat
  BY TextsAssumption, LenProperties DEF String, In, Typed
<1>2. CASE Ch = "dq"
  <2>1. PICK v : v = Scalar("string", IF ptr = 0 THEN <<>> ELSE Unescaped(i))
    OBVIOUS
  <2>2. PushValue(v) /\ i' = i + 1
    BY <1>2, <2>1 DEF String, Read
  <2>3. IsValue(v) /\ v.t = "string"
    BY <2>1, ScalarIs DEF ValueTypes
  <2> QED
    BY <1>1, <2>2, <2>3, PushValueFits
<1>3. CASE Ch # "dq"
  <2>1. UNCHANGED <<text, index, st, key, ptr, lua, status>>
    BY <1>3 DEF String
  <2>2. i' = i + 1 \/ (i' = i + 2 /\ Char(i + 1) = "dq")
    BY <1>3 DEF String, Read
  <2>3. Char(i + 1) = "dq" => i + 1 \in 1..Len(text)
    BY InText
  <2>4. i' \in (i + 1)..(Len(text) + 2)
    BY <1>1, <2>2, <2>3
  <2> QED
    BY <2>1, <2>4, MoreFits
<1> QED
  BY <1>2, <1>3

LEMMA WordFits ==
    ASSUME Typed, NEW h, Fits(h), NEW g, g = Grown(h), NEW s \in {"number", "literal"},
           NEW legal, NEW v, IsValue(v), Word(s, legal, v)
    PROVE  Typed' /\ Fits(g)'
<1>1. In(s) /\ i <= Len(text) + 1 /\ Len(text) \in Nat /\ i \in Nat
  BY TextsAssumption, LenProperties DEF Word, In, Typed
<1>2. CASE ~EndsToken(Ch)
  <2>1. i' = i + 1 /\ UNCHANGED <<text, index, st, key, ptr, lua, status>>
    BY <1>2 DEF Word, Read
  <2>2. i' \in (i + 1)..(Len(text) + 2)
    BY <1>1, <2>1
  <2> QED
    BY <2>1, <2>2, MoreFits
<1>3. CASE EndsToken(Ch) /\ legal
  <2>1. PushValue(v) /\ i' = i
    BY <1>3 DEF Word, Reread
  <2> QED
    BY <1>1, <2>1, PushValueFits
<1>4. CASE EndsToken(Ch) /\ ~legal
  BY <1>4, ErrorFits DEF Word
<1> QED
  BY <1>2, <1>3, <1>4

LEMMA NumberFits == ASSUME Typed, NEW h, Fits(h), NEW g, g = Grown(h), Number
                    PROVE  Typed' /\ Fits(g)'
<1>1. PICK v : v = Scalar("number", Token)
  OBVIOUS
<1>2. PICK legal : legal = (Len(Token) < NumberSize /\ \A n \in DOMAIN Token : Token[n] \in Num)
  OBVIOUS
<1>3. Word("number", legal, v)
  BY <1>1, <1>2, Zenon DEF Number
<1>4. IsValue(v)
  BY <1>1, ScalarIs DEF ValueTypes
<1> QED
  BY <1>3, <1>4, WordFits

LEMMA LiteralFits == ASSUME Typed, NEW h, Fits(h), NEW g, g = Grown(h), Literal
                     PROVE  Typed' /\ Fits(g)'
<1>1. PICK v : v = IF Token = <<"N">> THEN Nil ELSE Scalar("true", <<>>)
  OBVIOUS
<1>2. PICK legal : legal = (Token \in {<<"T">>, <<"N">>})
  OBVIOUS
<1>3. Word("literal", legal, v)
  BY <1>1, <1>2, Zenon DEF Literal
<1>4. IsValue(v)
  BY <1>1, ScalarIs DEF ValueTypes, Nil
<1> QED
  BY <1>3, <1>4, WordFits

LEMMA DelimFits == ASSUME Typed, NEW h, Fits(h), NEW g, g = Grown(h), Delim
                   PROVE  Typed' /\ Fits(g)'
<1>1. In("delim") /\ UNCHANGED <<text, key, ptr, lua>>
  BY Zenon DEF Delim
<1>2. \/ Pop(1) /\ (Read \/ Reread) /\ UNCHANGED status
      \/ Read /\ UNCHANGED <<index, st, status>>
      \/ status' = "error" /\ UNCHANGED <<i, index, st>>
  BY Zenon DEF Delim
<1>3. st[index] = "delim" /\ i <= Len(text) + 1 /\ Len(text) \in Nat /\ i \in Nat
  BY <1>1, TextsAssumption, LenProperties DEF In, Typed
<1>4. index = 1 /\ 1 \in 1..MaxDepth
  <2>1. index \in 0..MaxDepth /\ index # 0
    BY <1>3 DEF Fits, Typed
  <2> QED
    BY <1>3, <2>1 DEF Fits
<1>5. CASE Pop(1) /\ (Read \/ Reread) /\ UNCHANGED status
  <2>1. index' = 0 /\ st' = st /\ g = h
    BY <1>4, <1>5 DEF Pop, Grown
  <2>2. i' \in {i, i + 1}
    BY <1>5 DEF Read, Reread
  <2>3. Typed'
    BY <1>1, <1>3, <1>5, <2>1, <2>2 DEF Typed
  <2>4. Fits(h)'
    BY <1>1, <2>1 DEF Fits
  <2> QED
    BY <2>1, <2>3, <2>4
<1>6. ASSUME index' = index, st' = st, i' \in {i, i + 1}, status' \in {status, "error"}
      PROVE  Typed' /\ Fits(g)'
  <2>1. Typed'
    BY <1>1, <1>3, <1>6 DEF Typed
  <2>2. g = h
    BY <1>4, <1>6 DEF Grown
  <2>3. Fits(h)'
    BY <1>1, <1>3, <1>6, SameFits
  <2> QED
    BY <2>1, <2>2, <2>3
<1> QED
  BY <1>2, <1>5, <1>6 DEF Read

\* A table is complete, or goes on: it is all that its level has on the Lua stack.
LEMMA TableFits ==
    ASSUME Typed, NEW h, Fits(h), NEW g, g = Grown(h), index > 0,
           st[index] \in Arrays \cup Objects, i <= Len(text) + 1, Read,
           Listed(lua'), \A n \in 1..Len(lua') : IsValue(lua'[n]),
           Keeps(h[index]), Len(lua') = h[index] + 1,
           lua'[h[index] + 1].t = lua[h[index] + 1].t,
           \/ Leave
           \/ st[index] \in Arrays /\ Set("array")
           \/ st[index] \in Objects /\ Set("object"),
           key' \in [0..MaxDepth -> Nat], UNCHANGED <<text, ptr, status>>
    PROVE  Typed' /\ Fits(g)'
<1>1. index \in 1..MaxDepth /\ "array" \in States /\ "object" \in States /\ "delim" \in States
  BY DEF Typed, States
<1>2. ~(index > 1 /\ st[index - 1] = "object_key")
  <2> SUFFICES ASSUME index > 1, st[index - 1] = "object_key" PROVE FALSE
    OBVIOUS
  <2>1. Waits(h, index - 1)
    BY <1>1 DEF Fits
  <2> QED
    BY <2>1 DEF Waits, Arrays, Objects
<1>3. /\ st[index] \in Arrays => lua[h[index] + 1].t = "array"
      /\ st[index] \in Objects => lua[h[index] + 1].t = "object"
  BY <1>1 DEF Fits, Table
<1>4. Fits(h)'
  <2>1. CASE Leave
    BY <1>1, <1>2, <2>1, LeaveFits
  <2>2. CASE st[index] \in Arrays /\ Set("array")
    <3>1. Above("array") = 1 /\ "array" \notin Objects
      BY DEF Above, Objects
    <3> QED
      BY <1>1, <1>2, <1>3, <2>2, <3>1, SetFits
  <2>3. CASE st[index] \in Objects /\ Set("object")
    <3>1. Above("object") = 1 /\ "object" \notin Arrays
      BY DEF Above, Arrays
    <3> QED
      BY <1>1, <1>2, <1>3, <2>3, <3>1, SetFits
  <2> QED
    BY <2>1, <2>2, <2>3
<1>5. index' \in 0..index /\ st' \in [0..MaxDepth -> States]
  <2>1. CASE index' = index /\ \E s \in States : st' = [st EXCEPT ![index] = s]
    BY <1>1, <2>1 DEF Typed
  <2>2. CASE index' = index - 1 /\ st' = st
    BY <1>1, <2>2 DEF Typed
  <2> QED
    BY <1>1, <2>1, <2>2 DEF Leave, Pop, Set
<1>6. g = h
  BY <1>1, <1>5 DEF Grown
<1>7. Typed'
  <2>1. i' \in 1..(Len(text) + 2)
    BY ReadIs
  <2>2. index' \in 0..MaxDepth
    BY <1>1, <1>5
  <2>3. ptr' \in 0..(Len(text) + 1) /\ status' \in {"run", "ok", "error"}
    BY DEF Typed
  <2> QED
    BY <1>5, <2>1, <2>2, <2>3, OthersTyped
<1> QED
  BY <1>4, <1>6, <1>7

\* A level begins where a value or a key does.
LEMMA PushedFits ==
    ASSUME Typed, NEW h, Fits(h), NEW g, g = Grown(h), index > 0,
           NEW s \in Waiting, NEW p \in {"value", "string"}, SetAndPush(s, p),
           \/ st[index] = "array" /\ s = "array_value"
           \/ st[index] = "object" /\ s = "object_key" /\ p = "string"
           \/ st[index] = "object_value" /\ s = "object_value_2",
           p = "string" => ptr' \in 1..i',
           i' \in 1..(Len(text) + 2), ptr' \in 0..(Len(text) + 1),
           UNCHANGED <<text, key, lua, status>>
    PROVE  Typed' /\ Fits(g)'
<1>1. index' = index + 1 /\ index + 1 \in 0..MaxDepth /\ index \in 1..MaxDepth
  BY DEF SetAndPush, Typed
<1>2. g = [h EXCEPT ![index'] = Len(lua)]
  BY <1>1 DEF Grown
<1>3. s \in States /\ p \in States
  BY DEF Waiting, States
<1>4. Above(st[index]) = Under(s) /\ (s \in Arrays <=> st[index] \in Arrays)
  BY DEF Above, Under, Arrays
<1>5. Fits(g)'
  BY <1>2, <1>3, <1>4, PushFits
<1>6. st' \in [0..MaxDepth -> States]
  BY <1>1, <1>3 DEF SetAndPush, Typed
<1>7. Typed'
  BY <1>1, <1>6 DEF Typed
<1> QED
  BY <1>5, <1>7

\* A state below the top is one of a level.
LEMMA InLevel == ASSUME Typed, NEW h, Fits(h), NEW s, In(s), s # "value"
                 PROVE  /\ index \in 1..MaxDepth /\ index > 0 /\ st[index] = s /\ status = "run"
                        /\ i <= Len(text) + 1 /\ Len(text) \in Nat /\ i \in 1..(Len(text) + 1)
                        /\ h[index] \in Nat /\ Len(lua) = h[index] + Above(s)
<1>1. st[index] = s /\ i <= Len(text) + 1 /\ status = "run" /\ index \in 0..MaxDepth
  BY DEF In, Typed
<1>2. Len(text) \in Nat
  BY TextsAssumption, LenProperties DEF Typed
<1>3. index \in 1..MaxDepth
  BY <1>1 DEF Fits
<1>4. h[index] \in Nat /\ Len(lua) = h[index] + Above(s)
  BY <1>1, <1>3 DEF Fits
<1>5. i \in 1..(Len(text) + 1)
  BY <1>1, <1>2 DEF Typed
<1> QED
  BY <1>1, <1>2, <1>3, <1>4, <1>5

LEMMA ElementFits ==
    ASSUME Typed, NEW h, Fits(h), NEW g, g = Grown(h), NEW after \in Waiting, Element(after),
           \/ In("array") /\ after = "array_value"
           \/ In("object_value") /\ after = "object_value_2"
    PROVE  Typed' /\ Fits(g)'
<1>1. PICK s \in {"array", "object_value"} : In(s)
  OBVIOUS
<1>2. index > 0 /\ st[index] = s /\ i \in 1..(Len(text) + 1) /\ Len(text) \in Nat
  BY <1>1, InLevel
<1>3. CASE Error
  BY <1>3, ErrorFits
<1>4. CASE SetAndPush(after, "value") /\ Reread /\ UNCHANGED <<text, key, ptr, lua, status>>
  <2>1. i' \in 1..(Len(text) + 2) /\ ptr' \in 0..(Len(text) + 1)
    BY <1>4 DEF Reread, Typed
  <2>2. \/ st[index] = "array" /\ after = "array_value"
        \/ st[index] = "object_value" /\ after = "object_value_2"
    BY DEF In
  <2> QED
    BY <1>2, <1>4, <2>1, <2>2, PushedFits
<1> QED
  BY <1>3, <1>4 DEF Element

LEMMA ObjectFits == ASSUME Typed, NEW h, Fits(h), NEW g, g = Grown(h), Object
                    PROVE  Typed' /\ Fits(g)'
<1>1. /\ In("object")
      /\ \/ /\ Ch = "dq" /\ SetAndPush("object_key", "string")
            /\ ptr' = i + 1 /\ Read
            /\ UNCHANGED <<text, key, lua, status>>
         \/ Error
         \/ Leave /\ Read /\ UNCHANGED <<text, key, ptr, lua, status>>
  BY Zenon DEF Object
<1>2. /\ index \in 1..MaxDepth /\ index > 0 /\ st[index] = "object" /\ i <= Len(text) + 1
      /\ i \in 1..(Len(text) + 1) /\ Len(text) \in Nat
      /\ h[index] \in Nat /\ Len(lua) = h[index] + Above("object")
  BY <1>1, InLevel
<1>3. ASSUME Ch = "dq", SetAndPush("object_key", "string"), ptr' = i + 1, Read,
             UNCHANGED <<text, key, lua, status>>
      PROVE  Typed' /\ Fits(g)'
  <2>1. i \in 1..Len(text)
    BY <1>3, InText DEF Ch
  <2>2. i' = i + 1
    BY <1>3 DEF Read
  <2>3. ptr' \in 1..i' /\ i' \in 1..(Len(text) + 2) /\ ptr' \in 0..(Len(text) + 1)
    BY <1>2, <1>3, <2>1, <2>2
  <2>4. "object_key" \in Waiting
    BY DEF Waiting
  <2> QED
    BY <1>2, <1>3, <2>3, <2>4, PushedFits
<1>4. ASSUME Leave, Read, UNCHANGED <<text, key, ptr, lua, status>>
      PROVE  Typed' /\ Fits(g)'
  <2>1. Len(lua') = h[index] + 1 /\ "object" \in Objects
    BY <1>2, <1>4 DEF Above, Objects
  <2>2. Listed(lua') /\ (\A n \in 1..Len(lua') : IsValue(lua'[n])) /\ key' \in [0..MaxDepth -> Nat]
    BY <1>4 DEF Typed
  <2> QED
    BY <1>2, <1>4, <2>1, <2>2, TableFits DEF Keeps
<1> QED
  BY <1>1, <1>3, <1>4, ErrorFits

LEMMA ObjectKeyFits == ASSUME Typed, NEW h, Fits(h), NEW g, g = Grown(h), ObjectKey
                       PROVE  Typed' /\ Fits(g)'
<1>1. /\ In("object_key")
      /\ (Set("object_value") /\ Read /\ UNCHANGED <<text, key, ptr, lua, status>>) \/ Error
  BY Zenon DEF ObjectKey
<1>2. /\ index \in 1..MaxDepth /\ index > 0 /\ st[index] = "object_key" /\ i <= Len(text) + 1
      /\ h[index] \in Nat /\ Len(lua) = h[index] + Above("object_key")
  BY <1>1, InLevel
<1>3. ASSUME Set("object_value"), Read, UNCHANGED <<text, key, ptr, lua, status>>
      PROVE  Typed' /\ Fits(g)'
  <2>1. index' = index /\ g = h /\ "object_value" \in States
    BY <1>2, <1>3 DEF Set, Grown, States
  <2>2. /\ "object_key" \in Objects /\ "object_value" \in Objects /\ "object_value" \notin Arrays
        /\ Above("object_key") = 2 /\ Above("object_value") = 2
    BY DEF Arrays, Objects, Above
  <2>3. lua[h[index] + 1].t = "object" /\ lua[h[index] + 2].t = "string"
    BY <1>2, <2>2 DEF Fits, Table
  <2>4. ~(index > 1 /\ st[index - 1] = "object_key")
    <3> SUFFICES ASSUME index > 1, st[index - 1] = "object_key" PROVE FALSE
      OBVIOUS
    <3>1. Waits(h, index - 1)
      BY <1>2 DEF Fits
    <3> QED
      BY <1>2, <3>1 DEF Waits
  <2>5. Keeps(h[index]) /\ Len(lua') = h[index] + Above("object_value")
    BY <1>2, <1>3, <2>2 DEF Keeps
  <2>6. Fits(h)'
    BY <1>2, <1>3, <2>1, <2>2, <2>3, <2>4, <2>5, SetFits
  <2>7. st' \in [0..MaxDepth -> States] /\ i' \in 1..(Len(text) + 2)
    BY <1>2, <1>3, <2>1, ReadIs DEF Set, Typed
  <2>8. Typed'
    BY <1>2, <1>3, <2>1, <2>7 DEF Typed
  <2> QED
    BY <2>1, <2>6, <2>8
<1> QED
  BY <1>1, <1>3, ErrorFits

LEMMA ObjectValueFits == ASSUME Typed, NEW h, Fits(h), NEW g, g = Grown(h), ObjectValue
                         PROVE  Typed' /\ Fits(g)'
<1>1. In("object_value") /\ (Element("object_value_2") \/ Error)
  BY Zenon DEF ObjectValue
<1>2. "object_value_2" \in Waiting
  BY DEF Waiting
<1> QED
  BY <1>1, <1>2, ErrorFits, ElementFits

\* lua_rawset and lua_rawseti: the table at m takes what is above it.
LEMMA FilledIs ==
    ASSUME Typed, NEW m \in 1..Len(lua), NEW k, NEW v, lua' = Append(SubSeq(lua, 1, m - 1), RawSet(lua[m], k, v))
    PROVE  /\ Listed(lua') /\ Len(lua') = m /\ \A n \in 1..(m - 1) : lua'[n] = lua[n]
           /\ lua'[m] = RawSet(lua[m], k, v) /\ lua'[m].t = lua[m].t
           /\ \A n \in 1..Len(lua') : IsValue(lua'[n])
<1> DEFINE w == RawSet(lua[m], k, v)
<1>1. IsValue(lua[m]) /\ Listed(lua) /\ Len(lua) \in Nat
  BY DEF Typed, Listed
<1>2. IsValue(w) /\ w.t = lua[m].t
  BY <1>1, RawSetIs
<1> HIDE DEF w
<1>3. lua' = Append(SubSeq(lua, 1, m - 1), w)
  BY DEF w
<1>4. Listed(lua') /\ Len(lua') = m /\ (\A n \in 1..(m - 1) : lua'[n] = lua[n]) /\ lua'[m] = w
  BY <1>1, <1>3, ReplaceIs
<1>5. \A n \in 1..Len(lua') : IsValue(lua'[n])
  <2> SUFFICES ASSUME NEW n \in 1..m PROVE IsValue(lua'[n])
    BY <1>4
  <2>1. CASE n = m
    BY <1>2, <1>4, <2>1
  <2>2. CASE n \in 1..(m - 1)
    <3>1. n \in 1..Len(lua)
      BY <1>1, <2>2
    <3> QED
      BY <1>4, <2>2, <3>1 DEF Typed
  <2> QED
    BY <1>1, <2>1, <2>2
<1> QED
  BY <1>2, <1>4, <1>5 DEF w

LEMMA ObjectValue2Fits == ASSUME Typed, NEW h, Fits(h), NEW g, g = Grown(h), ObjectValue2
                          PROVE  Typed' /\ Fits(g)'
<1>1. /\ In("object_value_2")
      /\ \/ /\ Leave \/ Set("object")
            /\ lua' = Append(Popped(3), RawSet(Top(3), KeyOfString(Top(2)), Top(1)))
            /\ Read
            /\ UNCHANGED <<text, key, ptr, status>>
         \/ Error
  BY Zenon DEF ObjectValue2
<1>2. /\ index \in 1..MaxDepth /\ index > 0 /\ st[index] = "object_value_2" /\ i <= Len(text) + 1
      /\ h[index] \in Nat /\ Len(lua) = h[index] + Above("object_value_2")
  BY <1>1, InLevel
<1>3. Len(lua) = h[index] + 3 /\ st[index] \in Objects
  BY <1>2 DEF Above, Objects
<1>4. ASSUME Leave \/ Set("object"),
             lua' = Append(Popped(3), RawSet(Top(3), KeyOfString(Top(2)), Top(1))),
             Read, UNCHANGED <<text, key, ptr, status>>
      PROVE  Typed' /\ Fits(g)'
  <2>1. PICK m : m = h[index] + 1
    OBVIOUS
  <2>2. m \in 1..Len(lua) /\ m - 1 = Len(lua) - 3 /\ m = Len(lua) + 1 - 3 /\ m - 1 = h[index]
    BY <1>2, <1>3, <2>1
  <2>3. lua' = Append(SubSeq(lua, 1, m - 1), RawSet(lua[m], KeyOfString(Top(2)), Top(1)))
    BY <1>4, <2>2 DEF Popped, Top
  <2>4. /\ Listed(lua') /\ Len(lua') = m /\ \A n \in 1..(m - 1) : lua'[n] = lua[n]
        /\ lua'[m].t = lua[m].t
        /\ \A n \in 1..Len(lua') : IsValue(lua'[n])
    BY <2>2, <2>3, FilledIs
  <2>5. Keeps(h[index]) /\ Len(lua') = h[index] + 1 /\ lua'[h[index] + 1].t = lua[h[index] + 1].t
    BY <2>1, <2>2, <2>4 DEF Keeps
  <2>6. key' \in [0..MaxDepth -> Nat]
    BY <1>4 DEF Typed
  <2> QED
    BY <1>2, <1>3, <1>4, <2>4, <2>5, <2>6, TableFits
<1> QED
  BY <1>1, <1>4, ErrorFits

LEMMA ArrayFits == ASSUME Typed, NEW h, Fits(h), NEW g, g = Grown(h), Array
                   PROVE  Typed' /\ Fits(g)'
<1>1. /\ In("array")
      /\ \/ Leave /\ Read /\ UNCHANGED <<text, key, ptr, lua, status>>
         \/ Element("array_value")
         \/ Error
  BY Zenon DEF Array
<1>2. /\ index \in 1..MaxDepth /\ index > 0 /\ st[index] = "array" /\ i <= Len(text) + 1
      /\ h[index] \in Nat /\ Len(lua) = h[index] + Above("array")
  BY <1>1, InLevel
<1>3. ASSUME Leave, Read, UNCHANGED <<text, key, ptr, lua, status>>
      PROVE  Typed' /\ Fits(g)'
  <2>1. Len(lua') = h[index] + 1 /\ "array" \in Arrays
    BY <1>2, <1>3 DEF Above, Arrays
  <2>2. Listed(lua') /\ (\A n \in 1..Len(lua') : IsValue(lua'[n])) /\ key' \in [0..MaxDepth -> Nat]
    BY <1>3 DEF Typed
  <2> QED
    BY <1>2, <1>3, <2>1, <2>2, TableFits DEF Keeps
<1>4. "array_value" \in Waiting
  BY DEF Waiting
<1> QED
  BY <1>1, <1>3, <1>4, ErrorFits, ElementFits

LEMMA ArrayValueFits == ASSUME Typed, NEW h, Fits(h), NEW g, g = Grown(h), ArrayValue
                        PROVE  Typed' /\ Fits(g)'
<1>1. /\ In("array_value")
      /\ \/ /\ Leave \/ Set("array")
            /\ key' = [key EXCEPT ![index] = NextKey(@)]
            /\ lua' = Append(Popped(2), RawSet(Top(2), KeyOfIndex(NextKey(key[index])), Top(1)))
            /\ Read
            /\ UNCHANGED <<text, ptr, status>>
         \/ Error
  BY Zenon DEF ArrayValue
<1>2. /\ index \in 1..MaxDepth /\ index > 0 /\ st[index] = "array_value" /\ i <= Len(text) + 1
      /\ h[index] \in Nat /\ Len(lua) = h[index] + Above("array_value")
  BY <1>1, InLevel
<1>3. Len(lua) = h[index] + 2 /\ st[index] \in Arrays
  BY <1>2 DEF Above, Arrays
<1>4. ASSUME Leave \/ Set("array"), key' = [key EXCEPT ![index] = NextKey(@)],
             lua' = Append(Popped(2), RawSet(Top(2), KeyOfIndex(NextKey(key[index])), Top(1))),
             Read, UNCHANGED <<text, ptr, status>>
      PROVE  Typed' /\ Fits(g)'
  <2>1. PICK m : m = h[index] + 1
    OBVIOUS
  <2>2. m \in 1..Len(lua) /\ m - 1 = Len(lua) - 2 /\ m = Len(lua) + 1 - 2 /\ m - 1 = h[index]
    BY <1>2, <1>3, <2>1
  <2>3. lua' = Append(SubSeq(lua, 1, m - 1), RawSet(lua[m], KeyOfIndex(NextKey(key[index])), Top(1)))
    BY <1>4, <2>2 DEF Popped, Top
  <2>4. /\ Listed(lua') /\ Len(lua') = m /\ \A n \in 1..(m - 1) : lua'[n] = lua[n]
        /\ lua'[m].t = lua[m].t
        /\ \A n \in 1..Len(lua') : IsValue(lua'[n])
    BY <2>2, <2>3, FilledIs
  <2>5. Keeps(h[index]) /\ Len(lua') = h[index] + 1 /\ lua'[h[index] + 1].t = lua[h[index] + 1].t
    BY <2>1, <2>2, <2>4 DEF Keeps
  <2>6. key' \in [0..MaxDepth -> Nat]
    BY <1>2, <1>4 DEF Typed, NextKey
  <2> QED
    BY <1>2, <1>3, <1>4, <2>4, <2>5, <2>6, TableFits
<1> QED
  BY <1>1, <1>4, ErrorFits

LEMMA FinishFits == ASSUME Typed, NEW h, Fits(h), NEW g, g = Grown(h), Finish
                    PROVE  Typed' /\ Fits(g)'
<1>1. status' \in {"ok", "error"} /\ UNCHANGED <<text, i, index, st, key, ptr, lua>>
  BY DEF Finish
<1>2. Typed'
  BY <1>1 DEF Typed
<1>3. g = h
  BY <1>1 DEF Grown, Typed
<1>4. st[index] \in {"string", "number", "literal"} /\ index > 0 => ptr' \in 1..i'
  BY <1>1 DEF Fits
<1>5. Fits(h)'
  BY <1>1, <1>4, SameFits
<1> QED
  BY <1>2, <1>3, <1>5

\* The reset of the array counter hits index itself: what was being read is lost.
Overflow == BeginArray /\ index = MaxDepth /\ index' = 1

LEMMA BeginArrayFits == ASSUME Typed, NEW h, Fits(h), NEW g, g = Grown(h), BeginArray, ~Overflow
                        PROVE  Typed' /\ Fits(g)'
<1>1. /\ In("value") /\ lua' = Append(lua, NewTable("array")) /\ Read
      /\ UNCHANGED <<text, ptr, status>>
  BY DEF BeginArray
<1>2. ResetKey /\ Enter("array")
  BY Zenon DEF BeginArray, Overflow
<1>3. key' \in [0..MaxDepth -> Nat]
  BY <1>2 DEF ResetKey, Typed
<1>4. "array" \in {"array", "object"}
  OBVIOUS
<1> QED
  BY <1>1, <1>2, <1>3, <1>4, BeginTableFits

LEMMA BeginObjectFits == ASSUME Typed, NEW h, Fits(h), NEW g, g = Grown(h), BeginObject
                         PROVE  Typed' /\ Fits(g)'
<1>1. /\ In("value") /\ lua' = Append(lua, NewTable("object")) /\ Enter("object") /\ Read
      /\ UNCHANGED <<text, key, ptr, status>>
  BY DEF BeginObject
<1>2. key' \in [0..MaxDepth -> Nat]
  BY <1>1 DEF Typed
<1>3. "object" \in {"array", "object"}
  OBVIOUS
<1> QED
  BY <1>1, <1>2, <1>3, BeginTableFits

LEMMA OverflowFits == ASSUME Typed, NEW h, Fits(h), Overflow
                      PROVE  Typed' /\ \E g : Fits(g)'
<1>1. /\ In("value") /\ lua' = Append(lua, NewTable("array")) /\ Read
      /\ UNCHANGED <<text, ptr, status>>
  BY DEF Overflow, BeginArray
<1>2. index = MaxDepth /\ index' = 1 /\ index' # index /\ 1 \in 0..MaxDepth
  BY DEF Overflow
<1>3. key' = key /\ st' = [st EXCEPT ![1] = "array"]
  BY <1>2 DEF Overflow, BeginArray, Enter, Set
<1>4. i <= Len(text) + 1
  BY <1>1 DEF In
<1>5. IsValue(NewTable("array")) /\ NewTable("array").t = "array"
  BY NewTableIs
<1>6. /\ Listed(lua') /\ Len(lua) \in Nat /\ Len(lua') = Len(lua) + 1
      /\ \A n \in 1..Len(lua) : lua'[n] = lua[n]
      /\ lua'[Len(lua) + 1] = NewTable("array")
  BY <1>1, AppendIs DEF Typed
<1>7. \A n \in 1..Len(lua') : IsValue(lua'[n])
  <2> SUFFICES ASSUME NEW n \in 1..(Len(lua) + 1) PROVE IsValue(lua'[n])
    BY <1>6
  <2>1. CASE n = Len(lua) + 1
    BY <1>5, <1>6, <2>1
  <2>2. CASE n \in 1..Len(lua)
    BY <1>6, <2>2 DEF Typed
  <2> QED
    BY <1>6, <2>1, <2>2
<1>8. st' \in [0..MaxDepth -> States] /\ st'[0] = "value" /\ st'[1] = "array"
  BY <1>2, <1>3 DEF Fits, Typed, States
<1>9. Typed'
  BY <1>1, <1>2, <1>3, <1>4, <1>6, <1>7, <1>8, ReadIs DEF Typed
<1>10. PICK g : g = [h EXCEPT ![index'] = Len(lua)]
  OBVIOUS
<1>11. Above("array") = 1 /\ "array" \in {"array", "object", "string", "number", "literal"}
  BY DEF Above
<1>12. Fits(g)'
  BY <1>2, <1>5, <1>6, <1>8, <1>10, <1>11, TopFits
<1> QED
  BY <1>9, <1>12

LEMMA NextFits == ASSUME Typed, NEW h, Fits(h), NEW g, g = Grown(h), [Next]_vars, ~Overflow
                  PROVE  Typed' /\ Fits(g)'
<1>1. CASE UNCHANGED vars
  <2>1. UNCHANGED <<text, i, index, st, key, ptr, lua, status>>
    BY <1>1 DEF vars
  <2>2. Typed' /\ g = h
    BY <2>1 DEF Typed, Grown
  <2>3. st[index] \in {"string", "number", "literal"} /\ index > 0 => ptr' \in 1..i'
    BY <2>1 DEF Fits
  <2>4. Fits(h)'
    BY <2>1, <2>3, SameFits
  <2> QED
    BY <2>2, <2>4
<1>2. CASE NoValue
  BY <1>2, ErrorFits DEF NoValue
<1> QED
  BY <1>1, <1>2, BlankFits, BeginArrayFits, BeginObjectFits, BeginTokenFits, StringFits, NumberFits,
     LiteralFits, DelimFits, ObjectFits, ObjectKeyFits, ObjectValueFits, ObjectValue2Fits,
     ArrayFits, ArrayValueFits, FinishFits, Zenon DEF Next

IInv == Typed /\ \E h : Fits(h)

LEMMA InitFits == Init => IInv
<1> SUFFICES ASSUME Init PROVE IInv
  OBVIOUS
<1>1. <<>> \in Seq({})
  OBVIOUS
<1>2. Listed(<<>>) /\ Len(<<>>) = 0
  BY <1>1, ListedIs, EmptySeq
<1>3. text \in Texts /\ Len(text) \in Nat
  BY TextsAssumption, LenProperties DEF Init
<1>4. Typed
  BY <1>2, <1>3 DEF Init, Typed, States
<1>5. PICK h : h = [d \in 1..MaxDepth |-> 0]
  OBVIOUS
<1>6. Fits(h)
  BY <1>5 DEF Init, Fits
<1> QED
  BY <1>4, <1>6 DEF IInv

LEMMA NextInv == IInv /\ [Next]_vars => IInv'
<1> SUFFICES ASSUME IInv, [Next]_vars PROVE IInv'
  OBVIOUS
<1>1. PICK h : Fits(h)
  BY DEF IInv
<1>2. CASE Overflow
  BY <1>1, <1>2, OverflowFits DEF IInv
<1>3. CASE ~Overflow
  <2>1. \A g : g = Grown(h) => Typed' /\ Fits(g)'
    BY <1>1, <1>3, NextFits DEF IInv
  <2>2. Typed' /\ \E g : Fits(g)'
    BY <2>1
  <2> QED
    BY <2>2 DEF IInv
<1> QED
  BY <1>2, <1>3

\* The variables of the decoder keep their ranges, for any texts and any depth.
THEOREM TypeCorrect == Spec => []TypeOK
<1>1. Typed => TypeOK
  <2> SUFFICES ASSUME Typed PROVE TypeOK
    OBVIOUS
  <2>1. text \in Seq(Chars)
    BY TextsAssumption DEF Typed
  <2>2. DOMAIN lua = 1..Len(lua)
    BY LenProperties DEF Typed, Listed
  <2> QED
    BY <2>1, <2>2 DEF Typed, TypeOK, IsValue, ValueTypes
<1> QED
  BY <1>1, InitFits, NextInv, PTL DEF Spec, IInv

\* However values nest, and wherever the depth check fails, what lua_rawset and
\* lua_rawseti find under a value is the table that is being filled.
THEOREM AlwaysInOneTable == Spec => []InOneTable
<1>1. IInv => InOneTable
  <2> SUFFICES ASSUME IInv PROVE InOneTable
    OBVIOUS
  <2>1. PICK h : Fits(h) /\ Typed
    BY DEF IInv
  <2>2. CASE st[index] = "value"
    BY <2>2 DEF InOneTable
  <2>3. CASE st[index] # "value"
    <3>1. index \in 1..MaxDepth /\ Table(h, index) /\ h[index] \in Nat
      BY <2>1, <2>3 DEF Fits, Typed
    <3>2. /\ Len(lua) = h[index] + Above(st[index])
          /\ st[index] = "object_key" => lua[h[index] + 2].t = "string"
          /\ st[index] = "delim" => index = 1
          /\ st[index] \in {"string", "number", "literal"} => ptr \in 1..i
      BY <2>1, <3>1 DEF Fits
    <3>3. st[index] \in States
      BY <2>1, <3>1 DEF Typed
    <3> DEFINE s == st[index]
               n == h[index]
    <3>4. /\ s \in Arrays => lua[n + 1].t = "array"
          /\ s \in Objects => lua[n + 1].t = "object"
          /\ s \in {"object_key", "object_value", "object_value_2"} => lua[n + 2].t = "string"
      BY <3>1, <3>2 DEF Table
    <3>5. n \in Nat /\ Len(lua) = n + Above(s)
      BY <3>1, <3>2
    <3> HIDE DEF n
    <3>6. CASE s \in {"array", "object"}
      <4>1. Len(lua) = n + 1 /\ lua[n + 1].t = s
        BY <3>4, <3>5, <3>6 DEF Above, Arrays, Objects
      <4> QED
        <5>1. Len(lua) + 1 - 1 = n + 1 /\ 1 <= Len(lua)
          BY <3>5, <4>1
        <5>2. Holds(1, s)
          BY <4>1, <5>1 DEF Holds, Top
        <5> QED
          BY <3>6, <5>2 DEF InOneTable
    <3>7. CASE s = "array_value"
      <4>1. Len(lua) = n + 2 /\ lua[n + 1].t = "array"
        BY <3>4, <3>5, <3>7 DEF Above, Arrays
      <4> QED
        BY <3>5, <3>7, <4>1 DEF InOneTable, Holds, Top
    <3>8. CASE s \in {"object_key", "object_value"}
      <4>1. Len(lua) = n + 2 /\ lua[n + 1].t = "object" /\ lua[n + 2].t = "string"
        BY <3>4, <3>5, <3>8 DEF Above, Objects
      <4> QED
        <5>1. Len(lua) + 1 - 1 = n + 2 /\ Len(lua) + 1 - 2 = n + 1 /\ 1 <= Len(lua) /\ 2 <= Len(lua)
          BY <3>5, <4>1
        <5>2. Holds(1, "string") /\ Holds(2, "object")
          BY <4>1, <5>1 DEF Holds, Top
        <5> QED
          BY <3>8, <5>2 DEF InOneTable
    <3>9. CASE s = "object_value_2"
      <4>1. Len(lua) = n + 3 /\ lua[n + 1].t = "object" /\ lua[n + 2].t = "string"
        BY <3>4, <3>5, <3>9 DEF Above, Objects
      <4> QED
        <5>1. Len(lua) + 1 - 2 = n + 2 /\ Len(lua) + 1 - 3 = n + 1 /\ 2 <= Len(lua) /\ 3 <= Len(lua)
          BY <3>5, <4>1
        <5>2. Holds(2, "string") /\ Holds(3, "object")
          BY <4>1, <5>1 DEF Holds, Top
        <5> QED
          BY <3>9, <5>2 DEF InOneTable
    <3>10. CASE s = "delim"
      <4>1. Len(lua) = n + 1
        BY <3>5, <3>10 DEF Above
      <4> QED
        BY <3>2, <3>5, <3>10, <4>1 DEF InOneTable
    <3>11. CASE s \in {"string", "number", "literal"}
      BY <3>2, <3>11 DEF InOneTable
    <3> QED
      BY <2>3, <3>3, <3>6, <3>7, <3>8, <3>9, <3>10, <3>11 DEF States
  <2> QED
    BY <2>2, <2>3
<1> QED
  BY <1>1, InitFits, NextInv, PTL DEF Spec

--------------------------------------------------------------------------------

(***************************************************************************)
(* What the grammar finds in a text.                                       *)
(***************************************************************************)
\* A set of numbers has a least one.
LEMMA LeastOf == ASSUME NEW T, T \subseteq Nat, T # {}
                 PROVE  \E n \in T : \A m \in T : n <= m
<1>1. \E n \in T : \A m \in T : ~(<<m, n>> \in OpToRel(<, Nat))
  BY NatLessThanWellFounded, WFMin
<1>2. PICK n \in T : \A m \in T : ~(m < n)
  BY <1>1 DEF OpToRel
<1> QED BY <1>2

\* A set that holds 0 and every successor is all of Nat: induction, for the provers.
LEMMA SetInduction == ASSUME NEW T, 0 \in T, \A n \in Nat : n \in T => n + 1 \in T
                      PROVE  \A n \in Nat : n \in T
<1> SUFFICES ASSUME NEW k \in Nat, k \notin T PROVE FALSE
  OBVIOUS
<1>1. PICK n \in Nat \ T : \A m \in Nat \ T : n <= m
  BY LeastOf
<1>2. n # 0 /\ n - 1 \in Nat /\ n - 1 \in T
  BY <1>1
<1> QED BY <1>1, <1>2

\* The first place that is in P, or the end
LEMMA FirstIs ==
    ASSUME NEW L \in Nat, NEW n \in Nat, NEW P, P \subseteq n..L,
           NEW j, j = IF P = {} THEN L + 1 ELSE Grammar!Min(P)
    PROVE  (P = {} /\ j = L + 1) \/ (j \in P /\ \A k \in P : j <= k)
<1>1. CASE P = {}
  BY <1>1
<1>2. CASE P # {}
  <2>1. P \subseteq Nat
    OBVIOUS
  <2>2. \E x \in P : \A y \in P : x <= y
    BY <1>2, <2>1, LeastOf
  <2> QED
    BY <1>2, <2>2 DEF Grammar!Min
<1> QED
  BY <1>1, <1>2

LEMMA NotBlankIs ==
    ASSUME NEW f, Len(f) \in Nat, NEW n \in 1..(Len(f) + 2), NEW j, j = Grammar!NotBlank(f, n)
    PROVE  /\ j \in 1..(Len(f) + 1)
           /\ j < n => j = Len(f) + 1
           /\ \A k \in n..(j - 1) : f[k] = "sp"
           /\ j <= Len(f) => f[j] # "sp"
<1> DEFINE P == {k \in n..Len(f) : f[k] # "sp"}
<1>1. P \subseteq n..Len(f) /\ j = IF P = {} THEN Len(f) + 1 ELSE Grammar!Min(P)
  BY DEF Grammar!NotBlank
<1>2. (P = {} /\ j = Len(f) + 1) \/ (j \in P /\ \A k \in P : j <= k)
  <2>1. n \in Nat
    OBVIOUS
  <2> HIDE DEF P
  <2> QED BY <1>1, <2>1, FirstIs
<1> QED
  BY <1>2

LEMMA NotBlankFrom ==
    ASSUME NEW f, Len(f) \in Nat, NEW n \in 1..(Len(f) + 1), NEW j, j = Grammar!NotBlank(f, n)
    PROVE  j \in n..(Len(f) + 1)
<1>1. n \in 1..(Len(f) + 2)
  OBVIOUS
<1>2. j \in 1..(Len(f) + 1) /\ (j < n => j = Len(f) + 1)
  BY <1>1, NotBlankIs
<1> QED
  BY <1>2

LEMMA NotBlankIn ==
    ASSUME NEW f, Len(f) \in Nat, NEW n \in 1..(Len(f) + 2), NEW j, j = Grammar!NotBlank(f, n), j <= Len(f)
    PROVE  j \in n..Len(f)
<1>1. j \in 1..(Len(f) + 1) /\ (j < n => j = Len(f) + 1)
  BY NotBlankIs
<1> QED
  BY <1>1

LEMMA NotBlankSame ==
    ASSUME NEW f, Len(f) \in Nat, NEW n \in 1..(Len(f) + 1), n <= Len(f) => f[n] = "sp"
    PROVE  Grammar!NotBlank(f, n + 1) = Grammar!NotBlank(f, n)
<1>1. PICK j : j = Grammar!NotBlank(f, n)
  OBVIOUS
<1>2. PICK k : k = Grammar!NotBlank(f, n + 1)
  OBVIOUS
<1>3. /\ j \in 1..(Len(f) + 1) /\ (j < n => j = Len(f) + 1)
      /\ \A m \in n..(j - 1) : f[m] = "sp"
      /\ j <= Len(f) => f[j] # "sp"
  BY <1>1, NotBlankIs
<1>4. /\ k \in 1..(Len(f) + 1) /\ (k < n + 1 => k = Len(f) + 1)
      /\ \A m \in (n + 1)..(k - 1) : f[m] = "sp"
      /\ k <= Len(f) => f[k] # "sp"
  BY <1>2, NotBlankIs
<1>5. j = n => n = Len(f) + 1
  BY <1>3
<1>6. ~(j < k)
  BY <1>3, <1>4, <1>5
<1>7. ~(k < j)
  BY <1>3, <1>4, <1>5
<1> QED
  BY <1>1, <1>2, <1>3, <1>4, <1>6, <1>7

LEMMA NotBlankHere ==
    ASSUME NEW f, Len(f) \in Nat, NEW n \in 1..(Len(f) + 1), n <= Len(f) => f[n] # "sp"
    PROVE  Grammar!NotBlank(f, n) = n
<1>1. PICK j : j = Grammar!NotBlank(f, n)
  OBVIOUS
<1>2. /\ j \in 1..(Len(f) + 1) /\ (j < n => j = Len(f) + 1)
      /\ \A m \in n..(j - 1) : f[m] = "sp"
      /\ j <= Len(f) => f[j] # "sp"
  BY <1>1, NotBlankIs
<1>3. ~(n < j)
  BY <1>2
<1> QED
  BY <1>1, <1>2, <1>3

LEMMA FirstInIs ==
    ASSUME NEW f, Len(f) \in Nat, NEW n \in 1..(Len(f) + 1), NEW S, NEW j, j = Grammar!FirstIn(f, n, S)
    PROVE  /\ j \in n..(Len(f) + 1)
           /\ \A k \in n..(j - 1) : f[k] \notin S
           /\ j <= Len(f) => f[j] \in S
<1> DEFINE P == {k \in n..Len(f) : f[k] \in S}
<1>1. P \subseteq n..Len(f) /\ j = IF P = {} THEN Len(f) + 1 ELSE Grammar!Min(P)
  BY DEF Grammar!FirstIn
<1>2. (P = {} /\ j = Len(f) + 1) \/ (j \in P /\ \A k \in P : j <= k)
  <2>1. n \in Nat
    OBVIOUS
  <2> HIDE DEF P
  <2> QED BY <1>1, <2>1, FirstIs
<1> QED
  BY <1>2

\* A quotation mark that ends the string whose first character is at n
Closes(f, n, k) == f[k] = "dq" /\ ~Grammar!Opens(f, n, k - 1)

LEMMA ClosingQuoteIs ==
    ASSUME NEW f, Len(f) \in Nat, NEW n \in 1..(Len(f) + 1), NEW j, j = Grammar!ClosingQuote(f, n)
    PROVE  /\ j \in n..(Len(f) + 1)
           /\ \A k \in n..(j - 1) : ~Closes(f, n, k)
           /\ j <= Len(f) => Closes(f, n, j)
<1> DEFINE P == {k \in n..Len(f) : f[k] = "dq" /\ ~Grammar!Opens(f, n, k - 1)}
<1>1. P \subseteq n..Len(f) /\ j = IF P = {} THEN Len(f) + 1 ELSE Grammar!Min(P)
  BY DEF Grammar!ClosingQuote
<1>2. (P = {} /\ j = Len(f) + 1) \/ (j \in P /\ \A k \in P : j <= k)
  <2>1. n \in Nat
    OBVIOUS
  <2> HIDE DEF P
  <2> QED BY <1>1, <2>1, FirstIs
<1> QED
  BY <1>2 DEF Closes
(***************************************************************************)
(* Reading at a place needs what is read behind it only, and goes on       *)
(* behind it: that makes Reading a function of the text.                   *)
(***************************************************************************)
Moves(f, e, n) == e.ok \in BOOLEAN /\ (e.ok => e.next \in (n + 1)..(Len(f) + 1))
Reads(f) == {"elements", "members"} \X (1..(Len(f) + 1)) \X Nat
ReadStep(f, read, x) == IF x[1] = "elements" THEN Grammar!Elements(f, read, x[2], x[3])
                        ELSE Grammar!Members(f, read, x[2])
\* After n, everything that was read has moved; two ways of reading agree.
Forward(f, read, n) == \A x \in Reads(f) : x[2] > n => Moves(f, read[x], x[2])
Alike(f, g, h, n) == \A x \in Reads(f) : x[2] > n => g[x] = h[x]

LEMMA YesIs == ASSUME NEW v, NEW n
               PROVE  /\ Grammar!Yes(v, n).ok = TRUE /\ Grammar!Yes(v, n).v = v /\ Grammar!Yes(v, n).next = n
                      /\ Grammar!No.ok = FALSE
  BY DEF Grammar!Yes, Grammar!No

LEMMA YesMoves == ASSUME NEW f, NEW v, NEW n, NEW k, k \in (n + 1)..(Len(f) + 1)
                  PROVE  Moves(f, Grammar!Yes(v, k), n)
  BY DEF Moves, Grammar!Yes
LEMMA NoMoves == ASSUME NEW f, NEW n PROVE Moves(f, Grammar!No, n)
  BY DEF Moves, Grammar!No

LEMMA OneIs == ASSUME NEW c PROVE 1 \in DOMAIN <<c>> /\ <<c>>[1] = c /\ Len(<<c>>) = 1
<1>1. 1 \in DOMAIN <<c>>
  OBVIOUS
<1>2. <<c>>[1] = c
  OBVIOUS
<1> QED BY <1>1, <1>2

\* What a word is, by what it is made of
LEMMA WordIs ==
    ASSUME NEW f, NEW n, NEW next, next = Grammar!FirstIn(f, n, {"sp", ",", "]", "}"}),
           NEW word, word = SubSeq(f, n, next - 1)
    PROVE  /\ word = <<"T">> => Grammar!WordAt(f, n) = Grammar!Yes(Grammar!Value("true", <<>>), next)
           /\ word = <<"N">> => Grammar!WordAt(f, n) = Grammar!Yes(Grammar!Nil, next)
           /\ word \notin {<<"T">>, <<"N">>} /\ Grammar!IsNumber(word)
              => Grammar!WordAt(f, n) = Grammar!Yes(Grammar!Value("number", word), next)
           /\ word \notin {<<"T">>, <<"N">>} /\ ~Grammar!IsNumber(word)
              => Grammar!WordAt(f, n) = Grammar!No
<1>1. <<"T">> # <<"N">>
  OBVIOUS
<1>2. Grammar!WordAt(f, n) =
          CASE word = <<"T">> -> Grammar!Yes(Grammar!Value("true", <<>>), next)
            [] word = <<"N">> -> Grammar!Yes(Grammar!Nil, next)
            [] Grammar!IsNumber(word) -> Grammar!Yes(Grammar!Value("number", word), next)
            [] OTHER -> Grammar!No
  BY DEF Grammar!WordAt
<1>3. word \in {<<"T">>, <<"N">>} => ~Grammar!IsNumber(word)
  <2>1. "T" \notin Grammar!Hex /\ "N" \notin Grammar!Hex
    BY DEF Grammar!Hex
  <2>3. 1 \in DOMAIN <<"T">> /\ <<"T">>[1] = "T" /\ 1 \in DOMAIN <<"N">> /\ <<"N">>[1] = "N"
    BY OneIs, Zenon
  <2> QED BY <2>1, <2>3, Zenon DEF Grammar!IsNumber
<1> QED
  BY <1>1, <1>2, <1>3

LEMMA WordMoves ==
    ASSUME NEW f \in Seq(Chars), NEW n \in 1..(Len(f) + 1)
    PROVE  Moves(f, Grammar!WordAt(f, n), n)
<1>0. Len(f) \in Nat
  OBVIOUS
<1>7. PICK ends : ends = {"sp", ",", "]", "}"}
  OBVIOUS
<1>1. PICK next : next = Grammar!FirstIn(f, n, ends)
  OBVIOUS
<1>2. PICK word : word = SubSeq(f, n, next - 1)
  OBVIOUS
<1>3. next \in n..(Len(f) + 1)
  BY <1>0, <1>1, FirstInIs
<1>4. next = n => word = <<>>
  BY <1>2, <1>3, SubSeqEmpty
<1>5. <<"T">> # <<>> /\ <<"N">> # <<>>
  OBVIOUS
<1> DEFINE e == Grammar!WordAt(f, n)
<1>6. \/ \E v : e = Grammar!Yes(v, next) /\ word # <<>>
      \/ e = Grammar!No
  BY <1>1, <1>2, <1>5, <1>7, WordIs, Zenon DEF Grammar!IsNumber
<1> HIDE DEF e
<1>8. word # <<>> => next \in (n + 1)..(Len(f) + 1)
  BY <1>0, <1>3, <1>4
<1>9. Moves(f, e, n)
  BY <1>6, <1>8, YesMoves, NoMoves
<1> QED
  BY <1>9 DEF e

LEMMA StringMoves ==
    ASSUME NEW f, Len(f) \in Nat, NEW n \in 1..Len(f)
    PROVE  Moves(f, Grammar!StringAt(f, n), n)
<1>1. PICK j : j = Grammar!ClosingQuote(f, n + 1)
  OBVIOUS
<1>2. j \in (n + 1)..(Len(f) + 1)
  BY <1>1, ClosingQuoteIs
<1> DEFINE e == Grammar!StringAt(f, n)
<1>3. \/ \E v : e = Grammar!Yes(v, j + 1) /\ j <= Len(f)
      \/ e = Grammar!No
  BY <1>1, <1>2 DEF Grammar!StringAt
<1> HIDE DEF e
<1>5. j <= Len(f) => j + 1 \in (n + 1)..(Len(f) + 1)
  BY <1>2
<1>4. Moves(f, e, n)
  BY <1>3, <1>5, YesMoves, NoMoves
<1> QED
  BY <1>4 DEF e

LEMMA TableMoves ==
    ASSUME NEW f, Len(f) \in Nat, NEW n \in 1..Len(f), NEW kind, NEW r, Moves(f, r, n + 1)
    PROVE  Moves(f, Grammar!TableOf(kind, r), n)
<1>1. PICK v : v = Grammar!Table(kind, Grammar!NotNil(r.v))
  OBVIOUS
<1>2. Grammar!TableOf(kind, r) = IF r.ok THEN Grammar!Yes(v, r.next) ELSE Grammar!No
  BY <1>1 DEF Grammar!TableOf
<1>3. r.ok \in BOOLEAN /\ (r.ok => r.next \in (n + 1)..(Len(f) + 1))
  BY DEF Moves
<1> QED
  BY <1>2, <1>3, YesMoves, NoMoves

LEMMA ValueMoves ==
    ASSUME NEW f \in Seq(Chars), NEW n \in 1..(Len(f) + 1), NEW g, Forward(f, g, n)
    PROVE  Moves(f, Grammar!ValueAt(f, g, n), n)
<1>0. Len(f) \in Nat
  OBVIOUS
<1>1. n <= Len(f) => /\ <<"elements", n + 1, 1>> \in Reads(f) /\ <<"members", n + 1, 0>> \in Reads(f)
  BY <1>0 DEF Reads
<1>2. n <= Len(f) => Moves(f, g[<<"elements", n + 1, 1>>], n + 1) /\ Moves(f, g[<<"members", n + 1, 0>>], n + 1)
  BY <1>1 DEF Forward
<1>3. CASE Grammar!At(f, n, "[")
  <2>1. n <= Len(f) /\ Grammar!ValueAt(f, g, n) = Grammar!TableOf("array", g[<<"elements", n + 1, 1>>])
    BY <1>3 DEF Grammar!ValueAt, Grammar!At
  <2> QED BY <1>0, <1>2, <2>1, TableMoves
<1>4. CASE Grammar!At(f, n, "{")
  <2>1. n <= Len(f) /\ Grammar!ValueAt(f, g, n) = Grammar!TableOf("object", g[<<"members", n + 1, 0>>])
    BY <1>4 DEF Grammar!ValueAt, Grammar!At
  <2> QED BY <1>0, <1>2, <2>1, TableMoves
<1>5. CASE Grammar!At(f, n, "dq")
  <2>1. n <= Len(f) /\ Grammar!ValueAt(f, g, n) = Grammar!StringAt(f, n)
    BY <1>5 DEF Grammar!ValueAt, Grammar!At
  <2> QED BY <1>0, <2>1, StringMoves
<1>6. CASE ~Grammar!At(f, n, "[") /\ ~Grammar!At(f, n, "{") /\ ~Grammar!At(f, n, "dq")
  <2>1. Grammar!ValueAt(f, g, n) = Grammar!WordAt(f, n)
    BY <1>6 DEF Grammar!ValueAt
  <2> QED BY <2>1, WordMoves
<1> QED
  BY <1>3, <1>4, <1>5, <1>6

LEMMA ValueAlike ==
    ASSUME NEW f, Len(f) \in Nat, NEW n \in 1..(Len(f) + 1), NEW g, NEW h, Alike(f, g, h, n)
    PROVE  Grammar!ValueAt(f, g, n) = Grammar!ValueAt(f, h, n)
<1>1. n <= Len(f) => /\ <<"elements", n + 1, 1>> \in Reads(f) /\ <<"members", n + 1, 0>> \in Reads(f)
  BY DEF Reads
<1>2. n <= Len(f) => /\ g[<<"elements", n + 1, 1>>] = h[<<"elements", n + 1, 1>>]
                     /\ g[<<"members", n + 1, 0>>] = h[<<"members", n + 1, 0>>]
  BY <1>1 DEF Alike
<1>3. Grammar!At(f, n, "[") \/ Grammar!At(f, n, "{") => n <= Len(f)
  BY DEF Grammar!At
<1> QED
  BY <1>2, <1>3 DEF Grammar!ValueAt

\* Where the brackets go on after a value
LEMMA SkipIs ==
    ASSUME NEW f, Len(f) \in Nat, NEW m \in 1..(Len(f) + 1), NEW e, Moves(f, e, m),
           NEW close, Grammar!Follows(f, e, close)
    PROVE  e.ok /\ e.next \in (m + 1)..(Len(f) + 1) /\ Grammar!Skip(f, e.next) \in (m + 1)..(Len(f) + 1)
<1>1. PICK j : j = Grammar!NotBlank(f, e.next)
  OBVIOUS
<1>2. e.ok /\ (Grammar!At(f, j, close) \/ Grammar!At(f, j, ","))
  BY <1>1 DEF Grammar!Follows
<1>3. e.next \in (m + 1)..(Len(f) + 1)
  BY <1>2 DEF Moves
<1>4. j \in 1..(Len(f) + 1) /\ (j < e.next => j = Len(f) + 1)
  BY <1>1, <1>3, NotBlankIs
<1>5. j <= Len(f)
  BY <1>2 DEF Grammar!At
<1>6. Grammar!Skip(f, e.next) \in {j, j + 1}
  BY <1>1 DEF Grammar!Skip
<1>7. j \in (m + 1)..(Len(f) + 1) /\ j + 1 \in (m + 1)..(Len(f) + 1)
  BY <1>3, <1>4, <1>5
<1>8. Grammar!Skip(f, e.next) \in (m + 1)..(Len(f) + 1)
  BY <1>6, <1>7, Zenon
<1> QED
  BY <1>2, <1>3, <1>8

LEMMA WithMoves ==
    ASSUME NEW f, NEW n \in Nat, NEW m \in Nat, n <= m, Len(f) \in Nat, NEW k, NEW e, NEW later, Moves(f, later, m)
    PROVE  Moves(f, Grammar!With(k, e, later), n)
<1>1. PICK v : v = Grammar!Entry(k, e.v, later.v)
  OBVIOUS
<1>2. Grammar!With(k, e, later) = IF later.ok THEN Grammar!Yes(v, later.next) ELSE Grammar!No
  BY <1>1 DEF Grammar!With
<1>3. later.ok \in BOOLEAN /\ (later.ok => later.next \in (n + 1)..(Len(f) + 1))
  BY DEF Moves
<1> QED
  BY <1>2, <1>3, YesMoves, NoMoves

LEMMA ElementMoves ==
    ASSUME NEW f, Len(f) \in Nat, NEW m \in 1..(Len(f) + 1), NEW n \in 1..m, NEW e, Moves(f, e, m),
           NEW k \in Nat, NEW g, Forward(f, g, n)
    PROVE  Moves(f, Grammar!Element(f, g, k, e), n)
<1>1. CASE Grammar!Follows(f, e, "]")
  <2>1. PICK x : x = <<"elements", Grammar!Skip(f, e.next), k + 1>>
    OBVIOUS
  <2>0. Grammar!Skip(f, e.next) \in (m + 1)..(Len(f) + 1)
    BY <1>1, SkipIs
  <2>2. x \in Reads(f) /\ x[2] \in (n + 1)..(Len(f) + 1)
    BY <2>0, <2>1 DEF Reads
  <2>3. Moves(f, g[x], x[2])
    BY <2>2 DEF Forward
  <2>4. Grammar!Element(f, g, k, e) = Grammar!With(Grammar!Index(k), e, g[x])
    BY <1>1, <2>1 DEF Grammar!Element
  <2>5. PICK p : p = x[2]
    OBVIOUS
  <2>6. p \in Nat /\ n <= p /\ Moves(f, g[x], p)
    BY <2>2, <2>3, <2>5
  <2> QED
    BY <2>4, <2>6, WithMoves
<1>2. CASE ~Grammar!Follows(f, e, "]")
  BY <1>2, YesIs DEF Grammar!Element, Moves
<1> QED
  BY <1>1, <1>2

LEMMA ElementAlike ==
    ASSUME NEW f, Len(f) \in Nat, NEW m \in 1..(Len(f) + 1), NEW n \in 1..m, NEW e, Moves(f, e, m),
           NEW k \in Nat, NEW g, NEW h, Alike(f, g, h, n)
    PROVE  Grammar!Element(f, g, k, e) = Grammar!Element(f, h, k, e)
<1>1. CASE Grammar!Follows(f, e, "]")
  <2>1. PICK x : x = <<"elements", Grammar!Skip(f, e.next), k + 1>>
    OBVIOUS
  <2>0. Grammar!Skip(f, e.next) \in (m + 1)..(Len(f) + 1)
    BY <1>1, SkipIs
  <2>2. x \in Reads(f) /\ x[2] \in (n + 1)..(Len(f) + 1)
    BY <2>0, <2>1 DEF Reads
  <2>3. g[x] = h[x]
    BY <2>2 DEF Alike
  <2> QED
    BY <2>1, <2>3 DEF Grammar!Element
<1>2. CASE ~Grammar!Follows(f, e, "]")
  BY <1>2 DEF Grammar!Element
<1> QED
  BY <1>1, <1>2

LEMMA MemberMoves ==
    ASSUME NEW f, Len(f) \in Nat, NEW m \in 1..(Len(f) + 1), NEW n \in 1..m, NEW e, Moves(f, e, m),
           NEW s, NEW g, Forward(f, g, n)
    PROVE  Moves(f, Grammar!Member(f, g, s, e), n)
<1>1. CASE Grammar!Follows(f, e, "}")
  <2>1. PICK x : x = <<"members", Grammar!Skip(f, e.next), 0>>
    OBVIOUS
  <2>0. Grammar!Skip(f, e.next) \in (m + 1)..(Len(f) + 1)
    BY <1>1, SkipIs
  <2>2. x \in Reads(f) /\ x[2] \in (n + 1)..(Len(f) + 1)
    BY <2>0, <2>1 DEF Reads
  <2>3. Moves(f, g[x], x[2])
    BY <2>2 DEF Forward
  <2>4. Grammar!Member(f, g, s, e) = Grammar!With(Grammar!Name(s), e, g[x])
    BY <1>1, <2>1 DEF Grammar!Member
  <2>5. PICK p : p = x[2]
    OBVIOUS
  <2>6. p \in Nat /\ n <= p /\ Moves(f, g[x], p)
    BY <2>2, <2>3, <2>5
  <2> QED
    BY <2>4, <2>6, WithMoves
<1>2. CASE ~Grammar!Follows(f, e, "}")
  BY <1>2, YesIs DEF Grammar!Member, Moves
<1> QED
  BY <1>1, <1>2

LEMMA MemberAlike ==
    ASSUME NEW f, Len(f) \in Nat, NEW m \in 1..(Len(f) + 1), NEW n \in 1..m, NEW e, Moves(f, e, m),
           NEW s, NEW g, NEW h, Alike(f, g, h, n)
    PROVE  Grammar!Member(f, g, s, e) = Grammar!Member(f, h, s, e)
<1>1. CASE Grammar!Follows(f, e, "}")
  <2>1. PICK x : x = <<"members", Grammar!Skip(f, e.next), 0>>
    OBVIOUS
  <2>0. Grammar!Skip(f, e.next) \in (m + 1)..(Len(f) + 1)
    BY <1>1, SkipIs
  <2>2. x \in Reads(f) /\ x[2] \in (n + 1)..(Len(f) + 1)
    BY <2>0, <2>1 DEF Reads
  <2>3. g[x] = h[x]
    BY <2>2 DEF Alike
  <2> QED
    BY <2>1, <2>3 DEF Grammar!Member
<1>2. CASE ~Grammar!Follows(f, e, "}")
  BY <1>2 DEF Grammar!Member
<1> QED
  BY <1>1, <1>2

\* Less was read
LEMMA Later ==
    ASSUME NEW f, NEW n \in Nat, NEW m \in Nat, n <= m, Len(f) \in Nat
    PROVE  /\ \A g : Forward(f, g, n) => Forward(f, g, m)
           /\ \A g, h : Alike(f, g, h, n) => Alike(f, g, h, m)
           /\ \A e : Moves(f, e, m) => Moves(f, e, n)
<1>1. \A x \in Reads(f) : x[2] \in Nat
  BY DEF Reads
<1> QED
  BY <1>1 DEF Forward, Alike, Moves

\* A name, with the value after the colon
LEMMA NamedMoves ==
    ASSUME NEW f \in Seq(Chars), NEW m \in 1..(Len(f) + 1), NEW k, Moves(f, k, m), NEW n \in 1..m,
           NEW g, NEW h
    PROVE  /\ Forward(f, g, n) => Moves(f, Grammar!Named(f, g, k), n)
           /\ Forward(f, g, n) /\ Alike(f, g, h, n) => Grammar!Named(f, g, k) = Grammar!Named(f, h, k)
<1>0. Len(f) \in Nat
  OBVIOUS
<1>1. PICK c : c = Grammar!NotBlank(f, k.next)
  OBVIOUS
<1>2. CASE k.ok /\ Grammar!At(f, c, ":")
  <2>1. k.next \in (m + 1)..(Len(f) + 1) /\ c <= Len(f)
    BY <1>2 DEF Moves, Grammar!At
  <2>2. c \in (m + 1)..Len(f)
    <3>1. k.next \in 1..(Len(f) + 2)
      BY <1>0, <2>1
    <3>2. c \in k.next..Len(f)
      BY <1>0, <1>1, <2>1, <3>1, NotBlankIn
    <3> QED BY <1>0, <2>1, <3>2
  <2>3. PICK j : j = Grammar!NotBlank(f, c + 1)
    OBVIOUS
  <2>4. j \in (n + 1)..(Len(f) + 1)
    <3>1. c + 1 \in 1..(Len(f) + 1)
      BY <1>0, <2>2
    <3>2. j \in (c + 1)..(Len(f) + 1)
      BY <1>0, <2>3, <3>1, NotBlankFrom
    <3> QED BY <1>0, <2>2, <3>2
  <2>5. /\ Grammar!Named(f, g, k) = Grammar!Member(f, g, k.v.s, Grammar!ValueAt(f, g, j))
        /\ Grammar!Named(f, h, k) = Grammar!Member(f, h, k.v.s, Grammar!ValueAt(f, h, j))
    BY <1>1, <1>2, <2>3 DEF Grammar!Named
  <2>6. Forward(f, g, n) => Moves(f, Grammar!ValueAt(f, g, j), j)
    BY <1>0, <2>4, Later, ValueMoves
  <2>7. n \in 1..j /\ j \in 1..(Len(f) + 1)
    BY <1>0, <2>4
  <2>8. Forward(f, g, n) => Moves(f, Grammar!Named(f, g, k), n)
    BY <1>0, <2>5, <2>6, <2>7, MemberMoves
  <2>9. Alike(f, g, h, n) => Grammar!ValueAt(f, g, j) = Grammar!ValueAt(f, h, j)
    BY <1>0, <2>4, Later, ValueAlike
  <2>10. Forward(f, g, n) /\ Alike(f, g, h, n) => Grammar!Named(f, g, k) = Grammar!Named(f, h, k)
    BY <1>0, <2>5, <2>6, <2>7, <2>9, MemberAlike
  <2> QED BY <2>8, <2>10
<1>3. CASE ~(k.ok /\ Grammar!At(f, c, ":"))
  BY <1>1, <1>3, YesIs DEF Grammar!Named, Moves
<1> QED
  BY <1>2, <1>3

LEMMA ElementsMove ==
    ASSUME NEW f \in Seq(Chars), NEW n \in 1..(Len(f) + 1), NEW k \in Nat, NEW g, NEW h,
           Forward(f, g, n)
    PROVE  /\ Moves(f, Grammar!Elements(f, g, n, k), n)
           /\ Alike(f, g, h, n) => Grammar!Elements(f, g, n, k) = Grammar!Elements(f, h, n, k)
<1>0. Len(f) \in Nat
  OBVIOUS
<1>1. PICK j : j = Grammar!NotBlank(f, n)
  OBVIOUS
<1>2. j \in n..(Len(f) + 1)
  BY <1>0, <1>1, NotBlankFrom
<1>3. CASE Grammar!At(f, j, "]")
  <2>1. /\ Grammar!Elements(f, g, n, k) = Grammar!Yes(<<>>, j + 1)
        /\ Grammar!Elements(f, h, n, k) = Grammar!Yes(<<>>, j + 1)
        /\ j <= Len(f)
    BY <1>1, <1>3 DEF Grammar!Elements, Grammar!At
  <2>2. j + 1 \in (n + 1)..(Len(f) + 1)
    BY <1>0, <1>2, <2>1
  <2> QED BY <2>1, <2>2, YesMoves
<1>4. CASE ~Grammar!At(f, j, "]")
  <2>1. /\ Grammar!Elements(f, g, n, k) = Grammar!Element(f, g, k, Grammar!ValueAt(f, g, j))
        /\ Grammar!Elements(f, h, n, k) = Grammar!Element(f, h, k, Grammar!ValueAt(f, h, j))
    BY <1>1, <1>4 DEF Grammar!Elements
  <2>2. Moves(f, Grammar!ValueAt(f, g, j), j)
    BY <1>0, <1>2, Later, ValueMoves
  <2>3. n \in 1..j /\ j \in 1..(Len(f) + 1)
    BY <1>0, <1>2
  <2>4. Moves(f, Grammar!Elements(f, g, n, k), n)
    BY <1>0, <2>1, <2>2, <2>3, ElementMoves
  <2>5. Alike(f, g, h, n) => Grammar!ValueAt(f, g, j) = Grammar!ValueAt(f, h, j)
    BY <1>0, <1>2, Later, ValueAlike
  <2>6. Alike(f, g, h, n) => Grammar!Elements(f, g, n, k) = Grammar!Elements(f, h, n, k)
    BY <1>0, <2>1, <2>2, <2>3, <2>5, ElementAlike
  <2> QED BY <2>4, <2>6
<1> QED
  BY <1>3, <1>4

LEMMA MembersMove ==
    ASSUME NEW f \in Seq(Chars), NEW n \in 1..(Len(f) + 1), NEW g, NEW h, Forward(f, g, n)
    PROVE  /\ Moves(f, Grammar!Members(f, g, n), n)
           /\ Alike(f, g, h, n) => Grammar!Members(f, g, n) = Grammar!Members(f, h, n)
<1>0. Len(f) \in Nat
  OBVIOUS
<1>1. PICK j : j = Grammar!NotBlank(f, n)
  OBVIOUS
<1>2. j \in n..(Len(f) + 1)
  BY <1>0, <1>1, NotBlankFrom
<1>3. CASE Grammar!At(f, j, "}")
  <2>1. /\ Grammar!Members(f, g, n) = Grammar!Yes(<<>>, j + 1)
        /\ Grammar!Members(f, h, n) = Grammar!Yes(<<>>, j + 1)
        /\ j <= Len(f)
    BY <1>1, <1>3 DEF Grammar!Members, Grammar!At
  <2>2. j + 1 \in (n + 1)..(Len(f) + 1)
    BY <1>0, <1>2, <2>1
  <2> QED BY <2>1, <2>2, YesMoves
<1>4. CASE Grammar!At(f, j, "dq")
  <2>1. /\ Grammar!Members(f, g, n) = Grammar!Named(f, g, Grammar!StringAt(f, j))
        /\ Grammar!Members(f, h, n) = Grammar!Named(f, h, Grammar!StringAt(f, j))
        /\ j <= Len(f)
    BY <1>1, <1>4 DEF Grammar!Members, Grammar!At
  <2>2. n \in 1..j /\ j \in 1..Len(f)
    BY <1>0, <1>2, <2>1
  <2>3. Moves(f, Grammar!StringAt(f, j), j)
    BY <1>0, <2>2, StringMoves
  <2>4. j \in 1..(Len(f) + 1)
    BY <1>0, <1>2
  <2> QED
    BY <2>1, <2>2, <2>3, <2>4, NamedMoves
<1>5. CASE ~Grammar!At(f, j, "}") /\ ~Grammar!At(f, j, "dq")
  BY <1>1, <1>5, YesIs DEF Grammar!Members, Moves
<1> QED
  BY <1>3, <1>4, <1>5

LEMMA StepMoves ==
    ASSUME NEW f \in Seq(Chars), NEW x \in Reads(f), NEW g, NEW h, Forward(f, g, x[2])
    PROVE  /\ Moves(f, ReadStep(f, g, x), x[2])
           /\ Alike(f, g, h, x[2]) => ReadStep(f, g, x) = ReadStep(f, h, x)
<1>1. x[2] \in 1..(Len(f) + 1) /\ x[3] \in Nat
  BY DEF Reads
<1>2. CASE x[1] = "elements"
  BY <1>1, <1>2, ElementsMove DEF ReadStep
<1>3. CASE x[1] # "elements"
  BY <1>1, <1>3, MembersMove DEF ReadStep
<1> QED
  BY <1>2, <1>3

LEMMA ReadingUnfolds ==
    ASSUME NEW f \in Seq(Chars)
    PROVE  /\ \A x \in Reads(f) : Grammar!Reading(f)[x] = ReadStep(f, Grammar!Reading(f), x)
           /\ Forward(f, Grammar!Reading(f), 0)
<1> DEFINE L == Len(f) + 1
           Is(g, n) == \A x \in Reads(f) : x[2] > n => g[x] = ReadStep(f, g, x)
           S == {n \in Nat : \E g : Is(g, L - n) /\ Forward(f, g, L - n)}
<1>0. L \in Nat /\ \A x \in Reads(f) : x[2] \in 1..L
  BY DEF Reads
<1>1. 0 \in S
  <2>1. \A g : Is(g, L - 0) /\ Forward(f, g, L - 0)
    BY <1>0 DEF Forward
  <2> QED BY <2>1
<1>2. ASSUME NEW n \in Nat, n \in S PROVE n + 1 \in S
  <2>1. PICK g : Is(g, L - n) /\ Forward(f, g, L - n)
    BY <1>2
  <2> DEFINE h == [x \in Reads(f) |-> IF x[2] > L - n THEN g[x] ELSE ReadStep(f, g, x)]
  <2>2. \A x \in Reads(f) : h[x] = IF x[2] > L - n THEN g[x] ELSE ReadStep(f, g, x)
    OBVIOUS
  <2> HIDE DEF h
  <2>3. ASSUME NEW x \in Reads(f), x[2] > L - (n + 1)
        PROVE  h[x] = ReadStep(f, h, x) /\ Moves(f, h[x], x[2])
    <3>1. Alike(f, g, h, x[2]) /\ Forward(f, g, x[2])
      <4>1. x[2] >= L - n
        BY <1>0, <2>3
      <4> QED BY <1>0, <2>1, <2>2, <4>1 DEF Alike, Forward
    <3>2. Moves(f, ReadStep(f, g, x), x[2]) /\ ReadStep(f, g, x) = ReadStep(f, h, x)
      BY <3>1, StepMoves
    <3>3. h[x] = ReadStep(f, g, x)
      BY <2>1, <2>2
    <3> QED BY <3>2, <3>3
  <2>4. Is(h, L - (n + 1)) /\ Forward(f, h, L - (n + 1))
    BY <2>3 DEF Forward
  <2> QED BY <2>4
<1>4. \E g : g = [x \in Reads(f) |-> ReadStep(f, g, x)]
  <2>1. L \in S
    <3> HIDE DEF S
    <3> QED BY <1>0, <1>1, <1>2, SetInduction
  <2>2. PICK g : Is(g, 0) /\ Forward(f, g, 0)
    BY <1>0, <2>1
  <2> DEFINE h == [x \in Reads(f) |-> g[x]]
  <2>3. \A x \in Reads(f) : h[x] = g[x]
    OBVIOUS
  <2>4. h = [x \in Reads(f) |-> h[x]]
    OBVIOUS
  <2> HIDE DEF h
  <2>5. ASSUME NEW x \in Reads(f) PROVE h[x] = ReadStep(f, h, x)
    <3>1. Alike(f, g, h, x[2]) /\ Forward(f, g, x[2])
      BY <1>0, <2>2, <2>3 DEF Alike, Forward
    <3> QED BY <1>0, <2>2, <2>3, <3>1, StepMoves
  <2>6. h = [x \in Reads(f) |-> ReadStep(f, h, x)]
    BY <2>4, <2>5
  <2> QED BY <2>6
<1>5. PICK r : r = Grammar!Reading(f)
  OBVIOUS
<1>6. r = [x \in Reads(f) |-> ReadStep(f, r, x)]
  BY <1>4, <1>5, Zenon DEF Grammar!Reading, Reads, ReadStep
<1>7. \A x \in Reads(f) : r[x] = ReadStep(f, r, x)
  BY <1>6
<1>8. Forward(f, r, 0)
  <2> DEFINE T == {n \in Nat : Forward(f, r, L - n)}
  <2>1. 0 \in T
    BY <1>0 DEF Forward
  <2>2. ASSUME NEW n \in Nat, n \in T PROVE n + 1 \in T
    <3>1. ASSUME NEW x \in Reads(f), x[2] > L - (n + 1) PROVE Moves(f, r[x], x[2])
      <4>1. Forward(f, r, x[2])
        BY <1>0, <2>2, <3>1 DEF Forward
      <4> QED BY <1>7, <4>1, StepMoves
    <3> QED BY <3>1 DEF Forward
  <2>3. L \in T
    <3> HIDE DEF T
    <3> QED BY <1>0, <2>1, <2>2, SetInduction
  <2> QED BY <1>0, <2>3
<1> QED
  BY <1>5, <1>7, <1>8

LEMMA ReadingIs ==
    ASSUME NEW f \in Seq(Chars), NEW read, read = Grammar!Reading(f), NEW n \in 1..(Len(f) + 1), NEW k \in Nat
    PROVE  /\ read[<<"elements", n, k>>] = Grammar!Elements(f, read, n, k)
           /\ read[<<"members", n, 0>>] = Grammar!Members(f, read, n)
           /\ Forward(f, read, 0)
<1>1. /\ <<"elements", n, k>> \in Reads(f) /\ <<"members", n, 0>> \in Reads(f)
      /\ "elements" # "members"
  BY DEF Reads
<1>2. /\ \A x \in Reads(f) : read[x] = ReadStep(f, read, x)
      /\ Forward(f, read, 0)
  BY ReadingUnfolds
<1>3. /\ read[<<"elements", n, k>>] = ReadStep(f, read, <<"elements", n, k>>)
      /\ read[<<"members", n, 0>>] = ReadStep(f, read, <<"members", n, 0>>)
  BY <1>1, <1>2
<1>4. /\ ReadStep(f, read, <<"elements", n, k>>) = Grammar!Elements(f, read, n, k)
      /\ ReadStep(f, read, <<"members", n, 0>>) = Grammar!Members(f, read, n)
  BY <1>1 DEF ReadStep
<1> QED
  BY <1>2, <1>3, <1>4

\* Where an array ends does not depend on the number of its first element.
SameEnd(d, e) == d.ok = e.ok /\ d.next = e.next
LEMMA WithEnds ==
    ASSUME NEW k, NEW m, NEW e, NEW d, NEW later, NEW after, SameEnd(later, after)
    PROVE  SameEnd(Grammar!With(k, e, later), Grammar!With(m, d, after))
<1>1. PICK v : v = Grammar!Entry(k, e.v, later.v)
  OBVIOUS
<1>2. PICK w : w = Grammar!Entry(m, d.v, after.v)
  OBVIOUS
<1>3. /\ Grammar!With(k, e, later) = IF later.ok THEN Grammar!Yes(v, later.next) ELSE Grammar!No
      /\ Grammar!With(m, d, after) = IF after.ok THEN Grammar!Yes(w, after.next) ELSE Grammar!No
  BY <1>1, <1>2 DEF Grammar!With
<1>4. later.ok = after.ok /\ later.next = after.next
  BY DEF SameEnd
<1>5. CASE later.ok
  BY <1>3, <1>4, <1>5 DEF SameEnd, Grammar!Yes
<1>6. CASE ~later.ok
  BY <1>3, <1>4, <1>6 DEF SameEnd
<1> QED
  BY <1>5, <1>6

LEMMA ElementsEnd ==
    ASSUME NEW f \in Seq(Chars), NEW read, read = Grammar!Reading(f),
           NEW n \in 1..(Len(f) + 1), NEW k \in Nat, NEW m \in Nat
    PROVE  SameEnd(Grammar!Elements(f, read, n, k), Grammar!Elements(f, read, n, m))
<1> DEFINE L == Len(f) + 1
           x(p, q) == Grammar!Elements(f, read, p, q)
           S == {d \in Nat : \A p \in 1..L, q \in Nat, r \in Nat : p > L - d => SameEnd(x(p, q), x(p, r))}
<1>0. L \in Nat /\ Len(f) \in Nat
  OBVIOUS
<1>1. 0 \in S
  BY <1>0
<1>2. ASSUME NEW d \in Nat, d \in S PROVE d + 1 \in S
  <2> SUFFICES ASSUME NEW p \in 1..L, NEW q \in Nat, NEW r \in Nat, p > L - (d + 1)
               PROVE  SameEnd(x(p, q), x(p, r))
    OBVIOUS
  <2>1. PICK j : j = Grammar!NotBlank(f, p)
    OBVIOUS
  <2>2. j \in p..L
    BY <1>0, <2>1, NotBlankFrom
  <2>3. CASE Grammar!At(f, j, "]")
    BY <2>1, <2>3 DEF Grammar!Elements, SameEnd
  <2>4. CASE ~Grammar!At(f, j, "]")
    <3>1. PICK e : e = Grammar!ValueAt(f, read, j)
      OBVIOUS
    <3>2. x(p, q) = Grammar!Element(f, read, q, e) /\ x(p, r) = Grammar!Element(f, read, r, e)
      BY <2>1, <2>4, <3>1 DEF Grammar!Elements
    <3>3. CASE Grammar!Follows(f, e, "]")
      <4>1. PICK s : s = Grammar!Skip(f, e.next)
        OBVIOUS
      <4>2. Forward(f, read, 0) /\ Forward(f, read, j)
        BY <1>0, <2>2, ReadingUnfolds, Later
      <4>3. Moves(f, e, j)
        BY <2>2, <3>1, <4>2, ValueMoves
      <4>4. s \in (j + 1)..L
        BY <1>0, <2>2, <3>3, <4>1, <4>3, SkipIs
      <4>5. s \in 1..L /\ s > L - d /\ q + 1 \in Nat /\ r + 1 \in Nat
        BY <1>0, <2>2, <4>4
      <4>6. read[<<"elements", s, q + 1>>] = x(s, q + 1) /\ read[<<"elements", s, r + 1>>] = x(s, r + 1)
        BY <4>5, ReadingIs
      <4>7. SameEnd(x(s, q + 1), x(s, r + 1))
        BY <1>2, <4>5
      <4>8. /\ x(p, q) = Grammar!With(Grammar!Index(q), e, read[<<"elements", s, q + 1>>])
            /\ x(p, r) = Grammar!With(Grammar!Index(r), e, read[<<"elements", s, r + 1>>])
        BY <3>2, <3>3, <4>1 DEF Grammar!Element
      <4> HIDE DEF x
      <4> QED BY <4>6, <4>7, <4>8, WithEnds
    <3>4. CASE ~Grammar!Follows(f, e, "]")
      BY <3>2, <3>4 DEF Grammar!Element, SameEnd
    <3> QED BY <3>3, <3>4
  <2> QED BY <2>3, <2>4
<1>3. L \in S
  <2> HIDE DEF S
  <2> QED BY <1>0, <1>1, <1>2, SetInduction
<1> QED
  BY <1>0, <1>3
(***************************************************************************)
(* The values of a text.                                                   *)
(***************************************************************************)
\* What a text gives from a value on, when values[k] is what it gives from k on
Follow(f, values, e) ==
    LET k == Grammar!NotBlank(f, e.next)
    IN  IF e.ok /\ (k > Len(f) \/ Grammar!At(f, k, ",")) /\ values[k + 1].ok
        THEN [ok |-> TRUE, values |-> <<e.v>> \o values[k + 1].values]
        ELSE [ok |-> FALSE, values |-> <<>>]
ValuesStep(f, values, n) ==
    LET j == Grammar!NotBlank(f, n)
    IN  IF j > Len(f) THEN [ok |-> TRUE, values |-> <<>>]
        ELSE Follow(f, values, Grammar!ValueAt(f, Grammar!Reading(f), j))

LEMMA FollowLocal ==
    ASSUME NEW f, Len(f) \in Nat, NEW n \in 1..Len(f), NEW e, Moves(f, e, n), NEW v, NEW w,
           \A k \in 1..(Len(f) + 2) : k > n => v[k] = w[k]
    PROVE  Follow(f, v, e) = Follow(f, w, e)
<1>1. PICK k : k = Grammar!NotBlank(f, e.next)
  OBVIOUS
<1>2. CASE e.ok
  <2>1. e.next \in (n + 1)..(Len(f) + 1)
    BY <1>2 DEF Moves
  <2>2. k \in (n + 1)..(Len(f) + 1)
    <3>1. e.next \in 1..(Len(f) + 1)
      BY <2>1
    <3>2. k \in e.next..(Len(f) + 1)
      BY <1>1, <3>1, NotBlankFrom
    <3> QED BY <2>1, <3>2
  <2>3. v[k + 1] = w[k + 1]
    BY <2>2
  <2> QED BY <1>1, <2>3 DEF Follow
<1>3. CASE ~e.ok
  BY <1>3 DEF Follow
<1> QED BY <1>2, <1>3

LEMMA ValuesLocal ==
    ASSUME NEW f \in Seq(Chars), NEW n \in 1..(Len(f) + 2), NEW v, NEW w,
           \A k \in 1..(Len(f) + 2) : k > n => v[k] = w[k]
    PROVE  ValuesStep(f, v, n) = ValuesStep(f, w, n)
<1>0. Len(f) \in Nat
  OBVIOUS
<1>1. PICK j : j = Grammar!NotBlank(f, n)
  OBVIOUS
<1>2. PICK e : e = Grammar!ValueAt(f, Grammar!Reading(f), j)
  OBVIOUS
<1>3. CASE j <= Len(f)
  <2>1. j \in n..Len(f)
    BY <1>0, <1>1, <1>3, NotBlankIn
  <2>2. Forward(f, Grammar!Reading(f), j)
    BY <1>0, <2>1, ReadingUnfolds, Later
  <2>3. Moves(f, e, j)
    BY <1>0, <1>2, <2>1, <2>2, ValueMoves
  <2>4. j \in 1..Len(f) /\ \A k \in 1..(Len(f) + 2) : k > j => v[k] = w[k]
    BY <1>0, <2>1
  <2>5. Follow(f, v, e) = Follow(f, w, e)
    BY <1>0, <2>3, <2>4, FollowLocal
  <2> QED BY <1>1, <1>2, <2>5 DEF ValuesStep
<1>4. CASE ~(j <= Len(f))
  <2>1. j > Len(f)
    BY <1>0, <1>1, <1>4, NotBlankIs
  <2> QED BY <1>1, <2>1 DEF ValuesStep
<1> QED BY <1>3, <1>4

LEMMA ValuesUnfold ==
    ASSUME NEW f \in Seq(Chars), NEW v, v = Grammar!Values(f)
    PROVE  \A n \in 1..(Len(f) + 2) : v[n] = ValuesStep(f, v, n)
<1> DEFINE L == Len(f) + 2
           S == {n \in Nat : \E g : \A k \in 1..L : k > L - n => g[k] = ValuesStep(f, g, k)}
<1>0. L \in Nat
  OBVIOUS
<1>1. 0 \in S
  BY <1>0
<1>2. ASSUME NEW n \in Nat, n \in S PROVE n + 1 \in S
  <2>1. PICK g : \A k \in 1..L : k > L - n => g[k] = ValuesStep(f, g, k)
    BY <1>2
  <2> DEFINE h == [k \in 1..L |-> IF k > L - n THEN g[k] ELSE ValuesStep(f, g, k)]
  <2>2. \A k \in 1..L : h[k] = IF k > L - n THEN g[k] ELSE ValuesStep(f, g, k)
    OBVIOUS
  <2> HIDE DEF h
  <2>3. ASSUME NEW k \in 1..L, k > L - (n + 1) PROVE h[k] = ValuesStep(f, h, k)
    <3>1. \A m \in 1..(Len(f) + 2) : m > k => g[m] = h[m]
      BY <1>0, <2>2, <2>3
    <3>2. ValuesStep(f, g, k) = ValuesStep(f, h, k)
      BY <3>1, ValuesLocal
    <3> QED BY <2>1, <2>2, <3>2
  <2> QED BY <2>3
<1>3. \E g : g = [n \in 1..L |-> ValuesStep(f, g, n)]
  <2>1. L \in S
    <3> HIDE DEF S
    <3> QED BY <1>0, <1>1, <1>2, SetInduction
  <2>2. PICK g : \A k \in 1..L : g[k] = ValuesStep(f, g, k)
    BY <1>0, <2>1
  <2> DEFINE h == [k \in 1..L |-> g[k]]
  <2>3. h = [k \in 1..L |-> h[k]] /\ \A k \in 1..L : h[k] = g[k]
    OBVIOUS
  <2> HIDE DEF h
  <2>4. ASSUME NEW k \in 1..L PROVE h[k] = ValuesStep(f, h, k)
    <3>1. \A m \in 1..(Len(f) + 2) : m > k => g[m] = h[m]
      BY <2>3
    <3> QED BY <2>2, <2>3, <3>1, ValuesLocal
  <2>5. h = [k \in 1..L |-> ValuesStep(f, h, k)]
    BY <2>3, <2>4
  <2> QED BY <2>5
<1>4. v = [n \in 1..L |-> ValuesStep(f, v, n)]
  BY <1>3, Zenon DEF Grammar!Values, ValuesStep, Follow
<1> QED BY <1>4

LEMMA OutcomeIs == ASSUME NEW ok \in BOOLEAN, NEW q, Listed(q), NEW x, x = [ok |-> ok, values |-> q]
                   PROVE  x.ok \in BOOLEAN /\ Listed(x.values)
<1>1. x.ok = ok /\ x.values = q
  OBVIOUS
<1> QED BY <1>1

LEMMA ValuesListed ==
    ASSUME NEW f \in Seq(Chars), NEW v, v = Grammar!Values(f), NEW n \in 1..(Len(f) + 2)
    PROVE  v[n].ok \in BOOLEAN /\ Listed(v[n].values)
<1> DEFINE Is(x) == x.ok \in BOOLEAN /\ Listed(x.values)
           L == Len(f) + 2
           S == {d \in Nat : \A k \in 1..L : k > L - d => Is(v[k])}
<1>0. L \in Nat /\ Len(f) \in Nat
  OBVIOUS
<1>1. 0 \in S
  BY <1>0
<1>2. ASSUME NEW d \in Nat, d \in S PROVE d + 1 \in S
  <2> SUFFICES ASSUME NEW k \in 1..L, k > L - (d + 1) PROVE Is(v[k])
    OBVIOUS
  <2>1. v[k] = ValuesStep(f, v, k)
    BY ValuesUnfold
  <2>2. PICK j : j = Grammar!NotBlank(f, k)
    OBVIOUS
  <2>3. PICK e : e = Grammar!ValueAt(f, Grammar!Reading(f), j)
    OBVIOUS
  <2>4. PICK m : m = Grammar!NotBlank(f, e.next)
    OBVIOUS
  <2>5. Listed(<<>>)
    <3>1. <<>> \in Seq({})
      OBVIOUS
    <3> QED BY <3>1, ListedIs
  <2>9. v[k] = IF j > Len(f) THEN [ok |-> TRUE, values |-> <<>>]
               ELSE IF e.ok /\ (m > Len(f) \/ Grammar!At(f, m, ",")) /\ v[m + 1].ok
               THEN [ok |-> TRUE, values |-> <<e.v>> \o v[m + 1].values]
               ELSE [ok |-> FALSE, values |-> <<>>]
    BY <2>1, <2>2, <2>3, <2>4 DEF ValuesStep, Follow
  <2>6. CASE j <= Len(f) /\ e.ok /\ v[m + 1].ok
    <3>1. j \in k..Len(f)
      BY <1>0, <2>2, <2>6, NotBlankIn
    <3>2. Forward(f, Grammar!Reading(f), j)
      BY <1>0, <3>1, ReadingUnfolds, Later
    <3>3. Moves(f, e, j)
      BY <1>0, <2>3, <3>1, <3>2, ValueMoves
    <3>4. e.next \in (j + 1)..(Len(f) + 1)
      BY <2>6, <3>3 DEF Moves
    <3>5. m \in (j + 1)..(Len(f) + 1)
      <4>1. e.next \in 1..(Len(f) + 1)
        BY <1>0, <3>1, <3>4
      <4>2. m \in e.next..(Len(f) + 1)
        BY <1>0, <2>4, <4>1, NotBlankFrom
      <4> QED BY <1>0, <3>1, <3>4, <4>2
    <3>6. Is(v[m + 1])
      BY <1>0, <1>2, <3>1, <3>5
    <3>7. Listed(<<e.v>> \o v[m + 1].values)
      <4>1. PICK q : q = v[m + 1].values
        OBVIOUS
      <4> DEFINE T == {q[p] : p \in 1..Len(q)} \cup {e.v}
      <4>2. q \in Seq(T)
        BY <3>6, <4>1, SeqMonotonic DEF Listed
      <4>3. <<e.v>> \in Seq(T)
        OBVIOUS
      <4> HIDE DEF T
      <4>4. <<e.v>> \o q \in Seq(T)
        BY <4>2, <4>3, ConcatProperties
      <4> QED BY <4>1, <4>4, ListedIs
    <3>8. \/ v[k] = [ok |-> TRUE, values |-> <<e.v>> \o v[m + 1].values]
          \/ v[k] = [ok |-> FALSE, values |-> <<>>]
          \/ v[k] = [ok |-> TRUE, values |-> <<>>]
      BY <2>9, Zenon
    <3> QED BY <2>5, <3>7, <3>8, OutcomeIs
  <2>7. CASE ~(j <= Len(f) /\ e.ok /\ v[m + 1].ok)
    <3>1. j \in Nat
      BY <1>0, <2>2, NotBlankIs
    <3>2. j <= Len(f) \/ j > Len(f)
      BY <1>0, <3>1
    <3>3. v[k] = [ok |-> FALSE, values |-> <<>>] \/ v[k] = [ok |-> TRUE, values |-> <<>>]
      BY <2>7, <2>9, <3>2, Zenon
    <3> QED BY <2>5, <3>3, OutcomeIs
  <2> QED BY <2>6, <2>7
<1>3. L \in S
  <2> HIDE DEF S
  <2> QED BY <1>0, <1>1, <1>2, SetInduction
<1> QED
  BY <1>0, <1>3

--------------------------------------------------------------------------------

(***************************************************************************)
(* Strings: what the parser makes of the characters between two quotation  *)
(* marks is what the grammar makes of them, one escape after the other.    *)
(***************************************************************************)
LEMMA JoinIs == ASSUME NEW p, Listed(p), NEW q, Listed(q)
                PROVE  Listed(p \o q) /\ <<>> \o q = q /\ q \o <<>> = q
<1> DEFINE T == {p[n] : n \in 1..Len(p)} \cup {q[n] : n \in 1..Len(q)}
<1>1. p \in Seq(T) /\ q \in Seq(T)
  BY SeqMonotonic DEF Listed
<1> HIDE DEF T
<1>2. p \o q \in Seq(T)
  BY <1>1, ConcatProperties
<1>3. <<>> \o q = q /\ q \o <<>> = q
  BY <1>1, ConcatEmptySeq
<1> QED
  BY <1>2, <1>3, ListedIs
LEMMA EmptyListed == Listed(<<>>)
<1>1. <<>> \in Seq({})
  OBVIOUS
<1> QED BY <1>1, ListedIs
LEMMA OneListed == ASSUME NEW c PROVE Listed(<<c>>)
<1>1. <<c>> \in Seq({c})
  OBVIOUS
<1> QED BY <1>1, ListedIs

\* Of several backslashes, every other one opens an escape.
LEMMA EveryOther == ASSUME NEW d \in Nat, d > 0 PROVE d % 2 = 0 <=> (d - 1) % 2 # 0
  OBVIOUS
LEMMA OpensIs ==
    ASSUME NEW f, NEW n \in Nat \ {0}, NEW m \in Int
    PROVE  Grammar!Opens(f, n, m) <=> m >= n /\ f[m] = "bs" /\ ~Grammar!Opens(f, n, m - 1)
<1> DEFINE Run(j, k) == k \in n..j /\ (\A l \in k..j : f[l] = "bs") /\ (k = n \/ f[k - 1] # "bs")
<1>1. \A j : Grammar!Opens(f, n, j) <=> \E k : Run(j, k) /\ (j - k) % 2 = 0
  BY DEF Grammar!Opens
<1>2. ASSUME NEW k, Run(m, k), (m - k) % 2 = 0 PROVE m >= n /\ f[m] = "bs" /\ ~Grammar!Opens(f, n, m - 1)
  <2>1. m >= n /\ f[m] = "bs" /\ k \in n..m
    BY <1>2
  <2>2. ASSUME NEW l, Run(m - 1, l), ((m - 1) - l) % 2 = 0 PROVE FALSE
    <3>1. k = l
      <4>1. ~(k < l)
        <5>1. SUFFICES ASSUME k < l PROVE FALSE
          OBVIOUS
        <5>2. l - 1 \in k..m /\ l # n
          BY <2>1, <2>2, <5>1
        <5> QED BY <1>2, <2>2, <5>2
      <4>2. ~(l < k)
        <5>1. SUFFICES ASSUME l < k PROVE FALSE
          OBVIOUS
        <5>2. k - 1 \in l..(m - 1) /\ k # n
          BY <2>1, <2>2, <5>1
        <5> QED BY <1>2, <2>2, <5>2
      <4> QED BY <2>1, <2>2, <4>1, <4>2
    <3>2. m - l \in Nat /\ m - l > 0 /\ (m - l) - 1 = (m - 1) - l
      BY <2>1, <2>2
    <3> HIDE DEF Run
    <3> QED BY <1>2, <2>2, <3>1, <3>2, EveryOther
  <2> HIDE DEF Run
  <2>3. ~Grammar!Opens(f, n, m - 1)
    BY <1>1, <2>2
  <2> QED BY <2>1, <2>3
<1>3. ASSUME m >= n, f[m] = "bs", ~Grammar!Opens(f, n, m - 1) PROVE Grammar!Opens(f, n, m)
  <2>1. CASE m = n \/ f[m - 1] # "bs"
    <3>1. Run(m, m) /\ (m - m) % 2 = 0
      BY <1>3, <2>1
    <3> HIDE DEF Run
    <3> QED BY <1>1, <3>1
  <2>2. CASE m # n /\ f[m - 1] = "bs"
    <3> DEFINE P == {k \in n..(m - 1) : \A l \in k..(m - 1) : f[l] = "bs"}
    <3>1. m - 1 \in P
      BY <1>3, <2>2
    <3>2. P \subseteq Nat
      OBVIOUS
    <3>3. PICK k \in P : \A l \in P : k <= l
      <4> HIDE DEF P
      <4> QED BY <3>1, <3>2, LeastOf
    <3>4. k = n \/ f[k - 1] # "bs"
      <4>1. SUFFICES ASSUME k # n, f[k - 1] = "bs" PROVE FALSE
        OBVIOUS
      <4>2. k - 1 \in n..(m - 1) /\ \A l \in (k - 1)..(m - 1) : l = k - 1 \/ l \in k..(m - 1)
        BY <4>1
      <4>3. k - 1 \in P
        BY <4>1, <4>2
      <4> QED BY <3>3, <4>3
    <3>5. Run(m - 1, k)
      BY <3>4
    <3>6. ((m - 1) - k) % 2 # 0
      <4> HIDE DEF Run, P
      <4> QED BY <1>1, <1>3, <3>5
    <3>7. m - k \in Nat /\ m - k > 0 /\ (m - k) - 1 = (m - 1) - k
      BY <3>3
    <3>8. (m - k) % 2 = 0
      BY <3>6, <3>7, EveryOther
    <3>9. Run(m, k)
      <4>1. \A l \in k..m : l = m \/ l \in k..(m - 1)
        OBVIOUS
      <4> QED BY <1>3, <3>4, <4>1
    <3> HIDE DEF Run, P
    <3> QED BY <1>1, <3>8, <3>9
  <2> QED BY <2>1, <2>2
<1> HIDE DEF Run
<1>4. ASSUME Grammar!Opens(f, n, m) PROVE m >= n /\ f[m] = "bs" /\ ~Grammar!Opens(f, n, m - 1)
  BY <1>1, <1>2, <1>4
<1> QED
  BY <1>3, <1>4

\* Within quotation marks it does not matter what was before them.
Quoted(f, n) == n > 1 /\ f[n - 1] = "dq"
LEMMA OpensWithin ==
    ASSUME NEW f, NEW n \in Nat \ {0}, Quoted(f, n), NEW m \in Int, m >= n
    PROVE  Grammar!Opens(f, n, m) <=> Grammar!Opens(f, 1, m)
<1>1. ASSUME NEW k \in n..m, \A l \in k..m : f[l] = "bs", k = n \/ f[k - 1] # "bs"
      PROVE  k \in 1..m /\ (k = 1 \/ f[k - 1] # "bs")
  BY <1>1 DEF Quoted
<1>2. ASSUME NEW k \in 1..m, \A l \in k..m : f[l] = "bs", k = 1 \/ f[k - 1] # "bs"
      PROVE  k \in n..m /\ (k = n \/ f[k - 1] # "bs")
  <2>1. ~(k < n)
    <3>1. k < n => n - 1 \in k..m
      BY DEF Quoted
    <3> QED BY <1>2, <3>1 DEF Quoted
  <2> QED BY <1>2, <2>1 DEF Quoted
<1> QED
  BY <1>1, <1>2 DEF Grammar!Opens

\* Four hexadecimal digits are a character by the first that is not 0.
LEMMA CodeIs ==
    ASSUME NEW f \in Seq(Chars), NEW n \in 1..Len(f), n + 3 <= Len(f),
           NEW four, four = [k \in 1..4 |-> f[n + k - 1]], \A k \in 1..4 : four[k] \in {"0", "1"}
    PROVE  Code(four) = Grammar!Utf8(SubSeq(f, n, n + 3))
<1>0. Len(f) \in Nat
  OBVIOUS
<1>1. PICK h : h = SubSeq(f, n, n + 3)
  OBVIOUS
<1>2. \A k \in 1..4 : h[k] = four[k]
  <2>1. n + 3 <= Len(f) /\ n <= n + 3 + 1 /\ n \in 1..(Len(f) + 1) /\ n + 3 \in (n - 1)..Len(f)
    BY <1>0
  <2>2. Len(h) = 4 /\ \A k \in 1..4 : h[k] = f[n + k - 1]
    BY <1>0, <1>1, <2>1, SubSeqProperties
  <2> QED BY <2>2
<1>3. four[1] \in {"0", "1"} /\ four[2] \in {"0", "1"} /\ four[3] \in {"0", "1"} /\ four[4] \in {"0", "1"}
  OBVIOUS
<1>4. DOMAIN four = 1..4
  OBVIOUS
<1> DEFINE skipped == {k \in DOMAIN four : \A l \in 1..k : four[l] = "sp"}
           digits == {k \in DOMAIN four \ skipped : \A l \in 1..k : four[l] \in Num \/ l \in skipped}
           wide   == {k \in digits : \E l \in 1..k : four[l] = "1"}
<1>5. skipped = {}
  <2>1. ASSUME NEW k \in skipped PROVE FALSE
    <3>1. k \in 1..4 /\ \A l \in 1..k : four[l] = "sp"
      BY <1>4, <2>1
    <3>2. four[1] = "sp"
      BY <3>1
    <3> QED BY <1>3, <3>2
  <2> QED BY <2>1
<1>6. digits = 1..4
  <2>1. \A k \in 1..4 : four[k] \in Num
    BY DEF Num
  <2>2. \A k \in 1..4 : \A l \in 1..k : four[l] \in Num
    BY <2>1
  <2> HIDE DEF skipped
  <2> QED BY <1>4, <1>5, <2>2
<1>7. wide = {k \in 1..4 : \E l \in 1..k : four[l] = "1"}
  BY <1>6
<1>8. Code(four) = CASE Cardinality(wide) = 0        -> <<"NUL">>
                     [] Cardinality(wide) \in {1, 2} -> <<"ctl">>
                     [] Cardinality(wide) = 3        -> <<"lead2", "cont">>
                     [] Cardinality(wide) = 4        -> <<"lead3", "cont", "cont">>
  BY DEF Code
<1> HIDE DEF skipped, digits, wide
<1>9. /\ Cardinality(wide) = 0 => Code(four) = <<"NUL">>
      /\ Cardinality(wide) \in {1, 2} => Code(four) = <<"ctl">>
      /\ Cardinality(wide) = 3 => Code(four) = <<"lead2", "cont">>
      /\ Cardinality(wide) = 4 => Code(four) = <<"lead3", "cont", "cont">>
  BY <1>8
<1>10. /\ four[1] = "1" => wide = 1..4
       /\ four[1] = "0" /\ four[2] = "1" => wide = 2..4
       /\ four[1] = "0" /\ four[2] = "0" /\ four[3] = "1" => wide = 3..4
       /\ four[1] = "0" /\ four[2] = "0" /\ four[3] = "0" /\ four[4] = "1" => wide = 4..4
       /\ four[1] = "0" /\ four[2] = "0" /\ four[3] = "0" /\ four[4] = "0" => wide = {}
  BY <1>3, <1>7
<1>11. Cardinality(1..4) = 4 /\ Cardinality(2..4) = 3 /\ Cardinality(3..4) = 2 /\ Cardinality(4..4) = 1
       /\ Cardinality({}) = 0
  <2>1. ASSUME NEW a \in 1..4, NEW b, b = 4 PROVE Cardinality(a..b) = 5 - a
    BY <2>1, FS_Interval
  <2>2. 1 \in 1..4 /\ 2 \in 1..4 /\ 3 \in 1..4 /\ 4 \in 1..4
    OBVIOUS
  <2>3. /\ Cardinality(1..4) = 5 - 1 /\ Cardinality(2..4) = 5 - 2
        /\ Cardinality(3..4) = 5 - 3 /\ Cardinality(4..4) = 5 - 4
    BY <2>1, <2>2, Zenon
  <2>4. 5 - 1 = 4 /\ 5 - 2 = 3 /\ 5 - 3 = 2 /\ 5 - 4 = 1
    OBVIOUS
  <2> QED BY <2>3, <2>4, FS_EmptySet, Zenon
<1>12. /\ h[1] = "1" => Grammar!Utf8(h) = <<"lead3", "cont", "cont">>
       /\ h[1] = "0" /\ h[2] = "1" => Grammar!Utf8(h) = <<"lead2", "cont">>
       /\ h[1] = "0" /\ h[2] = "0" /\ (h[3] = "1" \/ h[4] = "1") => Grammar!Utf8(h) = <<"ctl">>
       /\ h[1] = "0" /\ h[2] = "0" /\ h[3] = "0" /\ h[4] = "0" => Grammar!Utf8(h) = <<"NUL">>
  BY DEF Grammar!Utf8
<1>13. h[1] = four[1] /\ h[2] = four[2] /\ h[3] = four[3] /\ h[4] = four[4]
  BY <1>2
<1>14. CASE four[1] = "1"
  BY <1>9, <1>10, <1>11, <1>12, <1>13, <1>14, <1>1
<1>15. CASE four[1] = "0" /\ four[2] = "1"
  BY <1>9, <1>10, <1>11, <1>12, <1>13, <1>15, <1>1
<1>16. CASE four[1] = "0" /\ four[2] = "0" /\ four[3] = "1"
  BY <1>9, <1>10, <1>11, <1>12, <1>13, <1>16, <1>1
<1>17. CASE four[1] = "0" /\ four[2] = "0" /\ four[3] = "0" /\ four[4] = "1"
  BY <1>9, <1>10, <1>11, <1>12, <1>13, <1>17, <1>1
<1>18. CASE four[1] = "0" /\ four[2] = "0" /\ four[3] = "0" /\ four[4] = "0"
  BY <1>9, <1>10, <1>11, <1>12, <1>13, <1>18, <1>1
<1> QED
  BY <1>3, <1>14, <1>15, <1>16, <1>17, <1>18

\* Both ways of reading a string are functions of their place in it.
PartStep(f, g, n, m, k) == IF k > m THEN <<>> ELSE Grammar!Part(f, n, m, k) \o g[k + 1]
LEMMA StringOfUnfolds ==
    ASSUME NEW f, NEW n \in Nat, NEW m \in Int, n <= m + 1
    PROVE  \E g : Grammar!StringOf(f, n, m) = g[n] /\ \A k \in n..(m + 1) : g[k] = PartStep(f, g, n, m, k)
<1> DEFINE L == m + 1
           S == {d \in Nat : \E g : \A k \in n..L : k > L - d => g[k] = PartStep(f, g, n, m, k)}
<1>1. 0 \in S
  OBVIOUS
<1>2. ASSUME NEW d \in Nat, d \in S PROVE d + 1 \in S
  <2>1. PICK g : \A k \in n..L : k > L - d => g[k] = PartStep(f, g, n, m, k)
    BY <1>2
  <2> DEFINE h == [k \in n..L |-> IF k > L - d THEN g[k] ELSE PartStep(f, g, n, m, k)]
  <2>2. \A k \in n..L : h[k] = IF k > L - d THEN g[k] ELSE PartStep(f, g, n, m, k)
    OBVIOUS
  <2> HIDE DEF h
  <2>3. ASSUME NEW k \in n..L, k > L - (d + 1) PROVE h[k] = PartStep(f, h, n, m, k)
    <3>1. k <= m => k + 1 \in n..L /\ k + 1 > L - d
      BY <2>3
    <3>2. PartStep(f, h, n, m, k) = PartStep(f, g, n, m, k)
      BY <2>2, <3>1 DEF PartStep
    <3> QED BY <2>1, <2>2, <3>2
  <2> QED BY <2>3
<1>3. (L - n) + 1 \in S
  <2>1. (L - n) + 1 \in Nat
    OBVIOUS
  <2> HIDE DEF S
  <2> QED BY <1>1, <1>2, <2>1, SetInduction
<1>4. PICK g : \A k \in n..L : g[k] = PartStep(f, g, n, m, k)
  BY <1>3
<1> DEFINE h == [k \in n..L |-> g[k]]
<1>5. h = [k \in n..L |-> h[k]] /\ \A k \in n..L : h[k] = g[k]
  OBVIOUS
<1> HIDE DEF h
<1>6. ASSUME NEW k \in n..L PROVE h[k] = PartStep(f, h, n, m, k)
  <2>1. k <= m => k + 1 \in n..L
    OBVIOUS
  <2>2. k <= m => h[k + 1] = g[k + 1]
    BY <1>5, <2>1
  <2>3. PartStep(f, h, n, m, k) = PartStep(f, g, n, m, k)
    BY <2>2 DEF PartStep
  <2> QED BY <1>4, <1>5, <2>3
<1>7. h = [k \in n..L |-> PartStep(f, h, n, m, k)]
  BY <1>5, <1>6
<1> DEFINE from == CHOOSE u : u = [k \in n..L |-> PartStep(f, u, n, m, k)]
<1>8. from = [k \in n..L |-> PartStep(f, from, n, m, k)]
  BY <1>7, Zenon
<1>9. Grammar!StringOf(f, n, m) = from[n]
  BY Zenon DEF Grammar!StringOf, PartStep
<1> HIDE DEF from
<1>10. \A k \in n..L : from[k] = PartStep(f, from, n, m, k)
  BY <1>8
<1> QED BY <1>9, <1>10

UnescapedStep(g, n, end) ==
    IF n >= end THEN <<>>
    ELSE IF text[n] # "bs" THEN <<text[n]>> \o g[n + 1]
    ELSE LET e == Escaped(Char(n + 1), [k \in 1..4 |-> Char(n + 1 + k)], Enough(end - n - 1))
         IN  e.adds \o g[n + e.skips]
LEMMA UnescapedLocal ==
    ASSUME NEW n \in Nat, NEW end \in Nat, n <= end + 5, NEW g, NEW h,
           \A k \in (n + 1)..(end + 5) : g[k] = h[k]
    PROVE  UnescapedStep(g, n, end) = UnescapedStep(h, n, end)
<1>1. PICK e : e = Escaped(Char(n + 1), [k \in 1..4 |-> Char(n + 1 + k)], Enough(end - n - 1))
  OBVIOUS
<1>2. e.skips \in {2, 6}
  BY <1>1 DEF Escaped
<1>3. n < end => n + 1 \in (n + 1)..(end + 5) /\ n + e.skips \in (n + 1)..(end + 5)
  BY <1>2
<1>4. n < end => g[n + 1] = h[n + 1] /\ g[n + e.skips] = h[n + e.skips]
  BY <1>3
<1>5. n >= end \/ n < end
  OBVIOUS
<1> QED BY <1>1, <1>4, <1>5 DEF UnescapedStep

LEMMA UnescapedUnfolds ==
    ASSUME ptr \in Nat, NEW end \in Nat, ptr <= end
    PROVE  \E g : Unescaped(end) = g[ptr] /\ \A n \in ptr..(end + 5) : g[n] = UnescapedStep(g, n, end)
<1> DEFINE L == end + 5
           S == {d \in Nat : \E g : \A k \in ptr..L : k > L - d => g[k] = UnescapedStep(g, k, end)}
<1>1. 0 \in S
  OBVIOUS
<1>2. ASSUME NEW d \in Nat, d \in S PROVE d + 1 \in S
  <2>1. PICK g : \A k \in ptr..L : k > L - d => g[k] = UnescapedStep(g, k, end)
    BY <1>2
  <2> DEFINE h == [k \in ptr..L |-> IF k > L - d THEN g[k] ELSE UnescapedStep(g, k, end)]
  <2>2. \A k \in ptr..L : h[k] = IF k > L - d THEN g[k] ELSE UnescapedStep(g, k, end)
    OBVIOUS
  <2> HIDE DEF h
  <2>3. ASSUME NEW k \in ptr..L, k > L - (d + 1) PROVE h[k] = UnescapedStep(h, k, end)
    <3>1. k \in Nat /\ k <= end + 5 /\ \A l \in (k + 1)..(end + 5) : g[l] = h[l]
      BY <2>2, <2>3
    <3>2. UnescapedStep(g, k, end) = UnescapedStep(h, k, end)
      BY <3>1, UnescapedLocal
    <3> QED BY <2>1, <2>2, <3>2
  <2> QED BY <2>3
<1>3. (L - ptr) + 1 \in S
  <2>1. (L - ptr) + 1 \in Nat
    OBVIOUS
  <2> HIDE DEF S
  <2> QED BY <1>1, <1>2, <2>1, SetInduction
<1>4. PICK g : \A k \in ptr..L : g[k] = UnescapedStep(g, k, end)
  BY <1>3
<1> DEFINE h == [k \in ptr..L |-> g[k]]
<1>5. h = [k \in ptr..L |-> h[k]] /\ \A k \in ptr..L : h[k] = g[k]
  OBVIOUS
<1> HIDE DEF h
<1>6. ASSUME NEW k \in ptr..L PROVE h[k] = UnescapedStep(h, k, end)
  <2>1. k \in Nat /\ k <= end + 5 /\ \A l \in (k + 1)..(end + 5) : g[l] = h[l]
    BY <1>5
  <2>2. UnescapedStep(g, k, end) = UnescapedStep(h, k, end)
    BY <2>1, UnescapedLocal
  <2> QED BY <1>4, <1>5, <2>2
<1>7. h = [k \in ptr..L |-> UnescapedStep(h, k, end)]
  BY <1>5, <1>6
<1> DEFINE From == CHOOSE u : u = [k \in ptr..L |-> UnescapedStep(u, k, end)]
<1>8. From = [k \in ptr..L |-> UnescapedStep(From, k, end)]
  BY <1>7, Zenon
<1>9. Unescaped(end) = From[ptr]
  BY Zenon DEF Unescaped, UnescapedStep
<1> HIDE DEF From
<1>10. \A k \in ptr..L : From[k] = UnescapedStep(From, k, end)
  BY <1>8
<1> QED BY <1>9, <1>10

\* A code that the string from n to m holds at k
Coded(f, n, m, k) == k >= n /\ k < m /\ Grammar!Opens(f, n, k) /\ f[k + 1] = "u"

LEMMA Utf8Listed == ASSUME NEW h PROVE Listed(Grammar!Utf8(h))
<1>1. <<"lead3", "cont", "cont">> \in Seq({"lead3", "cont"})
  OBVIOUS
<1>2. <<"lead2", "cont">> \in Seq({"lead2", "cont"})
  OBVIOUS
<1>3. /\ Listed(<<"lead3", "cont", "cont">>) /\ Listed(<<"lead2", "cont">>)
      /\ Listed(<<"ctl">>) /\ Listed(<<"NUL">>)
  BY <1>1, <1>2, ListedIs, OneListed
<1>4. \/ Grammar!Utf8(h) = <<"lead3", "cont", "cont">> \/ Grammar!Utf8(h) = <<"lead2", "cont">>
      \/ Grammar!Utf8(h) = <<"ctl">> \/ Grammar!Utf8(h) = <<"NUL">>
  BY Zenon DEF Grammar!Utf8
<1> QED
  BY <1>3, <1>4, Zenon

LEMMA PartIs ==
    ASSUME NEW f, NEW n \in Nat \ {0}, NEW m \in Int,
           NEW k \in n..m, NEW part, part = Grammar!Part(f, n, m, k),
           NEW opens, opens = Grammar!Opens(f, n, k), NEW opened, opened = Grammar!Opens(f, n, k - 1)
    PROVE  /\ Coded(f, n, m, k) => part = Grammar!Utf8(SubSeq(f, k + 2, k + 5))
           /\ ~Coded(f, n, m, k) /\ opens => part = <<>>
           /\ ~opens /\ (\E d \in 1..5 : Coded(f, n, m, k - d)) => part = <<>>
           /\ ~opens /\ opened /\ f[k] \notin {"dq", "bs"} => part = <<>>
           /\ ~opens /\ (\A d \in 1..5 : ~Coded(f, n, m, k - d))
              /\ ~(opened /\ f[k] \notin {"dq", "bs"}) => part = <<f[k]>>
           /\ Listed(part)
<1>1. ASSUME NEW l \in Int PROVE Grammar!OpensCode(f, n, m, l) <=> Coded(f, n, m, l)
  BY OpensIs DEF Grammar!OpensCode, Coded
<1>2. ASSUME NEW d \in 0..5 PROVE Grammar!OpensCode(f, n, m, k - d) <=> Coded(f, n, m, k - d)
  BY <1>1
<1>3. k \in Int
  OBVIOUS
<1>4. Grammar!OpensCode(f, n, m, k) <=> Coded(f, n, m, k)
  BY <1>1, <1>3
<1>5. (\E d \in 1..5 : k - d >= n /\ Grammar!OpensCode(f, n, m, k - d)) <=> \E d \in 1..5 : Coded(f, n, m, k - d)
  BY <1>2 DEF Coded
<1>7. Coded(f, n, m, k) => opens
  BY DEF Coded
<1>8. part = IF Coded(f, n, m, k) THEN Grammar!Utf8(SubSeq(f, k + 2, k + 5))
             ELSE IF opens \/ (\E d \in 1..5 : Coded(f, n, m, k - d)) THEN <<>>
             ELSE IF opened /\ f[k] \notin {"dq", "bs"} THEN <<>>
             ELSE <<f[k]>>
  BY <1>4, <1>5, Zenon DEF Grammar!Part
<1>9. /\ Coded(f, n, m, k) => part = Grammar!Utf8(SubSeq(f, k + 2, k + 5))
      /\ ~Coded(f, n, m, k) /\ opens => part = <<>>
      /\ ~opens /\ (\E d \in 1..5 : Coded(f, n, m, k - d)) => part = <<>>
      /\ ~opens /\ opened /\ f[k] \notin {"dq", "bs"} => part = <<>>
      /\ ~opens /\ (\A d \in 1..5 : ~Coded(f, n, m, k - d))
         /\ ~(opened /\ f[k] \notin {"dq", "bs"}) => part = <<f[k]>>
  BY <1>7, <1>8, Zenon
<1>10. part = Grammar!Utf8(SubSeq(f, k + 2, k + 5)) \/ part = <<>> \/ part = <<f[k]>>
  BY <1>8, Zenon
<1>11. Listed(part)
  BY <1>10, Utf8Listed, EmptyListed, OneListed, Zenon
<1> QED
  BY <1>9, <1>11

LEMMA PartInCode ==
    ASSUME NEW f, NEW n \in Nat \ {0}, NEW m \in Int,
           NEW k \in n..m, ~Grammar!Opens(f, n, k), NEW d \in 1..5, Coded(f, n, m, k - d)
    PROVE  Grammar!Part(f, n, m, k) = <<>>
<1>1. ~Grammar!OpensCode(f, n, m, k)
  BY DEF Grammar!OpensCode
<1>2. k - d >= n /\ Grammar!OpensCode(f, n, m, k - d)
  BY DEF Grammar!OpensCode, Coded
<1> QED
  BY <1>1, <1>2, Zenon DEF Grammar!Part

LEMMA PartEscaped ==
    ASSUME NEW f, NEW n \in Nat \ {0}, NEW m \in Int,
           NEW k \in n..m, ~Grammar!Opens(f, n, k), Grammar!Opens(f, n, k - 1), f[k] \notin {"dq", "bs"}
    PROVE  Grammar!Part(f, n, m, k) = <<>>
<1>1. ~Grammar!Opens(f, n, k) /\ Grammar!Opens(f, n, k - 1) /\ f[k] \notin {"dq", "bs"} => Grammar!Part(f, n, m, k) = <<>>
  BY PartIs
<1> QED
  BY <1>1, Zenon

\* A character for itself: outside of escapes, or one that is escaped to stand for itself
LEMMA PartItself ==
    ASSUME NEW f, NEW n \in Nat \ {0}, NEW m \in Int,
           NEW k \in n..m, ~Grammar!Opens(f, n, k), \A d \in 1..5 : ~Coded(f, n, m, k - d),
           ~Grammar!Opens(f, n, k - 1) \/ f[k] \in {"dq", "bs"}
    PROVE  Grammar!Part(f, n, m, k) = <<f[k]>>
<1>1. ~Grammar!Opens(f, n, k) /\ (\A d \in 1..5 : ~Coded(f, n, m, k - d))
      /\ ~(Grammar!Opens(f, n, k - 1) /\ f[k] \notin {"dq", "bs"}) => Grammar!Part(f, n, m, k) = <<f[k]>>
  BY PartIs
<1> QED
  BY <1>1, Zenon

LEMMA PartsListed ==
    ASSUME NEW f, NEW n \in Nat \ {0}, NEW m \in Int, n <= m + 1,
           NEW g, \A k \in n..(m + 1) : g[k] = PartStep(f, g, n, m, k)
    PROVE  \A k \in n..(m + 1) : Listed(g[k])
<1> DEFINE S == {d \in Nat : \A k \in n..(m + 1) : k > m + 1 - d => Listed(g[k])}
<1>1. 0 \in S
  OBVIOUS
<1>2. ASSUME NEW d \in Nat, d \in S PROVE d + 1 \in S
  <2> SUFFICES ASSUME NEW k \in n..(m + 1), k > m + 1 - (d + 1) PROVE Listed(g[k])
    OBVIOUS
  <2>1. CASE k > m
    BY <2>1, EmptyListed DEF PartStep
  <2>2. CASE k <= m
    <3>1. k + 1 \in n..(m + 1) /\ k + 1 > m + 1 - d /\ k \in n..m /\ ~(k > m)
      BY <2>2
    <3>2. Listed(g[k + 1])
      BY <1>2, <3>1
    <3>3. Listed(Grammar!Part(f, n, m, k))
      BY <3>1, PartIs
    <3>4. g[k] = Grammar!Part(f, n, m, k) \o g[k + 1]
      BY <3>1 DEF PartStep
    <3> QED BY <3>2, <3>3, <3>4, JoinIs
  <2> QED BY <2>1, <2>2
<1>3. (m + 1 - n) + 1 \in S
  <2>1. (m + 1 - n) + 1 \in Nat
    OBVIOUS
  <2> HIDE DEF S
  <2> QED BY <1>1, <1>2, <2>1, SetInduction
<1> QED
  BY <1>3

\* A place where the parser looks, when it unescapes a string: it is not in an escape.
Starts(f, n, m, k) == ~Grammar!Opens(f, n, k - 1) /\ \A d \in 1..5 : ~Coded(f, n, m, k - d)

\* What the grammar makes of a string from each place on; its codes; agreement from k on
Spelt(g, n, m) == \A k \in n..(m + 1) : g[k] = PartStep(text, g, n, m, k) /\ Listed(g[k])
CodesEnd(n, m) == \A k \in n..m : Coded(text, n, m, k) => k + 5 <= m /\ \A d \in 2..5 : text[k + d] \in {"0", "1"}
Same(u, g, n, m, k) == \A l \in k..(m + 1) : Starts(text, n, m, l) => u[l] = g[l]

\* One step of the parser, and what the grammar makes of the same characters
LEMMA EscapeStep ==
    ASSUME NEW m \in Int, NEW n \in Nat \ {0}, text \in Seq(Chars), m + 1 <= Len(text), n <= m + 1,
           text[m + 1] = "dq", ~Grammar!Opens(text, n, m),
           CodesEnd(n, m), NEW g, Spelt(g, n, m),
           NEW u, NEW k \in n..m, Starts(text, n, m, k), u[k] = UnescapedStep(u, k, m + 1), Same(u, g, n, m, k + 1)
    PROVE  u[k] = g[k]
<1>0. Len(text) \in Nat /\ DOMAIN text = 1..Len(text)
  OBVIOUS
<1>2. ASSUME NEW l \in n..m PROVE g[l] = Grammar!Part(text, n, m, l) \o g[l + 1]
  <2>1. l \in n..(m + 1) /\ ~(l > m)
    OBVIOUS
  <2>2. g[l] = PartStep(text, g, n, m, l)
    BY <2>1 DEF Spelt
  <2> QED BY <2>1, <2>2 DEF PartStep
<1>1. /\ ~(k >= m + 1) /\ k \in 1..Len(text)
      /\ g[k] = Grammar!Part(text, n, m, k) \o g[k + 1]
  BY <1>0, <1>2
<1>5. Grammar!Opens(text, n, k) <=> text[k] = "bs"
  <2>1. k >= n /\ k \in Int
    OBVIOUS
  <2>2. ~Grammar!Opens(text, n, k - 1)
    BY DEF Starts
  <2> QED BY <2>1, <2>2, OpensIs
<1>3. CASE text[k] # "bs"
  <2>1. Starts(text, n, m, k + 1)
    <3>1. ASSUME NEW d \in 1..5 PROVE ~Coded(text, n, m, (k + 1) - d)
      <4>1. CASE d = 1
        BY <1>3, <1>5, <4>1 DEF Coded
      <4>2. CASE d # 1
        <5>1. d - 1 \in 1..5 /\ (k + 1) - d = k - (d - 1)
          BY <4>2
        <5> QED BY <5>1 DEF Starts
      <4> QED BY <4>1, <4>2
    <3>2. (k + 1) - 1 = k
      OBVIOUS
    <3> QED BY <1>3, <1>5, <3>1, <3>2 DEF Starts
  <2>2. u[k + 1] = g[k + 1]
    BY <2>1 DEF Same
  <2>3. Grammar!Part(text, n, m, k) = <<text[k]>>
    BY <1>3, <1>5, PartItself DEF Starts
  <2>4. u[k] = <<text[k]>> \o u[k + 1]
    BY <1>1, <1>3 DEF UnescapedStep
  <2> QED BY <1>1, <2>2, <2>3, <2>4
<1>4. CASE text[k] = "bs"
  <2>1. k + 1 \in n..m /\ k + 1 \in 1..Len(text)
    <3>1. k # m
      BY <1>4, <1>5
    <3> QED BY <1>0, <3>1
  <2>2. ~Grammar!Opens(text, n, k + 1) /\ Grammar!Opens(text, n, k)
    <3>1. k + 1 \in Int /\ (k + 1) - 1 = k
      OBVIOUS
    <3> QED BY <1>4, <1>5, <3>1, OpensIs
  <2>3. PICK c : c = text[k + 1]
    OBVIOUS
  <2>4. Char(k + 1) = c
    BY <1>0, <2>1, <2>3 DEF Char
  <2>5. PICK four : four = [p \in 1..4 |-> Char(k + 1 + p)]
    OBVIOUS
  <2>6. PICK e : e = Escaped(c, four, Enough(m + 1 - k - 1))
    OBVIOUS
  <2>7. u[k] = e.adds \o u[k + e.skips]
    <3>1. UnescapedStep(u, k, m + 1) = e.adds \o u[k + e.skips]
      <4>1. e = Escaped(Char(k + 1), [p \in 1..4 |-> Char(k + 1 + p)], Enough(m + 1 - k - 1))
        BY <2>4, <2>5, <2>6
      <4>2. UnescapedStep(u, k, m + 1) =
                IF k >= m + 1 THEN <<>>
                ELSE IF text[k] # "bs" THEN <<text[k]>> \o u[k + 1]
                ELSE Escaped(Char(k + 1), [p \in 1..4 |-> Char(k + 1 + p)], Enough(m + 1 - k - 1)).adds
                     \o u[k + Escaped(Char(k + 1), [p \in 1..4 |-> Char(k + 1 + p)], Enough(m + 1 - k - 1)).skips]
        BY DEF UnescapedStep
      <4> QED BY <1>1, <1>4, <4>1, <4>2
    <3> QED BY <3>1
  <2>8. \A d \in 1..5 : ~Coded(text, n, m, k - d)
    BY DEF Starts
  <2>9. CASE c = "u"
    <3>1. Coded(text, n, m, k)
      BY <2>1, <2>2, <2>3, <2>9 DEF Coded
    <3>2. k + 5 <= m /\ \A d \in 2..5 : text[k + d] \in {"0", "1"}
      BY <3>1 DEF CodesEnd
    <3>3. four = [p \in 1..4 |-> text[(k + 2) + p - 1]] /\ \A p \in 1..4 : four[p] \in {"0", "1"}
      <4>1. ASSUME NEW p \in 1..4 PROVE Char(k + 1 + p) = text[(k + 2) + p - 1] /\ Char(k + 1 + p) \in {"0", "1"}
        <5>1. k + 1 + p \in 1..Len(text) /\ (k + 2) + p - 1 = k + 1 + p /\ p + 1 \in 2..5 /\ k + (p + 1) = k + 1 + p
          BY <1>0, <3>2
        <5> QED BY <1>0, <3>2, <5>1 DEF Char
      <4> QED BY <2>5, <4>1
    <3>4. Code(four) = Grammar!Utf8(SubSeq(text, k + 2, k + 5))
      <4>1. k + 2 \in 1..Len(text) /\ (k + 2) + 3 <= Len(text) /\ (k + 2) + 3 = k + 5
        BY <1>0, <3>2
      <4>2. Code(four) = Grammar!Utf8(SubSeq(text, k + 2, (k + 2) + 3))
        BY <3>3, <4>1, CodeIs
      <4> QED BY <4>1, <4>2
    <3>5. Enough(m + 1 - k - 1)
      BY <3>2 DEF Enough
    <3>6. e.adds = Code(four) /\ e.skips = 6
      BY <2>6, <2>9, <3>5 DEF Escaped
    <3>7. u[k] = Code(four) \o u[k + 6]
      BY <2>7, <3>6
    <3>8. ASSUME NEW p \in 1..5 PROVE text[k + p] # "bs" /\ g[k + p] = g[k + p + 1]
      <4>1. text[k + p] # "bs"
        <5>1. CASE p = 1
          BY <2>3, <2>9, <5>1
        <5>2. CASE p # 1
          BY <3>2, <5>2
        <5> QED BY <5>1, <5>2
      <4>2. k + p \in n..m /\ (k + p) - p = k
        BY <3>2
      <4>5. \E d \in 1..5 : Coded(text, n, m, (k + p) - d)
        BY <3>1, <4>2
      <4>6. PICK q : q = k + p
        OBVIOUS
      <4>7. q \in n..m /\ text[q] # "bs" /\ \E d \in 1..5 : Coded(text, n, m, q - d)
        BY <4>1, <4>2, <4>5, <4>6
      <4>8. ~Grammar!Opens(text, n, q)
        BY <4>7, OpensIs
      <4>9. Grammar!Part(text, n, m, q) = <<>>
        BY <4>7, <4>8, PartInCode
      <4>3. Grammar!Part(text, n, m, k + p) = <<>>
        BY <4>6, <4>9
      <4>4. g[k + p] = <<>> \o g[k + p + 1] /\ Listed(g[k + p + 1])
        <5>1. q + 1 \in n..(m + 1) /\ k + p + 1 = q + 1
          BY <4>6, <4>7
        <5>2. g[q] = <<>> \o g[q + 1]
          BY <1>2, <4>7, <4>9
        <5> QED BY <4>6, <5>1, <5>2 DEF Spelt
      <4> QED BY <4>1, <4>4, JoinIs, EmptyListed
    <3>9. g[k + 1] = g[k + 6]
      <4>1. 1 \in 1..5 /\ 2 \in 1..5 /\ 3 \in 1..5 /\ 4 \in 1..5 /\ 5 \in 1..5
        OBVIOUS
      <4>2. /\ g[k + 1] = g[k + 1 + 1] /\ g[k + 2] = g[k + 2 + 1] /\ g[k + 3] = g[k + 3 + 1]
            /\ g[k + 4] = g[k + 4 + 1] /\ g[k + 5] = g[k + 5 + 1]
        BY <3>8, <4>1, Zenon
      <4>3. k + 1 + 1 = k + 2 /\ k + 2 + 1 = k + 3 /\ k + 3 + 1 = k + 4 /\ k + 4 + 1 = k + 5 /\ k + 5 + 1 = k + 6
        OBVIOUS
      <4> QED BY <4>2, <4>3
    <3>10. Grammar!Part(text, n, m, k) = Grammar!Utf8(SubSeq(text, k + 2, k + 5))
      BY <3>1, PartIs
    <3>11. Starts(text, n, m, k + 6)
      <4>1. ASSUME NEW d \in 1..5 PROVE ~Coded(text, n, m, (k + 6) - d)
        <5>1. 6 - d \in 1..5 /\ (k + 6) - d = k + (6 - d) /\ (k + 6) - d \in Int
          OBVIOUS
        <5>2. ~Grammar!Opens(text, n, (k + 6) - d)
          BY <3>8, <5>1, OpensIs
        <5> QED BY <5>2 DEF Coded
      <4>2. text[k + 5] # "bs" /\ (k + 6) - 1 = k + 5 /\ k + 5 \in Int
        BY <3>8
      <4>3. ~Grammar!Opens(text, n, k + 5)
        BY <4>2, OpensIs
      <4> QED BY <4>1, <4>2, <4>3 DEF Starts
    <3>12. u[k + 6] = g[k + 6]
      BY <3>2, <3>11 DEF Same
    <3> QED BY <1>1, <3>4, <3>7, <3>9, <3>10, <3>12
  <2>10. CASE c # "u"
    <3>1. ~Coded(text, n, m, k)
      BY <2>3, <2>10 DEF Coded
    <3>2. Grammar!Part(text, n, m, k) = <<>>
      BY <2>2, <3>1, PartIs
    <3>3. \A d \in 1..5 : ~Coded(text, n, m, (k + 1) - d)
      <4>1. ASSUME NEW d \in 1..5 PROVE ~Coded(text, n, m, (k + 1) - d)
        <5>1. CASE d = 1
          BY <3>1, <5>1
        <5>2. CASE d # 1
          <6>1. d - 1 \in 1..5 /\ (k + 1) - d = k - (d - 1)
            BY <5>2
          <6> QED BY <2>8, <6>1
        <5> QED BY <5>1, <5>2
      <4> QED BY <4>1
    <3>4. Starts(text, n, m, k + 2)
      <4>1. ASSUME NEW d \in 1..5 PROVE ~Coded(text, n, m, (k + 2) - d)
        <5>1. CASE d = 1
          BY <2>2, <5>1 DEF Coded
        <5>2. CASE d # 1
          <6>1. d - 1 \in 1..5 /\ (k + 2) - d = (k + 1) - (d - 1)
            BY <5>2
          <6> QED BY <3>3, <6>1
        <5> QED BY <5>1, <5>2
      <4>2. (k + 2) - 1 = k + 1
        OBVIOUS
      <4> QED BY <2>2, <4>1, <4>2 DEF Starts
    <3>5. u[k + 2] = g[k + 2]
      BY <2>1, <3>4 DEF Same
    <3>6. (k + 1) - 1 = k /\ k + 1 > n /\ (k + 1) + 1 = k + 2
      OBVIOUS
    <3>11. PICK kept : kept = IF c \in {"dq", "bs"} THEN <<c>> ELSE <<>>
      OBVIOUS
    <3>7. Grammar!Part(text, n, m, k + 1) = kept
      <4>3. PICK q : q = k + 1
        OBVIOUS
      <4>4. /\ q \in n..m /\ text[q] = c /\ ~Grammar!Opens(text, n, q) /\ Grammar!Opens(text, n, q - 1)
            /\ \A d \in 1..5 : ~Coded(text, n, m, q - d)
        BY <2>1, <2>2, <2>3, <3>3, <3>6, <4>3
      <4>1. CASE c \in {"dq", "bs"}
        <5>1. Grammar!Part(text, n, m, q) = <<text[q]>>
          BY <4>1, <4>4, PartItself
        <5> QED BY <3>11, <4>1, <4>3, <4>4, <5>1
      <4>2. CASE c \notin {"dq", "bs"}
        <5>2. text[q] \notin {"dq", "bs"}
          BY <4>2, <4>4
        <5>1. Grammar!Part(text, n, m, q) = <<>>
          BY <4>4, <5>2, PartEscaped
        <5> QED BY <3>11, <4>2, <4>3, <5>1
      <4> QED BY <4>1, <4>2
    <3>8. g[k] = kept \o g[k + 2]
      <4>1. g[k + 1] = kept \o g[k + 2]
        BY <1>2, <2>1, <3>6, <3>7
      <4>2. g[k] = <<>> \o g[k + 1] /\ Listed(g[k + 1])
        BY <1>1, <2>1, <3>2 DEF Spelt
      <4> QED BY <4>1, <4>2, JoinIs, EmptyListed
    <3>9. e.adds = kept /\ e.skips = 2
      BY <2>6, <2>10, <3>11 DEF Escaped
    <3>10. u[k] = kept \o u[k + 2]
      BY <2>7, <3>9
    <3> QED BY <3>5, <3>8, <3>10
  <2> QED BY <2>9, <2>10
<1> QED
  BY <1>3, <1>4

\* Codes are whole, and within the string.
LEMMA CodesWithin ==
    ASSUME NEW f, Len(f) \in Nat, NEW n \in Nat \ {0}, NEW m \in Int, m + 1 <= Len(f), f[m + 1] = "dq",
           Quoted(f, n), WholeCodes(f), NEW k \in n..m, Coded(f, n, m, k)
    PROVE  k + 5 <= m /\ \A d \in 2..5 : f[k + d] \in {"0", "1"}
<1>1. k \in 1..(Len(f) - 1) /\ Grammar!Opens(f, 1, k) /\ f[k + 1] = "u" /\ k < m
  BY OpensWithin DEF Coded
<1>2. k + 5 <= Len(f) /\ \A d \in 2..5 : f[k + d] \in {"0", "1"}
  BY <1>1 DEF WholeCodes, Grammar!Hex
<1>3. ~(k + 5 > m)
  <2>1. SUFFICES ASSUME k + 5 > m PROVE FALSE
    OBVIOUS
  <2>2. (m + 1) - k \in 2..5 /\ k + ((m + 1) - k) = m + 1
    BY <1>1, <2>1
  <2> QED BY <1>2, <2>2
<1> QED
  BY <1>2, <1>3

LEMMA StringsAgree ==
    ASSUME text \in Seq(Chars), ptr \in Nat \ {0}, NEW end \in ptr..Len(text), Quoted(text, ptr), WholeCodes(text),
           text[end] = "dq", ~Grammar!Opens(text, ptr, end - 1)
    PROVE  Unescaped(end) = Grammar!StringOf(text, ptr, end - 1)
<1>0. Len(text) \in Nat
  OBVIOUS
<1>12. PICK n : n = ptr
  OBVIOUS
<1>1. PICK m : m = end - 1
  OBVIOUS
<1>2. n \in Nat \ {0} /\ m \in Int /\ m + 1 = end /\ m + 1 <= Len(text) /\ n <= m + 1 /\ end \in Nat
      /\ text[m + 1] = "dq" /\ m <= Len(text) /\ ~Grammar!Opens(text, n, m) /\ Quoted(text, n)
  BY <1>0, <1>1, <1>12
<1>3. PICK g : Grammar!StringOf(text, n, m) = g[n] /\ \A k \in n..(m + 1) : g[k] = PartStep(text, g, n, m, k)
  BY <1>2, StringOfUnfolds
<1>4. PICK u : Unescaped(end) = u[n] /\ \A k \in n..(end + 5) : u[k] = UnescapedStep(u, k, end)
  BY <1>2, <1>12, UnescapedUnfolds
<1>5. Spelt(g, n, m)
  <2>1. \A k \in n..(m + 1) : Listed(g[k])
    BY <1>2, <1>3, PartsListed
  <2> QED BY <1>3, <2>1 DEF Spelt
<1>6. CodesEnd(n, m)
  BY <1>0, <1>2, CodesWithin DEF CodesEnd
<1> DEFINE S == {d \in Nat : \A k \in n..(m + 1) : k > m + 1 - d /\ Starts(text, n, m, k) => u[k] = g[k]}
<1>7. 0 \in S
  BY <1>2
<1>8. ASSUME NEW d \in Nat, d \in S PROVE d + 1 \in S
  <2> SUFFICES ASSUME NEW k \in n..(m + 1), k > m + 1 - (d + 1), Starts(text, n, m, k) PROVE u[k] = g[k]
    OBVIOUS
  <2>1. CASE k = m + 1
    <3>1. k > m /\ k >= end /\ k \in n..(end + 5)
      BY <1>2, <2>1
    <3>2. g[k] = <<>>
      BY <1>3, <3>1 DEF PartStep
    <3>3. u[k] = <<>>
      BY <1>4, <3>1 DEF UnescapedStep
    <3> QED BY <3>2, <3>3
  <2>2. CASE k # m + 1
    <3>1. k \in n..m /\ k \in n..(end + 5)
      BY <1>2, <2>2
    <3>2. Same(u, g, n, m, k + 1)
      <4>1. ASSUME NEW l \in (k + 1)..(m + 1), Starts(text, n, m, l) PROVE u[l] = g[l]
        <5>1. l \in n..(m + 1) /\ l > m + 1 - d
          BY <1>2
        <5> QED BY <1>8, <4>1, <5>1
      <4> QED BY <4>1 DEF Same
    <3>3. u[k] = UnescapedStep(u, k, m + 1)
      BY <1>2, <1>4, <3>1
    <3>4. n \in Nat \ {0} /\ m \in Int /\ m + 1 <= Len(text) /\ n <= m + 1 /\ text[m + 1] = "dq"
      BY <1>2
    <3>5. ~Grammar!Opens(text, n, m) /\ Starts(text, n, m, k)
      BY <1>2
    <3> HIDE DEF S
    <3> QED BY <1>5, <1>6, <3>1, <3>2, <3>3, <3>4, <3>5, EscapeStep, SMTT(30)
  <2> QED BY <2>1, <2>2
<1>9. (m + 1 - n) + 1 \in S
  <2>1. (m + 1 - n) + 1 \in Nat
    BY <1>2
  <2> HIDE DEF S
  <2> QED BY <1>7, <1>8, <2>1, SetInduction
<1>10. Starts(text, n, m, n)
  <2>1. n - 1 \in Int /\ ~(n - 1 >= n)
    BY <1>2
  <2>2. ~Grammar!Opens(text, n, n - 1)
    BY <1>2, <2>1, OpensIs
  <2> QED BY <1>2, <2>2 DEF Starts, Coded
<1>11. u[n] = g[n]
  BY <1>2, <1>9, <1>10
<1> QED
  BY <1>1, <1>12, <1>3, <1>4, <1>11

\* A quotation mark that the parser takes for the end of the string
Shut(f, n, k) == f[k] = "dq" /\ (k > n => f[k - 1] # "bs")

LEMMA ShutIs ==
    ASSUME NEW f, Len(f) \in Nat, ~SlashEnd(f), NEW n \in Nat \ {0}, Quoted(f, n), NEW k \in n..Len(f)
    PROVE  Closes(f, n, k) <=> Shut(f, n, k)
<1>1. k - 1 \in Int /\ (k - 1 >= n <=> k > n)
  OBVIOUS
<1>2. Grammar!Opens(f, n, k - 1) => k - 1 >= n /\ f[k - 1] = "bs"
  BY <1>1, OpensIs
<1>3. ASSUME k > n, f[k] = "dq", f[k - 1] = "bs" PROVE Grammar!Opens(f, n, k - 1)
  <2>1. k \in 2..Len(f)
    BY <1>3
  <2>2. Grammar!Opens(f, 1, k - 1)
    BY <1>3, <2>1 DEF SlashEnd
  <2> QED BY <1>1, <1>3, <2>2, OpensWithin
<1> QED
  BY <1>1, <1>2, <1>3 DEF Closes, Shut

LEMMA OpenString ==
    ASSUME NEW f, Len(f) \in Nat, ~SlashEnd(f), NEW n \in 1..(Len(f) + 1), Quoted(f, n),
           \A k \in n..Len(f) : ~Shut(f, n, k)
    PROVE  Grammar!StringAt(f, n - 1) = Grammar!No
<1>1. PICK j : j = Grammar!ClosingQuote(f, n)
  OBVIOUS
<1>2. j \in n..(Len(f) + 1) /\ (j <= Len(f) => Closes(f, n, j))
  BY <1>1, ClosingQuoteIs
<1>3. j > Len(f)
  BY <1>2, ShutIs
<1>4. (n - 1) + 1 = n
  OBVIOUS
<1> QED
  BY <1>1, <1>3, <1>4 DEF Grammar!StringAt

LEMMA ShutString ==
    ASSUME text \in Seq(Chars), ptr \in Nat \ {0}, ~SlashEnd(text), WholeCodes(text),
           NEW end \in ptr..Len(text), Quoted(text, ptr), Shut(text, ptr, end), \A k \in ptr..(end - 1) : ~Shut(text, ptr, k)
    PROVE  Grammar!StringAt(text, ptr - 1) = Grammar!Yes(Grammar!Value("string", Unescaped(end)), end + 1)
<1>0. Len(text) \in Nat
  OBVIOUS
<1>12. PICK n : n = ptr
  OBVIOUS
<1>1. n \in 1..(Len(text) + 1) /\ n \in Nat \ {0} /\ end \in n..Len(text) /\ (n - 1) + 1 = n /\ Quoted(text, n)
  BY <1>0, <1>12
<1>2. PICK j : j = Grammar!ClosingQuote(text, n)
  OBVIOUS
<1>3. j \in n..(Len(text) + 1) /\ (\A k \in n..(j - 1) : ~Closes(text, n, k)) /\ (j <= Len(text) => Closes(text, n, j))
  BY <1>0, <1>1, <1>2, ClosingQuoteIs
<1>4. Closes(text, n, end) /\ \A k \in n..(end - 1) : ~Closes(text, n, k)
  BY <1>0, <1>1, <1>12, ShutIs
<1>5. j = end
  <2>1. ~(end < j)
    BY <1>1, <1>3, <1>4
  <2>2. ~(j < end)
    BY <1>1, <1>3, <1>4
  <2> QED BY <1>1, <1>3, <2>1, <2>2
<1>6. Unescaped(end) = Grammar!StringOf(text, n, end - 1)
  BY <1>4, <1>12, StringsAgree DEF Closes
<1>7. Grammar!StringLegal(text, n, end - 1)
  <2>1. SUFFICES ASSUME NEW k \in n..(end - 1), Grammar!OpensCode(text, n, end - 1, k)
                 PROVE  Grammar!IsCode(text, end - 1, k)
    BY DEF Grammar!StringLegal
  <2>2. k < end - 1 /\ text[k + 1] = "u" /\ Grammar!Opens(text, n, k)
    BY <2>1 DEF Grammar!OpensCode
  <2>4. PICK m : m = end - 1
    OBVIOUS
  <2>5. Coded(text, n, m, k) /\ m \in Int /\ m + 1 <= Len(text) /\ text[m + 1] = "dq" /\ k \in n..m
    BY <1>0, <1>1, <2>2, <2>4 DEF Coded, Shut
  <2>6. k + 5 <= m /\ \A d \in 2..5 : text[k + d] \in {"0", "1"}
    BY <1>0, <1>1, <2>5, CodesWithin
  <2> QED BY <2>4, <2>6 DEF Grammar!IsCode, Grammar!Hex
<1>8. ~(end > Len(text))
  BY <1>0
<1> QED
  BY <1>1, <1>2, <1>5, <1>6, <1>7, <1>8, <1>12 DEF Grammar!StringAt
(***************************************************************************)
(* Words.                                                                  *)
(***************************************************************************)
LEMMA WordEnds ==
    ASSUME NEW f, Len(f) \in Nat, NEW n \in 1..(Len(f) + 1), NEW S, NEW j \in n..(Len(f) + 1),
           \A k \in n..(j - 1) : f[k] \notin S, j <= Len(f) => f[j] \in S
    PROVE  Grammar!FirstIn(f, n, S) = j
<1>1. PICK m : m = Grammar!FirstIn(f, n, S)
  OBVIOUS
<1>2. m \in n..(Len(f) + 1) /\ (\A k \in n..(m - 1) : f[k] \notin S) /\ (m <= Len(f) => f[m] \in S)
  BY <1>1, FirstInIs
<1>3. ~(m < j) /\ ~(j < m)
  BY <1>2
<1> QED
  BY <1>1, <1>2, <1>3

\* Where nothing begins a value, there is none.
LEMMA NoWord ==
    ASSUME NEW f \in Seq(Chars), NEW n \in 1..(Len(f) + 1),
           n <= Len(f) => f[n] \notin {"T", "N", "0", "1"}
    PROVE  Grammar!WordAt(f, n) = Grammar!No
<1>0. Len(f) \in Nat
  OBVIOUS
<1>1. PICK ends : ends = {"sp", ",", "]", "}"}
  OBVIOUS
<1>2. PICK next : next = Grammar!FirstIn(f, n, ends)
  OBVIOUS
<1>3. next \in n..(Len(f) + 1)
  BY <1>0, <1>2, FirstInIs
<1>4. PICK word : word = SubSeq(f, n, next - 1)
  OBVIOUS
<1>5. CASE next = n
  <2>1. word = <<>>
    BY <1>3, <1>4, <1>5, SubSeqEmpty
  <2>2. <<"T">> # <<>> /\ <<"N">> # <<>>
    OBVIOUS
  <2> QED BY <1>1, <1>2, <1>4, <2>1, <2>2, WordIs, Zenon DEF Grammar!IsNumber
<1>6. CASE next # n
  <2>1. n <= Len(f) /\ n <= next - 1 /\ next - 1 <= Len(f) /\ next - 1 \in (n - 1)..Len(f)
    BY <1>0, <1>3, <1>6
  <2>2. Len(word) = next - n /\ \A k \in 1..(next - n) : word[k] = f[n + k - 1]
    <3>1. PICK m : m = next - 1
      OBVIOUS
    <3>2. m \in (n - 1)..Len(f) /\ n \in 1..(Len(f) + 1) /\ n <= m /\ m - n + 1 = next - n
      BY <1>0, <1>3, <2>1, <3>1
    <3>3. Len(word) = m - n + 1 /\ \A k \in 1..(m - n + 1) : word[k] = f[n + k - 1]
      BY <1>0, <1>4, <3>1, <3>2, SubSeqProperties
    <3> QED BY <3>2, <3>3
  <2>3. word[1] = f[n] /\ DOMAIN word = 1..(next - n) /\ 1 \in 1..(next - n)
    <3>1. 1 \in 1..(next - n) /\ n + 1 - 1 = n
      BY <1>3, <1>6
    <3>2. word[1] = f[n + 1 - 1]
      BY <2>2, <3>1
    <3>3. word \in Seq(Chars)
      BY <1>4, <2>1, SubSeqProperties
    <3> QED BY <2>2, <3>1, <3>2, <3>3
  <2>4. word[1] \notin {"T", "N", "0", "1"}
    BY <2>1, <2>3
  <2>5. word # <<"T">> /\ word # <<"N">>
    BY <2>4, OneIs
  <2>6. ~\A k \in DOMAIN word : word[k] \in Grammar!Hex
    BY <2>3, <2>4 DEF Grammar!Hex
  <2> QED BY <1>1, <1>2, <1>4, <2>5, <2>6, WordIs, Zenon DEF Grammar!IsNumber
<1> QED
  BY <1>5, <1>6

--------------------------------------------------------------------------------

(***************************************************************************)
(* Tables.                                                                 *)
(***************************************************************************)
\* What is in a table when the keys of later are set after those of m
Over(m, later) == [x \in {k \in DOMAIN m \cup DOMAIN later : k \in DOMAIN later => later[k] # Nil} |->
                      IF x \in DOMAIN later THEN later[x] ELSE m[x]]

LEMMA NilIs == Nil = Grammar!Nil /\ \A kind, s : Scalar(kind, s) = Grammar!Value(kind, s)
  BY DEF Nil, Scalar, Grammar!Nil, Grammar!Value
LEMMA NoKey == DOMAIN <<>> = {}
  OBVIOUS

LEMMA OverNothing == ASSUME NEW m, m = [x \in DOMAIN m |-> m[x]] PROVE Over(m, <<>>) = m
<1>1. {k \in DOMAIN m \cup DOMAIN <<>> : k \in DOMAIN <<>> => <<>>[k] # Nil} = DOMAIN m
  BY NoKey
<1>2. Over(m, <<>>) = [x \in DOMAIN m |-> m[x]]
  BY <1>1, NoKey DEF Over
<1> QED BY <1>2

LEMMA OverEmpty == ASSUME NEW w PROVE Over(<<>>, w) = Grammar!NotNil(w)
<1>1. {k \in DOMAIN <<>> \cup DOMAIN w : k \in DOMAIN w => w[k] # Nil} = {k \in DOMAIN w : w[k] # Grammar!Nil}
  BY NoKey, NilIs
<1>2. Over(<<>>, w) = [x \in {k \in DOMAIN w : w[k] # Grammar!Nil} |-> w[x]]
  BY <1>1 DEF Over
<1> QED BY <1>2 DEF Grammar!NotNil

\* lua_rawset of one key, and then of others
LEMMA OverSet == ASSUME NEW t, IsValue(t), NEW k, NEW v, NEW w
                 PROVE  Over(RawSet(t, k, v).m, w) = Over(t.m, Grammar!Entry(k, v, w))
<1>1. PICK m : m = t.m
  OBVIOUS
<1>2. PICK r : r = RawSet(t, k, v).m
  OBVIOUS
<1>3. r = IF v = Nil THEN [x \in DOMAIN m \ {k} |-> m[x]]
          ELSE [x \in DOMAIN m \cup {k} |-> IF x = k THEN v ELSE m[x]]
  BY <1>1, <1>2 DEF RawSet, IsValue
<1>4. PICK e : e = Grammar!Entry(k, v, w)
  OBVIOUS
<1>5. DOMAIN e = DOMAIN w \cup {k} /\ \A x \in DOMAIN e : e[x] = IF x \in DOMAIN w THEN w[x] ELSE v
  BY <1>4 DEF Grammar!Entry
<1> DEFINE A == {x \in DOMAIN r \cup DOMAIN w : x \in DOMAIN w => w[x] # Nil}
           B == {x \in DOMAIN m \cup DOMAIN e : x \in DOMAIN e => e[x] # Nil}
<1>6. A = B /\ \A x \in A : (IF x \in DOMAIN w THEN w[x] ELSE r[x]) = IF x \in DOMAIN e THEN e[x] ELSE m[x]
  <2>1. CASE v = Nil
    <3>1. DOMAIN r = DOMAIN m \ {k} /\ \A x \in DOMAIN r : r[x] = m[x]
      BY <1>3, <2>1
    <3> QED BY <1>5, <2>1, <3>1
  <2>2. CASE v # Nil
    <3>1. DOMAIN r = DOMAIN m \cup {k} /\ \A x \in DOMAIN r : r[x] = IF x = k THEN v ELSE m[x]
      BY <1>3, <2>2
    <3> QED BY <1>5, <2>2, <3>1
  <2> QED BY <2>1, <2>2
<1>7. Over(r, w) = [x \in A |-> IF x \in DOMAIN w THEN w[x] ELSE r[x]]
  BY DEF Over
<1>8. Over(m, e) = [x \in B |-> IF x \in DOMAIN e THEN e[x] ELSE m[x]]
  BY DEF Over
<1> HIDE DEF A, B
<1>9. Over(r, w) = Over(m, e)
  BY <1>6, <1>7, <1>8
<1> QED BY <1>1, <1>2, <1>4, <1>9

\* What a table is when the rest of its brackets is r
Close(t, r) == IF r.ok THEN Grammar!Yes([t EXCEPT !.m = Over(t.m, r.v)], r.next) ELSE Grammar!No

LEMMA CloseNo == ASSUME NEW t, NEW r, ~r.ok PROVE Close(t, r) = Grammar!No
  BY DEF Close

LEMMA CloseNew == ASSUME NEW kind, NEW r
                  PROVE  Close(NewTable(kind), r) = Grammar!TableOf(kind, r)
<1>1. NewTable(kind).m = <<>>
  BY DEF NewTable
<1>2. \A m : [NewTable(kind) EXCEPT !.m = m] = Grammar!Table(kind, m)
  BY DEF NewTable, Grammar!Table
<1>3. PICK t : t = NewTable(kind)
  OBVIOUS
<1>4. Over(t.m, r.v) = Grammar!NotNil(r.v)
  BY <1>1, <1>3, OverEmpty
<1>5. PICK m : m = Grammar!NotNil(r.v)
  OBVIOUS
<1>6. [t EXCEPT !.m = m] = Grammar!Table(kind, m)
  BY <1>2, <1>3
<1>7. Close(t, r) = IF r.ok THEN Grammar!Yes(Grammar!Table(kind, m), r.next) ELSE Grammar!No
  BY <1>4, <1>5, <1>6 DEF Close
<1>8. Grammar!TableOf(kind, r) = IF r.ok THEN Grammar!Yes(Grammar!Table(kind, m), r.next) ELSE Grammar!No
  BY <1>5 DEF Grammar!TableOf
<1> QED BY <1>3, <1>7, <1>8

LEMMA CloseEnd == ASSUME NEW t, IsValue(t), NEW n
                  PROVE  Close(t, Grammar!Yes(<<>>, n)) = Grammar!Yes(t, n)
<1>1. Over(t.m, <<>>) = t.m
  BY OverNothing DEF IsValue
<1>2. [t EXCEPT !.m = t.m] = t
  BY DEF IsValue
<1>3. PICK x : x = Grammar!Yes(<<>>, n)
  OBVIOUS
<1>4. x.ok /\ x.v = <<>> /\ x.next = n
  BY <1>3, YesIs, Zenon
<1>5. Close(t, x) = Grammar!Yes([t EXCEPT !.m = Over(t.m, <<>>)], n)
  BY <1>4 DEF Close
<1> QED BY <1>1, <1>2, <1>3, <1>5

LEMMA CloseSet == ASSUME NEW t, IsValue(t), NEW k, NEW v, NEW n, NEW r
                  PROVE  Close(t, Grammar!With(k, Grammar!Yes(v, n), r)) = Close(RawSet(t, k, v), r)
<1>1. PICK u : u = RawSet(t, k, v)
  OBVIOUS
<1>2. Over(u.m, r.v) = Over(t.m, Grammar!Entry(k, v, r.v))
  BY <1>1, OverSet
<1>3. \A m : [u EXCEPT !.m = m] = [t EXCEPT !.m = m]
  BY <1>1 DEF RawSet, IsValue
<1>4. Grammar!With(k, Grammar!Yes(v, n), r) = IF r.ok THEN Grammar!Yes(Grammar!Entry(k, v, r.v), r.next) ELSE Grammar!No
  BY YesIs DEF Grammar!With
<1>5. CASE r.ok
  <2>0. PICK e : e = Grammar!Entry(k, v, r.v)
    OBVIOUS
  <2>1. PICK x : x = Grammar!With(k, Grammar!Yes(v, n), r)
    OBVIOUS
  <2>4. x.ok /\ x.v = e /\ x.next = r.next
    <3>1. x = Grammar!Yes(e, r.next)
      BY <1>4, <1>5, <2>0, <2>1
    <3> QED BY <3>1, YesIs, Zenon
  <2>2. Close(t, x) = Grammar!Yes([t EXCEPT !.m = Over(t.m, e)], r.next)
    BY <2>4 DEF Close
  <2>3. Close(u, r) = Grammar!Yes([u EXCEPT !.m = Over(u.m, r.v)], r.next)
    BY <1>5, Zenon DEF Close
  <2> QED BY <1>1, <1>2, <1>3, <2>0, <2>1, <2>2, <2>3
<1>6. CASE ~r.ok
  <2>1. Grammar!With(k, Grammar!Yes(v, n), r) = Grammar!No
    BY <1>4, <1>6
  <2>2. ~Grammar!No.ok
    BY YesIs
  <2> QED BY <1>6, <2>1, <2>2, CloseNo
<1> QED BY <1>5, <1>6

--------------------------------------------------------------------------------

(***************************************************************************)
(* What the grammar reads at a level.  At and what follows it are from the *)
(* top of the Lua stack down to the level's table: a, b and c.             *)
(***************************************************************************)
\* What the table of a waiting level comes to, when the value it waits for is e
Up(f, s, k, a, b, e) ==
    CASE s = "array_value"    -> Close(a, Grammar!Element(f, Grammar!Reading(f), k + 1, e))
      [] s = "object_value_2" -> Close(a, Grammar!Member(f, Grammar!Reading(f), b.s, e))
      [] s = "object_key"     -> Close(a, Grammar!Named(f, Grammar!Reading(f), e))
      [] OTHER                -> Grammar!No
\* What the last level comes to, read from n on
Cur(f, s, n, k, p, a, b, c) ==
    CASE s = "value"          -> Grammar!ValueAt(f, Grammar!Reading(f), n)
      [] s = "array"          -> Close(a, Grammar!Elements(f, Grammar!Reading(f), n, k + 1))
      [] s = "object"         -> Close(a, Grammar!Members(f, Grammar!Reading(f), n))
      [] s = "object_value"   -> Close(a, Grammar!Member(f, Grammar!Reading(f), b.s,
                                                         Grammar!ValueAt(f, Grammar!Reading(f), Grammar!NotBlank(f, n))))
      [] s \in {"array_value", "object_key"} -> Up(f, s, k, a, b, Grammar!Yes(b, n))
      [] s = "object_value_2" -> Up(f, s, k, a, b, Grammar!Yes(c, n))
      [] s = "string"         -> Grammar!StringAt(f, p - 1)
      [] s \in {"number", "literal"} -> Grammar!WordAt(f, p)
      [] s = "delim"          -> Grammar!Yes(a, n)

LEMMA UpIs ==
    ASSUME NEW f, NEW k, NEW a, NEW b, NEW e
    PROVE  /\ Up(f, "array_value", k, a, b, e) = Close(a, Grammar!Element(f, Grammar!Reading(f), k + 1, e))
           /\ Up(f, "object_value_2", k, a, b, e) = Close(a, Grammar!Member(f, Grammar!Reading(f), b.s, e))
           /\ Up(f, "object_key", k, a, b, e) = Close(a, Grammar!Named(f, Grammar!Reading(f), e))
  BY DEF Up

LEMMA CurIs ==
    ASSUME NEW f, NEW n, NEW k, NEW p, NEW a, NEW b, NEW c, NEW read, read = Grammar!Reading(f)
    PROVE  /\ Cur(f, "value", n, k, p, a, b, c) = Grammar!ValueAt(f, read, n)
           /\ Cur(f, "array", n, k, p, a, b, c) = Close(a, Grammar!Elements(f, read, n, k + 1))
           /\ Cur(f, "object", n, k, p, a, b, c) = Close(a, Grammar!Members(f, read, n))
           /\ Cur(f, "object_value", n, k, p, a, b, c)
              = Close(a, Grammar!Member(f, read, b.s, Grammar!ValueAt(f, read, Grammar!NotBlank(f, n))))
           /\ Cur(f, "array_value", n, k, p, a, b, c) = Up(f, "array_value", k, a, b, Grammar!Yes(b, n))
           /\ Cur(f, "object_key", n, k, p, a, b, c) = Up(f, "object_key", k, a, b, Grammar!Yes(b, n))
           /\ Cur(f, "object_value_2", n, k, p, a, b, c) = Up(f, "object_value_2", k, a, b, Grammar!Yes(c, n))
           /\ Cur(f, "string", n, k, p, a, b, c) = Grammar!StringAt(f, p - 1)
           /\ Cur(f, "number", n, k, p, a, b, c) = Grammar!WordAt(f, p)
           /\ Cur(f, "literal", n, k, p, a, b, c) = Grammar!WordAt(f, p)
           /\ Cur(f, "delim", n, k, p, a, b, c) = Grammar!Yes(a, n)
  BY DEF Cur

\* An outcome that is not a value leaves no table.
LEMMA UpNo == ASSUME NEW f, NEW s, NEW k, NEW a, NEW b, NEW e, ~e.ok
              PROVE  ~Up(f, s, k, a, b, e).ok
<1>1. PICK read : read = Grammar!Reading(f)
  OBVIOUS
<1>2. /\ Grammar!Element(f, read, k + 1, e) = Grammar!No
      /\ Grammar!Member(f, read, b.s, e) = Grammar!No
      /\ Grammar!Named(f, read, e) = Grammar!No
  BY DEF Grammar!Element, Grammar!Member, Grammar!Named, Grammar!Follows
<1>3. ~Grammar!No.ok
  BY YesIs
<1>4. Close(a, Grammar!No) = Grammar!No
  BY <1>3, CloseNo
<1>5. Up(f, s, k, a, b, e) = Grammar!No
  BY <1>1, <1>2, <1>4, Zenon DEF Up
<1> QED BY <1>3, <1>5, Zenon

\* What a value is by its first character
LEMMA ValueIs ==
    ASSUME NEW f \in Seq(Chars), NEW n \in 1..(Len(f) + 1), NEW read, read = Grammar!Reading(f), NEW e,
           e = Grammar!ValueAt(f, read, n)
    PROVE  /\ n <= Len(f) /\ f[n] = "["  => e = Grammar!TableOf("array", Grammar!Elements(f, read, n + 1, 1))
           /\ n <= Len(f) /\ f[n] = "{"  => e = Grammar!TableOf("object", Grammar!Members(f, read, n + 1))
           /\ n <= Len(f) /\ f[n] = "dq" => e = Grammar!StringAt(f, n)
           /\ n <= Len(f) /\ f[n] \notin {"[", "{", "dq"} => e = Grammar!WordAt(f, n)
           /\ (n <= Len(f) => ~BeginsValue(f[n])) => e = Grammar!No
<1>0. Len(f) \in Nat
  OBVIOUS
<1>1. n <= Len(f) => /\ read[<<"elements", n + 1, 1>>] = Grammar!Elements(f, read, n + 1, 1)
                     /\ read[<<"members", n + 1, 0>>] = Grammar!Members(f, read, n + 1)
  BY <1>0, ReadingIs
<1>2. /\ n <= Len(f) /\ f[n] = "["  => e = Grammar!TableOf("array", read[<<"elements", n + 1, 1>>])
      /\ n <= Len(f) /\ f[n] = "{"  => e = Grammar!TableOf("object", read[<<"members", n + 1, 0>>])
      /\ n <= Len(f) /\ f[n] = "dq" => e = Grammar!StringAt(f, n)
      /\ (n <= Len(f) => f[n] \notin {"[", "{", "dq"}) => e = Grammar!WordAt(f, n)
  BY DEF Grammar!ValueAt, Grammar!At
<1>3. ASSUME n <= Len(f) => ~BeginsValue(f[n]) PROVE e = Grammar!No
  <2>1. n <= Len(f) => f[n] \notin {"[", "{", "dq", "T", "N", "0", "1"}
    BY <1>3 DEF BeginsValue, Dm1, Num, Lit
  <2>2. Grammar!WordAt(f, n) = Grammar!No
    BY <2>1, NoWord
  <2> QED BY <1>2, <2>1, <2>2
<1> QED
  BY <1>1, <1>2, <1>3

Skipping == {"object", "object_key", "object_value", "object_value_2", "array", "array_value"}

\* Where the grammar goes on only matters up to blanks.
LEMMA SameBlank ==
    ASSUME NEW f, NEW read, NEW n, NEW m, Grammar!NotBlank(f, n) = Grammar!NotBlank(f, m), NEW s, NEW k, NEW p,
           NEW a, NEW b, NEW c, s \in Skipping
    PROVE  Cur(f, s, n, k, p, a, b, c) = Cur(f, s, m, k, p, a, b, c)
<1>1. PICK r : r = Grammar!Reading(f)
  OBVIOUS
<1>3. ASSUME NEW v, NEW x, NEW w, x = Grammar!Yes(v, n), w = Grammar!Yes(v, m)
      PROVE  /\ Grammar!Element(f, r, k + 1, x) = Grammar!Element(f, r, k + 1, w)
             /\ Grammar!Member(f, r, b.s, x) = Grammar!Member(f, r, b.s, w)
             /\ Grammar!Named(f, r, x) = Grammar!Named(f, r, w)
  <2>1. x.ok /\ x.v = v /\ x.next = n /\ w.ok /\ w.v = v /\ w.next = m
    BY <1>3, YesIs, Zenon
  <2>2. /\ \A close : Grammar!Follows(f, x, close) = Grammar!Follows(f, w, close)
        /\ Grammar!Skip(f, x.next) = Grammar!Skip(f, w.next)
        /\ Grammar!NotBlank(f, x.next) = Grammar!NotBlank(f, w.next)
    BY <2>1 DEF Grammar!Follows, Grammar!Skip
  <2>3. Grammar!Element(f, r, k + 1, x) = Grammar!Element(f, r, k + 1, w)
    BY <2>1, <2>2 DEF Grammar!Element, Grammar!With
  <2>4. \A q : Grammar!Member(f, r, q, x) = Grammar!Member(f, r, q, w)
    BY <2>1, <2>2 DEF Grammar!Member, Grammar!With
  <2>5. Grammar!Named(f, r, x) = Grammar!Named(f, r, w)
    BY <2>1, <2>2 DEF Grammar!Named
  <2> QED BY <2>3, <2>4, <2>5
<1>4. /\ Grammar!Elements(f, r, n, k + 1) = Grammar!Elements(f, r, m, k + 1)
      /\ Grammar!Members(f, r, n) = Grammar!Members(f, r, m)
  BY DEF Grammar!Elements, Grammar!Members
<1>5. /\ Up(f, "array_value", k, a, b, Grammar!Yes(b, n)) = Up(f, "array_value", k, a, b, Grammar!Yes(b, m))
      /\ Up(f, "object_key", k, a, b, Grammar!Yes(b, n)) = Up(f, "object_key", k, a, b, Grammar!Yes(b, m))
      /\ Up(f, "object_value_2", k, a, b, Grammar!Yes(c, n)) = Up(f, "object_value_2", k, a, b, Grammar!Yes(c, m))
  <2>1. \A v : /\ Grammar!Element(f, r, k + 1, Grammar!Yes(v, n)) = Grammar!Element(f, r, k + 1, Grammar!Yes(v, m))
               /\ Grammar!Member(f, r, b.s, Grammar!Yes(v, n)) = Grammar!Member(f, r, b.s, Grammar!Yes(v, m))
               /\ Grammar!Named(f, r, Grammar!Yes(v, n)) = Grammar!Named(f, r, Grammar!Yes(v, m))
    BY <1>3
  <2> QED BY <1>1, <2>1, UpIs
<1>6. CASE s = "array" \/ s = "object"
  BY <1>1, <1>4, <1>6, CurIs
<1>7. CASE s = "object_value"
  BY <1>1, <1>7, CurIs
<1>8. CASE s \in {"array_value", "object_key", "object_value_2"}
  BY <1>5, <1>8, CurIs
<1> QED
  BY <1>6, <1>7, <1>8 DEF Skipping

\* A text that ends inside of brackets is none.
LEMMA CurEnd ==
    ASSUME NEW f \in Seq(Chars), NEW n, n = Len(f) + 2, NEW s \in Skipping, NEW k \in Nat, NEW p,
           NEW a, NEW b, NEW c
    PROVE  ~Cur(f, s, n, k, p, a, b, c).ok
<1>0. Len(f) \in Nat /\ n \in 1..(Len(f) + 2)
  OBVIOUS
<1>1. PICK r : r = Grammar!Reading(f)
  OBVIOUS
<1>2. PICK j : j = Grammar!NotBlank(f, n)
  OBVIOUS
<1>3. j = Len(f) + 1 /\ j \in 1..(Len(f) + 1) /\ ~(j <= Len(f))
  BY <1>0, <1>2, NotBlankIs
<1>4. \A ch : ~Grammar!At(f, j, ch)
  BY <1>3 DEF Grammar!At
<1>5. Grammar!ValueAt(f, r, j) = Grammar!No /\ ~Grammar!No.ok
  <2>1. Grammar!ValueAt(f, r, j) = Grammar!No
    BY <1>1, <1>3, ValueIs
  <2> QED BY <2>1, YesIs
<1>6. Grammar!Elements(f, r, n, k + 1) = Grammar!No
  <2>1. Grammar!Element(f, r, k + 1, Grammar!No) = Grammar!No
    BY <1>5 DEF Grammar!Element, Grammar!Follows
  <2>2. Grammar!Elements(f, r, n, k + 1) = Grammar!Element(f, r, k + 1, Grammar!ValueAt(f, r, j))
    BY <1>2, <1>4 DEF Grammar!Elements
  <2> QED BY <1>5, <2>1, <2>2
<1>7. Grammar!Members(f, r, n) = Grammar!No
  <2>1. ~Grammar!At(f, j, "}") /\ ~Grammar!At(f, j, "dq")
    BY <1>4
  <2> QED BY <1>2, <2>1 DEF Grammar!Members
<1>8. Grammar!Member(f, r, b.s, Grammar!No) = Grammar!No
  BY <1>5 DEF Grammar!Member, Grammar!Follows
<1>9. ASSUME NEW v, NEW x, x = Grammar!Yes(v, n)
      PROVE  /\ Grammar!Element(f, r, k + 1, x) = Grammar!No
             /\ Grammar!Member(f, r, b.s, x) = Grammar!No
             /\ Grammar!Named(f, r, x) = Grammar!No
  <2>1. x.next = n
    BY <1>9, YesIs, Zenon
  <2>2. ~Grammar!Follows(f, x, "]") /\ ~Grammar!Follows(f, x, "}")
    BY <1>2, <1>4, <2>1 DEF Grammar!Follows
  <2> QED BY <1>2, <1>4, <2>1, <2>2 DEF Grammar!Element, Grammar!Member, Grammar!Named
<1>10. \A v : /\ Grammar!Element(f, r, k + 1, Grammar!Yes(v, n)) = Grammar!No
              /\ Grammar!Member(f, r, b.s, Grammar!Yes(v, n)) = Grammar!No
              /\ Grammar!Named(f, r, Grammar!Yes(v, n)) = Grammar!No
  BY <1>9
<1>11. Close(a, Grammar!No) = Grammar!No
  BY <1>5, CloseNo
<1>12. CASE s = "array" \/ s = "object"
  BY <1>1, <1>5, <1>6, <1>7, <1>11, <1>12, CurIs
<1>13. CASE s = "object_value"
  <2>1. Cur(f, s, n, k, p, a, b, c) = Close(a, Grammar!Member(f, r, b.s, Grammar!ValueAt(f, r, j)))
    BY <1>1, <1>2, <1>13, CurIs
  <2> QED BY <1>5, <1>8, <1>11, <2>1
<1>14. CASE s \in {"array_value", "object_key", "object_value_2"}
  BY <1>1, <1>5, <1>10, <1>11, <1>14, CurIs, UpIs
<1> QED
  BY <1>12, <1>13, <1>14 DEF Skipping

--------------------------------------------------------------------------------

(***************************************************************************)
(* One character of a level: what the parser does to the state of a level  *)
(* leaves what the grammar reads there as it was.                          *)
(***************************************************************************)
LEMMA HereIs ==
    ASSUME NEW f, Len(f) \in Nat, NEW n \in 1..Len(f), f[n] # "sp"
    PROVE  /\ Grammar!NotBlank(f, n) = n
           /\ \A ch : Grammar!At(f, n, ch) <=> f[n] = ch
  BY NotBlankHere DEF Grammar!At

\* Two characters that the provers do not take as strings
IsComma(c) == c = ","
IsBrace(c) == c = "}"

IsArray(f, n, k, a, v, e) ==
    /\ f[n] = "]" => e = Grammar!Yes(a, n + 1)
    /\ f[n] # "]" => \A d : e = Up(f, "array_value", k, a, d, v)
    /\ f[n] # "]" /\ ~BeginsValue(f[n]) => ~e.ok
LEMMA ArrayIs ==
    ASSUME NEW f \in Seq(Chars), NEW n \in 1..Len(f), f[n] # "sp", NEW k \in Nat, NEW p,
           NEW a, IsValue(a), NEW b, NEW c, NEW e, e = Cur(f, "array", n, k, p, a, b, c),
           NEW v, v = Grammar!ValueAt(f, Grammar!Reading(f), n)
    PROVE  IsArray(f, n, k, a, v, e)
<1>0. Len(f) \in Nat /\ n \in 1..(Len(f) + 1)
  OBVIOUS
<1>1. PICK r : r = Grammar!Reading(f)
  OBVIOUS
<1>2. Grammar!NotBlank(f, n) = n /\ \A ch : Grammar!At(f, n, ch) <=> f[n] = ch
  BY <1>0, HereIs
<1>3. e = Close(a, Grammar!Elements(f, r, n, k + 1)) /\ v = Grammar!ValueAt(f, r, n)
  BY <1>1, CurIs
<1>4. ASSUME f[n] = "]" PROVE e = Grammar!Yes(a, n + 1)
  <2>1. Grammar!Elements(f, r, n, k + 1) = Grammar!Yes(<<>>, n + 1)
    BY <1>2, <1>4 DEF Grammar!Elements
  <2> QED BY <1>3, <2>1, CloseEnd
<1>5. ASSUME f[n] # "]" PROVE Grammar!Elements(f, r, n, k + 1) = Grammar!Element(f, r, k + 1, v)
  BY <1>2, <1>3, <1>5 DEF Grammar!Elements
<1>6. ASSUME f[n] # "]", NEW d PROVE e = Up(f, "array_value", k, a, d, v)
  BY <1>1, <1>3, <1>5, <1>6, UpIs
<1>7. ASSUME f[n] # "]", ~BeginsValue(f[n]) PROVE ~e.ok
  <2>1. v = Grammar!No
    BY <1>0, <1>1, <1>3, <1>7, ValueIs
  <2>2. ~v.ok
    BY <2>1, YesIs
  <2>3. e = Up(f, "array_value", k, a, b, v)
    BY <1>6, <1>7
  <2> QED BY <2>2, <2>3, UpNo
<1> QED
  BY <1>4, <1>6, <1>7 DEF IsArray

IsElement(f, n, k, t, e) ==
    /\ f[n] = "]" => e = Grammar!Yes(t, n + 1)
    /\ IsComma(f[n]) => \A x, y, z : e = Cur(f, "array", n + 1, k + 1, x, t, y, z)
    /\ f[n] # "]" /\ ~IsComma(f[n]) => ~e.ok
LEMMA ArrayValueIs ==
    ASSUME NEW f \in Seq(Chars), NEW n \in 1..Len(f), f[n] # "sp", NEW k \in Nat, NEW p,
           NEW a, IsValue(a), NEW b, NEW c, NEW e, e = Cur(f, "array_value", n, k, p, a, b, c),
           NEW t, t = RawSet(a, KeyOfIndex(k + 1), b)
    PROVE  IsElement(f, n, k, t, e)
<1>0. Len(f) \in Nat /\ n \in 1..(Len(f) + 1) /\ n + 1 \in 1..(Len(f) + 1) /\ k + 1 \in Nat
      /\ (k + 1) + 1 \in Nat
  OBVIOUS
<1>1. PICK r : r = Grammar!Reading(f)
  OBVIOUS
<1>2. Grammar!NotBlank(f, n) = n /\ \A ch : Grammar!At(f, n, ch) <=> f[n] = ch
  BY <1>0, HereIs
<1>3. PICK v : v = Grammar!Yes(b, n)
  OBVIOUS
<1>4. v.ok /\ v.v = b /\ v.next = n
  BY <1>3, YesIs, Zenon
<1>5. e = Close(a, Grammar!Element(f, r, k + 1, v))
  BY <1>1, <1>3, CurIs, UpIs
<1>6. PICK key1 : key1 = KeyOfIndex(k + 1)
  OBVIOUS
<1>7. Grammar!Index(k + 1) = key1
  BY <1>6 DEF Grammar!Index, KeyOfIndex
<1>8. ASSUME NEW later PROVE Close(a, Grammar!With(key1, v, later)) = Close(t, later)
  BY <1>3, <1>6, CloseSet
<1>9. IsValue(t)
  BY RawSetIs
<1>10. Grammar!Follows(f, v, "]") <=> f[n] \in {"]", ","}
  BY <1>2, <1>4 DEF Grammar!Follows
<1>11. ASSUME f[n] = "]" PROVE e = Grammar!Yes(t, n + 1)
  <2>0. ~Grammar!At(f, n, ",")
    BY <1>11 DEF Grammar!At
  <2>1. Grammar!Skip(f, n) = n
    BY <1>2, <2>0 DEF Grammar!Skip
  <2>2. r[<<"elements", n, (k + 1) + 1>>] = Grammar!Elements(f, r, n, (k + 1) + 1)
    BY <1>0, <1>1, ReadingIs
  <2>3. Grammar!Elements(f, r, n, (k + 1) + 1) = Grammar!Yes(<<>>, n + 1)
    BY <1>2, <1>11 DEF Grammar!Elements
  <2>4. Grammar!Element(f, r, k + 1, v) = Grammar!With(key1, v, Grammar!Yes(<<>>, n + 1))
    BY <1>4, <1>7, <1>10, <1>11, <2>1, <2>2, <2>3 DEF Grammar!Element
  <2> QED BY <1>5, <1>8, <1>9, <2>4, CloseEnd
<1>12. ASSUME f[n] = ",", NEW x, NEW y, NEW z PROVE e = Cur(f, "array", n + 1, k + 1, x, t, y, z)
  <2>1. Grammar!Skip(f, n) = n + 1
    BY <1>2, <1>12 DEF Grammar!Skip
  <2>2. r[<<"elements", n + 1, (k + 1) + 1>>] = Grammar!Elements(f, r, n + 1, (k + 1) + 1)
    BY <1>0, <1>1, ReadingIs
  <2>4. Grammar!Element(f, r, k + 1, v) = Grammar!With(key1, v, Grammar!Elements(f, r, n + 1, (k + 1) + 1))
    BY <1>4, <1>7, <1>10, <1>12, <2>1, <2>2 DEF Grammar!Element
  <2>5. Cur(f, "array", n + 1, k + 1, x, t, y, z) = Close(t, Grammar!Elements(f, r, n + 1, (k + 1) + 1))
    BY <1>1, CurIs
  <2> QED BY <1>5, <1>8, <2>4, <2>5
<1>13. ASSUME f[n] \notin {"]", ","} PROVE ~e.ok
  <2>1. Grammar!Element(f, r, k + 1, v) = Grammar!No /\ ~Grammar!No.ok
    BY <1>10, <1>13, YesIs DEF Grammar!Element
  <2> QED BY <1>5, <2>1, CloseNo
<1> QED
  BY <1>11, <1>12, <1>13, Zenon DEF IsComma, IsElement

LEMMA ObjectIs ==
    ASSUME NEW f \in Seq(Chars), NEW n \in 1..Len(f), f[n] # "sp", NEW k, NEW p,
           NEW a, IsValue(a), NEW b, NEW c, NEW e, e = Cur(f, "object", n, k, p, a, b, c)
    PROVE  /\ IsBrace(f[n]) => e = Grammar!Yes(a, n + 1)
           /\ f[n] = "dq" => \A d : e = Up(f, "object_key", k, a, d, Grammar!StringAt(f, n))
           /\ ~IsBrace(f[n]) /\ f[n] # "dq" => ~e.ok
<1>0. Len(f) \in Nat /\ n <= Len(f)
  OBVIOUS
<1>1. PICK r : r = Grammar!Reading(f)
  OBVIOUS
<1>2. Grammar!NotBlank(f, n) = n /\ \A ch : Grammar!At(f, n, ch) <=> f[n] = ch
  BY <1>0, HereIs
<1>3. e = Close(a, Grammar!Members(f, r, n))
  BY <1>1, CurIs
<1>4. ASSUME f[n] = "}" PROVE e = Grammar!Yes(a, n + 1)
  <2>5. Grammar!At(f, n, "}") /\ ~Grammar!At(f, n, "dq")
    BY <1>0, <1>4 DEF Grammar!At
  <2>1. Grammar!Members(f, r, n) = Grammar!Yes(<<>>, n + 1)
    BY <1>2, <2>5 DEF Grammar!Members
  <2> QED BY <1>3, <2>1, CloseEnd
<1>5. ASSUME f[n] = "dq", NEW d PROVE e = Up(f, "object_key", k, a, d, Grammar!StringAt(f, n))
  <2>5. Grammar!At(f, n, "dq") /\ ~Grammar!At(f, n, "}")
    BY <1>0, <1>5 DEF Grammar!At
  <2>1. Grammar!Members(f, r, n) = Grammar!Named(f, r, Grammar!StringAt(f, n))
    BY <1>2, <2>5 DEF Grammar!Members
  <2> QED BY <1>1, <1>3, <2>1, UpIs
<1>6. ASSUME f[n] \notin {"}", "dq"} PROVE ~e.ok
  <2>1. Grammar!Members(f, r, n) = Grammar!No /\ ~Grammar!No.ok
    BY <1>2, <1>6, YesIs DEF Grammar!Members
  <2> QED BY <1>3, <2>1, CloseNo
<1> QED
  BY <1>4, <1>5, <1>6, Zenon DEF IsBrace

LEMMA ObjectKeyIs ==
    ASSUME NEW f \in Seq(Chars), NEW n \in 1..Len(f), f[n] # "sp", NEW k, NEW p,
           NEW a, NEW b, NEW c, NEW e, e = Cur(f, "object_key", n, k, p, a, b, c)
    PROVE  /\ f[n] = ":" => \A x, y, z : e = Cur(f, "object_value", n + 1, x, y, a, b, z)
           /\ f[n] # ":" => ~e.ok
<1>0. Len(f) \in Nat
  OBVIOUS
<1>1. PICK r : r = Grammar!Reading(f)
  OBVIOUS
<1>2. Grammar!NotBlank(f, n) = n /\ \A ch : Grammar!At(f, n, ch) <=> f[n] = ch
  BY <1>0, HereIs
<1>3. PICK v : v = Grammar!Yes(b, n)
  OBVIOUS
<1>4. v.ok /\ v.v = b /\ v.next = n
  BY <1>3, YesIs, Zenon
<1>5. e = Close(a, Grammar!Named(f, r, v))
  BY <1>1, <1>3, CurIs, UpIs
<1>6. ASSUME f[n] = ":", NEW x, NEW y, NEW z PROVE e = Cur(f, "object_value", n + 1, x, y, a, b, z)
  <2>1. Grammar!Named(f, r, v) = Grammar!Member(f, r, b.s, Grammar!ValueAt(f, r, Grammar!NotBlank(f, n + 1)))
    BY <1>2, <1>4, <1>6 DEF Grammar!Named
  <2> QED BY <1>1, <1>5, <2>1, CurIs
<1>7. ASSUME f[n] # ":" PROVE ~e.ok
  <2>1. Grammar!Named(f, r, v) = Grammar!No /\ ~Grammar!No.ok
    BY <1>2, <1>4, <1>7, YesIs DEF Grammar!Named
  <2> QED BY <1>5, <2>1, CloseNo
<1> QED
  BY <1>6, <1>7

LEMMA ObjectValueIs ==
    ASSUME NEW f \in Seq(Chars), NEW n \in 1..Len(f), f[n] # "sp", NEW k, NEW p,
           NEW a, NEW b, NEW c, NEW e, e = Cur(f, "object_value", n, k, p, a, b, c),
           NEW v, v = Cur(f, "value", n, 0, 0, a, b, c)
    PROVE  /\ \A x : e = Up(f, "object_value_2", x, a, b, v)
           /\ ~BeginsValue(f[n]) => ~e.ok
<1>0. Len(f) \in Nat /\ n \in 1..(Len(f) + 1)
  OBVIOUS
<1>1. PICK r : r = Grammar!Reading(f)
  OBVIOUS
<1>2. Grammar!NotBlank(f, n) = n
  BY <1>0, HereIs
<1>3. v = Grammar!ValueAt(f, r, n)
  BY <1>1, CurIs
<1>4. e = Close(a, Grammar!Member(f, r, b.s, v))
  BY <1>1, <1>2, <1>3, CurIs
<1>5. ASSUME NEW x PROVE e = Up(f, "object_value_2", x, a, b, v)
  BY <1>1, <1>4, UpIs
<1>6. ASSUME ~BeginsValue(f[n]) PROVE ~e.ok
  <2>1. v = Grammar!No
    BY <1>0, <1>1, <1>3, <1>6, ValueIs
  <2>2. ~v.ok
    BY <2>1, YesIs
  <2>3. e = Up(f, "object_value_2", k, a, b, v)
    BY <1>5
  <2> QED BY <2>2, <2>3, UpNo
<1> QED
  BY <1>5, <1>6

LEMMA ObjectValue2Is ==
    ASSUME NEW f \in Seq(Chars), NEW n \in 1..Len(f), f[n] # "sp", NEW k, NEW p,
           NEW a, IsValue(a), NEW b, NEW c, NEW e, e = Cur(f, "object_value_2", n, k, p, a, b, c),
           NEW t, t = RawSet(a, KeyOfString(b), c)
    PROVE  /\ IsBrace(f[n]) => e = Grammar!Yes(t, n + 1)
           /\ IsComma(f[n]) => \A w, x, y, z : e = Cur(f, "object", n + 1, w, x, t, y, z)
           /\ ~IsBrace(f[n]) /\ ~IsComma(f[n]) => ~e.ok
<1>0. Len(f) \in Nat /\ n \in 1..(Len(f) + 1) /\ n + 1 \in 1..(Len(f) + 1) /\ 0 \in Nat /\ n <= Len(f)
  OBVIOUS
<1>1. PICK r : r = Grammar!Reading(f)
  OBVIOUS
<1>2. Grammar!NotBlank(f, n) = n /\ \A ch : Grammar!At(f, n, ch) <=> f[n] = ch
  BY <1>0, HereIs
<1>3. PICK v : v = Grammar!Yes(c, n)
  OBVIOUS
<1>4. v.ok /\ v.v = c /\ v.next = n
  BY <1>3, YesIs, Zenon
<1>5. e = Close(a, Grammar!Member(f, r, b.s, v))
  BY <1>1, <1>3, CurIs, UpIs
<1>6. PICK name : name = KeyOfString(b)
  OBVIOUS
<1>7. Grammar!Name(b.s) = name
  BY <1>6 DEF Grammar!Name, KeyOfString
<1>8. ASSUME NEW later PROVE Close(a, Grammar!With(name, v, later)) = Close(t, later)
  BY <1>3, <1>6, CloseSet
<1>9. IsValue(t)
  BY RawSetIs
<1>10. Grammar!Follows(f, v, "}") <=> f[n] \in {"}", ","}
  BY <1>2, <1>4 DEF Grammar!Follows
<1>11. ASSUME f[n] = "}" PROVE e = Grammar!Yes(t, n + 1)
  <2>0. ~Grammar!At(f, n, ",")
    BY <1>11 DEF Grammar!At
  <2>1. Grammar!Skip(f, n) = n
    BY <1>2, <2>0 DEF Grammar!Skip
  <2>2. r[<<"members", n, 0>>] = Grammar!Members(f, r, n)
    BY <1>0, <1>1, ReadingIs
  <2>5. Grammar!At(f, n, "}") /\ ~Grammar!At(f, n, "dq")
    BY <1>0, <1>11 DEF Grammar!At
  <2>3. Grammar!Members(f, r, n) = Grammar!Yes(<<>>, n + 1)
    BY <1>2, <2>5 DEF Grammar!Members
  <2>4. Grammar!Member(f, r, b.s, v) = Grammar!With(name, v, Grammar!Yes(<<>>, n + 1))
    BY <1>4, <1>7, <1>10, <1>11, <2>1, <2>2, <2>3 DEF Grammar!Member
  <2> QED BY <1>5, <1>8, <1>9, <2>4, CloseEnd
<1>12. ASSUME f[n] = ",", NEW w, NEW x, NEW y, NEW z PROVE e = Cur(f, "object", n + 1, w, x, t, y, z)
  <2>1. Grammar!Skip(f, n) = n + 1
    BY <1>2, <1>12 DEF Grammar!Skip
  <2>2. r[<<"members", n + 1, 0>>] = Grammar!Members(f, r, n + 1)
    BY <1>0, <1>1, ReadingIs
  <2>4. Grammar!Member(f, r, b.s, v) = Grammar!With(name, v, Grammar!Members(f, r, n + 1))
    BY <1>4, <1>7, <1>10, <1>12, <2>1, <2>2 DEF Grammar!Member
  <2>5. Cur(f, "object", n + 1, w, x, t, y, z) = Close(t, Grammar!Members(f, r, n + 1))
    BY <1>1, CurIs
  <2> QED BY <1>5, <1>8, <2>4, <2>5
<1>13. ASSUME f[n] \notin {"}", ","} PROVE ~e.ok
  <2>1. Grammar!Member(f, r, b.s, v) = Grammar!No /\ ~Grammar!No.ok
    BY <1>10, <1>13, YesIs DEF Grammar!Member
  <2> QED BY <1>5, <2>1, CloseNo
<1> QED
  BY <1>11, <1>12, <1>13, Zenon DEF IsBrace, IsComma

Numeral(word) == Len(word) < NumberSize /\ \A k \in DOMAIN word : word[k] \in Num
\* A number or a word that the parser has read from n to m
Ends(f, n, m) == /\ n \in 1..Len(f) /\ m \in (n + 1)..(Len(f) + 1)
                 /\ \A k \in n..(m - 1) : ~EndsToken(f[k])
                 /\ m <= Len(f) => EndsToken(f[m])
IsToken(f, n, m, word, e) ==
    /\ f[n] \in Num /\ Numeral(word) => e = Grammar!Yes(Scalar("number", word), m)
    /\ f[n] \in Num /\ ~Numeral(word) => e = Grammar!No
    /\ f[n] \in Lit /\ word = <<"T">> => e = Grammar!Yes(Scalar("true", <<>>), m)
    /\ f[n] \in Lit /\ word = <<"N">> => e = Grammar!Yes(Nil, m)
    /\ f[n] \in Lit /\ word \notin {<<"T">>, <<"N">>} => e = Grammar!No
LEMMA TokenIs ==
    ASSUME NEW f \in Seq(Chars), NEW n, NEW m, Ends(f, n, m),
           NEW word, word = SubSeq(f, n, m - 1), NEW e, e = Grammar!WordAt(f, n)
    PROVE  IsToken(f, n, m, word, e)
<1> USE DEF Ends
<1>0. Len(f) \in Nat /\ n \in 1..(Len(f) + 1) /\ m \in n..(Len(f) + 1)
  OBVIOUS
<1>1. PICK ends : ends = {"sp", ",", "]", "}"}
  OBVIOUS
<1>2. \A k \in 1..Len(f) : f[k] \in Chars
  OBVIOUS
<1>3. \A k \in 1..Len(f) : EndsToken(f[k]) <=> f[k] \in ends
  <2>1. "NUL" \notin Chars
    BY DEF Chars, Dm1, Dm2, Num, Lit, Oth
  <2> QED BY <1>1, <1>2, <2>1 DEF EndsToken, Blanks, Dm2
<1>4. Grammar!FirstIn(f, n, ends) = m
  <2>1. ASSUME NEW k \in n..(m - 1) PROVE f[k] \notin ends
    <3>1. k \in 1..Len(f)
      BY <1>0
    <3> QED BY <1>3, <3>1
  <2>2. m <= Len(f) => f[m] \in ends
    BY <1>0, <1>3
  <2> QED BY <1>0, <2>1, <2>2, WordEnds
<1>5. PICK j : j = m - 1
  OBVIOUS
<1>6. j \in n..Len(f) /\ j - n + 1 = m - n /\ n <= j
  BY <1>0, <1>5
<1>7. \A k \in n..j : f[k] \in Chars
  BY <1>0, <1>2, <1>6
<1>8. Len(word) = m - n /\ (\A k \in 1..(m - n) : word[k] = f[n + k - 1]) /\ word \in Seq(Chars)
  BY <1>0, <1>5, <1>6, <1>7, SubSeqProperties
<1>9. DOMAIN word = 1..(m - n) /\ 1 \in 1..(m - n) /\ word[1] = f[n]
  <2>1. 1 \in 1..(m - n) /\ n + 1 - 1 = n
    BY <1>0
  <2>2. word[1] = f[n + 1 - 1]
    BY <1>8, <2>1
  <2> QED BY <1>8, <2>1, <2>2
<1>10. word # <<>>
  BY <1>9, NoKey
<1>11. Num = Grammar!Hex /\ Num \cap Lit = {}
  BY DEF Num, Grammar!Hex, Lit
<1>12. f[n] \in Num => word # <<"T">> /\ word # <<"N">>
  <2>1. f[n] \in Num => f[n] # "T" /\ f[n] # "N"
    BY DEF Num
  <2>2. word[1] = f[n] /\ <<"T">>[1] = "T" /\ <<"N">>[1] = "N"
    BY <1>9, OneIs, Zenon
  <2> QED BY <2>1, <2>2, Zenon
<1>13. f[n] \in Lit => ~Grammar!IsNumber(word)
  <2>1. f[n] \in Lit => f[n] \notin Grammar!Hex
    BY <1>11
  <2>2. 1 \in DOMAIN word /\ word[1] = f[n]
    BY <1>9
  <2> QED BY <2>1, <2>2, Zenon DEF Grammar!IsNumber
<1>16. Grammar!IsNumber(word) <=> Numeral(word)
  BY <1>10, <1>11, Zenon DEF Grammar!IsNumber, Numeral
<1>14. /\ word = <<"T">> => e = Grammar!Yes(Grammar!Value("true", <<>>), m)
       /\ word = <<"N">> => e = Grammar!Yes(Grammar!Nil, m)
       /\ word \notin {<<"T">>, <<"N">>} /\ Grammar!IsNumber(word)
          => e = Grammar!Yes(Grammar!Value("number", word), m)
       /\ word \notin {<<"T">>, <<"N">>} /\ ~Grammar!IsNumber(word)
          => e = Grammar!No
  BY <1>1, <1>4, WordIs, Zenon
<1>15. Scalar("number", word) = Grammar!Value("number", word) /\ Scalar("true", <<>>) = Grammar!Value("true", <<>>)
       /\ Nil = Grammar!Nil
  BY NilIs, Zenon
<1> QED
  BY <1>10, <1>11, <1>12, <1>13, <1>14, <1>15, <1>16, Zenon DEF IsToken
(***************************************************************************)
(* The invariant: what is on the Lua stack, and what the grammar reads     *)
(* from here on, together are what it reads from the start.                *)
(***************************************************************************)
\* How far the last level has come: what its state says of the characters before
Scan(f, s, n, p) ==
    /\ s = "value"  => n <= Len(f) /\ BeginsValue(f[n])
    /\ s = "string" => /\ Quoted(f, p)
                       /\ \A k \in p..Len(f) : k < n => ~Shut(f, p, k)
                       /\ n > p /\ n <= Len(f) => ~(f[n - 1] = "bs" /\ f[n] = "dq")
    /\ s \in {"number", "literal"} => /\ p < n /\ n <= Len(f) + 1
                                      /\ \A k \in p..(n - 1) : ~EndsToken(f[k])
    /\ s = "number"  => f[p] \in Num
    /\ s = "literal" => f[p] \in Lit
    /\ s = "delim" => n <= Len(f) + 1

CurAt(h) == Cur(text, st[index], i, key[index], ptr, lua[h[index] + 1], lua[h[index] + 2], lua[h[index] + 3])
UpAt(h, d, e) == Up(text, st[d], key[d], lua[h[d] + 1], lua[h[d] + 2], e)
\* o[d] is the outcome of level d.
Lower(h, o, m) == \A d \in 1..m : d < m => o[d] = UpAt(h, d, o[d + 1])
Levels(h, o) == index > 0 => o[index] = CurAt(h) /\ Lower(h, o, index)
Agrees(f, q, r) == Grammar!Decoded(f).ok = r.ok /\ (r.ok => Grammar!Decoded(f).values = q \o r.values)
\* q holds the values before the one that is being read.
Whole(h, q, o) ==
    /\ Listed(q)
    /\ index = 0 => q = lua /\ Agrees(text, q, Grammar!Values(text)[i])
    /\ index > 0 => /\ Len(q) = h[1] /\ \A n \in 1..Len(q) : lua[n] = q[n]
                    /\ Agrees(text, q, Follow(text, Grammar!Values(text), o[1]))
\* The counter that is not reset has counted in an array.
Keyed(h, q) == key[1] # 0 => \/ \E n \in 1..Len(q) : q[n].t = "array"
                             \/ index > 0 /\ st[1] \in Arrays
                             \/ index = 1 /\ st[1] = "delim" /\ lua[h[1] + 1].t = "array"
Tracks(h, q, o) == /\ Whole(h, q, o) /\ Levels(h, o) /\ Keyed(h, q)
                   /\ index > 0 => Scan(text, st[index], i, ptr)

LEMMA UpAny == ASSUME NEW f, NEW s, s # "object_value_2", NEW k, NEW a, NEW b, NEW d, NEW e
               PROVE  Up(f, s, k, a, b, e) = Up(f, s, k, a, d, e)
<1>1. CASE s = "array_value" \/ s = "object_key"
  BY <1>1, UpIs
<1>2. CASE s # "array_value" /\ s # "object_key"
  <2>1. Up(f, s, k, a, b, e) = Grammar!No
    BY <1>2 DEF Up
  <2>2. Up(f, s, k, a, d, e) = Grammar!No
    BY <1>2 DEF Up
  <2> QED BY <2>1, <2>2
<1> QED BY <1>1, <1>2

\* What a level waits with stays.
LEMMA LowerSame ==
    ASSUME Typed, NEW h, Fits(h), text' = text, Keeps(h[index]), NEW d \in 1..index, d < index,
           st'[d] = st[d], key'[d] = key[d], NEW e
    PROVE  UpAt(h, d, e)' = UpAt(h, d, e)
<1>1. index \in 1..MaxDepth /\ d \in 1..MaxDepth /\ h[d] \in Nat /\ h[index] \in Nat
  <2>1. index \in 0..MaxDepth /\ h \in [1..MaxDepth -> Nat]
    BY DEF Typed, Fits
  <2>2. index \in 1..MaxDepth /\ d \in 1..MaxDepth
    BY <2>1
  <2> QED BY <2>1, <2>2
<1>2. h[d] + Under(st[d]) <= h[index] /\ Waits(h, d)
  BY <1>1 DEF Fits
<1>3. lua'[h[d] + 1] = lua[h[d] + 1]
  <2>1. h[d] + 1 \in 1..h[index]
    BY <1>1, <1>2 DEF Under
  <2> QED BY <2>1 DEF Keeps
<1>4. CASE st[d] = "object_value_2"
  <2>1. Under(st[d]) = 2
    BY <1>4 DEF Under
  <2>2. h[d] + 2 \in 1..h[index]
    BY <1>1, <1>2, <2>1
  <2>3. lua'[h[d] + 2] = lua[h[d] + 2]
    BY <2>2 DEF Keeps
  <2> QED BY <1>3, <2>3 DEF UpAt
<1>5. CASE st[d] # "object_value_2"
  <2>1. UpAt(h, d, e)' = Up(text, st[d], key[d], lua[h[d] + 1], lua'[h[d] + 2], e)
    BY <1>3 DEF UpAt
  <2>2. UpAt(h, d, e) = Up(text, st[d], key[d], lua[h[d] + 1], lua[h[d] + 2], e)
    BY DEF UpAt
  <2> QED BY <1>5, <2>1, <2>2, UpAny
<1> QED BY <1>4, <1>5

LEMMA StayLevels ==
    ASSUME Typed, NEW h, Fits(h), index > 0, NEW o, Levels(h, o), UNCHANGED <<text, index>>, Keeps(h[index]),
           \A d \in 1..index : d < index => st'[d] = st[d] /\ key'[d] = key[d], CurAt(h)' = CurAt(h)
    PROVE  Levels(h, o)'
<1>1. ASSUME NEW d \in 1..index, d < index PROVE o[d] = UpAt(h, d, o[d + 1])'
  <2>1. PICK e : e = o[d + 1]
    OBVIOUS
  <2>2. UpAt(h, d, e)' = UpAt(h, d, e)
    BY <1>1, LowerSame
  <2>3. o[d] = UpAt(h, d, e)
    BY <1>1, <2>1 DEF Levels, Lower
  <2>4. o[d] = UpAt(h, d, e)'
    BY <2>2, <2>3
  <2> QED BY <2>1, <2>4 DEF UpAt
<1>2. o[index] = CurAt(h)' /\ index' = index
  BY DEF Levels
<1>3. Lower(h, o, index)'
  BY <1>1, <1>2 DEF Lower
<1> QED BY <1>2, <1>3 DEF Levels

--------------------------------------------------------------------------------
(***************************************************************************)
(* The steps that all actions are made of: a value is complete, a value    *)
(* begins, a level stays.                                                  *)
(***************************************************************************)

\* A value is complete: the level that waits for it goes on with it.
LEMMA LeaveLevels ==
    ASSUME Typed, NEW h, Fits(h), NEW o, Levels(h, o), text' = text, index > 1, index' = index - 1, st' = st,
           \A d \in 1..index : d < index => key'[d] = key[d], Keeps(h[index]),
           o[index] = Grammar!Yes(lua'[h[index] + 1], i')
    PROVE  Levels(h, o)'
<1>1. PICK m : m = index - 1
  OBVIOUS
<1>2. index \in 0..MaxDepth /\ h \in [1..MaxDepth -> Nat]
  BY DEF Typed, Fits
<1>3. m \in 1..index /\ m < index /\ m + 1 = index /\ index \in 1..MaxDepth /\ m \in 1..MaxDepth /\ index' = m
  BY <1>1, <1>2
<1>4. Waits(h, m)
  BY <1>3 DEF Fits
<1>5. PICK e : e = o[index]
  OBVIOUS
<1>6. PICK n : n = h[m]
  OBVIOUS
<1>7. n \in Nat /\ h[index] = n + Under(st[m]) /\ st[m] \in Waiting
  BY <1>2, <1>3, <1>4, <1>6 DEF Waits
<1>8. o[m] = UpAt(h, m, e)
  BY <1>3, <1>5 DEF Levels, Lower
<1>9. UpAt(h, m, e)' = UpAt(h, m, e)
  BY <1>3, LowerSame
<1>10. CurAt(h)' = UpAt(h, m, e)'
  <2>1. CurAt(h)' = Cur(text, st[m], i', key'[m], ptr', lua'[n + 1], lua'[n + 2], lua'[n + 3])
    BY <1>3, <1>6 DEF CurAt
  <2>2. UpAt(h, m, e)' = Up(text, st[m], key'[m], lua'[n + 1], lua'[n + 2], e)
    BY <1>6 DEF UpAt
  <2>3. CASE st[m] = "object_value_2"
    <3>1. h[index] + 1 = n + 3
      BY <1>7, <2>3 DEF Under
    <3>2. e = Grammar!Yes(lua'[n + 3], i')
      BY <1>5, <3>1
    <3> QED BY <2>1, <2>2, <2>3, <3>2, CurIs
  <2>4. CASE st[m] # "object_value_2"
    <3>1. h[index] + 1 = n + 2
      BY <1>7, <2>4 DEF Under
    <3>2. e = Grammar!Yes(lua'[n + 2], i')
      BY <1>5, <3>1
    <3>3. st[m] = "array_value" \/ st[m] = "object_key"
      BY <1>7, <2>4 DEF Waiting
    <3> QED BY <2>1, <2>2, <3>2, <3>3, CurIs
  <2> QED BY <2>3, <2>4
<1>11. ASSUME NEW d \in 1..m, d < m PROVE o[d] = UpAt(h, d, o[d + 1])'
  <2>1. d \in 1..index /\ d < index
    BY <1>3, <1>11
  <2>2. PICK x : x = o[d + 1]
    OBVIOUS
  <2>3. UpAt(h, d, x)' = UpAt(h, d, x)
    BY <2>1, LowerSame
  <2>4. o[d] = UpAt(h, d, x)
    BY <1>3, <2>1, <2>2 DEF Levels, Lower
  <2>5. o[d] = UpAt(h, d, x)'
    BY <2>3, <2>4
  <2> QED BY <2>2, <2>5 DEF UpAt
<1>12. Lower(h, o, m)'
  BY <1>11 DEF Lower
<1>13. o[m] = CurAt(h)'
  BY <1>8, <1>9, <1>10
<1>14. Lower(h, o, index)' /\ o[index'] = CurAt(h)'
  BY <1>3, <1>12, <1>13 DEF Lower
<1> QED BY <1>14 DEF Levels

\* A value begins on a level of its own: the last level waits for it.
Pushes(h, g, s, p, e, o, w) ==
    /\ index > 0 /\ index < MaxDepth /\ UNCHANGED <<text, key, lua>>
    /\ g = [h EXCEPT ![index'] = Len(lua)]
    /\ s \in Waiting /\ SetAndPush(s, p)
    /\ CurAt(h) = Up(text, s, key[index], lua[h[index] + 1], lua[h[index] + 2], e)
    /\ CurAt(g)' = e
    /\ w[index + 1] = e /\ \A d \in 1..index : w[d] = o[d]
LEMMA PushLevels ==
    ASSUME Typed, NEW h, Fits(h), NEW o, Levels(h, o), NEW g, NEW s, NEW p, NEW e, NEW w,
           Pushes(h, g, s, p, e, o, w)
    PROVE  Levels(g, w)'
<1>0. /\ index > 0 /\ index < MaxDepth /\ UNCHANGED <<text, key, lua>>
      /\ g = [h EXCEPT ![index'] = Len(lua)]
      /\ s \in Waiting /\ SetAndPush(s, p)
  BY DEF Pushes
<1>10. CurAt(h) = Up(text, s, key[index], lua[h[index] + 1], lua[h[index] + 2], e)
  BY DEF Pushes
<1>11. CurAt(g)' = e
  BY DEF Pushes
<1>12. w[index + 1] = e /\ \A d \in 1..index : w[d] = o[d]
  BY DEF Pushes
<1>1. index \in 1..MaxDepth /\ index + 1 \in 1..MaxDepth /\ index' = index + 1
      /\ st' = [st EXCEPT ![index] = s, ![index + 1] = p]
  BY <1>0 DEF Typed, SetAndPush
<1>2. h \in [1..MaxDepth -> Nat] /\ st \in [0..MaxDepth -> States]
  BY DEF Typed, Fits
<1>3. \A d \in 1..index : g[d] = h[d]
  BY <1>0, <1>1, <1>2
<1>4. st'[index] = s /\ \A d \in 1..index : d < index => st'[d] = st[d]
  <2>1. \A d \in 0..MaxDepth : st'[d] = IF d = index + 1 THEN p ELSE IF d = index THEN s ELSE st[d]
    BY <1>1, <1>2
  <2>2. index \in 0..MaxDepth /\ index # index + 1 /\ \A d \in 1..index : d \in 0..MaxDepth /\ d # index + 1
    BY <1>1
  <2>3. st'[index] = s
    BY <2>1, <2>2
  <2>4. ASSUME NEW d \in 1..index, d < index PROVE st'[d] = st[d]
    <3>1. d \in 0..MaxDepth /\ d # index + 1 /\ d # index
      BY <1>1, <2>4
    <3> QED BY <2>1, <3>1
  <2> QED BY <2>3, <2>4
<1>5. ASSUME NEW d \in 1..index PROVE w[d] = UpAt(g, d, w[d + 1])'
  <2>1. PICK x : x = w[d + 1]
    OBVIOUS
  <2>2. CASE d = index
    <3>1. x = e /\ w[d] = CurAt(h)
      BY <1>0, <1>1, <1>12, <2>1, <2>2 DEF Levels
    <3>2. UpAt(g, d, x)' = Up(text, s, key[index], lua[h[index] + 1], lua[h[index] + 2], x)
      BY <1>0, <1>3, <1>4, <2>2 DEF UpAt
    <3> QED BY <1>10, <2>1, <3>1, <3>2 DEF UpAt
  <2>3. CASE d # index
    <3>1. d < index /\ d + 1 \in 1..index
      BY <1>1, <2>3
    <3>2. w[d] = o[d] /\ x = o[d + 1]
      BY <1>12, <2>1, <3>1
    <3>3. o[d] = UpAt(h, d, x)
      BY <1>0, <3>1, <3>2 DEF Levels, Lower
    <3>4. UpAt(g, d, x)' = UpAt(h, d, x)
      BY <1>0, <1>3, <1>4, <3>1 DEF UpAt
    <3>5. w[d] = UpAt(g, d, x)'
      BY <3>2, <3>3, <3>4
    <3> QED BY <2>1, <3>5 DEF UpAt
  <2> QED BY <2>2, <2>3
<1>6. PICK m : m = index + 1
  OBVIOUS
<1>7. \A d \in 1..m : d < m => w[d] = UpAt(g, d, w[d + 1])'
  <2>1. \A d \in 1..m : d < m => d \in 1..index
    BY <1>1, <1>6
  <2> QED BY <1>5, <2>1
<1>8. Lower(g, w, m)'
  BY <1>7 DEF Lower
<1>9. index' = m /\ w[m] = CurAt(g)'
  BY <1>1, <1>6, <1>11, <1>12
<1> QED BY <1>8, <1>9 DEF Levels, Lower

LEMMA FollowNo == ASSUME NEW f, NEW v, NEW e, ~e.ok PROVE ~Follow(f, v, e).ok
<1>1. Follow(f, v, e) = [ok |-> FALSE, values |-> <<>>]
  BY DEF Follow
<1> QED BY <1>1

\* An error at the last level is one of the text.
LEMMA Refused ==
    ASSUME Typed, NEW h, Fits(h), index > 0, NEW q, NEW o, Whole(h, q, o), Levels(h, o), ~CurAt(h).ok
    PROVE  ~Grammar!Decoded(text).ok
<1>1. PICK m : m = index
  OBVIOUS
<1>2. m \in Nat /\ m > 0
  BY <1>1 DEF Typed
<1>3. ~o[m].ok /\ \A d \in 1..m : d < m => o[d] = UpAt(h, d, o[d + 1])
  BY <1>1 DEF Levels, Lower
<1> DEFINE S == {n \in Nat : \A d \in 1..m : d >= m - n => ~o[d].ok}
<1>4. 0 \in S
  BY <1>2, <1>3
<1>5. ASSUME NEW n \in Nat, n \in S PROVE n + 1 \in S
  <2> SUFFICES ASSUME NEW d \in 1..m, d >= m - (n + 1) PROVE ~o[d].ok
    OBVIOUS
  <2>1. CASE d = m
    BY <1>3, <2>1
  <2>2. CASE d # m
    <3>1. d < m /\ d + 1 \in 1..m /\ d + 1 >= m - n
      BY <1>2, <2>2
    <3>2. ~o[d + 1].ok
      BY <1>5, <3>1
    <3>3. o[d] = Up(text, st[d], key[d], lua[h[d] + 1], lua[h[d] + 2], o[d + 1])
      BY <1>3, <3>1 DEF UpAt
    <3> QED BY <3>2, <3>3, UpNo
  <2> QED BY <2>1, <2>2
<1>6. m \in S
  <2> HIDE DEF S
  <2> QED BY <1>2, <1>4, <1>5, SetInduction
<1>7. ~o[1].ok
  BY <1>2, <1>6
<1>8. ~Follow(text, Grammar!Values(text), o[1]).ok
  BY <1>7, FollowNo
<1>9. Agrees(text, q, Follow(text, Grammar!Values(text), o[1]))
  BY DEF Whole
<1> QED BY <1>8, <1>9 DEF Agrees

\* What was read before a value stays.
LEMMA WholeStays ==
    ASSUME Typed, NEW h, Fits(h), NEW q, NEW o, Whole(h, q, o), index > 0, index' > 0, text' = text, Keeps(h[index]),
           NEW g, g[1] = h[1], NEW w, w[1] = o[1]
    PROVE  Whole(g, q, w)'
<1>1. index \in 1..MaxDepth /\ h \in [1..MaxDepth -> Nat]
  BY DEF Typed, Fits
<1>2. h[1] <= h[index] /\ h[1] \in Nat /\ h[index] \in Nat
  <2>1. CASE index = 1
    BY <1>1, <2>1
  <2>2. CASE index # 1
    <3>1. 1 \in 1..index /\ index \in 1..index /\ 1 < index /\ h[1] \in Nat /\ h[index] \in Nat
      BY <1>1, <2>2
    <3>2. h[1] + Under(st[1]) <= h[index]
      BY <3>1 DEF Fits
    <3> QED BY <3>1, <3>2 DEF Under
  <2> QED BY <2>1, <2>2
<1>3. Len(q) = h[1] /\ \A n \in 1..Len(q) : lua[n] = q[n]
  BY DEF Whole
<1>4. \A n \in 1..Len(q) : lua'[n] = q[n]
  <2>1. \A n \in 1..Len(q) : n \in 1..h[index]
    BY <1>2, <1>3
  <2> QED BY <1>3, <2>1 DEF Keeps
<1>5. index' # 0
  OBVIOUS
<1> QED BY <1>3, <1>4, <1>5 DEF Whole

LEMMA StayTracks ==
    ASSUME Typed, NEW h, Fits(h), NEW q, NEW o, Tracks(h, q, o), index > 0, UNCHANGED <<text, index>>,
           Keeps(h[index]), \A d \in 1..index : d < index => st'[d] = st[d] /\ key'[d] = key[d],
           CurAt(h)' = CurAt(h), Scan(text, st[index], i, ptr)', Keyed(h, q)'
    PROVE  Tracks(h, q, o)'
<1>1. Levels(h, o)'
  BY StayLevels DEF Tracks
<1>2. Whole(h, q, o)'
  BY WholeStays DEF Tracks
<1> QED BY <1>1, <1>2 DEF Tracks

\* The level's table counts, and is an array's.
LEMMA KeyedStays ==
    ASSUME Typed, NEW h, Fits(h), NEW q, Keyed(h, q), index > 0, index' > 0, NEW g, g[1] = h[1],
           index > 1 => st'[1] = st[1] /\ key'[1] = key[1],
           index = 1 => /\ st[1] # "delim"
                        /\ key'[1] = key[1] \/ st[1] \in Arrays
                        /\ st[1] \in Arrays => \/ st'[1] \in Arrays
                                               \/ st'[1] = "delim" /\ index' = 1 /\ lua'[h[1] + 1].t = "array"
    PROVE  Keyed(g, q)'
<1>1. index \in Nat
  BY DEF Typed
<1>2. CASE index > 1
  BY <1>1, <1>2 DEF Keyed
<1>3. CASE index = 1
  BY <1>1, <1>3 DEF Keyed
<1> QED BY <1>1, <1>2, <1>3

\* A value is complete, at whatever level.
LEMMA LeaveTracks ==
    ASSUME Typed, NEW h, Fits(h), NEW q, NEW o, Tracks(h, q, o), index > 0, text' = text, Leave,
           \A d \in 1..index : d < index => key'[d] = key[d], Keeps(h[index]),
           CurAt(h) = Grammar!Yes(lua'[h[index] + 1], i'), i' <= Len(text) + 1,
           index = 1 => /\ st[1] # "delim"
                        /\ key'[1] = key[1] \/ st[1] \in Arrays
                        /\ st[1] \in Arrays => lua'[h[1] + 1].t = "array"
    PROVE  Tracks(h, q, o)'
<1>1. index \in 1..MaxDepth /\ st \in [0..MaxDepth -> States]
  BY DEF Typed
<1>2. CASE index > 1
  <2>1. index' = index - 1 /\ st' = st /\ index' > 0
    BY <1>1, <1>2 DEF Leave, Pop
  <2>2. Levels(h, o)'
    BY <1>2, <2>1, LeaveLevels DEF Tracks, Levels
  <2>3. Whole(h, q, o)'
    BY <2>1, WholeStays DEF Tracks
  <2>4. 1 \in 1..index
    BY <1>1
  <2>5. Keyed(h, q)'
    BY <1>1, <1>2, <2>1, <2>4, KeyedStays DEF Tracks
  <2>6. PICK m : m = index - 1
    OBVIOUS
  <2>7. Waits(h, m)
    BY <1>1, <1>2, <2>6 DEF Fits
  <2>8. st'[index'] \in Waiting
    BY <2>1, <2>6, <2>7 DEF Waits
  <2>9. Scan(text, st[index], i, ptr)'
    BY <2>8 DEF Scan, Waiting
  <2> QED BY <2>2, <2>3, <2>5, <2>9 DEF Tracks
<1>3. CASE index = 1
  <2>1. index' = 1 /\ st' = [st EXCEPT ![1] = "delim"]
    BY <1>3 DEF Leave, Set
  <2>2. st'[1] = "delim"
    BY <1>1, <1>3, <2>1
  <2>3. Keyed(h, q)'
    BY <1>3, <2>1, <2>2, KeyedStays DEF Tracks
  <2>4. CurAt(h)' = CurAt(h)
    <3>1. CurAt(h)' = Cur(text, "delim", i', key'[1], ptr', lua'[h[1] + 1], lua'[h[1] + 2], lua'[h[1] + 3])
      BY <2>1, <2>2 DEF CurAt
    <3> QED BY <1>3, <3>1, CurIs
  <2>5. Scan(text, st[index], i, ptr)'
    BY <2>1, <2>2 DEF Scan
  <2>6. \A d \in 1..index : d < index => st'[d] = st[d] /\ key'[d] = key[d]
    BY <1>3
  <2> QED BY <1>3, <2>1, <2>3, <2>4, <2>5, <2>6, StayTracks
<1> QED BY <1>1, <1>2, <1>3

LEMMA JoinAt ==
    ASSUME NEW q, Listed(q), NEW v, NEW r, Listed(r), NEW w, w = q \o (<<v>> \o r)
    PROVE  /\ Len(q) \in Nat /\ \A n \in 1..Len(q) : n \in DOMAIN w /\ w[n] = q[n]
           /\ Len(q) + 1 \in DOMAIN w /\ w[Len(q) + 1] = v
           /\ w = Append(q, v) \o r
<1> DEFINE T == {q[n] : n \in 1..Len(q)} \cup {r[n] : n \in 1..Len(r)} \cup {v}
<1>1. q \in Seq(T) /\ r \in Seq(T)
  BY SeqMonotonic DEF Listed
<1>2. v \in T
  OBVIOUS
<1> HIDE DEF T
<1>3. PICK x : x = <<v>>
  OBVIOUS
<1>4. x \in Seq(T) /\ Len(x) = 1 /\ x[1] = v
  BY <1>2, <1>3
<1>5. PICK y : y = x \o r
  OBVIOUS
<1>6. y \in Seq(T) /\ Len(y) = 1 + Len(r) /\ y[1] = v
  <2>1. y \in Seq(T) /\ Len(y) = 1 + Len(r)
    BY <1>1, <1>4, <1>5, ConcatProperties
  <2>2. 1 \in 1..(Len(x) + Len(r)) /\ 1 <= Len(x)
    <3>1. Len(r) \in Nat
      BY <1>1
    <3> QED BY <1>4, <3>1
  <2>3. y[1] = x[1]
    BY <1>1, <1>4, <1>5, <2>2, ConcatProperties
  <2> QED BY <1>4, <2>1, <2>3
<1>7. w = q \o y
  BY <1>3, <1>5
<1>8. w \in Seq(T) /\ Len(w) = Len(q) + Len(y) /\ Len(q) \in Nat /\ Len(r) \in Nat
  BY <1>1, <1>6, <1>7, ConcatProperties
<1>9. \A n \in 1..Len(q) : n \in DOMAIN w /\ w[n] = q[n]
  BY <1>1, <1>6, <1>7, <1>8, ConcatProperties
<1>10. Len(q) + 1 \in DOMAIN w /\ w[Len(q) + 1] = v
  <2>1. Len(q) + 1 \in 1..Len(w) /\ ~(Len(q) + 1 <= Len(q)) /\ (Len(q) + 1) - Len(q) = 1
    BY <1>6, <1>8
  <2>2. w[Len(q) + 1] = y[1]
    BY <1>1, <1>6, <1>7, <1>8, <2>1, ConcatProperties
  <2> QED BY <1>6, <1>8, <2>1, <2>2
<1>11. w = Append(q, v) \o r
  <2>1. q \o x = Append(q, v)
    <3>1. Append(q, v) = q \o <<v>>
      BY <1>1, <1>2, AppendIsConcat
    <3> QED BY <1>3, <3>1
  <2>2. w = (q \o x) \o r
    <3>1. (q \o x) \o r = q \o (x \o r)
      BY <1>1, <1>4, ConcatAssociative
    <3> QED BY <1>5, <1>7, <3>1, Zenon
  <2> QED BY <2>1, <2>2
<1> QED BY <1>8, <1>9, <1>10, <1>11

\* What a text gives from a value on, by where the value ends
LEMMA EitherOutcome == ASSUME NEW p \in BOOLEAN, NEW q, NEW r,
                              r = IF p THEN [ok |-> TRUE, values |-> q] ELSE [ok |-> FALSE, values |-> <<>>]
                       PROVE  (r.ok <=> p) /\ (r.ok => r.values = q) /\ r.ok \in BOOLEAN
  OBVIOUS
Goes(f, v, e) == e.ok /\ LET k == Grammar!NotBlank(f, e.next)
                         IN  (k > Len(f) \/ Grammar!At(f, k, ",")) /\ v[k + 1].ok
LEMMA FollowIs ==
    ASSUME NEW f, NEW v, NEW e
    PROVE  /\ Follow(f, v, e).ok <=> Goes(f, v, e)
           /\ Follow(f, v, e).ok => Follow(f, v, e).values = <<e.v>> \o v[Grammar!NotBlank(f, e.next) + 1].values
           /\ Follow(f, v, e).ok \in BOOLEAN
<1>1. PICK r : r = Follow(f, v, e)
  OBVIOUS
<1>2. PICK p : p = Goes(f, v, e)
  OBVIOUS
<1>3. PICK q : q = <<e.v>> \o v[Grammar!NotBlank(f, e.next) + 1].values
  OBVIOUS
<1>4. p \in BOOLEAN
  BY <1>2, Zenon DEF Goes
<1>5. r = IF p THEN [ok |-> TRUE, values |-> q] ELSE [ok |-> FALSE, values |-> <<>>]
  BY <1>1, <1>2, <1>3, Zenon DEF Follow, Goes
<1>6. (r.ok <=> p) /\ (r.ok => r.values = q) /\ r.ok \in BOOLEAN
  BY <1>4, <1>5, EitherOutcome, Zenon
<1> QED BY <1>1, <1>2, <1>3, <1>6, Zenon

\* Values from a place where one begins
LEMMA ValuesHere ==
    ASSUME NEW f \in Seq(Chars), NEW n \in 1..Len(f), f[n] # "sp", NEW v, v = Grammar!ValueAt(f, Grammar!Reading(f), n)
    PROVE  Grammar!Values(f)[n] = Follow(f, Grammar!Values(f), v)
<1>1. Len(f) \in Nat /\ n \in 1..(Len(f) + 2) /\ ~(n > Len(f))
  OBVIOUS
<1>2. Grammar!NotBlank(f, n) = n
  BY <1>1, HereIs
<1>3. Grammar!Values(f)[n] = ValuesStep(f, Grammar!Values(f), n)
  BY <1>1, ValuesUnfold
<1> QED BY <1>1, <1>2, <1>3 DEF ValuesStep

\* A second array at the top of a text: its elements have other numbers, so that
\* there is to be none.
LEMMA SecondArray ==
    ASSUME NEW f \in Seq(Chars), OneArray(f), NEW q, Listed(q), NEW v, NEW e, SameEnd(e, v),
           v.ok => v.v.t = "array" /\ v.next \in 1..(Len(f) + 1),
           \E n \in 1..Len(q) : q[n].t = "array",
           Agrees(f, q, Follow(f, Grammar!Values(f), v))
    PROVE  Agrees(f, q, Follow(f, Grammar!Values(f), e))
<1>0. Len(f) \in Nat
  OBVIOUS
<1>1. PICK vs : vs = Grammar!Values(f)
  OBVIOUS
<1>2. PICK k : k = Grammar!NotBlank(f, v.next)
  OBVIOUS
<1>3. PICK r : r = Follow(f, vs, v)
  OBVIOUS
<1>4. PICK s : s = Follow(f, vs, e)
  OBVIOUS
<1>5. r.ok => v.ok /\ r.values = <<v.v>> \o vs[k + 1].values
  BY <1>2, <1>3, FollowIs DEF Goes
<1>6. s.ok <=> r.ok
  <2>1. Goes(f, vs, e) <=> Goes(f, vs, v)
    BY Zenon DEF SameEnd, Goes
  <2> QED BY <1>3, <1>4, <2>1, FollowIs
<1>7. ~r.ok
  <2>1. SUFFICES ASSUME r.ok PROVE FALSE
    OBVIOUS
  <2>2. PICK w : w = Grammar!Decoded(f).values
    OBVIOUS
  <2>3. PICK rest : rest = vs[k + 1].values
    OBVIOUS
  <2>4. w = q \o (<<v.v>> \o rest)
    BY <1>1, <1>3, <1>5, <2>1, <2>2, <2>3 DEF Agrees
  <2>5. Listed(rest)
    <3>1. v.next \in 1..(Len(f) + 1)
      BY <1>5, <2>1
    <3>2. k \in 1..(Len(f) + 1)
      BY <1>0, <1>2, <3>1, NotBlankIs
    <3>3. k + 1 \in 1..(Len(f) + 2)
      BY <1>0, <3>2
    <3> QED BY <1>1, <2>3, <3>3, ValuesListed
  <2>6. /\ Len(q) \in Nat /\ \A n \in 1..Len(q) : n \in DOMAIN w /\ w[n] = q[n]
        /\ Len(q) + 1 \in DOMAIN w /\ w[Len(q) + 1] = v.v
    BY <2>4, <2>5, JoinAt
  <2>7. PICK n \in 1..Len(q) : q[n].t = "array"
    OBVIOUS
  <2>8. n \in DOMAIN w /\ w[n].t = "array" /\ Len(q) + 1 \in DOMAIN w /\ w[Len(q) + 1].t = "array"
    BY <1>5, <2>1, <2>6, <2>7
  <2>9. n = Len(q) + 1
    BY <2>2, <2>8 DEF OneArray
  <2> QED BY <2>6, <2>7, <2>9
<1>8. Agrees(f, q, r)
  BY <1>1, <1>3
<1>9. r.ok \in BOOLEAN /\ s.ok \in BOOLEAN
  BY <1>3, <1>4, FollowIs
<1>10. Agrees(f, q, s)
  BY <1>6, <1>7, <1>8, <1>9 DEF Agrees
<1> QED BY <1>1, <1>4, <1>10

--------------------------------------------------------------------------------
(***************************************************************************)
(* Values begin, on a level that waits for one and at the top of a text.   *)
(***************************************************************************)

Beginnings == {"array", "object", "string", "number", "literal"}
\* A value begins on the level that waits for it.
LEMMA EnterBelow ==
    ASSUME Typed, NEW h, Fits(h), NEW q, NEW o, Tracks(h, q, o), index > 0, st[index] = "value",
           NEW s \in Beginnings, Enter(s), text' = text, \A d \in 1..index : d < index => key'[d] = key[d],
           key'[1] \in {key[1], 0}, Keeps(Len(lua)), CurAt(h)' = Grammar!ValueAt(text, Grammar!Reading(text), i),
           Scan(text, st[index], i, ptr)'
    PROVE  Tracks(h, q, o)'
<1>1. index \in 1..MaxDepth /\ st \in [0..MaxDepth -> States] /\ index' = index /\ st' = [st EXCEPT ![index] = s]
  BY DEF Typed, Enter, Set
<1>2. \A d \in 1..index : d < index => st'[d] = st[d]
  BY <1>1
<1>3. CurAt(h) = Grammar!ValueAt(text, Grammar!Reading(text), i)
  BY CurIs DEF CurAt
<1>4. h[index] = Len(lua)
  <2>1. Len(lua) = h[index] + Above("value") /\ h[index] \in Nat
    BY <1>1 DEF Fits
  <2> QED BY <2>1 DEF Above
<1>5. Keyed(h, q)'
  <2>1. CASE key'[1] = 0
    BY <2>1 DEF Keyed
  <2>2. CASE key'[1] = key[1]
    <3>1. 1 \in 1..index /\ (index > 1 => st'[1] = st[1]) /\ (index = 1 => st[1] = "value")
      BY <1>1, <1>2
    <3> QED BY <1>1, <2>2, <3>1 DEF Keyed, Tracks, Arrays
  <2> QED BY <2>1, <2>2
<1> QED BY <1>1, <1>2, <1>3, <1>4, <1>5, StayTracks

\* A value begins at the top of a text.
LEMMA EnterTop ==
    ASSUME Typed, NEW h, Fits(h), NEW g, g = Grown(h), NEW q, NEW o, Tracks(h, q, o), OneArray(text), index = 0,
           i <= Len(text), text[i] # "sp", st[index] = "value", NEW s \in Beginnings, Enter(s),
           text' = text, key'[1] = key[1], Keeps(Len(lua)), Scan(text, st[index], i, ptr)',
           NEW v, v = Grammar!ValueAt(text, Grammar!Reading(text), i), NEW e, e = CurAt(g)',
           e = v \/ (/\ key[1] # 0 /\ SameEnd(e, v)
                     /\ v.ok => v.v.t = "array" /\ v.next \in 1..(Len(text) + 1))
    PROVE  \E w : Tracks(g, q, w)'
<1>1. index' = 1 /\ text \in Seq(Chars) /\ Listed(lua) /\ h \in [1..MaxDepth -> Nat] /\ i \in 1..(Len(text) + 2)
  BY TextsAssumption DEF Typed, Fits, Enter, SetAndPush
<1>2. Len(text) \in Nat /\ i \in 1..Len(text)
  BY <1>1
<1>3. g[1] = Len(lua)
  BY <1>1 DEF Grown
<1>4. q = lua /\ Agrees(text, q, Grammar!Values(text)[i])
  BY DEF Tracks, Whole
<1>5. Agrees(text, q, Follow(text, Grammar!Values(text), v))
  <2>1. Grammar!Values(text)[i] = Follow(text, Grammar!Values(text), v)
    BY <1>1, <1>2, ValuesHere
  <2> QED BY <1>4, <2>1
<1>6. key[1] # 0 => \E n \in 1..Len(q) : q[n].t = "array"
  BY DEF Tracks, Keyed
<1>7. Agrees(text, q, Follow(text, Grammar!Values(text), e))
  <2>1. CASE e = v
    BY <1>5, <2>1
  <2>2. CASE e # v
    BY <1>1, <1>4, <1>5, <1>6, <2>2, SecondArray
  <2> QED BY <2>1, <2>2
<1>8. PICK w : w = [d \in 1..MaxDepth |-> e]
  OBVIOUS
<1>9. w[1] = e
  BY <1>8
<1>10. Whole(g, q, w)'
  <2>1. Len(q) = g[1] /\ \A n \in 1..Len(q) : lua'[n] = q[n]
    BY <1>3, <1>4 DEF Keeps
  <2>2. Agrees(text, q, Follow(text, Grammar!Values(text), w[1]))'
    BY <1>7, <1>9 DEF Agrees
  <2> QED BY <1>1, <1>4, <2>1, <2>2 DEF Whole
<1>11. Levels(g, w)'
  <2>1. Lower(g, w, 1)'
    BY DEF Lower
  <2> QED BY <1>1, <1>9, <2>1 DEF Levels, Lower
<1>12. Keyed(g, q)'
  BY <1>6 DEF Keyed
<1> QED BY <1>10, <1>11, <1>12 DEF Tracks

--------------------------------------------------------------------------------
(***************************************************************************)
(* One action after the other, as they are in the model: blanks and        *)
(* tokens.                                                                 *)
(***************************************************************************)

\* Blanks are nothing to the grammar either.
LEMMA BlankTracks ==
    ASSUME Typed, NEW h, Fits(h), NEW q, NEW o, Tracks(h, q, o), Blank
    PROVE  Tracks(h, q, o)'
<1>1. /\ text \in Seq(Chars) /\ Len(text) \in Nat /\ i \in 1..(Len(text) + 1) /\ i' = i + 1
      /\ st[index] \in SkipsBlanks
  <2>1. text \in Seq(Chars) /\ i \in 1..(Len(text) + 2)
    BY TextsAssumption DEF Typed
  <2>2. Len(text) \in Nat
    BY <2>1
  <2> QED BY <2>1, <2>2 DEF Blank, In, Read
<1>2. i <= Len(text) => text[i] = "sp"
  <2>1. i <= Len(text) => text[i] \in Chars /\ Char(i) = text[i]
    BY <1>1 DEF Char
  <2>2. "NUL" \notin Chars
    BY DEF Chars, Dm1, Dm2, Num, Lit, Oth
  <2>3. Char(i) \in Blanks
    BY DEF Blank, Ch
  <2> QED BY <2>1, <2>2, <2>3 DEF Blanks
<1>3. Grammar!NotBlank(text, i + 1) = Grammar!NotBlank(text, i)
  BY <1>1, <1>2, NotBlankSame
<1>4. CASE index = 0
  <2>1. PICK vs : vs = Grammar!Values(text)
    OBVIOUS
  <2>2. i \in 1..(Len(text) + 2) /\ i + 1 \in 1..(Len(text) + 2)
    BY <1>1
  <2>3. vs[i] = ValuesStep(text, vs, i) /\ vs[i + 1] = ValuesStep(text, vs, i + 1)
    BY <1>1, <2>1, <2>2, ValuesUnfold
  <2>4. ValuesStep(text, vs, i + 1) = ValuesStep(text, vs, i)
    BY <1>3, Zenon DEF ValuesStep
  <2>5. vs[i'] = vs[i]
    BY <1>1, <2>3, <2>4, Zenon
  <2>6. UNCHANGED <<text, index, st, key, ptr, lua, status>>
    BY DEF Blank
  <2>7. Whole(h, q, o)'
    BY <1>4, <2>1, <2>5, <2>6 DEF Tracks, Whole, Agrees
  <2>8. Levels(h, o)' /\ Keyed(h, q)'
    BY <1>4, <2>6 DEF Tracks, Levels, Keyed
  <2> QED BY <1>4, <2>6, <2>7, <2>8 DEF Tracks
<1>5. CASE index > 0
  <2>1. UNCHANGED <<text, index, st, key, ptr, lua, status>>
    BY DEF Blank
  <2>2. st[index] # "value"
    <3>1. SUFFICES ASSUME st[index] = "value" PROVE FALSE
      OBVIOUS
    <3>2. i <= Len(text) /\ BeginsValue(text[i])
      BY <1>5, <3>1 DEF Tracks, Scan
    <3> QED BY <1>2, <3>2 DEF BeginsValue, Dm1, Num, Lit
  <2>3. st[index] \in Skipping
    BY <1>1, <2>2 DEF SkipsBlanks, Skipping
  <2>4. CurAt(h)' = CurAt(h)
    BY <1>1, <1>3, <2>1, <2>3, SameBlank DEF CurAt
  <2>5. Scan(text, st[index], i, ptr)'
    BY <2>1, <2>3 DEF Scan, Skipping
  <2>6. Keyed(h, q)' /\ Keeps(h[index])
    BY <2>1 DEF Tracks, Keyed, Keeps
  <2> QED BY <1>5, <2>1, <2>4, <2>5, <2>6, StayTracks
<1> QED BY <1>4, <1>5 DEF Typed

\* A token goes on.
LEMMA MoreTracks ==
    ASSUME Typed, NEW h, Fits(h), NEW q, NEW o, Tracks(h, q, o), index > 0,
           UNCHANGED <<text, index, st, key, ptr, lua, status>>,
           st[index] \in {"string", "number", "literal"}, Scan(text, st[index], i, ptr)'
    PROVE  Tracks(h, q, o)'
<1>1. CurAt(h)' = CurAt(h)
  BY CurIs DEF CurAt
<1>2. Keyed(h, q)' /\ Keeps(h[index])
  BY DEF Tracks, Keyed, Keeps
<1> QED BY <1>1, <1>2, StayTracks

\* A token is complete.
LEMMA PushValueTracks ==
    ASSUME Typed, NEW h, Fits(h), NEW q, NEW o, Tracks(h, q, o), index > 0, NEW s \in {"string", "number", "literal"},
           st[index] = s, NEW v, PushValue(v), CurAt(h) = Grammar!Yes(v, i'), i' <= Len(text) + 1
    PROVE  Tracks(h, q, o)'
<1>1. index \in 1..MaxDepth /\ Listed(lua) /\ h \in [1..MaxDepth -> Nat] /\ ptr # 0
  BY DEF Typed, Fits
<1>2. Len(lua) = h[index]
  <2>1. Len(lua) = h[index] + Above(s) /\ h[index] \in Nat
    BY <1>1 DEF Fits
  <2> QED BY <2>1 DEF Above
<1>3. lua' = Append(lua, v) /\ text' = text /\ key' = key /\ Leave
  BY <1>1 DEF PushValue
<1>4. lua'[h[index] + 1] = v /\ Keeps(h[index])
  BY <1>1, <1>2, <1>3, AppendIs DEF Keeps
<1>5. index = 1 => st[1] # "delim" /\ st[1] \notin Arrays
  BY DEF Arrays
<1> QED BY <1>3, <1>4, <1>5, LeaveTracks

Kept(h) == \E q, o : Tracks(h, q, o)
Refuses == status' = "error" /\ ~Grammar!Decoded(text).ok

LEMMA SameHeights == ASSUME Typed, NEW h, index' # index + 1 PROVE Grown(h) = h
  BY DEF Grown

\* Where a character is read, it is one of the text.
LEMMA CharIs ==
    ASSUME Typed, i <= Len(text) + 1
    PROVE  /\ text \in Seq(Chars) /\ Len(text) \in Nat /\ i \in 1..(Len(text) + 1)
           /\ i <= Len(text) => Ch = text[i] /\ text[i] \in Chars /\ text[i] # "NUL"
           /\ i > Len(text) => Ch = "NUL"
           /\ Ch # "NUL" => i \in 1..Len(text) /\ Ch = text[i]
<1>1. text \in Seq(Chars) /\ i \in 1..(Len(text) + 2)
  BY TextsAssumption DEF Typed
<1>2. Len(text) \in Nat /\ DOMAIN text = 1..Len(text)
  BY <1>1
<1>3. i \in 1..(Len(text) + 1)
  BY <1>1, <1>2
<1>4. "NUL" \notin Chars
  BY DEF Chars, Dm1, Dm2, Num, Lit, Oth
<1>5. i <= Len(text) => Ch = text[i] /\ text[i] \in Chars
  BY <1>1, <1>2, <1>3 DEF Ch, Char
<1>6. i > Len(text) => Ch = "NUL"
  BY <1>2, <1>3 DEF Ch, Char
<1> QED BY <1>1, <1>2, <1>3, <1>4, <1>5, <1>6

LEMMA StringTracks ==
    ASSUME Typed, NEW h, Fits(h), NEW q, NEW o, Tracks(h, q, o), String, ~SlashEnd(text), WholeCodes(text)
    PROVE  Tracks(h, q, o)' /\ index' # index + 1 /\ status' = "run"
<1>1. /\ index \in 1..MaxDepth /\ index > 0 /\ st[index] = "string" /\ status = "run"
      /\ i <= Len(text) + 1 /\ i \in 1..(Len(text) + 1)
  BY InLevel DEF String
<1>2. /\ text \in Seq(Chars) /\ Len(text) \in Nat
      /\ i <= Len(text) => Ch = text[i]
      /\ i > Len(text) => Ch = "NUL"
  BY <1>1, CharIs
<1>3. Char(i + 1) = "dq" => i + 1 <= Len(text) /\ text[i + 1] = "dq"
  BY <1>1, <1>2 DEF Char
<1>4. i < Len(text) /\ text[i + 1] = "dq" => Char(i + 1) = "dq"
  BY <1>1, <1>2 DEF Char
<1>5. ptr \in 1..i
  BY <1>1 DEF Fits
<1>6. /\ Quoted(text, ptr)
      /\ \A k \in ptr..Len(text) : k < i => ~Shut(text, ptr, k)
      /\ i > ptr /\ i <= Len(text) => ~(text[i - 1] = "bs" /\ text[i] = "dq")
  BY <1>1 DEF Tracks, Scan
<1>7. CASE Ch = "bs" /\ Char(i + 1) = "dq" /\ i' = i + 2 /\ UNCHANGED <<text, index, st, key, ptr, lua, status>>
  <2>1. i <= Len(text) /\ text[i] = "bs" /\ i + 1 <= Len(text) /\ text[i + 1] = "dq"
    BY <1>1, <1>2, <1>3, <1>7
  <2>2. ASSUME NEW k \in ptr..Len(text), k < i + 2 PROVE ~Shut(text, ptr, k)
    <3>1. k < i \/ k = i \/ k = i + 1
      BY <1>1, <1>5, <2>2
    <3>2. CASE k = i
      BY <2>1, <3>2 DEF Shut
    <3>3. CASE k = i + 1
      <4>1. k > ptr /\ k - 1 = i
        BY <1>1, <1>5, <3>3
      <4> QED BY <2>1, <4>1 DEF Shut
    <3> QED BY <1>6, <3>1, <3>2, <3>3
  <2>3. (i + 2) - 1 = i + 1 /\ text[(i + 2) - 1] # "bs"
    BY <1>1, <2>1
  <2>4. Scan(text, "string", i + 2, ptr)
    BY <1>6, <2>2, <2>3 DEF Scan
  <2>5. Scan(text, st[index], i, ptr)'
    BY <1>1, <1>7, <2>4
  <2> QED BY <1>1, <1>7, <2>5, MoreTracks
<1>8. CASE Ch # "dq" /\ ~(Ch = "bs" /\ Char(i + 1) = "dq") /\ Read /\ UNCHANGED <<text, index, st, key, ptr, lua, status>>
  <2>1. i' = i + 1 /\ (i <= Len(text) => text[i] # "dq") /\ (i < Len(text) => ~(text[i] = "bs" /\ text[i + 1] = "dq"))
    BY <1>1, <1>2, <1>4, <1>8 DEF Read
  <2>2. ASSUME NEW k \in ptr..Len(text), k < i + 1 PROVE ~Shut(text, ptr, k)
    <3>1. k < i \/ k = i
      BY <1>1, <1>5, <2>2
    <3> QED BY <1>6, <2>1, <3>1 DEF Shut
  <2>3. (i + 1) - 1 = i /\ (i + 1 <= Len(text) => i < Len(text))
    BY <1>1, <1>2
  <2>4. Scan(text, "string", i + 1, ptr)
    BY <1>6, <2>1, <2>2, <2>3 DEF Scan
  <2>5. Scan(text, st[index], i, ptr)'
    BY <1>1, <1>8, <2>1, <2>4
  <2> QED BY <1>1, <1>8, <2>5, MoreTracks
<1>9. CASE Ch = "dq" /\ PushValue(Scalar("string", IF ptr = 0 THEN <<>> ELSE Unescaped(i))) /\ Read
  <2>1. i \in 1..Len(text) /\ text[i] = "dq" /\ i' = i + 1
    BY <1>1, <1>2, <1>9 DEF Read
  <2>2. PICK u : u = Unescaped(i)
    OBVIOUS
  <2>3. ptr # 0 /\ ptr \in Nat \ {0} /\ i \in ptr..Len(text)
    BY <1>2, <1>5, <2>1
  <2>4. PushValue(Scalar("string", u))
    BY <1>9, <2>2, <2>3
  <2>5. Shut(text, ptr, i)
    BY <1>6, <2>1, <2>3 DEF Shut
  <2>6. \A k \in ptr..(i - 1) : ~Shut(text, ptr, k)
    BY <1>6, <2>1, <2>3
  <2>7. Grammar!StringAt(text, ptr - 1) = Grammar!Yes(Grammar!Value("string", u), i + 1)
    BY <1>2, <1>6, <2>2, <2>3, <2>5, <2>6, ShutString
  <2>8. CurAt(h) = Grammar!StringAt(text, ptr - 1)
    BY <1>1, CurIs DEF CurAt
  <2>9. CurAt(h) = Grammar!Yes(Scalar("string", u), i')
    BY <2>1, <2>7, <2>8, NilIs, Zenon
  <2>10. i' <= Len(text) + 1
    BY <1>2, <2>1
  <2>11. Tracks(h, q, o)'
    BY <1>1, <2>4, <2>9, <2>10, PushValueTracks
  <2> QED BY <1>1, <2>4, <2>11 DEF PushValue, Leave, Pop, Set
<1> QED BY <1>1, <1>7, <1>8, <1>9 DEF String

LEMMA WordTracks ==
    ASSUME Typed, NEW h, Fits(h), NEW q, NEW o, Tracks(h, q, o), NEW s \in {"number", "literal"},
           NEW legal \in BOOLEAN, NEW v, Word(s, legal, v),
           NEW e, e = Grammar!WordAt(text, ptr),
           EndsToken(Ch) /\ legal => e = Grammar!Yes(v, i), EndsToken(Ch) /\ ~legal => e = Grammar!No
    PROVE  /\ index' # index + 1
           /\ (Tracks(h, q, o)' /\ status' = "run") \/ Refuses
<1>1. /\ index \in 1..MaxDepth /\ index > 0 /\ st[index] = s /\ status = "run"
      /\ i <= Len(text) + 1 /\ i \in 1..(Len(text) + 1)
  BY InLevel DEF Word
<1>2. /\ text \in Seq(Chars) /\ Len(text) \in Nat
      /\ Ch # "NUL" => i \in 1..Len(text) /\ Ch = text[i]
  BY <1>1, CharIs
<1>3. CurAt(h) = e
  BY <1>1, CurIs DEF CurAt
<1>4. /\ ptr < i /\ \A k \in ptr..(i - 1) : ~EndsToken(text[k])
      /\ s = "number" => text[ptr] \in Num
      /\ s = "literal" => text[ptr] \in Lit
  BY <1>1 DEF Tracks, Scan
<1>5. ptr \in 1..i
  BY <1>1 DEF Fits
<1>6. CASE ~EndsToken(Ch) /\ Read /\ UNCHANGED <<text, index, st, key, ptr, lua, status>>
  <2>1. i \in 1..Len(text) /\ Ch = text[i] /\ i' = i + 1
    BY <1>2, <1>6 DEF EndsToken, Blanks, Read
  <2>2. ptr < i + 1 /\ i + 1 <= Len(text) + 1
    BY <1>2, <1>4, <1>5, <2>1
  <2>3. ASSUME NEW k \in ptr..((i + 1) - 1) PROVE ~EndsToken(text[k])
    <3>1. k \in ptr..(i - 1) \/ k = i
      BY <1>5, <2>1
    <3> QED BY <1>4, <1>6, <2>1, <3>1
  <2>4. Scan(text, s, i + 1, ptr)
    BY <1>4, <2>2, <2>3 DEF Scan
  <2>5. Scan(text, st[index], i, ptr)'
    BY <1>1, <1>6, <2>1, <2>4
  <2>6. Tracks(h, q, o)'
    BY <1>1, <1>6, <2>5, MoreTracks
  <2> QED BY <1>1, <1>6, <2>6
<1>7. CASE EndsToken(Ch) /\ legal /\ PushValue(v) /\ Reread
  <2>1. CurAt(h) = Grammar!Yes(v, i') /\ i' <= Len(text) + 1
    BY <1>1, <1>3, <1>7 DEF Reread
  <2>2. Tracks(h, q, o)'
    BY <1>1, <1>7, <2>1, PushValueTracks
  <2> QED BY <1>1, <1>7, <2>2 DEF PushValue, Leave, Pop, Set
<1>8. CASE EndsToken(Ch) /\ ~legal /\ Error
  <2>1. ~CurAt(h).ok
    BY <1>3, <1>8, YesIs
  <2>2. ~Grammar!Decoded(text).ok
    BY <1>1, <2>1, Refused DEF Tracks
  <2> QED BY <1>1, <1>8, <2>2 DEF Error, Refuses
<1> QED BY <1>6, <1>7, <1>8 DEF Word

\* What Number and Literal take for a token is what the grammar reads there.
LEMMA TokenAt ==
    ASSUME Typed, NEW h, Fits(h), NEW q, NEW o, Tracks(h, q, o), NEW s \in {"number", "literal"}, In(s),
           EndsToken(Ch), NEW e, e = Grammar!WordAt(text, ptr)
    PROVE  /\ s = "number" /\ Numeral(Token) => e = Grammar!Yes(Scalar("number", Token), i)
           /\ s = "number" /\ ~Numeral(Token) => e = Grammar!No
           /\ s = "literal" /\ Token = <<"T">> => e = Grammar!Yes(Scalar("true", <<>>), i)
           /\ s = "literal" /\ Token = <<"N">> => e = Grammar!Yes(Nil, i)
           /\ s = "literal" /\ Token \notin {<<"T">>, <<"N">>} => e = Grammar!No
<1>1. /\ index \in 1..MaxDepth /\ index > 0 /\ st[index] = s
      /\ i <= Len(text) + 1 /\ i \in 1..(Len(text) + 1)
  BY InLevel
<1>2. /\ text \in Seq(Chars) /\ Len(text) \in Nat
      /\ i <= Len(text) => Ch = text[i]
  BY <1>1, CharIs
<1>3. /\ ptr < i /\ \A k \in ptr..(i - 1) : ~EndsToken(text[k])
      /\ s = "number" => text[ptr] \in Num
      /\ s = "literal" => text[ptr] \in Lit
  BY <1>1 DEF Tracks, Scan
<1>4. ptr \in 1..i
  BY <1>1 DEF Fits
<1>5. PICK word : word = SubSeq(text, ptr, i - 1)
  OBVIOUS
<1>6. Token = word
  <2>1. ptr # 0
    BY <1>4
  <2> QED BY <1>5, <2>1, Zenon DEF Token
<1>7. ptr \in 1..Len(text) /\ i \in (ptr + 1)..(Len(text) + 1) /\ (i <= Len(text) => EndsToken(text[i]))
  BY <1>1, <1>2, <1>3, <1>4
<1>9. /\ text \in Seq(Chars) /\ \A k \in ptr..(i - 1) : ~EndsToken(text[k])
  BY <1>2, <1>3
<1>8. IsToken(text, ptr, i, word, e)
  <2>1. Ends(text, ptr, i)
    BY <1>7, <1>9 DEF Ends
  <2> QED BY <1>5, <1>9, <2>1, TokenIs
<1> QED BY <1>3, <1>6, <1>8, Zenon DEF IsToken

LEMMA NumberTracks ==
    ASSUME Typed, NEW h, Fits(h), NEW q, NEW o, Tracks(h, q, o), Number
    PROVE  /\ index' # index + 1
           /\ (Tracks(h, q, o)' /\ status' = "run") \/ Refuses
<1>1. PICK legal : legal = Numeral(Token)
  OBVIOUS
<1>2. PICK v : v = Scalar("number", Token)
  OBVIOUS
<1>3. legal \in BOOLEAN
  BY <1>1, Zenon DEF Numeral
<1>4. Word("number", legal, v)
  BY <1>1, <1>2, Zenon DEF Number, Numeral
<1>5. PICK e : e = Grammar!WordAt(text, ptr)
  OBVIOUS
<1>6. In("number")
  BY DEF Number, Word
<1>7. EndsToken(Ch) => /\ legal => e = Grammar!Yes(v, i)
                       /\ ~legal => e = Grammar!No
  BY <1>1, <1>2, <1>5, <1>6, TokenAt
<1> QED BY <1>3, <1>4, <1>5, <1>7, WordTracks

LEMMA LiteralTracks ==
    ASSUME Typed, NEW h, Fits(h), NEW q, NEW o, Tracks(h, q, o), Literal
    PROVE  /\ index' # index + 1
           /\ (Tracks(h, q, o)' /\ status' = "run") \/ Refuses
<1>1. PICK legal : legal = (Token \in {<<"T">>, <<"N">>})
  OBVIOUS
<1>2. PICK v : v = IF Token = <<"N">> THEN Nil ELSE Scalar("true", <<>>)
  OBVIOUS
<1>3. legal \in BOOLEAN
  BY <1>1
<1>4. Word("literal", legal, v)
  BY <1>1, <1>2, Zenon DEF Literal
<1>5. PICK e : e = Grammar!WordAt(text, ptr)
  OBVIOUS
<1>6. In("literal")
  BY DEF Literal, Word
<1>7. <<"T">> # <<"N">>
  OBVIOUS
<1>8. EndsToken(Ch) => /\ Token = <<"T">> => e = Grammar!Yes(Scalar("true", <<>>), i)
                       /\ Token = <<"N">> => e = Grammar!Yes(Nil, i)
                       /\ Token \notin {<<"T">>, <<"N">>} => e = Grammar!No
  BY <1>5, <1>6, TokenAt
<1>9. EndsToken(Ch) => /\ legal => e = Grammar!Yes(v, i)
                       /\ ~legal => e = Grammar!No
  BY <1>1, <1>2, <1>7, <1>8, Zenon
<1> QED BY <1>3, <1>4, <1>5, <1>9, WordTracks

--------------------------------------------------------------------------------
(***************************************************************************)
(* After a value at the top, and before the next one.                      *)
(***************************************************************************)

LEMMA AppendEqual ==
    ASSUME NEW p, Listed(p), NEW q, Listed(q), Len(p) = Len(q) + 1, \A n \in 1..Len(q) : p[n] = q[n],
           NEW v, v = p[Len(q) + 1]
    PROVE  p = Append(q, v)
<1>1. PICK a : a = Append(q, v)
  OBVIOUS
<1>2. Listed(a) /\ Len(q) \in Nat /\ Len(a) = Len(q) + 1 /\ (\A n \in 1..Len(q) : a[n] = q[n]) /\ a[Len(q) + 1] = v
  BY <1>1, AppendIs
<1> DEFINE T == {p[n] : n \in 1..Len(p)} \cup {a[n] : n \in 1..Len(a)}
<1>3. p \in Seq(T) /\ a \in Seq(T)
  BY <1>2, SeqMonotonic DEF Listed
<1> HIDE DEF T
<1>4. \A n \in 1..Len(p) : p[n] = a[n]
  <2> SUFFICES ASSUME NEW n \in 1..Len(p) PROVE p[n] = a[n]
    OBVIOUS
  <2>1. n \in 1..Len(q) \/ n = Len(q) + 1
    BY <1>2
  <2> QED BY <1>2, <2>1
<1> QED BY <1>1, <1>2, <1>3, <1>4, SeqEqual

\* After the last character of a text there are no more values.
LEMMA ValuesEnd ==
    ASSUME NEW f \in Seq(Chars), NEW vs, vs = Grammar!Values(f), NEW n \in (Len(f) + 1)..(Len(f) + 2)
    PROVE  vs[n].ok /\ vs[n].values = <<>>
<1>1. Len(f) \in Nat
  OBVIOUS
<1>2. n \in 1..(Len(f) + 2)
  BY <1>1
<1>3. vs[n] = ValuesStep(f, vs, n)
  BY <1>2, ValuesUnfold
<1>4. PICK j : j = Grammar!NotBlank(f, n)
  OBVIOUS
<1>5. j > Len(f)
  <2>1. j \in 1..(Len(f) + 1) /\ (j < n => j = Len(f) + 1)
    BY <1>1, <1>2, <1>4, NotBlankIs
  <2> QED BY <1>1, <2>1
<1>6. ValuesStep(f, vs, n) = [ok |-> TRUE, values |-> <<>>]
  BY <1>4, <1>5, Zenon DEF ValuesStep
<1> QED BY <1>3, <1>6

\* Where no value begins, there are none.
LEMMA NoValues ==
    ASSUME NEW f \in Seq(Chars), NEW vs, vs = Grammar!Values(f), NEW n \in 1..Len(f), f[n] # "sp", ~BeginsValue(f[n])
    PROVE  ~vs[n].ok
<1>1. Len(f) \in Nat /\ n \in 1..(Len(f) + 1)
  OBVIOUS
<1>2. PICK v : v = Grammar!ValueAt(f, Grammar!Reading(f), n)
  OBVIOUS
<1>3. v = Grammar!No
  <2>1. PICK read : read = Grammar!Reading(f)
    OBVIOUS
  <2>2. v = Grammar!ValueAt(f, read, n)
    BY <1>2, <2>1
  <2> QED BY <1>1, <2>1, <2>2, ValueIs, Zenon
<1>4. ~v.ok
  BY <1>3, YesIs
<1>5. vs[n] = Follow(f, vs, v)
  BY <1>2, ValuesHere
<1> QED BY <1>4, <1>5, FollowNo

\* What follows a value at the top: the end, a comma, or nothing that may.
GoesOn(f, vs, n, v, r) ==
    /\ n > Len(f) \/ IsComma(f[n]) => (r.ok <=> vs[n + 1].ok) /\ (r.ok => r.values = <<v>> \o vs[n + 1].values)
    /\ ~(n > Len(f) \/ IsComma(f[n])) => ~r.ok
LEMMA FollowYes ==
    ASSUME NEW f \in Seq(Chars), NEW vs, vs = Grammar!Values(f), NEW n \in 1..(Len(f) + 1), n <= Len(f) => f[n] # "sp",
           NEW v, NEW e, e = Grammar!Yes(v, n), NEW r, r = Follow(f, vs, e)
    PROVE  GoesOn(f, vs, n, v, r)
<1>1. Len(f) \in Nat
  OBVIOUS
<1>2. e.ok /\ e.v = v /\ e.next = n
  BY YesIs
<1>3. Grammar!NotBlank(f, n) = n
  BY <1>1, NotBlankHere
<1>4. (n > Len(f) \/ Grammar!At(f, n, ",")) <=> (n > Len(f) \/ IsComma(f[n]))
  <2>1. Grammar!At(f, n, ",") <=> n <= Len(f) /\ IsComma(f[n])
    BY Zenon DEF Grammar!At, IsComma
  <2>2. n <= Len(f) <=> ~(n > Len(f))
    BY <1>1
  <2> QED BY <2>1, <2>2, Zenon
<1>5. Goes(f, vs, e) <=> (n > Len(f) \/ IsComma(f[n])) /\ vs[n + 1].ok
  BY <1>2, <1>3, <1>4, Zenon DEF Goes
<1>6. vs[n + 1].ok \in BOOLEAN
  <2>1. n + 1 \in 1..(Len(f) + 2)
    BY <1>1
  <2> QED BY <2>1, ValuesListed
<1>7. (r.ok <=> Goes(f, vs, e)) /\ r.ok \in BOOLEAN /\ (r.ok => r.values = <<v>> \o vs[n + 1].values)
  BY <1>2, <1>3, FollowIs
<1> QED BY <1>5, <1>6, <1>7 DEF GoesOn

\* What is on the Lua stack after a value at the top
LEMMA AtDelim ==
    ASSUME Typed, NEW h, Fits(h), NEW q, NEW o, Tracks(h, q, o), In("delim"),
           NEW v, v = lua[h[1] + 1]
    PROVE  /\ index = 1 /\ status = "run" /\ text \in Seq(Chars) /\ i \in 1..(Len(text) + 1) /\ Len(text) \in Nat
           /\ Listed(q) /\ Listed(lua) /\ Len(q) = h[1] /\ lua = Append(q, v) /\ Len(q) \in Nat /\ Len(lua) = Len(q) + 1
           /\ Agrees(text, q, Follow(text, Grammar!Values(text), Grammar!Yes(v, i)))
           /\ key[1] # 0 => \E n \in 1..Len(lua) : lua[n].t = "array"
           /\ st \in [0..MaxDepth -> States] /\ st[0] = "value"
<1>1. /\ index \in 1..MaxDepth /\ index > 0 /\ st[index] = "delim" /\ status = "run"
      /\ i <= Len(text) + 1 /\ i \in 1..(Len(text) + 1) /\ Len(lua) = h[index] + Above("delim")
  BY InLevel
<1>2. index = 1 /\ st[0] = "value"
  BY <1>1 DEF Fits
<1>3. text \in Seq(Chars) /\ Len(text) \in Nat
  BY <1>1, CharIs
<1>4. Listed(q) /\ Len(q) = h[1] /\ \A n \in 1..Len(q) : lua[n] = q[n]
  BY <1>2 DEF Tracks, Whole
<1>5. Listed(lua) /\ Len(lua) = Len(q) + 1
  BY <1>1, <1>2, <1>4 DEF Typed, Above
<1>6. lua = Append(q, v)
  BY <1>4, <1>5, AppendEqual
<1>7. Len(q) \in Nat
  BY <1>4, AppendIs
<1>8. o[1] = CurAt(h)
  BY <1>2 DEF Tracks, Levels
<1>9. CurAt(h) = Grammar!Yes(v, i)
  BY <1>1, <1>2, CurIs DEF CurAt
<1>10. Agrees(text, q, Follow(text, Grammar!Values(text), Grammar!Yes(v, i)))
  BY <1>2, <1>8, <1>9 DEF Tracks, Whole
<1>11. key[1] # 0 => \E n \in 1..Len(lua) : lua[n].t = "array"
  <2>1. SUFFICES ASSUME key[1] # 0 PROVE \E n \in 1..Len(lua) : lua[n].t = "array"
    OBVIOUS
  <2>2. (\E n \in 1..Len(q) : q[n].t = "array") \/ lua[h[1] + 1].t = "array"
    BY <1>1, <1>2, <2>1 DEF Tracks, Keyed, Arrays
  <2>3. CASE \E n \in 1..Len(q) : q[n].t = "array"
    <3>1. PICK n \in 1..Len(q) : q[n].t = "array"
      BY <2>3
    <3>2. n \in 1..Len(lua) /\ lua[n].t = "array"
      BY <1>4, <1>5, <1>7, <3>1
    <3> QED BY <3>2
  <2>4. CASE lua[h[1] + 1].t = "array"
    <3>1. h[1] + 1 \in 1..Len(lua)
      BY <1>4, <1>5, <1>7
    <3> QED BY <2>4, <3>1
  <2> QED BY <2>2, <2>3, <2>4
<1> QED BY <1>1, <1>2, <1>3, <1>4, <1>5, <1>6, <1>7, <1>10, <1>11 DEF Typed

\* Back at the top of a text
LEMMA TopTracks ==
    ASSUME Listed(lua'), index' = 0, NEW h, NEW o, text' = text, NEW p, p = lua',
           Agrees(text, p, Grammar!Values(text)[i']),
           key'[1] # 0 => \E n \in 1..Len(lua') : lua'[n].t = "array"
    PROVE  Tracks(h, p, o)'
<1>1. Agrees(text, p, Grammar!Values(text)[i])'
  BY DEF Agrees
<1>2. Whole(h, p, o)'
  BY <1>1 DEF Whole
<1>3. Levels(h, o)' /\ Keyed(h, p)'
  BY DEF Levels, Keyed
<1> QED BY <1>2, <1>3 DEF Tracks

LEMMA DelimTracks ==
    ASSUME Typed, NEW h, Fits(h), NEW q, NEW o, Tracks(h, q, o), Delim
    PROVE  /\ index' # index + 1
           /\ (Kept(h)' /\ status' = "run") \/ Refuses
<1>1. PICK v : v = lua[h[1] + 1]
  OBVIOUS
<1>2. PICK vs : vs = Grammar!Values(text)
  OBVIOUS
<1>3. PICK m : m = i
  OBVIOUS
<1>4. /\ index = 1 /\ status = "run" /\ text \in Seq(Chars) /\ m \in 1..(Len(text) + 1) /\ Len(text) \in Nat
      /\ Listed(q) /\ Listed(lua) /\ Len(q) = h[1] /\ lua = Append(q, v) /\ Len(q) \in Nat /\ Len(lua) = Len(q) + 1
      /\ Agrees(text, q, Follow(text, vs, Grammar!Yes(v, m)))
      /\ key[1] # 0 => \E k \in 1..Len(lua) : lua[k].t = "array"
      /\ st \in [0..MaxDepth -> States] /\ st[0] = "value"
  BY <1>1, <1>2, <1>3, AtDelim DEF Delim
<1>14. index = 1 /\ status = "run"
  BY <1>4
<1>15. text \in Seq(Chars) /\ m \in 1..(Len(text) + 1) /\ Len(text) \in Nat
  BY <1>4
<1>5. PICK r : r = Follow(text, vs, Grammar!Yes(v, m))
  OBVIOUS
<1>6. /\ m <= Len(text) => Ch = text[m] /\ text[m] \in Chars /\ text[m] # "NUL"
      /\ m > Len(text) => Ch = "NUL"
  BY <1>3, <1>4, CharIs
<1>7. UNCHANGED <<text, key, ptr, lua>>
  BY DEF Delim
<1>8. Ch # "sp" => GoesOn(text, vs, m, v, r)
  <2> SUFFICES ASSUME Ch # "sp" PROVE GoesOn(text, vs, m, v, r)
    OBVIOUS
  <2>1. m <= Len(text) => text[m] # "sp"
    BY <1>6
  <2>2. PICK e : e = Grammar!Yes(v, m)
    OBVIOUS
  <2>3. r = Follow(text, vs, e)
    BY <1>5, <2>2
  <2> QED BY <1>2, <1>15, <2>1, <2>2, <2>3, FollowYes
<1>9. \A k \in 1..(Len(text) + 2) : vs[k].ok \in BOOLEAN /\ Listed(vs[k].values)
  BY <1>2, <1>4, ValuesListed
<1>10. CASE Ch = "," /\ Pop(1) /\ Read /\ UNCHANGED status
  <2>14. IsComma(Ch) /\ Ch # "NUL" /\ Ch # "sp" /\ Pop(1) /\ Read /\ UNCHANGED status
    BY <1>10, Zenon DEF IsComma
  <2>1. m <= Len(text) /\ IsComma(text[m]) /\ i' = m + 1
    BY <1>3, <1>6, <1>15, <2>14 DEF Read
  <2>2. index' = 0 /\ st' = st
    BY <1>14, <2>14 DEF Pop
  <2>3. m + 1 \in 1..(Len(text) + 2)
    BY <1>4
  <2>4. (r.ok <=> vs[m + 1].ok) /\ (r.ok => r.values = <<v>> \o vs[m + 1].values)
    BY <1>8, <2>1, <2>14 DEF GoesOn
  <2>12. r.ok \in BOOLEAN /\ vs[m + 1].ok \in BOOLEAN
    BY <1>5, <1>9, <2>3, FollowIs
  <2>5. PICK rest : rest = vs[m + 1].values
    OBVIOUS
  <2>6. Listed(rest)
    BY <1>9, <2>3, <2>5
  <2>7. q \o (<<v>> \o rest) = lua \o rest
    BY <1>4, <2>6, JoinAt
  <2>8. Agrees(text, lua, vs[m + 1])
    BY <1>4, <1>5, <2>4, <2>5, <2>7, <2>12 DEF Agrees
  <2>9. PICK p : p = lua'
    OBVIOUS
  <2>10. Agrees(text, p, Grammar!Values(text)[i'])
    BY <1>2, <1>7, <2>1, <2>8, <2>9
  <2>11. Tracks(h, p, o)'
    BY <1>4, <1>7, <2>2, <2>9, <2>10, TopTracks
  <2> QED BY <1>14, <2>2, <2>11, <2>14 DEF Kept
<1>11. CASE Ch \in {"]", "}", "NUL"} /\ Pop(1) /\ Reread /\ UNCHANGED status
  <2>14. Pop(1) /\ Reread /\ status' = status
    BY <1>11
  <2>15. \A c \in {"]", "}"} : ~BeginsValue(c) /\ ~IsComma(c)
    BY Zenon DEF BeginsValue, Dm1, Num, Lit, IsComma
  <2>1. i' = m /\ Ch # "sp" /\ (m <= Len(text) => text[m] \in {"]", "}"})
    BY <1>3, <1>6, <1>11 DEF Reread
  <2>2. index' = 0 /\ st' = st
    BY <1>14, <2>14 DEF Pop
  <2>3. Agrees(text, lua, vs[m])
    <3>1. CASE m > Len(text)
      <4>1. m \in (Len(text) + 1)..(Len(text) + 2) /\ m + 1 \in (Len(text) + 1)..(Len(text) + 2)
        BY <1>4, <3>1
      <4>2. vs[m].ok /\ vs[m].values = <<>> /\ vs[m + 1].ok /\ vs[m + 1].values = <<>>
        BY <1>2, <1>4, <4>1, ValuesEnd
      <4>3. (r.ok <=> vs[m + 1].ok) /\ (r.ok => r.values = <<v>> \o <<>>)
        BY <1>8, <2>1, <3>1, <4>2 DEF GoesOn
      <4>4. q \o (<<v>> \o <<>>) = lua \o <<>>
        BY <1>4, EmptyListed, JoinAt
      <4>5. m \in 1..(Len(text) + 2) /\ m + 1 \in 1..(Len(text) + 2)
        BY <1>4
      <4>6. vs[m].ok = TRUE /\ vs[m + 1].ok = TRUE
        BY <1>9, <4>2, <4>5
      <4>7. r.ok = TRUE
        BY <1>5, <4>2, <4>3, FollowIs
      <4> QED BY <1>4, <1>5, <4>2, <4>3, <4>4, <4>6, <4>7 DEF Agrees
    <3>2. CASE m <= Len(text)
      <4>1. m \in 1..Len(text) /\ text[m] # "sp" /\ ~BeginsValue(text[m]) /\ ~IsComma(text[m])
        <5>1. m \in 1..Len(text)
          BY <1>15, <3>2
        <5>2. text[m] \in {"]", "}"}
          BY <2>1, <3>2
        <5>3. ~BeginsValue(text[m]) /\ ~IsComma(text[m])
          BY <2>15, <5>2, Zenon
        <5>4. text[m] # "sp"
          BY <5>2
        <5> QED BY <5>1, <5>3, <5>4
      <4>2. ~vs[m].ok
        BY <1>2, <1>4, <4>1, NoValues
      <4>9. ~(m > Len(text))
        BY <1>15, <4>1
      <4>3. ~r.ok
        BY <1>8, <2>1, <4>1, <4>9, Zenon DEF GoesOn
      <4>4. m \in 1..(Len(text) + 2)
        BY <1>4
      <4>5. vs[m].ok = FALSE
        BY <1>9, <4>2, <4>4
      <4>6. r.ok = FALSE
        BY <1>5, <4>3, FollowIs
      <4> QED BY <1>4, <1>5, <4>5, <4>6 DEF Agrees
    <3> QED BY <1>4, <3>1, <3>2
  <2>9. PICK p : p = lua'
    OBVIOUS
  <2>10. Agrees(text, p, Grammar!Values(text)[i'])
    BY <1>2, <1>7, <2>1, <2>3, <2>9
  <2>11. Tracks(h, p, o)'
    BY <1>4, <1>7, <2>2, <2>9, <2>10, TopTracks
  <2> QED BY <1>14, <2>2, <2>11, <2>14 DEF Kept
<1>12. CASE Ch = "sp" /\ Read /\ UNCHANGED <<index, st, status>>
  <2>1. m <= Len(text) /\ text[m] = "sp" /\ i' = m + 1
    BY <1>3, <1>4, <1>6, <1>12 DEF Read
  <2>2. PICK e : e = Grammar!Yes(v, m + 1)
    OBVIOUS
  <2>3. Follow(text, vs, e) = r
    <3>1. PICK d : d = Grammar!Yes(v, m)
      OBVIOUS
    <3>5. d.ok = TRUE /\ d.v = v /\ d.next = m
      BY <3>1, YesIs
    <3>6. e.ok = TRUE /\ e.v = v /\ e.next = m + 1
      BY <2>2, YesIs
    <3>2. d.ok = e.ok /\ d.v = e.v /\ d.next = m /\ e.next = m + 1
      BY <3>5, <3>6
    <3>3. Grammar!NotBlank(text, m + 1) = Grammar!NotBlank(text, m)
      BY <1>4, <2>1, NotBlankSame
    <3>4. Follow(text, vs, e) = Follow(text, vs, d)
      BY <3>2, <3>3, Zenon DEF Follow
    <3> QED BY <1>5, <3>1, <3>4
  <2>4. PICK w : w = [d \in 1..MaxDepth |-> e]
    OBVIOUS
  <2>5. w[1] = e
    BY <2>4
  <2>6. st[1] = "delim"
    BY <1>4 DEF Delim, In
  <2>7. CurAt(h)' = e
    <3>1. CurAt(h)' = Cur(text, "delim", m + 1, key[1], ptr, v, lua[h[1] + 2], lua[h[1] + 3])
      BY <1>1, <1>4, <1>7, <1>12, <2>1, <2>6 DEF CurAt
    <3> QED BY <2>2, <3>1, CurIs
  <2>8. Levels(h, w)'
    BY <1>4, <1>12, <2>5, <2>7 DEF Levels, Lower
  <2>9. Whole(h, q, w)'
    <3>1. Agrees(text, q, Follow(text, Grammar!Values(text), w[1]))
      BY <1>2, <1>4, <1>5, <2>3, <2>5
    <3>2. Agrees(text, q, Follow(text, Grammar!Values(text), w[1]))'
      BY <1>7, <3>1 DEF Agrees
    <3>3. \A k \in 1..Len(q) : lua'[k] = q[k]
      BY <1>4, <1>7 DEF Tracks, Whole
    <3> QED BY <1>4, <1>12, <3>2, <3>3 DEF Whole
  <2>10. Keyed(h, q)'
    BY <1>7, <1>12 DEF Tracks, Keyed
  <2>11. Scan(text, st[index], i, ptr)'
    <3>1. Scan(text, "delim", m + 1, ptr)
      BY <1>4, <2>1 DEF Scan
    <3> QED BY <1>4, <1>7, <1>12, <2>1, <2>6, <3>1
  <2>12. Tracks(h, q, w)'
    BY <2>8, <2>9, <2>10, <2>11 DEF Tracks
  <2> QED BY <1>4, <1>12, <2>12 DEF Kept
<1>13. CASE Ch \notin Dm2 \cup Blanks /\ status' = "error" /\ UNCHANGED <<i, index, st>>
  <2>5. ~IsComma(Ch) /\ Ch # "sp" /\ Ch # "NUL"
    BY <1>13, Zenon DEF IsComma, Dm2, Blanks
  <2>1. ~(m > Len(text)) /\ ~IsComma(text[m]) /\ Ch # "sp"
    BY <1>6, <1>15, <2>5
  <2>2. ~r.ok
    BY <1>8, <1>15, <2>1, Zenon DEF GoesOn
  <2>3. r.ok = FALSE
    BY <1>5, <2>2, FollowIs
  <2>4. ~Grammar!Decoded(text).ok
    BY <1>4, <1>5, <2>3 DEF Agrees
  <2> QED BY <1>4, <1>13, <2>4 DEF Refuses
<1> QED BY <1>10, <1>11, <1>12, <1>13 DEF Delim

--------------------------------------------------------------------------------
(***************************************************************************)
(* A value begins.                                                         *)
(***************************************************************************)

LEMMA EnterIs ==
    ASSUME Typed, NEW h, Fits(h), NEW g, g = Grown(h), st[index] = "value", NEW s \in Beginnings, Enter(s)
    PROVE  /\ g[index'] = Len(lua) /\ st'[index'] = s /\ index' \in 1..MaxDepth
           /\ index > 0 => g = h /\ index' = index
           /\ index = 0 => index' = 1
<1>1. index \in 0..MaxDepth /\ h \in [1..MaxDepth -> Nat] /\ st \in [0..MaxDepth -> States] /\ Len(lua) \in Nat
  <2>1. Listed(lua)
    BY DEF Typed
  <2>2. Len(lua) \in Nat
    BY <2>1, AppendIs
  <2> QED BY <2>2 DEF Typed, Fits
<1>2. CASE index > 0
  <2>1. index' = index /\ st' = [st EXCEPT ![index] = s]
    BY <1>2 DEF Enter, Set
  <2>2. g = h
    BY <1>1, <2>1 DEF Grown
  <2>3. Len(lua) = h[index] + Above("value") /\ h[index] \in Nat
    BY <1>1, <1>2 DEF Fits
  <2> QED BY <1>1, <1>2, <2>1, <2>2, <2>3 DEF Above
<1>3. CASE index = 0
  <2>1. index' = 1 /\ st' = [st EXCEPT ![0] = "value", ![1] = s]
    BY <1>3 DEF Enter, SetAndPush
  <2>2. 1 \in 1..MaxDepth /\ 1 \in 0..MaxDepth
    OBVIOUS
  <2>3. g[1] = Len(lua)
    BY <1>1, <1>3, <2>1, <2>2 DEF Grown
  <2>4. st'[1] = s
    BY <1>1, <2>1, <2>2
  <2> QED BY <1>3, <2>1, <2>2, <2>3, <2>4
<1> QED BY <1>1, <1>2, <1>3

\* A value begins, wherever it is.
LEMMA EnterTracks ==
    ASSUME Typed, NEW h, Fits(h), NEW g, g = Grown(h), NEW q, NEW o, Tracks(h, q, o), OneArray(text),
           In("value"), i <= Len(text), text[i] # "sp", NEW s \in Beginnings, Enter(s),
           text' = text, Keeps(Len(lua)), Scan(text, st[index], i, ptr)',
           \A d \in 1..MaxDepth : d # index => key'[d] = key[d], index > 0 => key'[index] \in {key[index], 0},
           NEW v, v = Grammar!ValueAt(text, Grammar!Reading(text), i), NEW e, e = CurAt(g)',
           e = v \/ (/\ index = 0 /\ key[1] # 0 /\ SameEnd(e, v)
                     /\ v.ok => v.v.t = "array" /\ v.next \in 1..(Len(text) + 1))
    PROVE  Kept(g)'
<1>1. st[index] = "value" /\ index \in 0..MaxDepth
  BY DEF In, Typed
<1>2. CASE index = 0
  <2>1. key'[1] = key[1]
    BY <1>2
  <2>2. \E w : Tracks(g, q, w)'
    BY <1>1, <1>2, <2>1, EnterTop
  <2> QED BY <2>2 DEF Kept
<1>3. CASE index > 0
  <2>1. g = h
    BY <1>1, <1>3, EnterIs
  <2>2. CurAt(h)' = Grammar!ValueAt(text, Grammar!Reading(text), i)
    BY <1>3, <2>1
  <2>3. 1 \in 1..MaxDepth /\ key'[1] \in {key[1], 0}
    BY <1>1, <1>3
  <2>4. \A d \in 1..index : d < index => key'[d] = key[d]
    BY <1>1, <1>3
  <2>5. Tracks(h, q, o)'
    BY <1>1, <1>3, <2>2, <2>3, <2>4, EnterBelow
  <2> QED BY <2>1, <2>5 DEF Kept
<1> QED BY <1>1, <1>2, <1>3

\* Where the parser looks for a value
LEMMA HereBegins ==
    ASSUME Typed, In("value"), Ch \notin Blanks
    PROVE  text \in Seq(Chars) /\ Len(text) \in Nat /\ i \in 1..Len(text) /\ i <= Len(text) /\ Ch = text[i] /\ text[i] # "sp"
<1>1. i <= Len(text) + 1 /\ Ch # "NUL" /\ Ch # "sp"
  BY DEF In, Blanks
<1> QED BY <1>1, CharIs

LEMMA BeginTokenTracks ==
    ASSUME Typed, NEW h, Fits(h), NEW g, g = Grown(h), NEW q, NEW o, Tracks(h, q, o), OneArray(text), BeginToken
    PROVE  Kept(g)' /\ status' = "run"
<1>1. In("value") /\ st[index] = "value" /\ Read /\ UNCHANGED <<text, key, lua, status>> /\ status = "run"
  BY DEF BeginToken, In
<1>2. Ch \notin Blanks
  BY Zenon DEF BeginToken, Blanks, Num, Lit
<1>3. text \in Seq(Chars) /\ Len(text) \in Nat /\ i \in 1..Len(text) /\ i <= Len(text) /\ Ch = text[i] /\ text[i] # "sp"
  BY <1>1, <1>2, HereBegins
<1>4. PICK read : read = Grammar!Reading(text)
  OBVIOUS
<1>5. PICK v : v = Grammar!ValueAt(text, read, i)
  OBVIOUS
<1>6. PICK e : e = CurAt(g)'
  OBVIOUS
<1>7. i \in 1..(Len(text) + 1) /\ i' = i + 1
  BY <1>1, <1>3 DEF Read
<1>8. ASSUME NEW s \in Beginnings, Enter(s), Scan(text, s, i + 1, ptr'),
             \A a, b, c : Cur(text, s, i + 1, key'[index'], ptr', a, b, c) = v
      PROVE  Kept(g)' /\ status' = "run"
  <2>1. st'[index'] = s
    BY <1>1, <1>8, EnterIs
  <2>2. e = v
    BY <1>1, <1>6, <1>7, <1>8, <2>1 DEF CurAt
  <2>3. Scan(text, st[index], i, ptr)'
    BY <1>1, <1>7, <1>8, <2>1
  <2>4. Keeps(Len(lua)) /\ key' = key
    BY <1>1 DEF Keeps
  <2>5. Kept(g)'
    BY <1>1, <1>3, <1>4, <1>5, <1>6, <1>8, <2>2, <2>3, <2>4, EnterTracks
  <2> QED BY <1>1, <2>5
<1>9. CASE Ch = "dq" /\ ptr' = i + 1 /\ Enter("string")
  <2>1. v = Grammar!StringAt(text, i)
    BY <1>3, <1>4, <1>5, <1>7, <1>9, ValueIs
  <2>2. ptr' - 1 = i /\ ptr' = i + 1
    BY <1>7, <1>9
  <2>3. \A a, b, c : Cur(text, "string", i + 1, key'[index'], ptr', a, b, c) = v
    BY <2>1, <2>2, CurIs
  <2>4. Scan(text, "string", i + 1, ptr')
    <3>1. text[i] = "dq" /\ ptr' > 1
      BY <1>3, <1>7, <1>9, <2>2
    <3>2. Quoted(text, ptr')
      BY <2>2, <3>1, Zenon DEF Quoted
    <3> QED BY <1>7, <2>2, <3>2 DEF Scan
  <2> QED BY <1>8, <1>9, <2>3, <2>4 DEF Beginnings
<1>10. CASE Ch \in Num /\ ptr' = i /\ Enter("number")
  <2>1. Ch \notin {"[", "{", "dq"} /\ ~EndsToken(Ch)
    BY <1>10, Zenon DEF Num, EndsToken, Blanks, Dm2
  <2>2. v = Grammar!WordAt(text, i)
    BY <1>3, <1>4, <1>5, <1>7, <2>1, ValueIs
  <2>3. \A a, b, c : Cur(text, "number", i + 1, key'[index'], ptr', a, b, c) = v
    BY <1>10, <2>2, CurIs
  <2>4. i < i + 1 /\ i + 1 <= Len(text) + 1 /\ \A k \in i..((i + 1) - 1) : k = i
    BY <1>3, <1>7
  <2>5. Scan(text, "number", i + 1, ptr')
    BY <1>3, <1>10, <2>1, <2>4 DEF Scan
  <2> QED BY <1>8, <1>10, <2>3, <2>5 DEF Beginnings
<1>11. CASE Ch \in Lit /\ ptr' = i /\ Enter("literal")
  <2>1. Ch \notin {"[", "{", "dq"} /\ ~EndsToken(Ch)
    BY <1>11, Zenon DEF Lit, EndsToken, Blanks, Dm2
  <2>2. v = Grammar!WordAt(text, i)
    BY <1>3, <1>4, <1>5, <1>7, <2>1, ValueIs
  <2>3. \A a, b, c : Cur(text, "literal", i + 1, key'[index'], ptr', a, b, c) = v
    BY <1>11, <2>2, CurIs
  <2>4. i < i + 1 /\ i + 1 <= Len(text) + 1 /\ \A k \in i..((i + 1) - 1) : k = i
    BY <1>3, <1>7
  <2>5. Scan(text, "literal", i + 1, ptr')
    BY <1>3, <1>11, <2>1, <2>4 DEF Scan
  <2> QED BY <1>8, <1>11, <2>3, <2>5 DEF Beginnings
<1> QED BY <1>9, <1>10, <1>11 DEF BeginToken

\* What the grammar reads from here on, when a table has just begun
LEMMA NewTableTracks ==
    ASSUME Typed, NEW h, Fits(h), NEW g, g = Grown(h), NEW kind \in {"array", "object"},
           In("value"), lua' = Append(lua, NewTable(kind)), Enter(kind), Read,
           NEW b, b = lua'[g[index'] + 2], NEW c, c = lua'[g[index'] + 3]
    PROVE  /\ CurAt(g)' = Cur(text', kind, i + 1, key'[index'], ptr', NewTable(kind), b, c)
           /\ st'[index'] = kind /\ Keeps(Len(lua)) /\ Scan(text, st[index], i, ptr)'
<1>1. st[index] = "value" /\ i' = i + 1 /\ kind \in Beginnings
  BY DEF In, Read, Beginnings
<1>2. g[index'] = Len(lua) /\ st'[index'] = kind
  BY <1>1, EnterIs
<1>3. Listed(lua)
  BY DEF Typed
<1>4. lua'[Len(lua) + 1] = NewTable(kind) /\ Keeps(Len(lua))
  BY <1>3, AppendIs DEF Keeps
<1>5. CurAt(g)' = Cur(text', kind, i + 1, key'[index'], ptr', NewTable(kind), b, c)
  BY <1>1, <1>2, <1>4 DEF CurAt
<1>6. Scan(text, st[index], i, ptr)'
  BY <1>2 DEF Scan
<1> QED BY <1>2, <1>4, <1>5, <1>6

LEMMA BeginObjectTracks ==
    ASSUME Typed, NEW h, Fits(h), NEW g, g = Grown(h), NEW q, NEW o, Tracks(h, q, o), OneArray(text), BeginObject
    PROVE  Kept(g)' /\ status' = "run"
<1>1. /\ In("value") /\ Ch = "{" /\ lua' = Append(lua, NewTable("object")) /\ Enter("object") /\ Read
  BY DEF BeginObject
<1>16. UNCHANGED <<text, key, ptr, status>> /\ status = "run"
  BY DEF BeginObject, In
<1>2. Ch \notin Blanks
  BY <1>1, Zenon DEF Blanks
<1>3. text \in Seq(Chars) /\ Len(text) \in Nat /\ i \in 1..Len(text) /\ i <= Len(text) /\ Ch = text[i] /\ text[i] # "sp"
  BY <1>1, <1>2, HereBegins
<1>4. PICK read : read = Grammar!Reading(text)
  OBVIOUS
<1>5. PICK v : v = Grammar!ValueAt(text, read, i)
  OBVIOUS
<1>6. PICK e : e = CurAt(g)'
  OBVIOUS
<1>7. i \in 1..(Len(text) + 1)
  BY <1>3
<1>8. PICK b : b = lua'[g[index'] + 2]
  OBVIOUS
<1>9. PICK c : c = lua'[g[index'] + 3]
  OBVIOUS
<1>10. /\ CurAt(g)' = Cur(text', "object", i + 1, key'[index'], ptr', NewTable("object"), b, c)
       /\ Keeps(Len(lua)) /\ Scan(text, st[index], i, ptr)'
  <2>1. In("value") /\ lua' = Append(lua, NewTable("object")) /\ Enter("object") /\ Read
    BY <1>1
  <2> QED BY <1>8, <1>9, <2>1, NewTableTracks
<1>11. v = Grammar!TableOf("object", Grammar!Members(text, read, i + 1))
  BY <1>1, <1>3, <1>4, <1>5, <1>7, ValueIs
<1>12. e = Close(NewTable("object"), Grammar!Members(text, read, i + 1))
  BY <1>4, <1>6, <1>10, <1>16, CurIs
<1>13. e = v
  BY <1>11, <1>12, CloseNew
<1>14. "object" \in Beginnings /\ text' = text /\ key' = key
  BY <1>16 DEF Beginnings
<1>15. Kept(g)'
  BY <1>1, <1>3, <1>4, <1>5, <1>6, <1>10, <1>13, <1>14, EnterTracks
<1> QED BY <1>15, <1>16

LEMMA BeginArrayTracks ==
    ASSUME Typed, NEW h, Fits(h), NEW g, g = Grown(h), NEW q, NEW o, Tracks(h, q, o), OneArray(text),
           BeginArray, ~Overflow
    PROVE  Kept(g)' /\ status' = "run"
<1>1. /\ In("value") /\ Ch = "[" /\ lua' = Append(lua, NewTable("array")) /\ Enter("array") /\ ResetKey /\ Read
      /\ UNCHANGED <<text, ptr, status>> /\ status = "run"
  <2>1. In("value") /\ st[index] = "value"
    BY DEF BeginArray, In
  <2>2. ASSUME index = MaxDepth, index' = 1 PROVE FALSE
    BY <2>2 DEF Overflow
  <2> QED BY <2>1, <2>2 DEF BeginArray, In
<1>2. Ch \notin Blanks
  BY <1>1, Zenon DEF Blanks
<1>3. text \in Seq(Chars) /\ Len(text) \in Nat /\ i \in 1..Len(text) /\ i <= Len(text) /\ Ch = text[i] /\ text[i] # "sp"
  BY <1>1, <1>2, HereBegins
<1>4. PICK read : read = Grammar!Reading(text)
  OBVIOUS
<1>5. PICK v : v = Grammar!ValueAt(text, read, i)
  OBVIOUS
<1>6. PICK e : e = CurAt(g)'
  OBVIOUS
<1>7. i \in 1..(Len(text) + 1) /\ i + 1 \in 1..(Len(text) + 1)
  BY <1>3
<1>8. PICK b : b = lua'[g[index'] + 2]
  OBVIOUS
<1>9. PICK c : c = lua'[g[index'] + 3]
  OBVIOUS
<1>10. /\ CurAt(g)' = Cur(text', "array", i + 1, key'[index'], ptr', NewTable("array"), b, c)
       /\ Keeps(Len(lua)) /\ Scan(text, st[index], i, ptr)'
  <2>1. In("value") /\ lua' = Append(lua, NewTable("array")) /\ Enter("array") /\ Read
    BY <1>1
  <2> QED BY <1>8, <1>9, <2>1, NewTableTracks
<1>11. v = Grammar!TableOf("array", Grammar!Elements(text, read, i + 1, 1))
  BY <1>1, <1>3, <1>4, <1>5, <1>7, ValueIs
<1>12. PICK k : k = key'[index']
  OBVIOUS
<1>13. e = Grammar!TableOf("array", Grammar!Elements(text, read, i + 1, k + 1))
  <2>1. e = Close(NewTable("array"), Grammar!Elements(text, read, i + 1, k + 1))
    BY <1>1, <1>4, <1>6, <1>10, <1>12, CurIs
  <2> QED BY <2>1, CloseNew
<1>14. "array" \in Beginnings /\ text' = text /\ index \in 0..MaxDepth /\ key \in [0..MaxDepth -> Nat] /\ st[index] = "value"
  BY <1>1 DEF Beginnings, Typed, In
<1>15. (\A d \in 1..MaxDepth : d # index => key'[d] = key[d]) /\ (index > 0 => key'[index] \in {key[index], 0})
  BY <1>1, <1>14 DEF ResetKey
<1>16. e = v \/ (/\ index = 0 /\ key[1] # 0 /\ SameEnd(e, v)
                 /\ v.ok => v.v.t = "array" /\ v.next \in 1..(Len(text) + 1))
  <2>1. CASE k = 0
    <3>1. k + 1 = 1
      BY <2>1
    <3> QED BY <1>11, <1>13, <3>1
  <2>2. CASE k # 0
    <3>1. index = 0 /\ k = key[1]
      <4>1. index > 0 => index' = index /\ key'[index] = 0
        BY <1>1, <1>14, EnterIs DEF ResetKey
      <4>2. index = 0 => index' = 1
        BY <1>1, <1>14, EnterIs
      <4>3. 1 \in 1..MaxDepth
        OBVIOUS
      <4> QED BY <1>12, <1>14, <1>15, <2>2, <4>1, <4>2, <4>3
    <3>2. k \in Nat
      BY <1>14, <3>1
    <3>3. PICK x : x = Grammar!Elements(text, read, i + 1, k + 1)
      OBVIOUS
    <3>4. PICK y : y = Grammar!Elements(text, read, i + 1, 1)
      OBVIOUS
    <3>5. SameEnd(x, y)
      <4>1. k + 1 \in Nat /\ 1 \in Nat
        BY <3>2
      <4> QED BY <1>3, <1>4, <1>7, <3>3, <3>4, <4>1, ElementsEnd
    <3>6. e = (IF x.ok THEN Grammar!Yes(Grammar!Table("array", Grammar!NotNil(x.v)), x.next) ELSE Grammar!No)
      BY <1>13, <3>3 DEF Grammar!TableOf
    <3>7. v = (IF y.ok THEN Grammar!Yes(Grammar!Table("array", Grammar!NotNil(y.v)), y.next) ELSE Grammar!No)
      BY <1>11, <3>4 DEF Grammar!TableOf
    <3>8. SameEnd(e, v)
      <4>1. CASE x.ok
        <5>1. y.ok /\ x.next = y.next
          BY <3>5, <4>1 DEF SameEnd
        <5>2. PICK z : z = Grammar!Table("array", Grammar!NotNil(x.v))
          OBVIOUS
        <5>3. PICK w : w = Grammar!Table("array", Grammar!NotNil(y.v))
          OBVIOUS
        <5>4. e = Grammar!Yes(z, x.next) /\ v = Grammar!Yes(w, x.next)
          BY <3>6, <3>7, <4>1, <5>1, <5>2, <5>3, Zenon
        <5> QED BY <5>4 DEF SameEnd, Grammar!Yes
      <4>2. CASE ~x.ok
        <5>1. ~y.ok
          BY <3>5, <4>2 DEF SameEnd
        <5> QED BY <3>6, <3>7, <4>2, <5>1 DEF SameEnd
      <4> QED BY <4>1, <4>2
    <3>9. v.ok => v.v.t = "array"
      <4>1. CASE y.ok
        <5>1. PICK w : w = Grammar!Table("array", Grammar!NotNil(y.v))
          OBVIOUS
        <5>2. v = Grammar!Yes(w, y.next)
          BY <3>7, <4>1, <5>1, Zenon
        <5>3. v.v = w /\ w.t = "array"
          BY <5>1, <5>2 DEF Grammar!Yes, Grammar!Table
        <5> QED BY <5>3
      <4>2. CASE ~y.ok
        <5>1. v = Grammar!No
          BY <3>7, <4>2, Zenon
        <5> QED BY <5>1, YesIs
      <4> QED BY <4>1, <4>2
    <3>10. v.ok => v.next \in 1..(Len(text) + 1)
      <4>1. Forward(text, read, i)
        <5>1. Forward(text, read, 0)
          BY <1>3, <1>4, ReadingUnfolds
        <5>2. 0 \in Nat /\ i \in Nat /\ 0 <= i
          BY <1>3
        <5> QED BY <1>3, <5>1, <5>2, Later
      <4>2. Moves(text, v, i)
        BY <1>3, <1>5, <1>7, <4>1, ValueMoves
      <4>3. v.ok => v.next \in (i + 1)..(Len(text) + 1)
        BY <4>2 DEF Moves
      <4> QED BY <1>3, <4>3
    <3> QED BY <2>2, <3>1, <3>8, <3>9, <3>10
  <2> QED BY <2>1, <2>2
<1>17. Kept(g)'
  BY <1>1, <1>3, <1>4, <1>5, <1>6, <1>10, <1>14, <1>15, <1>16, EnterTracks
<1> QED BY <1>1, <1>17

\* Nothing that ends a table or follows a value is one.
LEMMA NoValueTracks ==
    ASSUME Typed, NEW h, Fits(h), NEW q, NEW o, Tracks(h, q, o), NoValue
    PROVE  Refuses
<1>1. In("value") /\ status' = "error" /\ st[index] = "value" /\ index \in 0..MaxDepth
  BY DEF NoValue, Error, In, Typed
<1>2. Ch \notin Blanks /\ ~BeginsValue(Ch)
  BY Zenon DEF NoValue, Blanks, Dm2, Oth, BeginsValue, Dm1, Num, Lit
<1>3. text \in Seq(Chars) /\ Len(text) \in Nat /\ i \in 1..Len(text) /\ Ch = text[i] /\ text[i] # "sp"
  BY <1>1, <1>2, HereBegins
<1>4. CASE index > 0
  <2>1. BeginsValue(text[i])
    BY <1>1, <1>4 DEF Tracks, Scan
  <2> QED BY <1>2, <1>3, <2>1
<1>5. CASE index = 0
  <2>1. PICK vs : vs = Grammar!Values(text)
    OBVIOUS
  <2>2. ~vs[i].ok
    BY <1>2, <1>3, <2>1, NoValues
  <2>3. Agrees(text, q, vs[i])
    BY <1>5, <2>1 DEF Tracks, Whole
  <2>4. ~Grammar!Decoded(text).ok
    BY <2>2, <2>3 DEF Agrees
  <2> QED BY <1>1, <2>4 DEF Refuses
<1> QED BY <1>1, <1>4, <1>5

--------------------------------------------------------------------------------
(***************************************************************************)
(* Inside of objects and arrays.                                           *)
(***************************************************************************)

\* Where the parser is in a table, and something is to be read
LEMMA InTableHere ==
    ASSUME Typed, NEW h, Fits(h), NEW s \in Skipping, In(s), Ch \notin Blanks
    PROVE  /\ index \in 1..MaxDepth /\ index > 0 /\ st[index] = s /\ status = "run"
           /\ text \in Seq(Chars) /\ Len(text) \in Nat /\ i \in 1..Len(text) /\ Ch = text[i] /\ text[i] # "sp"
           /\ h[index] \in Nat /\ Len(lua) = h[index] + Above(s) /\ IsValue(lua[h[index] + 1])
           /\ key[index] \in Nat /\ Listed(lua)
<1>1. s # "value" /\ Above(s) >= 1 /\ Above(s) \in Nat
  BY DEF Skipping, Above
<1>2. /\ index \in 1..MaxDepth /\ index > 0 /\ st[index] = s /\ status = "run"
      /\ i <= Len(text) + 1 /\ h[index] \in Nat /\ Len(lua) = h[index] + Above(s)
  BY <1>1, InLevel
<1>3. Ch # "NUL" /\ Ch # "sp"
  BY DEF Blanks
<1>4. text \in Seq(Chars) /\ Len(text) \in Nat /\ i \in 1..Len(text) /\ Ch = text[i]
  BY <1>2, <1>3, CharIs
<1>5. h[index] + 1 \in 1..Len(lua)
  BY <1>1, <1>2
<1>6. IsValue(lua[h[index] + 1]) /\ Listed(lua)
  BY <1>5 DEF Typed
<1>7. key[index] \in Nat
  BY <1>2 DEF Typed
<1> QED BY <1>2, <1>3, <1>4, <1>6, <1>7

\* The level changes its state, and goes on where it was.
LEMMA SetTracks ==
    ASSUME Typed, NEW h, Fits(h), NEW q, NEW o, Tracks(h, q, o), index > 0, NEW s \in Skipping, Set(s),
           text' = text, Keeps(h[index]), \A d \in 1..index : d < index => key'[d] = key[d],
           st[index] # "delim", key'[index] = key[index] \/ st[index] \in Arrays, st[index] \in Arrays => s \in Arrays,
           CurAt(h)' = CurAt(h)
    PROVE  Tracks(h, q, o)'
<1>1. index \in 1..MaxDepth /\ st \in [0..MaxDepth -> States] /\ index' = index /\ st' = [st EXCEPT ![index] = s]
  BY DEF Typed, Set
<1>2. st'[index] = s /\ \A d \in 1..index : d < index => st'[d] = st[d]
  BY <1>1
<1>3. Scan(text, st[index], i, ptr)'
  BY <1>1, <1>2 DEF Scan, Skipping
<1>4. 1 \in 1..index
  BY <1>1
<1>5. Keyed(h, q)'
  BY <1>1, <1>2, <1>4, KeyedStays DEF Tracks
<1> QED BY <1>1, <1>2, <1>3, <1>5, StayTracks

\* A level begins on top of the last one.
LEMMA PushedTracks ==
    ASSUME Typed, NEW h, Fits(h), NEW g, g = Grown(h), NEW q, NEW o, Tracks(h, q, o), index > 0,
           NEW s \in Waiting, NEW p, SetAndPush(s, p), UNCHANGED <<text, key, lua>>,
           st[index] # "delim", st[index] \in Arrays => s \in Arrays,
           NEW e, CurAt(h) = Up(text, s, key[index], lua[h[index] + 1], lua[h[index] + 2], e), CurAt(g)' = e,
           Scan(text, p, i', ptr')
    PROVE  Kept(g)'
<1>1. index \in 1..MaxDepth /\ index + 1 \in 1..MaxDepth /\ index' = index + 1 /\ index < MaxDepth
      /\ st' = [st EXCEPT ![index] = s, ![index + 1] = p]
  BY DEF Typed, SetAndPush
<1>2. h \in [1..MaxDepth -> Nat] /\ st \in [0..MaxDepth -> States]
  BY DEF Typed, Fits
<1>3. g = [h EXCEPT ![index'] = Len(lua)]
  BY <1>1 DEF Grown
<1>4. PICK m : m = index + 1
  OBVIOUS
<1>5. PICK w : w = [d \in 1..MaxDepth |-> IF d = m THEN e ELSE o[d]]
  OBVIOUS
<1>6. w[index + 1] = e /\ \A d \in 1..index : w[d] = o[d]
  BY <1>1, <1>4, <1>5
<1>7. Levels(g, w)'
  <2>1. Levels(h, o)
    BY DEF Tracks
  <2>2. index < MaxDepth
    BY <1>1
  <2>3. Pushes(h, g, s, p, e, o, w)
    BY <1>3, <1>6, <2>2 DEF Pushes
  <2> QED BY <2>1, <2>3, PushLevels
<1>8. 1 \in 1..index /\ g[1] = h[1] /\ w[1] = o[1]
  BY <1>1, <1>2, <1>3, <1>6
<1>9. Whole(g, q, w)'
  <2>1. Keeps(h[index]) /\ index' > 0 /\ text' = text
    BY <1>1 DEF Keeps
  <2> QED BY <1>8, <2>1, WholeStays DEF Tracks
<1>10. \A d \in 0..MaxDepth : st'[d] = IF d = index + 1 THEN p ELSE IF d = index THEN s ELSE st[d]
  BY <1>1, <1>2
<1>11. st'[index] = s /\ st'[index + 1] = p /\ (index > 1 => st'[1] = st[1])
  <2>1. index \in 0..MaxDepth /\ index + 1 \in 0..MaxDepth /\ 1 \in 0..MaxDepth /\ index # index + 1
        /\ (index > 1 => 1 # index /\ 1 # index + 1)
    BY <1>1
  <2> QED BY <1>10, <2>1
<1>12. Keyed(g, q)'
  <2>1. index' > 0 /\ Keyed(h, q) /\ key'[1] = key[1]
    BY <1>1 DEF Tracks
  <2> QED BY <1>8, <1>11, <2>1, KeyedStays
<1>13. Scan(text, st[index], i, ptr)'
  <2>1. st'[index'] = p
    BY <1>1, <1>11
  <2> QED BY <2>1
<1>14. Tracks(g, q, w)'
  BY <1>7, <1>9, <1>12, <1>13 DEF Tracks
<1> QED BY <1>14 DEF Kept

LEMMA ErrorTracks ==
    ASSUME Typed, NEW h, Fits(h), NEW q, NEW o, Tracks(h, q, o), index > 0, status' = "error", ~CurAt(h).ok
    PROVE  Refuses
<1>1. ~Grammar!Decoded(text).ok
  BY Refused DEF Tracks
<1> QED BY <1>1 DEF Refuses

LEMMA ObjectTracks ==
    ASSUME Typed, NEW h, Fits(h), NEW g, g = Grown(h), NEW q, NEW o, Tracks(h, q, o), DepthChecked, Object
    PROVE  (Kept(g)' /\ status' = "run") \/ Refuses
<1>1. In("object") /\ Ch \notin Blanks /\ "object" \in Skipping
  BY DEF Object, Skipping
<1>2. /\ index \in 1..MaxDepth /\ index > 0 /\ st[index] = "object" /\ status = "run"
      /\ text \in Seq(Chars) /\ Len(text) \in Nat /\ i \in 1..Len(text) /\ Ch = text[i] /\ text[i] # "sp"
      /\ h[index] \in Nat /\ Len(lua) = h[index] + Above("object") /\ IsValue(lua[h[index] + 1])
      /\ key[index] \in Nat /\ Listed(lua)
  BY <1>1, InTableHere
<1>3. PICK a : a = lua[h[index] + 1]
  OBVIOUS
<1>4. PICK b : b = lua[h[index] + 2]
  OBVIOUS
<1>5. PICK c : c = lua[h[index] + 3]
  OBVIOUS
<1>6. PICK e : e = Cur(text, "object", i, key[index], ptr, a, b, c)
  OBVIOUS
<1>7. CurAt(h) = e
  BY <1>2, <1>3, <1>4, <1>5, <1>6 DEF CurAt
<1>8. /\ IsBrace(text[i]) => e = Grammar!Yes(a, i + 1)
      /\ text[i] = "dq" => \A d : e = Up(text, "object_key", key[index], a, d, Grammar!StringAt(text, i))
      /\ ~IsBrace(text[i]) /\ text[i] # "dq" => ~e.ok
  BY <1>2, <1>3, <1>6, ObjectIs
<1>9. CASE Ch = "dq" /\ SetAndPush("object_key", "string") /\ ptr' = i + 1 /\ Read /\ UNCHANGED <<text, key, lua, status>>
  <2>1. PICK s : s = Grammar!StringAt(text, i)
    OBVIOUS
  <2>2. e = Up(text, "object_key", key[index], a, b, s)
    BY <1>2, <1>8, <1>9, <2>1
  <2>3. index' = index + 1 /\ st' = [st EXCEPT ![index] = "object_key", ![index + 1] = "string"]
        /\ index + 1 \in 0..MaxDepth /\ st \in [0..MaxDepth -> States]
    BY <1>2, <1>9 DEF SetAndPush, Typed
  <2>4. st'[index'] = "string"
    BY <2>3
  <2>5. ptr' - 1 = i /\ i' = i + 1 /\ ptr' = i + 1
    BY <1>2, <1>9 DEF Read
  <2>6. CurAt(g)' = s
    BY <1>9, <2>1, <2>4, <2>5, CurIs DEF CurAt
  <2>7. Scan(text, "string", i', ptr')
    <3>1. text[i] = "dq" /\ ptr' > 1
      BY <1>2, <1>9, <2>5
    <3>2. Quoted(text, ptr')
      BY <2>5, <3>1, Zenon DEF Quoted
    <3> QED BY <1>2, <2>5, <3>2 DEF Scan
  <2>8. "object_key" \in Waiting /\ st[index] \notin Arrays /\ st[index] # "delim"
    BY <1>2 DEF Waiting, Arrays
  <2>9. Kept(g)'
    BY <1>2, <1>3, <1>4, <1>7, <1>9, <2>2, <2>6, <2>7, <2>8, PushedTracks
  <2> QED BY <1>2, <1>9, <2>9
<1>10. CASE Ch = "dq" /\ index = MaxDepth /\ Error
  BY <1>10 DEF DepthChecked
<1>11. CASE IsBrace(Ch) /\ Leave /\ Read /\ UNCHANGED <<text, key, ptr, lua, status>>
  <2>1. i' = i + 1 /\ i' <= Len(text) + 1
    BY <1>2, <1>11 DEF Read
  <2>2. CurAt(h) = Grammar!Yes(lua'[h[index] + 1], i')
    BY <1>2, <1>3, <1>7, <1>8, <1>11, <2>1
  <2>3. Keeps(h[index]) /\ st[index] \notin Arrays /\ st[index] # "delim"
    BY <1>2, <1>11 DEF Keeps, Arrays
  <2>4. Tracks(h, q, o)'
    BY <1>2, <1>11, <2>1, <2>2, <2>3, LeaveTracks
  <2>5. g = h
    BY <1>2, <1>11 DEF Grown, Leave, Pop, Set
  <2> QED BY <1>2, <1>11, <2>4, <2>5 DEF Kept
<1>12. CASE Ch # "dq" /\ ~IsBrace(Ch) /\ Error
  <2>1. ~CurAt(h).ok
    BY <1>2, <1>7, <1>8, <1>12
  <2> QED BY <1>2, <1>12, <2>1, ErrorTracks DEF Error
<1> QED BY <1>9, <1>10, <1>11, <1>12, Zenon DEF Object, IsBrace

LEMMA ObjectKeyTracks ==
    ASSUME Typed, NEW h, Fits(h), NEW g, g = Grown(h), NEW q, NEW o, Tracks(h, q, o), ObjectKey
    PROVE  (Kept(g)' /\ status' = "run") \/ Refuses
<1>1. In("object_key") /\ Ch \notin Blanks /\ "object_key" \in Skipping
  BY DEF ObjectKey, Skipping
<1>2. /\ index \in 1..MaxDepth /\ index > 0 /\ st[index] = "object_key" /\ status = "run"
      /\ text \in Seq(Chars) /\ Len(text) \in Nat /\ i \in 1..Len(text) /\ Ch = text[i] /\ text[i] # "sp"
      /\ h[index] \in Nat /\ Len(lua) = h[index] + Above("object_key") /\ IsValue(lua[h[index] + 1])
      /\ key[index] \in Nat /\ Listed(lua)
  BY <1>1, InTableHere
<1>3. PICK a : a = lua[h[index] + 1]
  OBVIOUS
<1>4. PICK b : b = lua[h[index] + 2]
  OBVIOUS
<1>5. PICK c : c = lua[h[index] + 3]
  OBVIOUS
<1>6. PICK e : e = Cur(text, "object_key", i, key[index], ptr, a, b, c)
  OBVIOUS
<1>7. CurAt(h) = e
  BY <1>2, <1>3, <1>4, <1>5, <1>6 DEF CurAt
<1>8. /\ text[i] = ":" => \A x, y, z : e = Cur(text, "object_value", i + 1, x, y, a, b, z)
      /\ text[i] # ":" => ~e.ok
  BY <1>2, <1>3, <1>6, ObjectKeyIs
<1>9. CASE Ch = ":" /\ Set("object_value") /\ Read /\ UNCHANGED <<text, key, ptr, lua, status>>
  <2>1. i' = i + 1 /\ index' = index /\ st' = [st EXCEPT ![index] = "object_value"] /\ st \in [0..MaxDepth -> States]
    BY <1>9 DEF Read, Set, Typed
  <2>2. st'[index'] = "object_value"
    BY <1>2, <2>1
  <2>3. CurAt(h)' = Cur(text, "object_value", i + 1, key[index], ptr, a, b, c)
    BY <1>3, <1>4, <1>5, <1>9, <2>1, <2>2 DEF CurAt
  <2>4. CurAt(h)' = CurAt(h)
    BY <1>2, <1>7, <1>8, <1>9, <2>3
  <2>5. "object_value" \in Skipping /\ st[index] \notin Arrays /\ st[index] # "delim" /\ Keeps(h[index])
    BY <1>2, <1>9 DEF Skipping, Arrays, Keeps
  <2>6. Tracks(h, q, o)'
    BY <1>2, <1>9, <2>4, <2>5, SetTracks
  <2>7. g = h
    BY <1>2, <2>1 DEF Grown
  <2> QED BY <1>2, <1>9, <2>6, <2>7 DEF Kept
<1>10. CASE Ch # ":" /\ Error
  <2>1. ~CurAt(h).ok
    BY <1>2, <1>7, <1>8, <1>10
  <2> QED BY <1>2, <1>10, <2>1, ErrorTracks DEF Error
<1> QED BY <1>9, <1>10, Zenon DEF ObjectKey

\* A value begins inside of a table.
LEMMA ElementTracks ==
    ASSUME Typed, NEW h, Fits(h), NEW g, g = Grown(h), NEW q, NEW o, Tracks(h, q, o), DepthChecked, index > 0,
           status = "run", i \in 1..Len(text), text[i] # "sp", BeginsValue(text[i]),
           NEW s \in Waiting, Element(s), st[index] # "delim", st[index] \in Arrays => s \in Arrays,
           NEW e, e = Grammar!ValueAt(text, Grammar!Reading(text), i),
           CurAt(h) = Up(text, s, key[index], lua[h[index] + 1], lua[h[index] + 2], e)
    PROVE  Kept(g)' /\ status' = "run"
<1>1. SetAndPush(s, "value") /\ Reread /\ UNCHANGED <<text, key, ptr, lua, status>>
  BY DEF Element, DepthChecked
<1>2. index' = index + 1 /\ st' = [st EXCEPT ![index] = s, ![index + 1] = "value"]
      /\ index + 1 \in 0..MaxDepth /\ st \in [0..MaxDepth -> States] /\ i' = i
  BY <1>1 DEF SetAndPush, Typed, Reread
<1>3. st'[index'] = "value"
  BY <1>2
<1>4. CurAt(g)' = e
  BY <1>1, <1>2, <1>3, CurIs DEF CurAt
<1>5. Len(text) \in Nat /\ i <= Len(text)
  BY DEF Typed
<1>6. Scan(text, "value", i', ptr')
  BY <1>2, <1>5 DEF Scan
<1>7. Kept(g)'
  BY <1>1, <1>4, <1>6, PushedTracks
<1> QED BY <1>1, <1>7

LEMMA ObjectValueTracks ==
    ASSUME Typed, NEW h, Fits(h), NEW g, g = Grown(h), NEW q, NEW o, Tracks(h, q, o), DepthChecked, ObjectValue
    PROVE  (Kept(g)' /\ status' = "run") \/ Refuses
<1>1. In("object_value") /\ Ch \notin Blanks /\ "object_value" \in Skipping
  BY DEF ObjectValue, Skipping
<1>2. /\ index \in 1..MaxDepth /\ index > 0 /\ st[index] = "object_value" /\ status = "run"
      /\ text \in Seq(Chars) /\ Len(text) \in Nat /\ i \in 1..Len(text) /\ Ch = text[i] /\ text[i] # "sp"
      /\ h[index] \in Nat /\ Len(lua) = h[index] + Above("object_value") /\ IsValue(lua[h[index] + 1])
      /\ key[index] \in Nat /\ Listed(lua)
  BY <1>1, InTableHere
<1>3. PICK a : a = lua[h[index] + 1]
  OBVIOUS
<1>4. PICK b : b = lua[h[index] + 2]
  OBVIOUS
<1>5. PICK c : c = lua[h[index] + 3]
  OBVIOUS
<1>6. PICK v : v = Cur(text, "value", i, 0, 0, a, b, c)
  OBVIOUS
<1>7. v = Grammar!ValueAt(text, Grammar!Reading(text), i)
  BY <1>6, CurIs
<1>8. CurAt(h) = Cur(text, "object_value", i, key[index], ptr, a, b, c)
  BY <1>2, <1>3, <1>4, <1>5 DEF CurAt
<1>9. /\ \A x : CurAt(h) = Up(text, "object_value_2", x, a, b, v)
      /\ ~BeginsValue(text[i]) => ~CurAt(h).ok
  BY <1>2, <1>3, <1>6, <1>8, ObjectValueIs
<1>10. CASE BeginsValue(Ch) /\ Element("object_value_2")
  <2>1. "object_value_2" \in Waiting /\ st[index] \notin Arrays /\ st[index] # "delim"
    BY <1>2 DEF Waiting, Arrays
  <2>2. CurAt(h) = Up(text, "object_value_2", key[index], lua[h[index] + 1], lua[h[index] + 2], v)
    BY <1>3, <1>4, <1>9
  <2> QED BY <1>2, <1>7, <1>10, <2>1, <2>2, ElementTracks
<1>11. CASE ~BeginsValue(Ch) /\ Error
  BY <1>2, <1>9, <1>11, ErrorTracks DEF Error
<1> QED BY <1>10, <1>11, Zenon DEF ObjectValue

LEMMA ArrayTracks ==
    ASSUME Typed, NEW h, Fits(h), NEW g, g = Grown(h), NEW q, NEW o, Tracks(h, q, o), DepthChecked, Array
    PROVE  (Kept(g)' /\ status' = "run") \/ Refuses
<1>1. In("array") /\ Ch \notin Blanks /\ "array" \in Skipping
  BY DEF Array, Skipping
<1>2. /\ index \in 1..MaxDepth /\ index > 0 /\ st[index] = "array" /\ status = "run"
      /\ text \in Seq(Chars) /\ Len(text) \in Nat /\ i \in 1..Len(text) /\ Ch = text[i] /\ text[i] # "sp"
      /\ h[index] \in Nat /\ Len(lua) = h[index] + Above("array") /\ IsValue(lua[h[index] + 1])
      /\ key[index] \in Nat /\ Listed(lua)
  BY <1>1, InTableHere
<1>3. PICK a : a = lua[h[index] + 1]
  OBVIOUS
<1>4. PICK b : b = lua[h[index] + 2]
  OBVIOUS
<1>5. PICK c : c = lua[h[index] + 3]
  OBVIOUS
<1>7. PICK v : v = Grammar!ValueAt(text, Grammar!Reading(text), i)
  OBVIOUS
<1>13. PICK e : e = Cur(text, "array", i, key[index], ptr, a, b, c)
  OBVIOUS
<1>8. CurAt(h) = e
  BY <1>2, <1>3, <1>4, <1>5, <1>13 DEF CurAt
<1>14. PICK k \in Nat : k = key[index]
  BY <1>2
<1>15. IsValue(a) /\ e = Cur(text, "array", i, k, ptr, a, b, c)
  BY <1>2, <1>3, <1>13, <1>14
<1>16. IsArray(text, i, k, a, v, e)
  <2>1. text \in Seq(Chars) /\ i \in 1..Len(text) /\ text[i] # "sp"
    BY <1>2
  <2> QED BY <2>1, <1>7, <1>15, ArrayIs
<1>9. /\ text[i] = "]" => CurAt(h) = Grammar!Yes(a, i + 1)
      /\ text[i] # "]" => \A d : CurAt(h) = Up(text, "array_value", key[index], a, d, v)
      /\ text[i] # "]" /\ ~BeginsValue(text[i]) => ~CurAt(h).ok
  BY <1>8, <1>14, <1>16 DEF IsArray
<1>10. CASE Ch = "]" /\ Leave /\ Read /\ UNCHANGED <<text, key, ptr, lua, status>>
  <2>1. i' = i + 1 /\ i' <= Len(text) + 1
    BY <1>2, <1>10 DEF Read
  <2>2. CurAt(h) = Grammar!Yes(lua'[h[index] + 1], i')
    BY <1>2, <1>3, <1>9, <1>10, <2>1
  <2>3. Keeps(h[index]) /\ st[index] # "delim"
    BY <1>2, <1>10 DEF Keeps
  <2>4. index = 1 => lua'[h[1] + 1].t = "array"
    BY <1>2, <1>10 DEF Fits, Table, Arrays
  <2>5. Tracks(h, q, o)'
    BY <1>2, <1>10, <2>1, <2>2, <2>3, <2>4, LeaveTracks
  <2>6. g = h
    BY <1>2, <1>10 DEF Grown, Leave, Pop, Set
  <2> QED BY <1>2, <1>10, <2>5, <2>6 DEF Kept
<1>11. CASE BeginsValue(Ch) /\ Element("array_value")
  <2>1. "array_value" \in Waiting /\ "array_value" \in Arrays /\ st[index] # "delim" /\ text[i] # "]"
    BY <1>2, <1>11 DEF Waiting, Arrays, BeginsValue, Dm1, Num, Lit
  <2>2. CurAt(h) = Up(text, "array_value", key[index], lua[h[index] + 1], lua[h[index] + 2], v)
    BY <1>3, <1>4, <1>9, <2>1
  <2> QED BY <1>2, <1>7, <1>11, <2>1, <2>2, ElementTracks
<1>12. CASE Ch # "]" /\ ~BeginsValue(Ch) /\ Error
  BY <1>2, <1>9, <1>12, ErrorTracks DEF Error
<1> QED BY <1>10, <1>11, <1>12, Zenon DEF Array

\* The key and its value are set in the table: the level goes on with that, or ends.
LEMMA ObjectValue2Tracks ==
    ASSUME Typed, NEW h, Fits(h), NEW g, g = Grown(h), NEW q, NEW o, Tracks(h, q, o), ObjectValue2
    PROVE  (Kept(g)' /\ status' = "run") \/ Refuses
<1>1. In("object_value_2") /\ Ch \notin Blanks /\ "object_value_2" \in Skipping
  BY DEF ObjectValue2, Skipping
<1>2. /\ index \in 1..MaxDepth /\ index > 0 /\ st[index] = "object_value_2" /\ status = "run"
      /\ text \in Seq(Chars) /\ Len(text) \in Nat /\ i \in 1..Len(text) /\ Ch = text[i] /\ text[i] # "sp"
      /\ h[index] \in Nat /\ Len(lua) = h[index] + Above("object_value_2") /\ IsValue(lua[h[index] + 1])
      /\ key[index] \in Nat /\ Listed(lua)
  BY <1>1, InTableHere
<1>3. Len(lua) = h[index] + 3 /\ st[index] \notin Arrays /\ st[index] # "delim" /\ "object" \in Skipping
  BY <1>2 DEF Above, Arrays, Skipping
<1>4. PICK a : a = lua[h[index] + 1]
  OBVIOUS
<1>5. PICK b : b = lua[h[index] + 2]
  OBVIOUS
<1>6. PICK c : c = lua[h[index] + 3]
  OBVIOUS
<1>7. PICK t : t = RawSet(a, KeyOfString(b), c)
  OBVIOUS
<1>8. PICK e : e = Cur(text, "object_value_2", i, key[index], ptr, a, b, c)
  OBVIOUS
<1>9. CurAt(h) = e
  BY <1>2, <1>4, <1>5, <1>6, <1>8 DEF CurAt
<1>10. /\ IsBrace(text[i]) => e = Grammar!Yes(t, i + 1)
       /\ IsComma(text[i]) => \A w, x, y, z : e = Cur(text, "object", i + 1, w, x, t, y, z)
       /\ ~IsBrace(text[i]) /\ ~IsComma(text[i]) => ~e.ok
  <2>1. text \in Seq(Chars) /\ i \in 1..Len(text) /\ text[i] # "sp" /\ IsValue(a)
    BY <1>2, <1>4
  <2> QED BY <2>1, <1>7, <1>8, ObjectValue2Is
<1>11. ASSUME lua' = Append(Popped(3), RawSet(Top(3), KeyOfString(Top(2)), Top(1))), Read,
              UNCHANGED <<text, key, ptr, status>>,
              (IsBrace(Ch) /\ Leave) \/ (IsComma(Ch) /\ Set("object"))
       PROVE  Kept(g)' /\ status' = "run"
  <2>1. PICK m : m = h[index] + 1
    OBVIOUS
  <2>2. m \in 1..Len(lua) /\ m - 1 = Len(lua) - 3 /\ m = Len(lua) + 1 - 3 /\ m - 1 = h[index]
        /\ Len(lua) + 1 - 2 = h[index] + 2 /\ Len(lua) + 1 - 1 = h[index] + 3
    <3>1. h[index] \in Nat /\ Len(lua) = h[index] + 3
      BY <1>2, <1>3
    <3> QED BY <2>1, <3>1
  <2>3. lua' = Append(SubSeq(lua, 1, m - 1), RawSet(lua[m], KeyOfString(b), c))
    BY <1>5, <1>6, <1>11, <2>2 DEF Popped, Top
  <2>4. lua[m] = a
    BY <1>4, <2>1
  <2>5. (\A n \in 1..(m - 1) : lua'[n] = lua[n]) /\ lua'[m] = t
    <3>1. lua' = Append(SubSeq(lua, 1, m - 1), t)
      BY <1>7, <2>3, <2>4
    <3>2. Listed(lua) /\ m \in 1..Len(lua)
      BY <1>2, <2>2
    <3> QED BY <3>1, <3>2, ReplaceIs
  <2>6. Keeps(h[index]) /\ lua'[h[index] + 1] = t
    BY <2>1, <2>2, <2>5 DEF Keeps
  <2>7. i' = i + 1 /\ i' <= Len(text) + 1
    BY <1>2, <1>11 DEF Read
  <2>8. text' = text /\ key' = key /\ status' = "run"
    BY <1>2, <1>11
  <2>9. g = h
    BY <1>2, <1>11 DEF Grown, Leave, Pop, Set
  <2>10. ASSUME IsBrace(Ch), Leave PROVE Tracks(h, q, o)'
    <3>1. CurAt(h) = Grammar!Yes(lua'[h[index] + 1], i')
      BY <1>2, <1>9, <1>10, <2>6, <2>7, <2>10
    <3> QED BY <1>2, <1>3, <2>6, <2>7, <2>8, <2>10, <3>1, LeaveTracks
  <2>11. ASSUME IsComma(Ch), Set("object") PROVE Tracks(h, q, o)'
    <3>1. index' = index /\ st' = [st EXCEPT ![index] = "object"] /\ st \in [0..MaxDepth -> States]
      BY <2>11 DEF Set, Typed
    <3>2. st'[index'] = "object"
      BY <1>2, <3>1
    <3>3. CurAt(h)' = Cur(text, "object", i + 1, key'[index], ptr', t, lua'[h[index] + 2], lua'[h[index] + 3])
      BY <2>6, <2>7, <2>8, <3>1, <3>2 DEF CurAt
    <3>4. CurAt(h)' = CurAt(h)
      BY <1>2, <1>9, <1>10, <2>11, <3>3
    <3> QED BY <1>2, <1>3, <2>6, <2>8, <2>11, <3>4, SetTracks
  <2> QED BY <1>11, <2>8, <2>9, <2>10, <2>11 DEF Kept
<1>12. ASSUME ~IsBrace(Ch) /\ ~IsComma(Ch) /\ Error PROVE Refuses
  <2>1. ~CurAt(h).ok
    BY <1>2, <1>9, <1>10, <1>12
  <2> QED BY <1>2, <1>12, <2>1, ErrorTracks DEF Error
<1> QED BY <1>11, <1>12, Zenon DEF ObjectValue2, IsBrace, IsComma

\* The element is set in the array under the next number.
LEMMA ArrayValueTracks ==
    ASSUME Typed, NEW h, Fits(h), NEW g, g = Grown(h), NEW q, NEW o, Tracks(h, q, o), ArrayValue
    PROVE  (Kept(g)' /\ status' = "run") \/ Refuses
<1>1. In("array_value") /\ Ch \notin Blanks /\ "array_value" \in Skipping
  BY DEF ArrayValue, Skipping
<1>2. /\ index \in 1..MaxDepth /\ index > 0 /\ st[index] = "array_value" /\ status = "run"
      /\ text \in Seq(Chars) /\ Len(text) \in Nat /\ i \in 1..Len(text) /\ Ch = text[i] /\ text[i] # "sp"
      /\ h[index] \in Nat /\ Len(lua) = h[index] + Above("array_value") /\ IsValue(lua[h[index] + 1])
      /\ key[index] \in Nat /\ Listed(lua)
  BY <1>1, InTableHere
<1>3. Len(lua) = h[index] + 2 /\ st[index] \in Arrays /\ st[index] # "delim" /\ "array" \in Skipping /\ "array" \in Arrays
  BY <1>2 DEF Above, Arrays, Skipping
<1>4. PICK a : a = lua[h[index] + 1]
  OBVIOUS
<1>5. PICK b : b = lua[h[index] + 2]
  OBVIOUS
<1>6. PICK c : c = lua[h[index] + 3]
  OBVIOUS
<1>13. PICK k \in Nat : k = key[index]
  BY <1>2
<1>7. PICK t : t = RawSet(a, KeyOfIndex(k + 1), b)
  OBVIOUS
<1>8. PICK e : e = Cur(text, "array_value", i, k, ptr, a, b, c)
  OBVIOUS
<1>9. CurAt(h) = e
  BY <1>2, <1>4, <1>5, <1>6, <1>8, <1>13 DEF CurAt
<1>14. IsElement(text, i, k, t, e)
  <2>1. text \in Seq(Chars) /\ i \in 1..Len(text) /\ text[i] # "sp" /\ IsValue(a)
    BY <1>2, <1>4
  <2> QED BY <2>1, <1>7, <1>8, <1>13, ArrayValueIs
<1>10. /\ text[i] = "]" => e = Grammar!Yes(t, i + 1)
       /\ IsComma(text[i]) => \A x, y, z : e = Cur(text, "array", i + 1, k + 1, x, t, y, z)
       /\ text[i] # "]" /\ ~IsComma(text[i]) => ~e.ok
  BY <1>14 DEF IsElement
<1>11. ASSUME key' = [key EXCEPT ![index] = NextKey(@)],
              lua' = Append(Popped(2), RawSet(Top(2), KeyOfIndex(NextKey(key[index])), Top(1))), Read,
              UNCHANGED <<text, ptr, status>>,
              (Ch = "]" /\ Leave) \/ (IsComma(Ch) /\ Set("array"))
       PROVE  Kept(g)' /\ status' = "run"
  <2>1. PICK m : m = h[index] + 1
    OBVIOUS
  <2>2. m \in 1..Len(lua) /\ m - 1 = Len(lua) - 2 /\ m = Len(lua) + 1 - 2 /\ m - 1 = h[index]
        /\ Len(lua) + 1 - 1 = h[index] + 2
    BY <1>2, <1>3, <2>1
  <2>3. NextKey(key[index]) = k + 1
    BY <1>13 DEF NextKey
  <2>4. lua' = Append(SubSeq(lua, 1, m - 1), RawSet(lua[m], KeyOfIndex(k + 1), b))
    BY <1>5, <1>11, <2>2, <2>3 DEF Popped, Top
  <2>5. lua[m] = a
    BY <1>4, <2>1
  <2>6. (\A n \in 1..(m - 1) : lua'[n] = lua[n]) /\ lua'[m] = t /\ lua'[m].t = lua[m].t
    <3>1. lua' = Append(SubSeq(lua, 1, m - 1), t)
      BY <1>7, <2>4, <2>5
    <3>2. (\A n \in 1..(m - 1) : lua'[n] = lua[n]) /\ lua'[m] = t
      <4>1. Listed(lua) /\ m \in 1..Len(lua)
        BY <1>2, <2>2
      <4> QED BY <3>1, <4>1, ReplaceIs
    <3>3. t.t = a.t
      BY <1>2, <1>4, <1>7, RawSetIs
    <3> QED BY <2>5, <3>2, <3>3
  <2>7. Keeps(h[index]) /\ lua'[h[index] + 1] = t /\ lua'[h[index] + 1].t = lua[h[index] + 1].t
    BY <2>1, <2>2, <2>6 DEF Keeps
  <2>8. i' = i + 1 /\ i' <= Len(text) + 1
    BY <1>2, <1>11 DEF Read
  <2>9. text' = text /\ status' = "run"
    BY <1>2, <1>11
  <2>10. (\A d \in 1..index : d < index => key'[d] = key[d]) /\ key'[index] = k + 1
    BY <1>2, <1>11, <2>3 DEF Typed
  <2>11. g = h
    BY <1>2, <1>11 DEF Grown, Leave, Pop, Set
  <2>12. ASSUME Ch = "]", Leave PROVE Tracks(h, q, o)'
    <3>1. CurAt(h) = Grammar!Yes(lua'[h[index] + 1], i')
      BY <1>2, <1>9, <1>10, <2>7, <2>8, <2>12
    <3>2. index = 1 => lua'[h[1] + 1].t = "array"
      BY <1>2, <1>3, <2>7 DEF Fits, Table
    <3> QED BY <1>2, <1>3, <2>7, <2>8, <2>9, <2>10, <2>12, <3>1, <3>2, LeaveTracks
  <2>13. ASSUME IsComma(Ch), Set("array") PROVE Tracks(h, q, o)'
    <3>1. index' = index /\ st' = [st EXCEPT ![index] = "array"] /\ st \in [0..MaxDepth -> States]
      BY <2>13 DEF Set, Typed
    <3>2. st'[index'] = "array"
      BY <1>2, <3>1
    <3>3. CurAt(h)' = Cur(text, "array", i + 1, k + 1, ptr', t, lua'[h[index] + 2], lua'[h[index] + 3])
      BY <2>7, <2>8, <2>9, <2>10, <3>1, <3>2 DEF CurAt
    <3>4. CurAt(h)' = CurAt(h)
      BY <1>2, <1>9, <1>10, <2>13, <3>3
    <3> QED BY <1>2, <1>3, <2>7, <2>9, <2>10, <2>13, <3>4, SetTracks
  <2> QED BY <1>11, <2>9, <2>11, <2>12, <2>13 DEF Kept
<1>12. ASSUME Ch # "]" /\ ~IsComma(Ch) /\ Error PROVE Refuses
  <2>1. ~CurAt(h).ok
    BY <1>2, <1>9, <1>10, <1>12
  <2> QED BY <1>2, <1>12, <2>1, ErrorTracks DEF Error
<1> QED BY <1>11, <1>12, Zenon DEF ArrayValue, IsComma

--------------------------------------------------------------------------------
(***************************************************************************)
(* The end of a text, the invariant and the theorem.                       *)
(***************************************************************************)

LEMMA OutcomeOf ==
    ASSUME NEW p, NEW q, NEW x, x = [ok |-> p, values |-> q]
    PROVE  x.ok = p /\ x.values = q
  OBVIOUS

\* An outcome that is one: it holds its values and nothing else.
LEMMA ValuesRecord ==
    ASSUME NEW f \in Seq(Chars), NEW v, v = Grammar!Values(f), NEW n \in 1..(Len(f) + 2), v[n].ok
    PROVE  v[n] = [ok |-> TRUE, values |-> v[n].values]
<1>1. v[n] = ValuesStep(f, v, n)
  BY ValuesUnfold
<1>2. PICK r : r = v[n]
  OBVIOUS
<1>3. \/ \E w : r = [ok |-> TRUE, values |-> w]
      \/ r = [ok |-> FALSE, values |-> <<>>]
  BY <1>1, <1>2, Zenon DEF ValuesStep, Follow
<1>4. ASSUME r = [ok |-> FALSE, values |-> <<>>] PROVE FALSE
  <2>1. r.ok = FALSE
    BY <1>4, OutcomeOf
  <2> QED BY <1>2, <2>1
<1>5. ASSUME NEW w, r = [ok |-> TRUE, values |-> w] PROVE r = [ok |-> TRUE, values |-> r.values]
  BY <1>5
<1> QED BY <1>2, <1>3, <1>4, <1>5

\* The text ends.
LEMMA FinishTracks ==
    ASSUME Typed, NEW h, Fits(h), NEW q, NEW o, Tracks(h, q, o), Finish, ~SlashEnd(text)
    PROVE  (status' = "ok" /\ Grammar!Decoded(text) = [ok |-> TRUE, values |-> lua]) \/ Refuses
<1>1. /\ status' = IF st[index] \in {"value"} THEN "ok" ELSE "error"
      /\ i > Len(text) + 1
  BY DEF Finish, EndStates
<1>2. text \in Seq(Chars) /\ Len(text) \in Nat /\ i \in 1..(Len(text) + 2) /\ st[0] = "value"
      /\ index \in 0..MaxDepth /\ Listed(lua)
  BY TextsAssumption DEF Typed, Fits
<1>3. i = Len(text) + 2 /\ i \in (Len(text) + 1)..(Len(text) + 2)
  BY <1>1, <1>2
<1>4. ASSUME index = 0 PROVE status' = "ok" /\ Grammar!Decoded(text) = [ok |-> TRUE, values |-> lua]
  <2>1. PICK vs : vs = Grammar!Values(text)
    OBVIOUS
  <2>2. vs[i].ok /\ vs[i].values = <<>>
    BY <1>2, <1>3, <2>1, ValuesEnd
  <2>3. Agrees(text, lua, vs[i])
    BY <1>4, <2>1 DEF Tracks, Whole
  <2>4. 1 \in 1..(Len(text) + 2) /\ Grammar!Decoded(text) = vs[1]
    BY <1>2, <2>1 DEF Grammar!Decoded
  <2>5. vs[1].ok = vs[i].ok /\ (vs[i].ok => vs[1].values = lua \o vs[i].values)
    BY <2>3, <2>4, Zenon DEF Agrees
  <2>6. vs[1].ok \in BOOLEAN /\ vs[i].ok \in BOOLEAN
    BY <1>2, <2>1, <2>4, ValuesListed
  <2>7. vs[1].ok /\ vs[1].values = lua \o <<>>
    BY <2>2, <2>5, Zenon
  <2>8. lua \o <<>> = lua
    BY <1>2, JoinIs, EmptyListed
  <2>9. vs[1] = [ok |-> TRUE, values |-> vs[1].values]
    BY <1>2, <2>1, <2>4, <2>7, ValuesRecord
  <2>10. status' = "ok"
    BY <1>1, <1>2, <1>4
  <2> QED BY <2>4, <2>7, <2>8, <2>9, <2>10, Zenon
<1>5. ASSUME index > 0 PROVE Refuses
  <2>1. Scan(text, st[index], i, ptr) /\ st[index] \in States /\ key[index] \in Nat
    BY <1>2, <1>5 DEF Tracks, Typed
  <2>2. st[index] \notin {"value", "number", "literal", "delim"}
    BY <1>2, <1>3, <2>1 DEF Scan
  <2>3. st[index] \in Skipping \/ st[index] = "string"
    BY <2>1, <2>2 DEF States, Skipping
  <2>4. ASSUME st[index] \in Skipping PROVE ~CurAt(h).ok
    BY <1>2, <1>3, <2>1, <2>4, CurEnd DEF CurAt
  <2>5. ASSUME st[index] = "string" PROVE ~CurAt(h).ok
    <3>1. ptr \in 1..(Len(text) + 1)
      BY <1>2, <1>5, <2>5 DEF Fits, Typed
    <3>2. Quoted(text, ptr) /\ \A k \in ptr..Len(text) : ~Shut(text, ptr, k)
      BY <1>2, <1>3, <2>1, <2>5, <3>1 DEF Scan
    <3>3. Grammar!StringAt(text, ptr - 1) = Grammar!No
      BY <1>2, <3>1, <3>2, OpenString
    <3>4. CurAt(h) = Grammar!StringAt(text, ptr - 1)
      BY <2>5, CurIs DEF CurAt
    <3> QED BY <3>3, <3>4, YesIs
  <2>6. status' = "error"
    BY <1>1, <2>2
  <2>7. ~CurAt(h).ok
    BY <2>3, <2>4, <2>5
  <2> QED BY <1>5, <2>6, <2>7, ErrorTracks
<1> QED BY <1>2, <1>4, <1>5

\* While the parser runs, what it has and what is still to be read come to what
\* the grammar makes of the text; afterwards it has given that, or refused.
DInv == /\ status = "run" => \E h, q, o : Fits(h) /\ Tracks(h, q, o)
        /\ Decodes

LEMMA InitDecodes == Init => DInv
<1> SUFFICES ASSUME Init PROVE DInv
  OBVIOUS
<1>1. PICK h : Fits(h)
  BY InitFits DEF IInv
<1>2. /\ text \in Seq(Chars) /\ i = 1 /\ index = 0 /\ key[1] = 0 /\ lua = <<>> /\ status = "run"
  BY TextsAssumption DEF Init
<1>3. Len(text) \in Nat /\ Listed(<<>>)
  BY <1>2, EmptyListed
<1>4. PICK r : r = Grammar!Decoded(text)
  OBVIOUS
<1>5. r = Grammar!Values(text)[1] /\ Listed(r.values)
  BY <1>2, <1>3, <1>4, ValuesListed DEF Grammar!Decoded
<1>6. <<>> \o r.values = r.values
  BY <1>3, <1>5, JoinIs
<1>7. Agrees(text, <<>>, r)
  BY <1>4, <1>6, Zenon DEF Agrees
<1>8. Whole(h, <<>>, <<>>) /\ Levels(h, <<>>) /\ Keyed(h, <<>>)
  BY <1>2, <1>3, <1>5, <1>7 DEF Whole, Levels, Keyed
<1>9. Tracks(h, <<>>, <<>>)
  BY <1>2, <1>8 DEF Tracks
<1> QED BY <1>1, <1>2, <1>9 DEF DInv, Decodes

\* Only a parser that runs does anything, and never to its text.
LEMMA OnlyRuns == ASSUME Next PROVE status = "run"
<1>1. CASE Blank \/ BeginArray \/ BeginObject \/ BeginToken \/ NoValue
  BY <1>1, Zenon DEF Blank, BeginArray, BeginObject, BeginToken, NoValue, In
<1>2. CASE String \/ Delim \/ Object \/ ObjectKey \/ ObjectValue \/ ObjectValue2
  BY <1>2, Zenon DEF String, Delim, Object, ObjectKey, ObjectValue, ObjectValue2, In
<1>3. CASE Array \/ ArrayValue \/ Finish
  BY <1>3, Zenon DEF Array, ArrayValue, Finish, In
<1>4. CASE Number \/ Literal
  BY <1>4, Zenon DEF Number, Literal, Word, In
<1> QED BY <1>1, <1>2, <1>3, <1>4, Zenon DEF Next

LEMMA SameText == ASSUME [Next]_vars PROVE text' = text
<1>1. CASE Blank \/ BeginArray \/ BeginObject \/ BeginToken \/ NoValue
  BY <1>1, Zenon DEF Blank, BeginArray, BeginObject, BeginToken, NoValue, Error
<1>2. CASE String \/ Delim \/ ObjectKey
  BY <1>2, Zenon DEF String, Delim, ObjectKey, PushValue, Error
<1>3. CASE ObjectValue \/ ObjectValue2 \/ Object
  BY <1>3, Zenon DEF ObjectValue, ObjectValue2, Object, Element, Error
<1>4. CASE Array \/ ArrayValue \/ Finish
  BY <1>4, Zenon DEF Array, ArrayValue, Finish, Element, Error
<1>5. CASE Number \/ Literal
  BY <1>5, Zenon DEF Number, Literal, Word, PushValue, Error
<1>6. CASE UNCHANGED vars
  BY <1>6 DEF vars
<1> QED BY <1>1, <1>2, <1>3, <1>4, <1>5, <1>6, Zenon DEF Next

\* A step goes on with what is to be decoded, or has decoded it, or refuses what
\* has no values.
Decided(g) == \/ Kept(g)' /\ status' = "run"
              \/ status' = "ok" /\ Grammar!Decoded(text) = [ok |-> TRUE, values |-> lua']
              \/ Refuses

\* Steps that begin no level
LEMMA StayDecided ==
    ASSUME Typed, NEW h, NEW g, g = Grown(h), index' # index + 1, NEW q, NEW o,
           (Tracks(h, q, o)' /\ status' = "run") \/ (Kept(h)' /\ status' = "run") \/ Refuses
    PROVE  Decided(g)
<1>1. g = h
  BY SameHeights
<1> QED BY <1>1 DEF Decided, Kept

LEMMA NextDecided ==
    ASSUME Typed, NEW h, Fits(h), NEW g, g = Grown(h), NEW q, NEW o, Tracks(h, q, o), Plain(text), DepthChecked, Next
    PROVE  Decided(g)
<1>1. ~SlashEnd(text) /\ WholeCodes(text) /\ OneArray(text) /\ status = "run"
  BY OnlyRuns DEF Plain
<1>2. ASSUME Blank PROVE Decided(g)
  <2>1. Tracks(h, q, o)'
    BY <1>2, BlankTracks
  <2>2. index' = index /\ status' = "run" /\ index \in Nat
    BY <1>1, <1>2 DEF Blank, Typed
  <2> QED BY <2>1, <2>2, StayDecided
<1>3. ASSUME BeginArray PROVE Decided(g)
  <2>1. ~Overflow
    BY DEF Overflow, DepthChecked, Typed
  <2> QED BY <1>1, <1>3, <2>1, BeginArrayTracks DEF Decided
<1>4. ASSUME BeginObject PROVE Decided(g)
  BY <1>1, <1>4, BeginObjectTracks DEF Decided
<1>5. ASSUME BeginToken PROVE Decided(g)
  BY <1>1, <1>5, BeginTokenTracks DEF Decided
<1>6. ASSUME NoValue PROVE Decided(g)
  BY <1>6, NoValueTracks DEF Decided
<1>7. ASSUME String PROVE Decided(g)
  BY <1>1, <1>7, StringTracks, StayDecided
<1>8. ASSUME Number PROVE Decided(g)
  BY <1>8, NumberTracks, StayDecided
<1>9. ASSUME Literal PROVE Decided(g)
  BY <1>9, LiteralTracks, StayDecided
<1>10. ASSUME Delim PROVE Decided(g)
  BY <1>10, DelimTracks, StayDecided
<1>11. ASSUME Object PROVE Decided(g)
  BY <1>11, ObjectTracks DEF Decided
<1>12. ASSUME ObjectKey PROVE Decided(g)
  BY <1>12, ObjectKeyTracks DEF Decided
<1>13. ASSUME ObjectValue PROVE Decided(g)
  BY <1>13, ObjectValueTracks DEF Decided
<1>14. ASSUME ObjectValue2 PROVE Decided(g)
  BY <1>14, ObjectValue2Tracks DEF Decided
<1>15. ASSUME Array PROVE Decided(g)
  BY <1>15, ArrayTracks DEF Decided
<1>16. ASSUME ArrayValue PROVE Decided(g)
  BY <1>16, ArrayValueTracks DEF Decided
<1>17. ASSUME Finish PROVE Decided(g)
  <2>1. lua' = lua
    BY <1>17 DEF Finish
  <2>2. (status' = "ok" /\ Grammar!Decoded(text) = [ok |-> TRUE, values |-> lua]) \/ Refuses
    BY <1>1, <1>17, FinishTracks
  <2> QED BY <2>1, <2>2 DEF Decided
<1> QED
  BY <1>2, <1>3, <1>4, <1>5, <1>6, <1>7, <1>8, <1>9, <1>10, <1>11, <1>12, <1>13, <1>14, <1>15, <1>16, <1>17, Zenon
     DEF Next

LEMMA NextDecodes == IInv /\ DInv /\ Plain(text) /\ DepthChecked /\ [Next]_vars => DInv' /\ Plain(text)'
<1> SUFFICES ASSUME IInv, DInv, Plain(text), DepthChecked, [Next]_vars
             PROVE  DInv' /\ Plain(text)'
  OBVIOUS
<1>1. Typed /\ text' = text
  BY SameText DEF IInv
<1>2. Plain(text)'
  BY <1>1, Zenon
<1>3. ASSUME Next PROVE DInv'
  <2>1. status = "run"
    BY <1>3, OnlyRuns
  <2>2. PICK h, q, o : Fits(h) /\ Tracks(h, q, o)
    BY <2>1 DEF DInv
  <2>3. PICK g : g = Grown(h)
    OBVIOUS
  <2>4. ~Overflow
    BY <1>1 DEF Overflow, DepthChecked, Typed
  <2>5. Fits(g)'
    BY <1>1, <1>3, <2>2, <2>3, <2>4, NextFits
  <2>6. Decided(g)
    BY <1>1, <1>3, <2>2, <2>3, NextDecided
  <2>7. CASE Kept(g)' /\ status' = "run"
    BY <2>5, <2>7 DEF DInv, Kept, Decodes
  <2>8. CASE status' = "ok" /\ Grammar!Decoded(text) = [ok |-> TRUE, values |-> lua']
    BY <1>1, <2>8 DEF DInv, Decodes
  <2>9. CASE Refuses
    BY <1>1, <2>9 DEF DInv, Decodes, Refuses
  <2> QED BY <2>6, <2>7, <2>8, <2>9 DEF Decided
<1>4. ASSUME UNCHANGED vars PROVE DInv'
  <2>1. UNCHANGED <<text, i, index, st, key, ptr, lua, status>>
    BY <1>4 DEF vars
  <2>2. Decodes'
    BY <2>1, Zenon DEF DInv, Decodes
  <2>3. ASSUME NEW h, Fits(h) PROVE Fits(h)'
    BY <2>1, <2>3, Zenon DEF Fits, Table, Waits
  <2>4. ASSUME NEW h, NEW q, NEW o, Tracks(h, q, o) PROVE Tracks(h, q, o)'
    <3>1. CurAt(h)' = CurAt(h) /\ \A d, e : UpAt(h, d, e)' = UpAt(h, d, e)
      BY <2>1, Zenon DEF CurAt, UpAt
    <3>2. Levels(h, o)' = Levels(h, o)
      BY <2>1, <3>1, Zenon DEF Levels, Lower
    <3>3. Whole(h, q, o)' = Whole(h, q, o)
      BY <2>1, Zenon DEF Whole
    <3>4. Keyed(h, q)' = Keyed(h, q)
      BY <2>1, Zenon DEF Keyed
    <3> QED BY <2>1, <2>4, <3>2, <3>3, <3>4, Zenon DEF Tracks
  <2> QED BY <2>1, <2>2, <2>3, <2>4, Zenon DEF DInv
<1> QED BY <1>2, <1>3, <1>4

\* A text that is plain, and never takes the parser to the level that has no cell, is
\* decoded to the values that the grammar gives it, and refused exactly if the grammar
\* has none, however values nest.
THEOREM DecodesPlain == Spec /\ Plain(text) /\ []DepthChecked => []Decodes
<1>1. Init => IInv /\ DInv
  BY InitFits, InitDecodes
<1>2. (IInv /\ DInv /\ Plain(text)) /\ DepthChecked /\ [Next]_vars => (IInv /\ DInv /\ Plain(text))'
  BY NextInv, NextDecodes
<1>3. IInv /\ DInv => Decodes
  BY DEF DInv
<1> QED
  BY <1>1, <1>2, <1>3, PTL DEF Spec

--------------------------------------------------------------------------------
(***************************************************************************)
(* Which texts never reach the depth check: a level is there for a         *)
(* bracket, and one more for the value that is being read in it.           *)
(***************************************************************************)

\* The brackets that open before n
Opened(f, n) == {k \in 1..Len(f) : k < n /\ f[k] \in Dm1}
LEMMA OpenedIs ==
    ASSUME NEW f, Len(f) \in Nat, NEW n \in Nat, NEW m \in Nat, n <= m
    PROVE  /\ Cardinality(Opened(f, n)) \in Nat /\ Cardinality(Opened(f, m)) \in Nat
           /\ Cardinality(Opened(f, n)) <= Cardinality(Opened(f, m))
<1>1. IsFiniteSet(1..Len(f))
  BY FS_Interval
<1>2. Opened(f, m) \subseteq 1..Len(f) /\ Opened(f, n) \subseteq Opened(f, m)
  BY DEF Opened
<1>3. IsFiniteSet(Opened(f, m))
  BY <1>1, <1>2, FS_Subset
<1>4. IsFiniteSet(Opened(f, n)) /\ Cardinality(Opened(f, n)) <= Cardinality(Opened(f, m))
  BY <1>2, <1>3, FS_Subset
<1> QED BY <1>3, <1>4, FS_CardinalityType

LEMMA OpenedMore ==
    ASSUME NEW f, Len(f) \in Nat, NEW n \in 1..Len(f), f[n] \in Dm1
    PROVE  Cardinality(Opened(f, n + 1)) = Cardinality(Opened(f, n)) + 1
<1>1. IsFiniteSet(1..Len(f))
  BY FS_Interval
<1>2. Opened(f, n) \subseteq 1..Len(f) /\ n \notin Opened(f, n) /\ Opened(f, n + 1) = Opened(f, n) \cup {n}
  BY DEF Opened
<1>3. IsFiniteSet(Opened(f, n))
  BY <1>1, <1>2, FS_Subset
<1> QED BY <1>2, <1>3, FS_AddElement

\* A level for every bracket that is open, and one for the value in the last one
Room(s) == IF s \in Arrays \cup Objects THEN 0 ELSE 1
Deep == index = 0 \/ index <= Cardinality(Opened(text, i)) + Room(st[index])
\* Few brackets open in a text, wherever they are in it.
Shallow(t) == Cardinality(Opened(t, Len(t) + 1)) + 1 < MaxDepth

LEMMA ShallowIs ==
    ASSUME Typed, Deep, Shallow(text)
    PROVE  DepthChecked
<1>1. Len(text) \in Nat /\ i \in Nat /\ index \in Nat /\ MaxDepth \in Nat
  BY TextsAssumption DEF Typed
<1>2. Opened(text, i) \subseteq Opened(text, Len(text) + 1)
  BY <1>1 DEF Opened
<1>3. IsFiniteSet(1..Len(text)) /\ Opened(text, Len(text) + 1) \subseteq 1..Len(text)
  BY <1>1, FS_Interval DEF Opened
<1>4. IsFiniteSet(Opened(text, Len(text) + 1))
  BY <1>3, FS_Subset
<1>5. Cardinality(Opened(text, i)) <= Cardinality(Opened(text, Len(text) + 1))
  BY <1>2, <1>4, FS_Subset
<1>6. PICK n : n = Cardinality(Opened(text, i))
  OBVIOUS
<1>7. PICK m : m = Cardinality(Opened(text, Len(text) + 1))
  OBVIOUS
<1>8. n \in Nat /\ m \in Nat
  BY <1>1, <1>6, <1>7, OpenedIs
<1>9. n <= m /\ m + 1 < MaxDepth
  BY <1>5, <1>6, <1>7 DEF Shallow
<1>10. index = 0 \/ index <= n + 1
  BY <1>1, <1>6, <1>8 DEF Deep, Room
<1> QED BY <1>1, <1>8, <1>9, <1>10 DEF DepthChecked

\* What a step does to the level, by what it reads
LEMMA StepDeep ==
    ASSUME Typed, NEW h, Fits(h), Deep, text' = text, NEW m \in Nat, i' = m, i <= m,
           \/ index' = index /\ (index > 0 => Room(st'[index]) >= Room(st[index]))
           \/ index > 0 /\ Leave
           \/ index' = 0
           \/ index > 0 /\ st[index] \in Arrays \cup Objects /\ index' = index + 1 /\ st'[index'] \in {"value", "string"}
           \/ index' = (IF index = 0 THEN 1 ELSE index) /\ st'[index'] \notin Arrays \cup Objects
           \/ /\ index' = IF index = 0 THEN 1 ELSE index
              /\ i \in 1..Len(text) /\ text[i] \in Dm1 /\ i' = i + 1
    PROVE  Deep'
<1>1. Len(text) \in Nat /\ i \in Nat /\ index \in Nat
  BY TextsAssumption DEF Typed
<1>2. PICK n : n = Cardinality(Opened(text, i))
  OBVIOUS
<1>3. PICK p : p = Cardinality(Opened(text, m))
  OBVIOUS
<1>4. n \in Nat /\ p \in Nat /\ n <= p
  BY <1>1, <1>2, <1>3, OpenedIs
<1>5. \A s : Room(s) \in {0, 1}
  BY DEF Room
<1>6. index = 0 \/ index <= n + Room(st[index])
  BY <1>2 DEF Deep
<1>7. ASSUME index' = 0 \/ index' <= p + Room(st'[index']) PROVE Deep'
  <2>1. Deep' <=> (index' = 0 \/ index' <= Cardinality(Opened(text, m)) + Room(st'[index']))
    BY Zenon DEF Deep
  <2> QED BY <1>3, <1>7, <2>1
<1>8. CASE index' = index /\ (index > 0 => Room(st'[index]) >= Room(st[index]))
  BY <1>1, <1>4, <1>5, <1>6, <1>7, <1>8
<1>9. CASE index > 0 /\ Leave
  <2>1. CASE index > 1
    <3>1. index' = index - 1 /\ st' = st
      BY <1>9, <2>1 DEF Leave, Pop
    <3>2. Waits(h, index - 1)
      BY <1>1, <2>1 DEF Fits
    <3>3. st'[index'] \in Arrays \cup Objects
      BY <3>1, <3>2 DEF Waits, Waiting, Arrays, Objects
    <3>4. Room(st'[index']) = 0
      BY <3>3 DEF Room
    <3> QED BY <1>1, <1>4, <1>5, <1>6, <1>7, <2>1, <3>1, <3>4
  <2>2. CASE ~(index > 1)
    <3>1. index' = index /\ st'[index'] = "delim" /\ index = 1
      BY <1>1, <1>9, <2>2 DEF Leave, Set, Typed
    <3>2. Room(st'[index']) = 1
      BY <3>1 DEF Room, Arrays, Objects
    <3> QED BY <1>4, <1>7, <3>1, <3>2
  <2> QED BY <2>1, <2>2
<1>10. CASE index' = 0
  BY <1>7, <1>10
<1>11. CASE index > 0 /\ st[index] \in Arrays \cup Objects /\ index' = index + 1 /\ st'[index'] \in {"value", "string"}
  <2>1. Room(st'[index']) = 1 /\ Room(st[index]) = 0
    BY <1>11 DEF Room, Arrays, Objects
  <2> QED BY <1>1, <1>4, <1>6, <1>7, <1>11, <2>1
<1>12. CASE index' = (IF index = 0 THEN 1 ELSE index) /\ st'[index'] \notin Arrays \cup Objects
  <2>1. Room(st'[index']) = 1
    BY <1>12 DEF Room
  <2> QED BY <1>1, <1>4, <1>5, <1>6, <1>7, <1>12, <2>1
<1>13. CASE /\ index' = IF index = 0 THEN 1 ELSE index
            /\ i \in 1..Len(text) /\ text[i] \in Dm1 /\ i' = i + 1
  <2>1. p = n + 1
    BY <1>1, <1>2, <1>3, <1>13, OpenedMore
  <2> QED BY <1>1, <1>4, <1>5, <1>6, <1>7, <1>13, <2>1
<1> QED BY <1>8, <1>9, <1>10, <1>11, <1>12, <1>13, Zenon

\* A step as StepDeep wants it
Deepens ==
    /\ text' = text /\ i' \in Nat /\ i <= i'
    /\ \/ index' = index /\ st' = st
       \/ index > 0 /\ index' = index /\ st'[index'] \in Arrays \cup Objects /\ st[index] \in Arrays \cup Objects
       \/ index > 0 /\ Leave
       \/ index' = 0
       \/ index > 0 /\ st[index] \in Arrays \cup Objects /\ index' = index + 1 /\ st'[index'] \in {"value", "string"}
       \/ index' = (IF index = 0 THEN 1 ELSE index) /\ st'[index'] \notin Arrays \cup Objects
       \/ /\ index' = IF index = 0 THEN 1 ELSE index
          /\ i \in 1..Len(text) /\ text[i] \in Dm1 /\ i' = i + 1
LEMMA DeepStays ==
    ASSUME Typed, NEW h, Fits(h), Deep, Deepens
    PROVE  Deep'
<1>1. PICK m : m = i'
  OBVIOUS
<1>2. text' = text /\ m \in Nat /\ i' = m /\ i <= m
  BY <1>1 DEF Deepens
<1>3. \A s : Room(s) >= Room(s) /\ Room(s) \in Nat /\ (s \in Arrays \cup Objects => Room(s) = 0)
  BY DEF Room
<1>4. CASE \/ index' = index /\ st' = st
           \/ index > 0 /\ index' = index /\ st'[index'] \in Arrays \cup Objects /\ st[index] \in Arrays \cup Objects
  <2>1. index' = index /\ (index > 0 => Room(st'[index]) >= Room(st[index]))
    BY <1>3, <1>4
  <2> QED BY <1>2, <2>1, StepDeep
<1>5. CASE \/ index > 0 /\ Leave
           \/ index' = 0
           \/ index > 0 /\ st[index] \in Arrays \cup Objects /\ index' = index + 1 /\ st'[index'] \in {"value", "string"}
  BY <1>2, <1>5, StepDeep
<1>6. CASE \/ index' = (IF index = 0 THEN 1 ELSE index) /\ st'[index'] \notin Arrays \cup Objects
           \/ /\ index' = IF index = 0 THEN 1 ELSE index
              /\ i \in 1..Len(text) /\ text[i] \in Dm1 /\ i' = i + 1
  BY <1>2, <1>6, StepDeep
<1> QED BY <1>4, <1>5, <1>6, Zenon DEF Deepens

\* What an action may do to text, place and levels
LEMMA Forth == ASSUME Typed, i' \in {i, i + 1, i + 2} PROVE i' \in Nat /\ i <= i'
<1>1. i \in Nat
  BY TextsAssumption DEF Typed
<1> QED BY <1>1

LEMMA StaysDeep == ASSUME Typed, text' = text, i' \in {i, i + 1, i + 2}, index' = index, st' = st PROVE Deepens
  BY Forth DEF Deepens

LEMMA LeavesDeep == ASSUME Typed, text' = text, i' \in {i, i + 1}, index > 0, Leave PROVE Deepens
<1>1. i' \in {i, i + 1, i + 2}
  OBVIOUS
<1> QED BY <1>1, Forth DEF Deepens

LEMMA EntersDeep ==
    ASSUME Typed, NEW h, Fits(h), In("value"), text' = text, Read, NEW s \in Beginnings, Enter(s),
           s \in {"array", "object"} => Ch \in Dm1
    PROVE  Deepens
<1>1. PICK g : g = Grown(h)
  OBVIOUS
<1>2. st[index] = "value" /\ i <= Len(text) + 1
  BY DEF In
<1>3. st'[index'] = s /\ index' = IF index = 0 THEN 1 ELSE index
  BY <1>1, <1>2, EnterIs DEF Typed
<1>4. i' = i + 1 /\ i' \in Nat /\ i <= i'
  BY Forth DEF Read
<1>5. CASE s \in {"array", "object"}
  <2>1. Ch # "NUL" /\ Ch \in Dm1
    BY <1>5 DEF Dm1
  <2>2. i \in 1..Len(text) /\ text[i] \in Dm1
    BY <1>2, <2>1, CharIs
  <2> QED BY <1>3, <1>4, <2>2 DEF Deepens
<1>6. CASE s \notin {"array", "object"}
  <2>1. s \notin Arrays \cup Objects
    BY <1>6 DEF Beginnings, Arrays, Objects
  <2> QED BY <1>3, <1>4, <2>1 DEF Deepens
<1> QED BY <1>5, <1>6

LEMMA SetsDeep ==
    ASSUME Typed, text' = text, Read, index > 0, st[index] \in Arrays \cup Objects,
           NEW s \in Arrays \cup Objects, Set(s)
    PROVE  Deepens
<1>1. index' = index /\ st'[index'] = s
  BY DEF Set, Typed
<1>2. i' \in Nat /\ i <= i'
  BY Forth DEF Read
<1> QED BY <1>1, <1>2 DEF Deepens

LEMMA PushesDeep ==
    ASSUME Typed, text' = text, Read \/ Reread, index > 0, st[index] \in Arrays \cup Objects,
           NEW s, NEW p \in {"value", "string"}, SetAndPush(s, p)
    PROVE  Deepens
<1>1. index' = index + 1 /\ st'[index'] = p
  BY DEF SetAndPush, Typed
<1>2. i' \in Nat /\ i <= i'
  BY Forth DEF Read, Reread
<1> QED BY <1>1, <1>2 DEF Deepens

LEMMA ErrorDeep == ASSUME Typed, Error PROVE Deepens
  BY StaysDeep DEF Error

LEMMA NextDeepens ==
    ASSUME Typed, NEW h, Fits(h), DepthChecked, Next
    PROVE  Deepens
<1>0. Typed /\ Fits(h)
  OBVIOUS
<1>1. ASSUME NEW s, In(s), s # "value" PROVE index > 0 /\ st[index] = s
  BY <1>1, InLevel
<1>2. ASSUME Blank PROVE Deepens
  BY <1>2, StaysDeep DEF Blank, Read
<1>3. ASSUME BeginArray PROVE Deepens
  <2>1. In("value") /\ Ch = "[" /\ text' = text /\ Read
    BY <1>3 DEF BeginArray
  <2>2. Enter("array")
    BY <1>3 DEF BeginArray, DepthChecked
  <2>3. "array" \in Beginnings /\ Ch \in Dm1
    BY <2>1 DEF Beginnings, Dm1
  <2> QED BY <2>1, <2>2, <2>3, EntersDeep
<1>4. ASSUME BeginObject PROVE Deepens
  <2>1. In("value") /\ Ch \in Dm1 /\ text' = text /\ Read /\ Enter("object")
    BY <1>4, Zenon DEF BeginObject, Dm1
  <2>2. "object" \in Beginnings
    BY DEF Beginnings
  <2> QED BY <2>1, <2>2, EntersDeep
<1>5. ASSUME BeginToken PROVE Deepens
  <2>1. In("value") /\ text' = text /\ Read
    BY <1>5 DEF BeginToken
  <2>2. PICK s \in {"string", "number", "literal"} : Enter(s)
    BY <1>5 DEF BeginToken
  <2>3. s \in Beginnings /\ s \notin {"array", "object"}
    BY DEF Beginnings
  <2> QED BY <2>1, <2>2, <2>3, EntersDeep
<1>6. ASSUME NoValue PROVE Deepens
  BY <1>6, ErrorDeep DEF NoValue
<1>7. ASSUME String PROVE Deepens
  <2>1. index > 0
    BY <1>1, <1>7 DEF String
  <2>2. CASE i' = i + 2 /\ UNCHANGED <<text, index, st, key, ptr, lua, status>>
    BY <2>2, StaysDeep
  <2>3. CASE Read /\ UNCHANGED <<text, index, st, key, ptr, lua, status>>
    BY <2>3, StaysDeep DEF Read
  <2>4. CASE Leave /\ text' = text /\ Read
    BY <2>1, <2>4, LeavesDeep DEF Read
  <2> QED BY <1>7, <2>2, <2>3, <2>4 DEF String, PushValue
<1>8. ASSUME NEW s \in {"number", "literal"}, NEW legal, NEW v, Word(s, legal, v) PROVE Deepens
  <2>1. index > 0
    BY <1>1, <1>8 DEF Word
  <2>2. CASE Read /\ UNCHANGED <<text, index, st, key, ptr, lua, status>>
    BY <2>2, StaysDeep DEF Read
  <2>3. CASE PushValue(v) /\ Reread
    BY <2>1, <2>3, LeavesDeep DEF PushValue, Reread
  <2>4. CASE Error
    BY <2>4, ErrorDeep
  <2> QED BY <1>8, <2>2, <2>3, <2>4, Zenon DEF Word
<1>9. ASSUME Number PROVE Deepens
  BY <1>8, <1>9 DEF Number
<1>10. ASSUME Literal PROVE Deepens
  BY <1>8, <1>10 DEF Literal
<1>11. ASSUME Delim PROVE Deepens
  <2>1. index = 1 /\ text' = text
    <3>1. In("delim") /\ text' = text
      BY <1>11, Zenon DEF Delim
    <3>2. index > 0 /\ st[index] = "delim"
      BY <1>1, <3>1
    <3> QED BY <3>1, <3>2 DEF Fits
  <2>2. CASE Pop(1) /\ (Read \/ Reread)
    <3>1. index' = 0
      BY <2>1, <2>2 DEF Pop
    <3>2. i' \in Nat /\ i <= i'
      BY <2>2, Forth DEF Read, Reread
    <3> QED BY <2>1, <3>1, <3>2 DEF Deepens
  <2>3. CASE (Read \/ i' = i) /\ UNCHANGED <<index, st>>
    BY <2>1, <2>3, StaysDeep DEF Read
  <2> QED BY <1>11, <2>2, <2>3, Zenon DEF Delim
<1>12. ASSUME NEW s \in Arrays \cup Objects, In(s) PROVE index > 0 /\ st[index] \in Arrays \cup Objects
  <2>1. s # "value"
    BY DEF Arrays, Objects
  <2> QED BY <1>1, <1>12, <2>1
<1>13. ASSUME NEW s \in Arrays \cup Objects, In(s), NEW r, Element(r) PROVE Deepens
  <2>1. index > 0 /\ st[index] \in Arrays \cup Objects
    BY <1>12, <1>13
  <2>2. CASE SetAndPush(r, "value") /\ Reread /\ text' = text
    BY <2>1, <2>2, PushesDeep
  <2> QED BY <1>13, <2>2, ErrorDeep DEF Element
<1>14. ASSUME NEW s \in Arrays \cup Objects, In(s), text' = text, Read, Leave \/ \E r \in Arrays \cup Objects : Set(r)
       PROVE  Deepens
  <2>1. index > 0 /\ st[index] \in Arrays \cup Objects
    BY <1>12, <1>14
  <2>2. CASE Leave
    BY <1>14, <2>1, <2>2, LeavesDeep DEF Read
  <2>3. CASE \E r \in Arrays \cup Objects : Set(r)
    BY <1>14, <2>1, <2>3, SetsDeep
  <2> QED BY <1>14, <2>2, <2>3
<1>15. /\ "array" \in Arrays \cup Objects /\ "array_value" \in Arrays \cup Objects /\ "object" \in Arrays \cup Objects
       /\ "object_key" \in Arrays \cup Objects /\ "object_value" \in Arrays \cup Objects
       /\ "object_value_2" \in Arrays \cup Objects
  BY DEF Arrays, Objects
<1>16. ASSUME Object PROVE Deepens
  <2>1. In("object") /\ index > 0 /\ st[index] \in Arrays \cup Objects
    BY <1>12, <1>15, <1>16 DEF Object
  <2>2. CASE SetAndPush("object_key", "string") /\ Read /\ text' = text
    BY <2>1, <2>2, PushesDeep
  <2>3. CASE Leave /\ Read /\ text' = text
    BY <1>14, <1>15, <2>1, <2>3
  <2> QED BY <1>16, <2>2, <2>3, ErrorDeep, Zenon DEF Object
<1>17. ASSUME ObjectKey PROVE Deepens
  <2>1. CASE In("object_key") /\ Set("object_value") /\ Read /\ text' = text
    BY <1>14, <1>15, <2>1
  <2> QED BY <1>17, <2>1, ErrorDeep, Zenon DEF ObjectKey
<1>18. ASSUME ObjectValue PROVE Deepens
  <2>1. CASE In("object_value") /\ Element("object_value_2")
    BY <1>13, <1>15, <2>1
  <2> QED BY <1>18, <2>1, ErrorDeep, Zenon DEF ObjectValue
<1>19. ASSUME ObjectValue2 PROVE Deepens
  <2>1. CASE In("object_value_2") /\ (Leave \/ Set("object")) /\ Read /\ text' = text
    BY <1>14, <1>15, <2>1
  <2> QED BY <1>19, <2>1, ErrorDeep, Zenon DEF ObjectValue2
<1>20. ASSUME Array PROVE Deepens
  <2>1. CASE In("array") /\ Leave /\ Read /\ text' = text
    BY <1>14, <1>15, <2>1
  <2>2. CASE In("array") /\ Element("array_value")
    BY <1>13, <1>15, <2>2
  <2> QED BY <1>20, <2>1, <2>2, ErrorDeep, Zenon DEF Array
<1>21. ASSUME ArrayValue PROVE Deepens
  <2>1. CASE In("array_value") /\ (Leave \/ Set("array")) /\ Read /\ text' = text
    BY <1>14, <1>15, <2>1
  <2> QED BY <1>21, <2>1, ErrorDeep, Zenon DEF ArrayValue
<1>22. ASSUME Finish PROVE Deepens
  BY <1>22, StaysDeep DEF Finish
<1> QED
  BY <1>2, <1>3, <1>4, <1>5, <1>6, <1>7, <1>9, <1>10, <1>11, <1>16, <1>17, <1>18, <1>19, <1>20, <1>21, <1>22, Zenon
     DEF Next

DeepInv == IInv /\ Deep /\ Shallow(text)
LEMMA NextDeep == DeepInv /\ [Next]_vars => DeepInv'
<1> SUFFICES ASSUME DeepInv, [Next]_vars PROVE DeepInv'
  OBVIOUS
<1>1. Typed /\ Deep /\ Shallow(text)
  BY DEF DeepInv, IInv
<1>2. PICK h : Fits(h)
  BY DEF DeepInv, IInv
<1>3. DepthChecked
  BY <1>1, ShallowIs
<1>4. IInv'
  BY NextInv DEF DeepInv
<1>5. text' = text
  BY SameText
<1>6. Shallow(text)'
  BY <1>1, <1>5, Zenon
<1>7. ASSUME Next PROVE Deep'
  BY <1>1, <1>2, <1>3, <1>7, NextDeepens, DeepStays
<1>8. ASSUME UNCHANGED vars PROVE Deep'
  <2>1. UNCHANGED <<text, i, index, st>>
    BY <1>8 DEF vars
  <2> QED BY <1>1, <2>1, Zenon DEF Deep
<1>9. Deep'
  BY <1>7, <1>8
<1> QED BY <1>4, <1>6, <1>9 DEF DeepInv

\* A text in which at most MaxDepth - 2 brackets open, wherever they do, never takes the
\* parser to the level that has no cell (json_st::push). One more, and it may.
THEOREM ShallowIsChecked == Spec /\ Shallow(text) => []DepthChecked
<1>1. Init => IInv /\ Deep
  BY InitFits DEF Init, Deep
<1>2. DeepInv => DepthChecked
  BY ShallowIs DEF DeepInv, IInv
<1> QED
  BY <1>1, <1>2, NextDeep, PTL DEF Spec, DeepInv

\* So that the grammar is what is decoded, for any such text that is plain.
THEOREM DecodesShallow == Spec /\ Plain(text) /\ Shallow(text) => []Decodes
  BY ShallowIsChecked, DecodesPlain, PTL
================================================================================
