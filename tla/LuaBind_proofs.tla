---------------------------- MODULE LuaBind_proofs ----------------------------
(***************************************************************************)
(* Proofs about LuaBind, for any number of binds and any size of the stack, *)
(* as long as callers use binds as test.cpp does.                          *)
(***************************************************************************)
EXTENDS LuaBind, SequenceTheorems, FiniteSetTheorems, TLAPS

Uses == {"new", "lookup", "push", "fetch", "ended"}
BindType == [refuse : BOOLEAN, st_top : 0..MaxStack, args : 0..(MaxStack + 1), rets : 0..2,
             cur : 0..MaxStack, phase : Uses \cup {"none", "dead"}]

Typed == /\ mutex \in {0, 1}
         /\ stack \in Seq(ValueType) /\ Len(stack) <= MaxStack
         /\ panicked \in BOOLEAN
         /\ bind \in [Binds -> BindType]

\* Which binds are alive.
Scoped == /\ scope \in Seq(Binds)
          /\ \A i, j \in 1..Len(scope) : scope[i] = scope[j] => i = j
          /\ \A b \in Binds : Live(b) => bind[b].phase \in Uses

\* One bind at a time is in its transaction, and what was created in one refuses.
Held == /\ mutex = 1 <=> \E b \in Binds : InTransaction(b)
        /\ \A b, c \in Binds : InTransaction(b) /\ InTransaction(c) => b = c
        /\ \A i, j \in 1..Len(scope) : i < j /\ InTransaction(scope[i]) => bind[scope[j]].refuse

\* What lies on the stack in every phase of a transaction.
OnStack(s, b, r) ==
    /\ r.st_top = 1 /\ Len(s) >= 1
    /\ s[1] = Value(Host, "fn")
    /\ \A i \in 2..Len(s) : s[i].by = b
    /\ r.phase \in {"new", "lookup"} => r.args = 0
    /\ r.phase \in {"new", "lookup", "push"} => r.rets = 0
    /\ r.phase \in {"lookup", "push"} => Len(s) >= 2 + r.args
    /\ r.rets <= Len(s)
    /\ \A i \in Len(s) + 1 - r.rets .. Len(s) : s[i] = Value(b, "ret")
Stacked == /\ mutex = 0 => stack = Base
           /\ \A b \in Binds : InTransaction(b) => OnStack(stack, b, bind[b])

IInv == Typed /\ Scoped /\ Held /\ Stacked

--------------------------------------------------------------------------------
\* What comes of a stack.
LEMMA Pushed ==
    ASSUME NEW S, NEW s \in Seq(S), NEW v \in S
    PROVE  /\ Append(s, v) \in Seq(S) /\ Len(Append(s, v)) = Len(s) + 1
           /\ \A i \in 1..Len(s) : Append(s, v)[i] = s[i]
           /\ Append(s, v)[Len(s) + 1] = v
  OBVIOUS

LEMMA Cut ==
    ASSUME NEW S, NEW s \in Seq(S), NEW n \in 0..Len(s)
    PROVE  /\ SubSeq(s, 1, n) \in Seq(S) /\ Len(SubSeq(s, 1, n)) = n
           /\ \A i \in 1..n : SubSeq(s, 1, n)[i] = s[i]
<1>1. \A i \in 1..n : s[i] \in S
  OBVIOUS
<1> QED
  BY <1>1, SubSeqProperties

Copies(v, k) == [i \in 1..k |-> v]
Longer(t, s, v, k) == /\ Len(t) = Len(s) + k
                      /\ \A i \in 1..Len(s) : t[i] = s[i]
                      /\ \A i \in Len(s) + 1 .. Len(s) + k : t[i] = v
LEMMA Results ==
    ASSUME NEW S, NEW s \in Seq(S), NEW v \in S, NEW k \in Nat
    PROVE  s \o Copies(v, k) \in Seq(S) /\ Longer(s \o Copies(v, k), s, v, k)
<1> DEFINE r == Copies(v, k)
<1>1. r \in Seq(S) /\ Len(r) = k /\ \A i \in 1..k : r[i] = v
  BY DEF Copies
<1> HIDE DEF r
<1>2. /\ s \o r \in Seq(S) /\ Len(s \o r) = Len(s) + k
      /\ \A i \in 1..Len(s) + k : (s \o r)[i] = IF i <= Len(s) THEN s[i] ELSE r[i - Len(s)]
  BY <1>1, ConcatProperties
<1>3. ASSUME NEW i \in Len(s) + 1 .. Len(s) + k PROVE (s \o r)[i] = v
  BY <1>1, <1>2
<1>4. ASSUME NEW i \in 1..Len(s) PROVE (s \o r)[i] = s[i]
  BY <1>2
<1> QED
  BY <1>2, <1>3, <1>4 DEF r, Longer

LEMMA BaseAgain ==
    ASSUME NEW s \in Seq(ValueType), Len(s) = 1, s[1] = Value(Host, "fn") PROVE s = Base
  BY DEF Base

LEMMA ValueTypes ==
    /\ Value(Host, "fn") \in ValueType
    /\ \A b \in Binds, what \in {"tab", "fn", "nil", "arg", "ret"} :
         Value(b, what) \in ValueType /\ Value(b, what).by = b
  BY DEF Value, ValueType, Host

\* What comes of a bind.
Alike(r, b) == /\ r \in BindType /\ (r.refuse <=> b.refuse) /\ r.st_top = b.st_top
Looked(b, n)  == [b EXCEPT !.cur = n, !.phase = "lookup"]
Pushing(b, n) == [b EXCEPT !.args = n, !.phase = "push"]
Called(b, n)  == [b EXCEPT !.args = n, !.phase = "fetch"]
Fetching(b, k) == [b EXCEPT !.rets = k, !.phase = "fetch"]
LEMMA LookedType ==
    ASSUME NEW b \in BindType, NEW n \in 0..MaxStack
    PROVE  /\ Alike(Looked(b, n), b) /\ Looked(b, n).phase = "lookup"
           /\ Looked(b, n).args = b.args /\ Looked(b, n).rets = b.rets
  BY DEF BindType, Alike, Looked, Uses
LEMMA PushingType ==
    ASSUME NEW b \in BindType, NEW n \in 0..(MaxStack + 1)
    PROVE  /\ Alike(Pushing(b, n), b) /\ Pushing(b, n).phase = "push"
           /\ Pushing(b, n).args = n /\ Pushing(b, n).rets = b.rets
  BY DEF BindType, Alike, Pushing, Uses
LEMMA CalledType ==
    ASSUME NEW b \in BindType, NEW n \in 0..(MaxStack + 1)
    PROVE  /\ Alike(Called(b, n), b) /\ Called(b, n).phase = "fetch"
           /\ Called(b, n).rets = b.rets
  BY DEF BindType, Alike, Called, Uses
LEMMA FetchingType ==
    ASSUME NEW b \in BindType, NEW k \in 0..2
    PROVE  /\ Alike(Fetching(b, k), b) /\ Fetching(b, k).phase = "fetch"
           /\ Fetching(b, k).rets = k
  BY DEF BindType, Alike, Fetching, Uses

LEMMA InitIsGood == Init => IInv
<1> SUFFICES ASSUME Init PROVE IInv
  OBVIOUS
<1> USE BindAssumption DEF Init
<1>1. stack \in Seq(ValueType) /\ Len(stack) = 1
  BY ValueTypes DEF Base
<1>2. Unborn \in BindType
  BY DEF Unborn, BindType, GLOBALS
<1>3. Typed
  <2>1. bind \in [Binds -> BindType]
    BY <1>2
  <2>2. MaxStack \in Nat /\ 1 <= MaxStack
    OBVIOUS
  <2> QED
    BY <1>1, <2>1, <2>2 DEF Typed
<1>4. \A b \in Binds : ~Live(b)
  BY DEF Live
<1>5. Scoped /\ Held
  <2>1. scope \in Seq(Binds) /\ Len(scope) = 0
    OBVIOUS
  <2> QED
    BY <1>4, <2>1 DEF Scoped, Held, InTransaction
<1>6. Stacked
  BY <1>4 DEF Stacked, InTransaction
<1> QED
  BY <1>3, <1>5, <1>6 DEF IInv

--------------------------------------------------------------------------------
(***************************************************************************)
(* What the bind in its transaction does.                                  *)
(***************************************************************************)
\* It changes the stack and itself, and stays in its transaction.
Fits(s, b, r) == /\ s \in Seq(ValueType) /\ Len(s) <= MaxStack
                 /\ r \in BindType /\ ~r.refuse /\ r.phase \in Uses \ {"ended"}
                 /\ OnStack(s, b, r)
Works(b) == /\ UNCHANGED <<mutex, scope>>
            /\ panicked' \in BOOLEAN
            /\ \E r \in BindType : Set(b, r) /\ Fits(stack', b, r)

LEMMA Using ==
    ASSUME Disciplined, IInv, NEW b \in Binds, NEW ph \in {"lookup", "push", "fetch"},
           Use(b, ph), ~bind[b].refuse
    PROVE  InTransaction(b) /\ Fits(stack, b, bind[b])
<1>1. InTransaction(b)
  BY DEF Use, InTransaction
<1> QED
  BY <1>1 DEF IInv, Typed, Stacked, Scoped, Fits, InTransaction

LEMMA WorksKeeps ==
    ASSUME IInv, NEW b \in Binds, InTransaction(b), Works(b)
    PROVE  IInv'
<1>1. PICK r \in BindType : Set(b, r) /\ Fits(stack', b, r)
  BY DEF Works
<1>2. bind'[b] = r /\ \A c \in Binds \ {b} : bind'[c] = bind[c]
  BY <1>1 DEF Set, IInv, Typed
<1>3. \A c \in Binds : Live(c)' <=> Live(c)
  BY DEF Works, Live
<1>4. \A c \in Binds : /\ InTransaction(c)' <=> InTransaction(c)
                       /\ bind'[c].refuse <=> bind[c].refuse
  BY <1>1, <1>2, <1>3 DEF InTransaction, Fits
<1>5. Typed'
  BY <1>1 DEF IInv, Typed, Works, Set, Fits
<1>6. Scoped'
  BY <1>1, <1>2, <1>3 DEF IInv, Scoped, Works, Fits
<1>7. Held'
  <2>1. scope' = scope /\ mutex' = mutex
    BY DEF Works
  <2> QED
    BY <1>4, <2>1 DEF IInv, Held, Scoped
<1>8. Stacked'
  <2>1. \A c \in Binds : InTransaction(c) => c = b
    BY DEF IInv, Held
  <2>2. mutex' = 1
    BY DEF IInv, Held, Works
  <2> QED
    BY <1>1, <1>2, <1>4, <2>1, <2>2 DEF Stacked, Fits
<1> QED
  BY <1>5, <1>6, <1>7, <1>8 DEF IInv

LEMMA OneMore ==
    ASSUME NEW s \in Seq(ValueType), NEW t \in Seq(ValueType), NEW b, NEW q \in BindType, NEW r \in BindType,
           Len(t) = Len(s) + 1, \A i \in 1..Len(s) : t[i] = s[i], t[Len(s) + 1].by = b,
           OnStack(s, b, q), r.st_top = q.st_top, r.rets = 0,
           r.phase \in {"new", "lookup"} => r.args = 0,
           r.phase \in {"lookup", "push"} => Len(t) >= 2 + r.args
    PROVE  OnStack(t, b, r)
<1>1. Len(s) \in Nat /\ Len(s) >= 1 /\ t[1] = Value(Host, "fn")
  BY DEF OnStack
<1>2. ASSUME NEW i \in 2..Len(t) PROVE t[i].by = b
  <2>1. CASE i = Len(s) + 1
    BY <2>1
  <2>2. CASE i \in 2..Len(s)
    BY <2>2 DEF OnStack
  <2> QED
    BY <1>1, <2>1, <2>2
<1>3. \A i \in Len(t) + 1 - r.rets .. Len(t) : t[i] = Value(b, "ret")
  OBVIOUS
<1> QED
  BY <1>1, <1>2, <1>3 DEF OnStack

LEMMA LookupWorks ==
    ASSUME Disciplined, IInv, NEW b \in Binds, lookup(b)
    PROVE  Works(b)
<1> DEFINE r == Looked(bind[b], Len(stack) + 1)
<1>1. InTransaction(b) /\ Fits(stack, b, bind[b])
  BY Using DEF lookup
<1>2. CASE UNCHANGED <<stack, bind>>
  <2>1. Set(b, bind[b]) /\ bind[b] \in BindType
    BY <1>1, <1>2 DEF Set, IInv, Typed
  <2>2. stack' = stack /\ UNCHANGED <<mutex, scope>> /\ panicked' \in BOOLEAN
    BY <1>2 DEF lookup, IInv, Typed
  <2> QED
    BY <1>1, <2>1, <2>2 DEF Works
<1>3. CASE ~UNCHANGED <<stack, bind>>
  <2>1. PICK what \in {"tab", "fn", "nil"} : stack' = Append(stack, Value(b, what))
    BY <1>3 DEF lookup
  <2>2. Len(stack) < MaxStack /\ Set(b, r) /\ UNCHANGED <<mutex, scope, panicked>>
    BY <1>3 DEF lookup, Top, Looked
  <2>3. bind[b] \in BindType /\ Len(stack) \in Nat /\ bind[b].phase \in {"new", "lookup"}
    BY <1>1 DEF lookup, Use, Rank, Phases, Fits, Uses
  <2>4. Len(stack) + 1 \in 0..MaxStack
    BY <2>2, <2>3, BindAssumption
  <2> HIDE DEF r
  <2>5. /\ r \in BindType /\ ~r.refuse /\ r.phase = "lookup"
        /\ r.st_top = bind[b].st_top /\ r.args = bind[b].args /\ r.rets = bind[b].rets
    BY <1>1, <2>3, <2>4, LookedType DEF Fits, Alike, r
  <2>6. Value(b, what) \in ValueType /\ Value(b, what).by = b
    BY ValueTypes
  <2>7. /\ stack' \in Seq(ValueType) /\ Len(stack') = Len(stack) + 1
        /\ \A i \in 1..Len(stack) : stack'[i] = stack[i]
        /\ stack'[Len(stack) + 1] = Value(b, what)
    BY <1>1, <2>1, <2>6, Pushed DEF Fits
  <2>8. OnStack(stack', b, r)
    <3>1. r.rets = 0 /\ r.args = 0 /\ OnStack(stack, b, bind[b]) /\ stack \in Seq(ValueType)
      BY <1>1, <2>3, <2>5 DEF OnStack, Fits
    <3>2. Len(stack) >= 1 /\ Len(stack') >= 2
      BY <2>3, <2>7, <3>1 DEF OnStack
    <3> QED
      BY <2>3, <2>5, <2>6, <2>7, <3>1, <3>2, OneMore
  <2>9. Fits(stack', b, r)
    BY <2>2, <2>3, <2>5, <2>7, <2>8, BindAssumption DEF Fits, Uses
  <2> QED
    BY <2>2, <2>5, <2>9 DEF Works, IInv, Typed
<1> QED
  BY <1>2, <1>3

LEMMA PushWorks ==
    ASSUME Disciplined, IInv, NEW b \in Binds, push(b)
    PROVE  Works(b)
<1> DEFINE r == Pushing(bind[b], bind[b].args + 1)
<1>1. InTransaction(b) /\ Fits(stack, b, bind[b])
  BY Using DEF push
<1>2. /\ Len(stack) < MaxStack /\ Set(b, r) /\ UNCHANGED <<mutex, scope, panicked>>
      /\ stack' = Append(stack, Value(b, "arg"))
  BY DEF push, Top, Pushing
<1>3. bind[b] \in BindType /\ Len(stack) \in Nat /\ bind[b].phase \in {"lookup", "push"}
  BY <1>1 DEF push, Use, Rank, Phases, Fits, Uses
<1>4. bind[b].args \in Nat /\ bind[b].args + 2 <= Len(stack)
  BY <1>1, <1>3 DEF Fits, OnStack, BindType
<1>5. bind[b].args + 1 \in 0..(MaxStack + 1)
  BY <1>2, <1>3, <1>4, BindAssumption
<1> HIDE DEF r
<1>6. /\ r \in BindType /\ ~r.refuse /\ r.phase = "push"
      /\ r.st_top = bind[b].st_top /\ r.args = bind[b].args + 1 /\ r.rets = bind[b].rets
  BY <1>1, <1>3, <1>5, PushingType DEF Fits, Alike, r
<1>7. Value(b, "arg") \in ValueType /\ Value(b, "arg").by = b
  BY ValueTypes
<1>8. /\ stack' \in Seq(ValueType) /\ Len(stack') = Len(stack) + 1
      /\ \A i \in 1..Len(stack) : stack'[i] = stack[i]
      /\ stack'[Len(stack) + 1] = Value(b, "arg")
  BY <1>1, <1>2, <1>7, Pushed DEF Fits
<1>9. OnStack(stack', b, r)
  <2>1. r.rets = 0 /\ OnStack(stack, b, bind[b]) /\ stack \in Seq(ValueType)
    BY <1>1, <1>3, <1>6 DEF OnStack, Fits
  <2>2. Len(stack') >= 2 + r.args
    BY <1>3, <1>4, <1>6, <1>8
  <2> QED
    BY <1>3, <1>6, <1>7, <1>8, <2>1, <2>2, OneMore
<1>10. Fits(stack', b, r)
  BY <1>2, <1>3, <1>6, <1>8, <1>9, BindAssumption DEF Fits, Uses
<1> QED
  BY <1>2, <1>6, <1>10 DEF Works, IInv, Typed

\* The results take the place of the function, what is under it and its
\* arguments stays or goes.
LEMMA Returns ==
    ASSUME NEW s \in Seq(ValueType), NEW t \in Seq(ValueType), NEW b \in Binds, NEW q \in BindType,
           NEW r \in BindType, NEW f \in 1..Len(s), NEW k \in 0..2,
           Len(t) = f - 1 + k, \A i \in 1..f - 1 : t[i] = s[i],
           \A i \in f..f - 1 + k : t[i] = Value(b, "ret"),
           OnStack(s, b, q), r.st_top = q.st_top, r.rets = k, r.phase = "fetch", f >= 2
    PROVE  OnStack(t, b, r)
<1>1. Len(t) \in Nat /\ Len(t) >= 1 /\ t[1] = Value(Host, "fn") /\ r.rets <= Len(t)
  BY DEF OnStack
<1>2. ASSUME NEW i \in 2..Len(t) PROVE t[i].by = b
  <2>1. CASE i \in f..f - 1 + k
    BY <2>1, ValueTypes
  <2>2. CASE i \in 2..f - 1
    BY <2>2 DEF OnStack
  <2> QED
    BY <2>1, <2>2
<1>3. \A i \in Len(t) + 1 - r.rets .. Len(t) : t[i] = Value(b, "ret")
  OBVIOUS
<1> QED
  BY <1>1, <1>2, <1>3 DEF OnStack

LEMMA CallWorks ==
    ASSUME Disciplined, IInv, NEW b \in Binds, Use(b, "push"), ~bind[b].refuse, IsFunction(b),
           NEW args \in Nat, args = bind[b].args \/ args = bind[b].args + 1, Call(b, args),
           UNCHANGED <<mutex, scope, panicked>>
    PROVE  Works(b)
<1> DEFINE f == Function(b)
           below == SubSeq(stack, 1, f - 1)
           q == Called(bind[b], args)
<1>1. InTransaction(b) /\ Fits(stack, b, bind[b])
  BY Using
<1>2. bind[b] \in BindType /\ Len(stack) \in Nat /\ bind[b].phase \in {"lookup", "push"}
      /\ Len(stack) <= MaxStack /\ stack \in Seq(ValueType)
  BY <1>1 DEF Use, Rank, Phases, Fits, Uses
<1>3. bind[b].args \in Nat /\ bind[b].args + 2 <= Len(stack) /\ bind[b].rets = 0
  BY <1>1, <1>2 DEF Fits, OnStack, BindType
<1>4. f \in 1..Len(stack) /\ f >= 2 /\ f = Len(stack) - bind[b].args
  BY <1>2, <1>3 DEF Function, Top
<1>5. below \in Seq(ValueType) /\ Len(below) = f - 1 /\ \A i \in 1..f - 1 : below[i] = stack[i]
  <2>1. f - 1 \in 0..Len(stack)
    BY <1>2, <1>4
  <2> HIDE DEF f
  <2> QED
    BY <1>2, <2>1, Cut
<1>6. args \in 0..(MaxStack + 1)
  BY <1>2, <1>3, BindAssumption
<1>7. q \in BindType /\ ~q.refuse /\ q.st_top = bind[b].st_top /\ q.phase = "fetch" /\ q.rets = 0
  BY <1>1, <1>2, <1>3, <1>6, CalledType DEF Fits, Alike
<1>8. \/ \E k \in 0..2 :
           /\ Len(below) + k <= MaxStack
           /\ stack' = below \o [i \in 1..k |-> Value(b, "ret")]
           /\ Set(b, [q EXCEPT !.rets = RetValues(Len(stack) + (args - bind[b].args), Len(below) + k, args)])
      \/ stack' = below /\ Set(b, q)
  BY DEF Call, Called, Top, Function
<1> HIDE DEF q, f, below
<1>9. ASSUME NEW k \in 0..2, NEW r \in BindType,
             Set(b, r), r.st_top = bind[b].st_top, r.phase = "fetch", r.rets = k, ~r.refuse,
             stack' \in Seq(ValueType), Len(stack') = f - 1 + k, Len(stack') <= MaxStack,
             \A i \in 1..f - 1 : stack'[i] = stack[i],
             \A i \in f..f - 1 + k : stack'[i] = Value(b, "ret")
      PROVE  Works(b)
  <2>1. OnStack(stack, b, bind[b])
    BY <1>1 DEF Fits
  <2>2. OnStack(stack', b, r)
    BY <1>2, <1>4, <1>9, <2>1, Returns
  <2> QED
    BY <1>9, <2>2 DEF Works, Fits, Uses, IInv, Typed
<1>10. CASE stack' = below /\ Set(b, q)
  <2>1. Len(stack') = f - 1 + 0 /\ f \in Nat /\ Len(stack') <= MaxStack
    BY <1>2, <1>4, <1>5, <1>10, BindAssumption
  <2>2. \A i \in f..f - 1 + 0 : stack'[i] = Value(b, "ret")
    BY <2>1
  <2> QED
    BY <1>5, <1>7, <1>9, <1>10, <2>1, <2>2
<1>11. ASSUME NEW k \in 0..2,
              Len(below) + k <= MaxStack,
              stack' = below \o [i \in 1..k |-> Value(b, "ret")],
              Set(b, [q EXCEPT !.rets = RetValues(Len(stack) + (args - bind[b].args), Len(below) + k, args)])
       PROVE  Works(b)
  <2> DEFINE r == [q EXCEPT !.rets = k]
  <2>1. RetValues(Len(stack) + (args - bind[b].args), Len(below) + k, args) = k
    <3>1. Len(below) \in Nat /\ Len(below) = Len(stack) - bind[b].args - 1
      BY <1>2, <1>3, <1>4, <1>5
    <3>2. args \in Nat /\ k \in Nat
      BY <1>3
    <3>3. Len(stack) \in Nat /\ bind[b].args \in Nat
      BY <1>2, <1>3
    <3> DEFINE n == Len(stack)
               a == bind[b].args
               m == Len(below)
    <3> HIDE DEF n, a, m
    <3>4. n \in Nat /\ a \in Nat /\ m \in Nat /\ m = n - a - 1
      BY <3>1, <3>3 DEF n, a, m
    <3>5. RetValues(n + (args - a), m + k, args) = k
      BY <3>2, <3>4 DEF RetValues
    <3> QED
      BY <3>5 DEF n, a, m
  <2>2. Set(b, r)
    BY <1>11, <2>1
  <2>3. r \in BindType /\ ~r.refuse /\ r.st_top = q.st_top /\ r.phase = q.phase /\ r.rets = k
    BY <1>7 DEF BindType
  <2> HIDE DEF r
  <2>4. /\ stack' \in Seq(ValueType) /\ Len(stack') = Len(below) + k
        /\ \A i \in 1..Len(below) : stack'[i] = below[i]
        /\ \A i \in Len(below) + 1 .. Len(below) + k : stack'[i] = Value(b, "ret")
    <3>1. stack' = below \o Copies(Value(b, "ret"), k)
      BY <1>11 DEF Copies
    <3>2. Value(b, "ret") \in ValueType /\ k \in Nat /\ below \in Seq(ValueType)
      BY <1>5, ValueTypes
    <3>3. stack' \in Seq(ValueType) /\ Longer(stack', below, Value(b, "ret"), k)
      BY <3>1, <3>2, Results
    <3> QED
      BY <3>3 DEF Longer
  <2>5. f - 1 + 1 = f
    BY <1>4
  <2> QED
    BY <1>5, <1>7, <1>9, <1>11, <2>2, <2>3, <2>4, <2>5
<1> QED
  BY <1>8, <1>10, <1>11

LEMMA FetchWorks ==
    ASSUME Disciplined, IInv, NEW b \in Binds, fetch(b)
    PROVE  Works(b)
<1> DEFINE k == IF bind[b].rets < 1 THEN bind[b].rets ELSE bind[b].rets - 1
           r == Fetching(bind[b], k)
<1>1. InTransaction(b) /\ Fits(stack, b, bind[b])
  BY Using DEF fetch
<1>2. Set(b, r) /\ UNCHANGED <<mutex, stack, scope, panicked>>
  BY DEF fetch, Fetching
<1>3. bind[b] \in BindType /\ Len(stack) \in Nat /\ bind[b].rets \in 0..2
  BY <1>1 DEF Fits, BindType
<1>4. k \in 0..2 /\ k <= bind[b].rets
  BY <1>3
<1> HIDE DEF k
<1>5. r \in BindType /\ ~r.refuse /\ r.phase = "fetch" /\ r.st_top = bind[b].st_top /\ r.rets = k
  BY <1>1, <1>3, <1>4, FetchingType DEF Fits, Alike
<1> HIDE DEF r
<1>6. OnStack(stack, b, r)
  BY <1>1, <1>3, <1>4, <1>5 DEF OnStack, Fits
<1> QED
  BY <1>1, <1>2, <1>5, <1>6 DEF Works, Fits, Uses, IInv, Typed

LEMMA StaysWorks ==
    ASSUME Disciplined, IInv, NEW b \in Binds, Use(b, "push"), ~bind[b].refuse,
           UNCHANGED <<mutex, stack, bind, scope, panicked>>
    PROVE  Works(b)
<1>1. InTransaction(b) /\ Fits(stack, b, bind[b])
  BY Using
<1>2. Set(b, bind[b]) /\ bind[b] \in BindType
  BY <1>1 DEF Set, IInv, Typed
<1> QED
  BY <1>1, <1>2 DEF Works, IInv, Typed

LEMMA InvokeWorks ==
    ASSUME Disciplined, IInv, NEW b \in Binds, invoke(b) \/ m_invoke(b)
    PROVE  InTransaction(b) /\ Works(b)
<1>1. Use(b, "push") /\ ~bind[b].refuse /\ UNCHANGED <<mutex, scope, panicked>>
  BY DEF invoke, m_invoke
<1>2. InTransaction(b) /\ bind[b] \in BindType
  BY <1>1, Using DEF Fits
<1>3. bind[b].args \in Nat /\ bind[b].args + 1 \in Nat
  BY <1>2, BindAssumption DEF BindType
<1>4. CASE UNCHANGED <<stack, bind>>
  BY <1>1, <1>2, <1>4, StaysWorks
<1>5. CASE IsFunction(b) /\ Call(b, bind[b].args)
  BY <1>1, <1>2, <1>3, <1>5, CallWorks
<1>6. CASE IsFunction(b) /\ Call(b, bind[b].args + 1)
  BY <1>1, <1>2, <1>3, <1>6, CallWorks
<1> QED
  BY <1>4, <1>5, <1>6 DEF invoke, m_invoke, IsMethod

--------------------------------------------------------------------------------
(***************************************************************************)
(* How binds come and go.                                                  *)
(***************************************************************************)
Moved(q, ph) == [q EXCEPT !.phase = ph]
Reset(q, ph) == [q EXCEPT !.args = 0, !.rets = 0, !.cur = GLOBALS, !.phase = ph]
Begun(refuse, top) == [Unborn EXCEPT !.refuse = refuse, !.st_top = top, !.phase = "new"]
LEMMA MovedType ==
    ASSUME NEW q \in BindType, NEW ph \in Uses \cup {"none", "dead"}
    PROVE  Alike(Moved(q, ph), q) /\ Moved(q, ph).phase = ph
  BY DEF BindType, Alike, Moved
LEMMA ResetType ==
    ASSUME NEW q \in BindType, NEW ph \in Uses \cup {"none", "dead"}
    PROVE  Alike(Reset(q, ph), q) /\ Reset(q, ph).phase = ph
<1>1. 0 \in 0..MaxStack /\ 0 \in 0..(MaxStack + 1) /\ 0 \in 0..2 /\ GLOBALS = 0
  BY BindAssumption DEF GLOBALS
<1> DEFINE q1 == [q EXCEPT !.args = 0, !.rets = 0]
           q2 == [q1 EXCEPT !.cur = 0, !.phase = ph]
<1>2. q1 \in BindType /\ (q1.refuse <=> q.refuse) /\ q1.st_top = q.st_top
  BY <1>1 DEF BindType
<1> HIDE DEF q1
<1>3. q2 \in BindType /\ (q2.refuse <=> q1.refuse) /\ q2.st_top = q1.st_top /\ q2.phase = ph
  BY <1>1, <1>2 DEF BindType
<1>4. Reset(q, ph) = q2
  BY <1>1, <1>2 DEF Reset, q1
<1> QED
  BY <1>2, <1>3, <1>4 DEF Alike
LEMMA BegunType ==
    ASSUME NEW refuse \in BOOLEAN, NEW top \in 0..MaxStack
    PROVE  /\ Begun(refuse, top) \in BindType /\ (Begun(refuse, top).refuse <=> refuse)
           /\ Begun(refuse, top).st_top = top /\ Begun(refuse, top).phase = "new"
           /\ Begun(refuse, top).args = 0 /\ Begun(refuse, top).rets = 0
<1>1. Unborn \in BindType /\ Unborn.args = 0 /\ Unborn.rets = 0
  BY BindAssumption DEF BindType, Unborn, GLOBALS
<1> DEFINE q1 == [Unborn EXCEPT !.refuse = refuse, !.st_top = top]
           q2 == [q1 EXCEPT !.phase = "new"]
<1>2. /\ q1 \in BindType /\ (q1.refuse <=> refuse) /\ q1.st_top = top
      /\ q1.args = 0 /\ q1.rets = 0
  BY <1>1 DEF BindType
<1> HIDE DEF q1
<1>3. /\ q2 \in BindType /\ (q2.refuse <=> q1.refuse) /\ q2.st_top = q1.st_top
      /\ q2.args = q1.args /\ q2.rets = q1.rets /\ q2.phase = "new"
  BY <1>2 DEF BindType, Uses
<1>4. Begun(refuse, top) = q2
  BY <1>1 DEF Begun, q1
<1> QED
  BY <1>2, <1>3, <1>4

LEMMA NewKeeps ==
    ASSUME IInv, NEW b \in Binds, New(b)
    PROVE  IInv'
<1> DEFINE r == Begun(mutex # 0, Len(stack))
<1>1. ~Live(b) /\ mutex' = 1 /\ Set(b, r) /\ scope' = Append(scope, b)
      /\ UNCHANGED <<stack, panicked>>
  BY DEF New, Construct, Begun, Top, IInv, Scoped, Uses
<1>2. /\ r \in BindType /\ (r.refuse <=> mutex # 0) /\ r.st_top = Len(stack)
      /\ r.phase = "new" /\ r.args = 0 /\ r.rets = 0
  <2>1. Len(stack) \in 0..MaxStack
    BY DEF IInv, Typed
  <2> QED
    BY <2>1, BegunType
<1> HIDE DEF r
<1>3. bind'[b] = r /\ \A c \in Binds \ {b} : bind'[c] = bind[c]
  BY <1>1 DEF Set, IInv, Typed
<1>4. /\ scope' \in Seq(Binds) /\ Len(scope') = Len(scope) + 1 /\ Len(scope) \in Nat
      /\ \A i \in 1..Len(scope) : scope'[i] = scope[i] /\ scope[i] \in Binds /\ scope[i] # b
      /\ scope'[Len(scope) + 1] = b
  <2>1. scope \in Seq(Binds) /\ \A i \in 1..Len(scope) : scope[i] # b
    BY <1>1 DEF IInv, Scoped, Live
  <2> QED
    BY <1>1, <2>1
<1>5. \A c \in Binds : Live(c)' <=> Live(c) \/ c = b
  BY <1>4 DEF Live, IInv, Scoped
<1>6. /\ \A c \in Binds \ {b} : InTransaction(c)' <=> InTransaction(c)
      /\ ~InTransaction(b)
      /\ InTransaction(b)' <=> mutex = 0
  BY <1>1, <1>2, <1>3, <1>5 DEF InTransaction
<1>7. Typed'
  BY <1>1, <1>2 DEF IInv, Typed, Set
<1>8. Scoped'
  <2>1. \A i, j \in 1..Len(scope') : scope'[i] = scope'[j] => i = j
    BY <1>4 DEF IInv, Scoped
  <2>2. \A c \in Binds : Live(c)' => bind'[c].phase \in Uses
    BY <1>2, <1>3, <1>5 DEF IInv, Scoped, Uses
  <2> QED
    BY <1>4, <2>1, <2>2 DEF Scoped
<1>9. Held'
  <2>1. mutex = 0 => \A c \in Binds : ~InTransaction(c)
    BY DEF IInv, Held
  <2>2. mutex # 0 => \E c \in Binds \ {b} : InTransaction(c)
    BY <1>6 DEF IInv, Held, Typed
  <2>3. ASSUME NEW i \in 1..Len(scope'), NEW j \in 1..Len(scope'), i < j,
               InTransaction(scope[i])'
        PROVE  bind'[scope'[j]].refuse
    <3>1. i \in 1..Len(scope) /\ scope'[i] = scope[i] /\ scope[i] \in Binds \ {b}
      BY <1>4, <2>3
    <3>2. InTransaction(scope[i])
      BY <1>6, <2>3, <3>1
    <3>3. CASE j = Len(scope) + 1
      BY <1>2, <1>3, <1>4, <2>1, <3>1, <3>2, <3>3
    <3>4. CASE j \in 1..Len(scope)
      BY <1>3, <1>4, <2>3, <3>1, <3>2, <3>4 DEF IInv, Held
    <3> QED
      BY <1>4, <3>3, <3>4
  <2>4. mutex' = 1 <=> \E c \in Binds : InTransaction(c)'
    BY <1>1, <1>6, <2>2
  <2>5. \A c, d \in Binds : InTransaction(c)' /\ InTransaction(d)' => c = d
    BY <1>6, <2>1 DEF IInv, Held
  <2> QED
    BY <2>3, <2>4, <2>5 DEF Held
<1>10. Stacked'
  <2>1. ASSUME NEW c \in Binds, InTransaction(c)' PROVE OnStack(stack', c, bind'[c])
    <3>1. CASE c = b
      <4>1. Len(stack) = 1 /\ stack[1] = Value(Host, "fn") /\ stack \in Seq(ValueType)
        BY <1>6, <2>1, <3>1, ValueTypes DEF IInv, Stacked, Typed, Base
      <4> QED
        BY <1>1, <1>2, <1>3, <3>1, <4>1 DEF OnStack
    <3>2. CASE c # b
      BY <1>1, <1>3, <1>6, <2>1, <3>2 DEF IInv, Stacked
    <3> QED
      BY <3>1, <3>2
  <2> QED
    BY <1>1, <2>1 DEF Stacked
<1> QED
  BY <1>7, <1>8, <1>9, <1>10 DEF IInv

\* A bind that refuses goes through its phases and changes nothing else.
LEMMA IgnoredKeeps ==
    ASSUME IInv, NEW b \in Binds, NEW ph \in {"lookup", "push", "fetch"}, Ignored(b, ph)
    PROVE  IInv'
<1> DEFINE r == Moved(bind[b], ph)
<1>1. Live(b) /\ bind[b].refuse /\ Set(b, r) /\ UNCHANGED <<mutex, stack, scope, panicked>>
  BY DEF Ignored, Use, Moved
<1>2. r \in BindType /\ r.refuse /\ r.phase = ph /\ ph \in Uses
  <2>1. bind[b] \in BindType /\ ph \in Uses
    BY DEF IInv, Typed, Uses
  <2> QED
    BY <1>1, <2>1, MovedType DEF Alike
<1> HIDE DEF r
<1>3. bind'[b] = r /\ \A c \in Binds \ {b} : bind'[c] = bind[c]
  BY <1>1 DEF Set, IInv, Typed
<1>4. \A c \in Binds : Live(c)' <=> Live(c)
  BY <1>1 DEF Live
<1>5. /\ \A c \in Binds : bind'[c].refuse <=> bind[c].refuse
      /\ \A c \in Binds : InTransaction(c)' <=> InTransaction(c)
      /\ ~InTransaction(b)
  BY <1>1, <1>2, <1>3, <1>4 DEF InTransaction
<1>6. Typed'
  BY <1>1, <1>2 DEF IInv, Typed, Set
<1>7. Scoped'
  BY <1>1, <1>2, <1>3, <1>4 DEF IInv, Scoped
<1>8. Held'
  <2>1. scope' = scope /\ mutex' = mutex
    BY <1>1
  <2> QED
    BY <1>5, <2>1 DEF IInv, Held, Scoped
<1>9. Stacked'
  <2>1. stack' = stack /\ mutex' = mutex
    BY <1>1
  <2>2. ASSUME NEW c \in Binds, InTransaction(c)' PROVE InTransaction(c) /\ bind'[c] = bind[c]
    BY <1>3, <1>5, <2>2
  <2> QED
    BY <2>1, <2>2 DEF IInv, Stacked
<1> QED
  BY <1>6, <1>7, <1>8, <1>9 DEF IInv

\* What end() does, on its own or in the destructor.
Leaves(b, ph) ==
    /\ \E r \in BindType : Set(b, r) /\ r.phase = ph /\ (r.refuse <=> bind[b].refuse)
    /\ InTransaction(b) => mutex' = 0 /\ stack' = Base
    /\ ~InTransaction(b) => UNCHANGED <<mutex, stack>>
LEMMA EndedLeaves ==
    ASSUME IInv, NEW b \in Binds, NEW ph \in {"ended", "dead"}, Ended(b, ph),
           InTransaction(b) \/ bind[b].refuse \/ mutex = 0
    PROVE  Leaves(b, ph)
<1>1. bind[b] \in BindType /\ ph \in Uses \cup {"none", "dead"} /\ stack \in Seq(ValueType)
  BY DEF IInv, Typed, Uses
<1>2. CASE InTransaction(b)
  <2>1. ~bind[b].refuse /\ mutex # 0
    BY <1>2 DEF InTransaction, IInv, Held
  <2>2. mutex' = 0 /\ stack' = Freed(b) /\ Set(b, Reset(bind[b], ph))
    BY <2>1 DEF Ended, Reset
  <2>3. /\ Reset(bind[b], ph) \in BindType /\ Reset(bind[b], ph).phase = ph
        /\ (Reset(bind[b], ph).refuse <=> bind[b].refuse)
    BY <1>1, ResetType DEF Alike
  <2>4. Len(stack) >= 1 /\ stack[1] = Value(Host, "fn") /\ bind[b].st_top = 1 /\ Len(stack) \in Nat
    BY <1>1, <1>2 DEF IInv, Stacked, OnStack
  <2>5. stack' = Base
    <3>1. CASE Len(stack) = 1
      BY <1>1, <2>2, <2>4, <3>1, BaseAgain DEF Freed, Top
    <3>2. CASE Len(stack) > 1
      <4>1. stack' = SubSeq(stack, 1, 1)
        BY <2>2, <2>4, <3>2 DEF Freed, Top
      <4>2. 1 \in 0..Len(stack) /\ 1 \in 1..1
        BY <2>4
      <4> DEFINE t == SubSeq(stack, 1, 1)
      <4>3. t \in Seq(ValueType) /\ Len(t) = 1 /\ t[1] = stack[1]
        BY <1>1, <4>2, Cut
      <4> HIDE DEF t
      <4>4. t = Base
        BY <2>4, <4>3, BaseAgain
      <4> QED
        BY <4>1, <4>4 DEF t
    <3>3. \A n \in Nat : n >= 1 => n = 1 \/ n > 1
      OBVIOUS
    <3> QED
      BY <2>4, <3>1, <3>2, <3>3, Zenon
  <2> QED
    BY <1>2, <2>2, <2>3, <2>5 DEF Leaves
<1>3. CASE ~InTransaction(b)
  <2>1. Set(b, Moved(bind[b], ph)) /\ UNCHANGED <<mutex, stack>>
    BY <1>3 DEF Ended, Moved
  <2>2. /\ Moved(bind[b], ph) \in BindType /\ Moved(bind[b], ph).phase = ph
        /\ (Moved(bind[b], ph).refuse <=> bind[b].refuse)
    BY <1>1, MovedType DEF Alike
  <2> QED
    BY <1>3, <2>1, <2>2 DEF Leaves
<1> QED
  BY <1>2, <1>3

\* Whoever leaves, the rest of the world stays as it was.
LEMMA LeavesKeeps ==
    ASSUME IInv, NEW b \in Binds, NEW ph \in {"ended", "dead"}, Live(b), Leaves(b, ph),
           UNCHANGED panicked,
           \A c \in Binds \ {b} : Live(c)' <=> Live(c),
           Live(b)' => ph = "ended",
           scope' \in Seq(Binds), Len(scope') <= Len(scope),
           \A i \in 1..Len(scope') : scope'[i] = scope[i]
    PROVE  IInv'
<1>1. PICK r \in BindType : Set(b, r) /\ r.phase = ph /\ (r.refuse <=> bind[b].refuse)
  BY DEF Leaves
<1>2. bind'[b] = r /\ \A c \in Binds \ {b} : bind'[c] = bind[c]
  BY <1>1 DEF Set, IInv, Typed
<1>3. /\ \A c \in Binds : bind'[c].refuse <=> bind[c].refuse
      /\ \A c \in Binds : InTransaction(c)' <=> InTransaction(c) /\ c # b
  BY <1>1, <1>2 DEF InTransaction
<1>4. Len(scope') \in Nat /\ Len(scope) \in Nat /\ scope \in Seq(Binds)
  BY DEF IInv, Scoped
<1>5. Typed'
  <2>1. stack' \in Seq(ValueType) /\ Len(stack') <= MaxStack /\ mutex' \in {0, 1}
    <3>1. Base \in Seq(ValueType) /\ Len(Base) <= MaxStack
      BY ValueTypes, BindAssumption DEF Base
    <3> QED
      BY <3>1 DEF Leaves, IInv, Typed
  <2> QED
    BY <1>1, <2>1 DEF IInv, Typed, Set
<1>6. Scoped'
  <2>1. \A i, j \in 1..Len(scope') : scope'[i] = scope'[j] => i = j
    BY <1>4 DEF IInv, Scoped
  <2>2. \A c \in Binds : Live(c)' => bind'[c].phase \in Uses
    BY <1>1, <1>2 DEF IInv, Scoped, Uses
  <2> QED
    BY <2>1, <2>2 DEF Scoped
<1>7. Held'
  <2>1. ASSUME NEW i \in 1..Len(scope'), NEW j \in 1..Len(scope'), i < j, InTransaction(scope[i])'
        PROVE  bind'[scope'[j]].refuse
    <3>1. /\ i \in 1..Len(scope) /\ j \in 1..Len(scope)
          /\ scope'[i] = scope[i] /\ scope'[j] = scope[j]
          /\ scope[i] \in Binds /\ scope[j] \in Binds
      BY <1>4
    <3>2. InTransaction(scope[i])
      BY <1>3, <2>1, <3>1
    <3> QED
      BY <1>3, <2>1, <3>1, <3>2 DEF IInv, Held
  <2>2. mutex' = 1 <=> \E c \in Binds : InTransaction(c)'
    BY <1>3 DEF IInv, Held, Leaves
  <2> QED
    BY <1>3, <2>1, <2>2 DEF IInv, Held
<1>8. Stacked'
  <2>1. mutex' = 0 => stack' = Base
    BY DEF IInv, Stacked, Leaves
  <2>2. ASSUME NEW c \in Binds, InTransaction(c)' PROVE OnStack(stack', c, bind'[c])
    <3>1. InTransaction(c) /\ c # b
      BY <1>3, <2>2
    <3>2. ~InTransaction(b)
      BY <3>1 DEF IInv, Held
    <3> QED
      BY <1>2, <3>1, <3>2 DEF IInv, Stacked, Leaves
  <2> QED
    BY <2>1, <2>2 DEF Stacked
<1> QED
  BY <1>5, <1>6, <1>7, <1>8 DEF IInv

LEMMA EndKeeps ==
    ASSUME Disciplined, IInv, NEW b \in Binds, end(b)
    PROVE  IInv'
<1>1. Live(b) /\ bind[b].phase # "ended" /\ Ended(b, "ended") /\ UNCHANGED <<scope, panicked>>
  BY DEF end, Use
<1>2. Leaves(b, "ended")
  BY <1>1, EndedLeaves DEF InTransaction
<1>3. \A c \in Binds : Live(c)' <=> Live(c)
  BY <1>1 DEF Live
<1>4. scope' \in Seq(Binds) /\ Len(scope') <= Len(scope)
  BY <1>1 DEF IInv, Scoped
<1> QED
  BY <1>1, <1>2, <1>3, <1>4, LeavesKeeps

\* The bind that is destroyed is the youngest one: while another one is in its
\* transaction it refuses.
LEMMA DestroyKeeps ==
    ASSUME IInv, NEW b \in Binds, Destroy(b)
    PROVE  IInv'
<1> DEFINE n == Len(scope)
<1>1. /\ scope # <<>> /\ scope[n] = b /\ Ended(b, "dead")
      /\ scope' = SubSeq(scope, 1, n - 1) /\ UNCHANGED panicked
  BY DEF Destroy
<1>2. scope \in Seq(Binds) /\ n \in Nat \ {0}
  BY <1>1 DEF IInv, Scoped
<1>3. scope' \in Seq(Binds) /\ Len(scope') = n - 1 /\ \A i \in 1..n - 1 : scope'[i] = scope[i]
  <2>1. n - 1 \in 0..n
    BY <1>2
  <2> QED
    BY <1>1, <1>2, <2>1, Cut
<1>4. Live(b) /\ ~Live(b)' /\ \A c \in Binds \ {b} : Live(c)' <=> Live(c)
  <2>1. Live(b)
    BY <1>1, <1>2 DEF Live
  <2>2. ~Live(b)'
    BY <1>1, <1>2, <1>3 DEF Live, IInv, Scoped
  <2>3. ASSUME NEW c \in Binds \ {b}, NEW i \in 1..n, scope[i] = c PROVE i \in 1..n - 1
    BY <1>1, <1>2, <2>3
  <2>4. \A c \in Binds \ {b} : Live(c)' <=> Live(c)
    BY <1>2, <1>3, <2>3 DEF Live
  <2> QED
    BY <2>1, <2>2, <2>4
<1>5. InTransaction(b) \/ bind[b].refuse \/ mutex = 0
  <2>1. ASSUME ~InTransaction(b), mutex # 0 PROVE bind[b].refuse
    <3>1. PICK c \in Binds : InTransaction(c)
      BY <2>1 DEF IInv, Held, Typed
    <3>2. PICK i \in 1..n : scope[i] = c
      BY <1>2, <3>1 DEF InTransaction, Live
    <3>3. i < n /\ n \in 1..n
      BY <1>1, <1>2, <2>1, <3>1, <3>2
    <3> QED
      BY <1>1, <3>1, <3>2, <3>3 DEF IInv, Held
  <2> QED
    BY <2>1
<1>6. Leaves(b, "dead")
  BY <1>1, <1>5, EndedLeaves
<1> HIDE DEF n
<1>7. Len(scope') <= Len(scope) /\ \A i \in 1..Len(scope') : scope'[i] = scope[i]
  BY <1>2, <1>3 DEF n
<1> QED
  BY <1>1, <1>3, <1>4, <1>6, <1>7, LeavesKeeps

LEMMA IdleKeeps == IInv /\ UNCHANGED vars => IInv'
<1> SUFFICES ASSUME IInv, UNCHANGED vars PROVE IInv'
  OBVIOUS
<1>1. \A c \in Binds : (Live(c)' <=> Live(c)) /\ (InTransaction(c)' <=> InTransaction(c))
  BY DEF vars, Live, InTransaction
<1> QED
  BY <1>1 DEF vars, IInv, Typed, Scoped, Held, Stacked

--------------------------------------------------------------------------------
LEMMA StepKeeps == Disciplined /\ IInv /\ [Next]_vars => IInv'
<1> SUFFICES ASSUME Disciplined, IInv, [Next]_vars PROVE IInv'
  OBVIOUS
<1>1. ASSUME NEW b \in Binds, New(b) PROVE IInv'
  BY <1>1, NewKeeps
<1>2. ASSUME NEW b \in Binds, lookup(b) PROVE IInv'
  BY <1>2, LookupWorks, Using, WorksKeeps DEF lookup
<1>3. ASSUME NEW b \in Binds, push(b) PROVE IInv'
  BY <1>3, PushWorks, Using, WorksKeeps DEF push
<1>4. ASSUME NEW b \in Binds, invoke(b) \/ m_invoke(b) PROVE IInv'
  BY <1>4, InvokeWorks, WorksKeeps
<1>5. ASSUME NEW b \in Binds, fetch(b) PROVE IInv'
  BY <1>5, FetchWorks, Using, WorksKeeps DEF fetch
<1>6. ASSUME NEW b \in Binds, end(b) PROVE IInv'
  BY <1>6, EndKeeps
<1>7. ASSUME NEW b \in Binds, Destroy(b) PROVE IInv'
  BY <1>7, DestroyKeeps
<1>8. ASSUME NEW b \in Binds, NEW ph \in {"lookup", "push", "fetch"}, Ignored(b, ph) PROVE IInv'
  BY <1>8, IgnoredKeeps
<1>9. CASE UNCHANGED vars
  BY <1>9, IdleKeeps
<1> QED
  BY <1>1, <1>2, <1>3, <1>4, <1>5, <1>6, <1>7, <1>8, <1>9 DEF Next

LEMMA Invariance == ASSUME Disciplined PROVE Spec => []IInv
<1>1. IInv /\ [Next]_vars => IInv'
  BY StepKeeps
<1> QED
  BY <1>1, InitIsGood, PTL DEF Spec

\* luawrapper.cpp: heights, counters and indices stay in their ranges, however
\* binds nest, as long as callers use them in the order test.cpp does.
THEOREM TypeCorrect == ASSUME Disciplined PROVE Spec => []TypeOK
<1>1. IInv => TypeOK
  <2> SUFFICES ASSUME IInv PROVE TypeOK
    OBVIOUS
  <2>1. ASSUME NEW b \in Binds
        PROVE  /\ bind[b].refuse \in BOOLEAN /\ bind[b].st_top \in 0..MaxStack
               /\ bind[b].args \in 0..(MaxStack + 1) /\ bind[b].rets \in 0..2
               /\ bind[b].cur \in 0..MaxStack
    BY DEF IInv, Typed, BindType
  <2> QED
    BY <2>1 DEF IInv, Typed, TypeOK, Top
<1> QED
  BY <1>1, Invariance, PTL

\* luawrapper.h:273 "only one per vm instance": vm.mutex is the number of binds
\* in their transaction, so it is never left taken and never taken twice.
THEOREM OneHolderOnly == ASSUME Disciplined PROVE Spec => []OneHolder
<1>1. IInv => OneHolder
  <2> SUFFICES ASSUME IInv PROVE OneHolder
    OBVIOUS
  <2> DEFINE holders == {b \in Binds : InTransaction(b)}
  <2>1. CASE mutex = 0
    <3>1. holders = {}
      BY <2>1 DEF IInv, Held
    <3> QED
      BY <2>1, <3>1, FS_EmptySet DEF OneHolder
  <2>2. CASE mutex = 1
    <3>1. PICK b \in Binds : InTransaction(b)
      BY <2>2 DEF IInv, Held
    <3>2. holders = {b}
      BY <3>1 DEF IInv, Held
    <3> QED
      BY <2>2, <3>2, FS_Singleton DEF OneHolder
  <2> QED
    BY <2>1, <2>2 DEF IInv, Typed
<1> QED
  BY <1>1, Invariance, PTL

\* bind::end: whatever was called and thrown, above the height it found a bind
\* has only values of its own, and between transactions the host's stack is back.
THEOREM OwnValuesOnly == ASSUME Disciplined PROVE Spec => []OwnValues
<1>1. IInv => OwnValues
  <2> SUFFICES ASSUME IInv PROVE OwnValues
    OBVIOUS
  <2>1. ASSUME NEW b \in Binds, InTransaction(b)
        PROVE  /\ bind[b].st_top <= Top
               /\ \A i \in (bind[b].st_top + 1)..Top : stack[i].by = b
    <3>1. OnStack(stack, b, bind[b]) /\ 1 + 1 = 2
      BY <2>1 DEF IInv, Stacked
    <3> QED
      BY <3>1 DEF OnStack, Top
  <2> QED
    BY <2>1 DEF OwnValues, IInv, Stacked
<1> QED
  BY <1>1, Invariance, PTL

\* bind::operator>>: what is read at -retvals_number is a result of the call.
THEOREM FetchesItsResults == ASSUME Disciplined PROVE Spec => []FetchesResults
<1>1. IInv => FetchesResults
  <2> SUFFICES ASSUME IInv, NEW b \in Binds, InTransaction(b), bind[b].rets > 0
               PROVE  LET i == Top + 1 - bind[b].rets
                      IN  i \in 1..Top /\ stack[i] = Value(b, "ret")
    BY DEF FetchesResults
  <2>1. OnStack(stack, b, bind[b]) /\ bind[b].rets \in Nat /\ Len(stack) \in Nat
    BY DEF IInv, Stacked, Typed, BindType
  <2>2. Len(stack) + 1 - bind[b].rets \in Len(stack) + 1 - bind[b].rets .. Len(stack)
        /\ Len(stack) + 1 - bind[b].rets \in 1..Len(stack)
    BY <2>1 DEF OnStack
  <2> QED
    BY <2>1, <2>2 DEF OnStack, Top
<1> QED
  BY <1>1, Invariance, PTL

\* luawrapper.h:273: what a step adds to the stack while a bind is in its
\* transaction is that bind's, never another one's.
THEOREM NobodyElsesValues == ASSUME Disciplined PROVE Spec => OnlyOnePerVm
<1> DEFINE Mine == \A b \in Binds : InTransaction(b) /\ InTransaction(b)' =>
              \A i \in 1..Len(stack') : stack'[i].by \in {b, Host} \/ i <= Len(stack)
<1>1. IInv' => Mine
  <2> SUFFICES ASSUME IInv', NEW b \in Binds, InTransaction(b)', NEW i \in 1..Len(stack')
               PROVE  stack'[i].by \in {b, Host}
    OBVIOUS
  <2>1. OnStack(stack', b, bind'[b])
    BY DEF IInv, Stacked
  <2>2. CASE i = 1
    BY <2>1, <2>2 DEF OnStack, Value
  <2>3. CASE i \in 2..Len(stack')
    BY <2>1, <2>3 DEF OnStack
  <2>4. i = 1 \/ i \in 2..Len(stack')
    OBVIOUS
  <2> QED
    BY <2>2, <2>3, <2>4
<1>2. IInv' => [Mine]_vars
  BY <1>1
<1> QED
  BY <1>2, Invariance, PTL DEF OnlyOnePerVm
================================================================================
