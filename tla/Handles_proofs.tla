----------------------------- MODULE Handles_proofs ----------------------------
(***************************************************************************)
(* Theorems about the bindings, for any number of connections, results,    *)
(* states, handles, statements, iterators, rows and buffers: no object of  *)
(* a C library is freed twice, used after it is freed or lost, loops get   *)
(* their rows in order, and numbers of variables and statuses are right;   *)
(* and a call to memcached reads its own reply to the end.                 *)
(* What scripts can spoil is named, as an exception, in each theorem.      *)
(* Each library is proved about by itself, and at the end all together.    *)
(***************************************************************************)
EXTENDS MCHandles, SequenceTheorems, FiniteSetTheorems, TLAPS
--------------------------------------------------------------------------------
(***************************************************************************)
(* MySQL (MysqlResult): what is in range.                                  *)
(***************************************************************************)

MysqlStoredRows == [state : {"none", "open", "closed", "gone"}, of : Conns \cup {None}, rows : Nat, cursor : Nat]
MysqlLoops == [state : {"none", "on", "ended", "gone"}, res : SUBSET Results, given : Nat, alone : BOOLEAN]

MysqlTypeOK == /\ myheap \in [Conns \cup Results -> Mysql!HeapStates]
               /\ conn \in [Conns -> {"none", "offline", "online", "gone"}]
               /\ res \in [Results -> MysqlStoredRows]
               /\ myiter \in [Iters -> MysqlLoops]
\* What the library has is what the objects have.
MysqlSameConns == \A k \in Conns : myheap[k] # "abused" /\ (myheap[k] = "live" <=> conn[k] = "online")
MysqlSameResults == \A r \in Results : myheap[r] # "abused" /\ (myheap[r] = "live" <=> res[r].state = "open")
MysqlHeapInv == MysqlTypeOK /\ MysqlSameConns /\ MysqlSameResults

\* An iterator is of one result, one that was stored; its place is the cursor's.
MysqlOneResult == \A i \in Iters : \A r, q \in myiter[i].res : r = q
MysqlOfStored == \A i \in Iters : \A r \in myiter[i].res : myheap[r] # "none"
MysqlInRange == \A r \in Results : res[r].cursor <= res[r].rows
MysqlRowsInv == MysqlOneResult /\ MysqlOfStored /\ MysqlInRange /\ Mysql!MysqlRows
--------------------------------------------------------------------------------
(***************************************************************************)
(* The heap.                                                               *)
(***************************************************************************)
LEMMA MysqlInitHeap == ASSUME Mysql!MysqlAssumption, Mysql!Init PROVE MysqlHeapInv
  BY DEF Mysql!MysqlAssumption, Mysql!Init, MysqlHeapInv, MysqlTypeOK, MysqlSameConns, MysqlSameResults,
       Mysql!HeapStates, MysqlStoredRows, MysqlLoops, Mysql!NoResult, Mysql!NoIter

LEMMA MysqlConnStep ==
    ASSUME Mysql!MysqlAssumption, MysqlHeapInv, NEW k \in Conns,
           Mysql!Open(k) \/ Mysql!Close(k, "offline") \/ Mysql!Close(k, "gone") \/ Mysql!Ask(k)
    PROVE  MysqlHeapInv'
  <1>1. CASE Mysql!Open(k)
    BY <1>1 DEF Mysql!MysqlAssumption, MysqlHeapInv, MysqlTypeOK, MysqlSameConns, MysqlSameResults,
         Mysql!HeapStates, Mysql!Open, Mysql!Allocated, Mysql!Released
  <1>2. CASE Mysql!Close(k, "offline")
    BY <1>2 DEF Mysql!MysqlAssumption, MysqlHeapInv, MysqlTypeOK, MysqlSameConns, MysqlSameResults,
         Mysql!HeapStates, Mysql!Close, Mysql!Released
  <1>3. CASE Mysql!Close(k, "gone")
    BY <1>3 DEF Mysql!MysqlAssumption, MysqlHeapInv, MysqlTypeOK, MysqlSameConns, MysqlSameResults,
         Mysql!HeapStates, Mysql!Close, Mysql!Released
  <1>4. CASE Mysql!Ask(k)
    BY <1>4 DEF Mysql!MysqlAssumption, MysqlHeapInv, MysqlTypeOK, MysqlSameConns, MysqlSameResults,
         Mysql!HeapStates, Mysql!Ask, Mysql!Used
  <1> QED BY <1>1, <1>2, <1>3, <1>4

LEMMA MysqlQueryStep ==
    ASSUME Mysql!MysqlAssumption, MysqlHeapInv, NEW k \in Conns, NEW r \in Results, Mysql!Query(k, r)
    PROVE  MysqlHeapInv'
  <1> USE DEF Mysql!MysqlAssumption, MysqlHeapInv, MysqlTypeOK, MysqlSameConns, MysqlSameResults,
       Mysql!HeapStates
  <1>1. /\ myheap[r] = "none" /\ k # r /\ res[r].state # "open"
        /\ UNCHANGED <<conn, myiter>>
    BY DEF Mysql!Query
  <1>2. CASE myheap' = (IF conn[k] = "online" THEN Mysql!Used(myheap, {k}) ELSE myheap) /\ UNCHANGED res
    BY <1>1, <1>2 DEF Mysql!Used
  <1>3. CASE conn[k] = "online" /\ myheap' = Mysql!Released(Mysql!Allocated(Mysql!Used(myheap, {k}), {r}), {r}) /\ UNCHANGED res
    BY <1>1, <1>3 DEF Mysql!Used, Mysql!Allocated, Mysql!Released
  <1>4. ASSUME conn[k] = "online", myheap' = Mysql!Allocated(Mysql!Used(myheap, {k}), {r}), NEW n \in 0..MaxRows,
               res' = [res EXCEPT ![r] = [state |-> "open", of |-> k, rows |-> n, cursor |-> 0]]
        PROVE  MysqlHeapInv'
    <2>1. n \in Nat
      BY <1>4
    <2>2. [state |-> "open", of |-> k, rows |-> n, cursor |-> 0] \in MysqlStoredRows
      BY <2>1 DEF MysqlStoredRows
    <2>3. res' \in [Results -> MysqlStoredRows] /\ \A q \in Results : res'[q].state = IF q = r THEN "open" ELSE res[q].state
      BY <2>2, <1>4
    <2>4. myheap' \in [Conns \cup Results -> Mysql!HeapStates]
          /\ \A x \in Conns \cup Results : myheap'[x] = IF x = r THEN "live" ELSE myheap[x]
      BY <1>1, <1>4 DEF Mysql!Used, Mysql!Allocated
    <2> QED BY <1>1, <2>3, <2>4
  <1> QED BY <1>2, <1>3, <1>4 DEF Mysql!Query

LEMMA MysqlResultStep ==
    ASSUME Mysql!MysqlAssumption, MysqlHeapInv, NEW r \in Results, Mysql!CloseResult(r) \/ Mysql!CollectResult(r)
    PROVE  MysqlHeapInv'
  <1>1. PICK after \in {"closed", "gone"} : Mysql!Free(r, after)
    BY DEF Mysql!CloseResult, Mysql!CollectResult
  <1>2. /\ res' \in [Results -> MysqlStoredRows]
        /\ \A q \in Results : res'[q].state = IF q = r THEN after ELSE res[q].state
    BY <1>1 DEF Mysql!Free, MysqlHeapInv, MysqlTypeOK, MysqlStoredRows
  <1> QED BY <1>1, <1>2 DEF Mysql!MysqlAssumption, MysqlHeapInv, MysqlTypeOK, MysqlSameConns,
       MysqlSameResults, Mysql!HeapStates, Mysql!Free, Mysql!Released, Mysql!Needs

\* What only moves cursors and iterators, and works on results that are open.
MysqlMoves(r) == /\ myheap' = Mysql!Used(myheap, Mysql!Needs(r)) /\ res[r].state = "open"
                 /\ res' \in [Results -> MysqlStoredRows] /\ myiter' \in [Iters -> MysqlLoops]
                 /\ \A q \in Results : res'[q].state = res[q].state
                 /\ UNCHANGED conn
LEMMA MysqlMoveStep ==
    ASSUME Mysql!MysqlAssumption, MysqlHeapInv, NEW r \in Results, MysqlMoves(r)
    PROVE  MysqlHeapInv'
  BY DEF Mysql!MysqlAssumption, MysqlHeapInv, MysqlTypeOK, MysqlSameConns, MysqlSameResults,
       Mysql!HeapStates, MysqlMoves, Mysql!Used, Mysql!Needs

LEMMA MysqlDisturbedType ==
    ASSUME MysqlHeapInv, NEW r \in Results
    PROVE  /\ Mysql!Disturbed(r) \in [Iters -> MysqlLoops]
           /\ \A j \in Iters : /\ Mysql!Disturbed(r)[j].res = myiter[j].res
                               /\ Mysql!Disturbed(r)[j].alone => r \notin myiter[j].res /\ Mysql!Disturbed(r)[j] = myiter[j]
  <1> DEFINE Cut(l) == [l EXCEPT !.alone = FALSE, !.given = 0]
  <1>1. ASSUME NEW l \in MysqlLoops
        PROVE  Cut(l) \in MysqlLoops /\ Cut(l).res = l.res /\ ~Cut(l).alone
    BY DEF MysqlLoops
  <1>2. Mysql!Disturbed(r) = [j \in Iters |-> IF r \notin myiter[j].res THEN myiter[j] ELSE Cut(myiter[j])]
    BY DEF Mysql!Disturbed
  <1> HIDE DEF Cut
  <1> QED BY <1>1, <1>2 DEF MysqlHeapInv, MysqlTypeOK

LEMMA MysqlCursorType ==
    ASSUME MysqlHeapInv, NEW r \in Results, NEW n \in Nat, res' = [res EXCEPT ![r].cursor = n]
    PROVE  /\ res' \in [Results -> MysqlStoredRows] /\ \A q \in Results : res'[q].state = res[q].state
           /\ \A q \in Results : res'[q].rows = res[q].rows
           /\ \A q \in Results : res'[q].cursor = IF q = r THEN n ELSE res[q].cursor
  BY DEF MysqlHeapInv, MysqlTypeOK, MysqlStoredRows

\* An iterator after a call that has found a row, and after one that has not
MysqlMore(l) == [l EXCEPT !.given = IF l.alone THEN @ + 1 ELSE 0, !.state = "on"]
LEMMA MysqlMoreType ==
    ASSUME NEW l \in MysqlLoops
    PROVE  /\ MysqlMore(l) \in MysqlLoops /\ MysqlMore(l).res = l.res /\ MysqlMore(l).alone = l.alone
           /\ MysqlMore(l).given = (IF l.alone THEN l.given + 1 ELSE 0) /\ MysqlMore(l).state = "on"
  <1> DEFINE g == IF l.alone THEN l.given + 1 ELSE 0
  <1>1. g \in Nat
    BY DEF MysqlLoops
  <1>2. MysqlMore(l) = [l EXCEPT !.given = g, !.state = "on"]
    BY DEF MysqlMore
  <1> HIDE DEF g
  <1>3. /\ MysqlMore(l) \in MysqlLoops /\ MysqlMore(l).res = l.res /\ MysqlMore(l).alone = l.alone
        /\ MysqlMore(l).given = g /\ MysqlMore(l).state = "on"
    BY <1>1, <1>2 DEF MysqlLoops
  <1> QED BY <1>3 DEF g

LEMMA MysqlRowsOfMoves ==
    ASSUME MysqlHeapInv, NEW r \in Results, NEW i \in Iters, Mysql!RowsOf(r, i)
    PROVE  MysqlMoves(r)
  <1>1. [state |-> "on", res |-> {r}, given |-> 0, alone |-> TRUE] \in MysqlLoops
    BY DEF MysqlLoops
  <1>2. myiter' \in [Iters -> MysqlLoops]
    BY <1>1, MysqlDisturbedType DEF Mysql!RowsOf
  <1>3. res' = [res EXCEPT ![r].cursor = 0]
    BY DEF Mysql!RowsOf, Mysql!Sought
  <1> QED BY <1>2, <1>3, MysqlCursorType DEF Mysql!RowsOf, MysqlMoves

LEMMA MysqlRowsNextMoves ==
    ASSUME MysqlHeapInv, NEW i \in Iters, NEW r \in myiter[i].res, res[r].state = "open",
           myheap' = Mysql!Used(myheap, Mysql!Needs(r)), UNCHANGED conn,
           IF res[r].cursor < res[r].rows
           THEN /\ res' = [res EXCEPT ![r].cursor = @ + 1]
                /\ myiter' = [j \in Iters |-> IF j # i THEN Mysql!Disturbed(r)[j] ELSE MysqlMore(myiter[i])]
           ELSE myiter' = [myiter EXCEPT ![i].state = "ended"] /\ UNCHANGED res
    PROVE  r \in Results /\ MysqlMoves(r)
  <1>1. r \in Results /\ myiter[i] \in MysqlLoops /\ res[r].cursor + 1 \in Nat
    BY DEF MysqlHeapInv, MysqlTypeOK, MysqlLoops, MysqlStoredRows
  <1>2. CASE res[r].cursor < res[r].rows
    <2>1. myiter' \in [Iters -> MysqlLoops]
      BY <1>1, <1>2, MysqlDisturbedType, MysqlMoreType
    <2>2. res' = [res EXCEPT ![r].cursor = res[r].cursor + 1]
      BY <1>1, <1>2 DEF MysqlHeapInv, MysqlTypeOK
    <2> QED BY <1>1, <2>1, <2>2, MysqlCursorType DEF MysqlMoves
  <1>3. CASE ~(res[r].cursor < res[r].rows)
    BY <1>1, <1>3 DEF MysqlMoves, MysqlHeapInv, MysqlTypeOK, MysqlLoops
  <1> QED BY <1>2, <1>3

LEMMA MysqlTableMoves ==
    ASSUME MysqlHeapInv, NEW r \in Results, Mysql!Table(r)
    PROVE  MysqlMoves(r)
  <1>1. res[r].rows \in Nat
    BY DEF MysqlHeapInv, MysqlTypeOK, MysqlStoredRows
  <1> QED BY <1>1, MysqlCursorType, MysqlDisturbedType DEF Mysql!Table, MysqlMoves

LEMMA MysqlDropType ==
    ASSUME MysqlHeapInv, NEW i \in Iters, Mysql!DropIter(i)
    PROVE  /\ myiter' \in [Iters -> MysqlLoops] /\ myiter'[i].res = {}
           /\ \A j \in Iters : j # i => myiter'[j] = myiter[j]
  <1> DEFINE l == [myiter[i] EXCEPT !.res = {}, !.state = "gone"]
  <1>1. myiter' = [myiter EXCEPT ![i] = l]
    BY DEF Mysql!DropIter, MysqlHeapInv, MysqlTypeOK
  <1>2. l \in MysqlLoops /\ l.res = {}
    BY DEF MysqlHeapInv, MysqlTypeOK, MysqlLoops
  <1> HIDE DEF l
  <1> QED BY <1>1, <1>2 DEF MysqlHeapInv, MysqlTypeOK

LEMMA MysqlHeapStep ==
    ASSUME Mysql!MysqlAssumption, MysqlHeapInv, [Mysql!Next]_(Mysql!vars)
    PROVE  MysqlHeapInv'
  <1>1. CASE \E k \in Conns : Mysql!Open(k) \/ Mysql!Close(k, "offline") \/ Mysql!Close(k, "gone") \/ Mysql!Ask(k)
    BY <1>1, MysqlConnStep
  <1>2. CASE \E k \in Conns, r \in Results : Mysql!Query(k, r)
    BY <1>2, MysqlQueryStep
  <1>3. CASE \E r \in Results : Mysql!CloseResult(r) \/ Mysql!CollectResult(r) \/ Mysql!Table(r)
    BY <1>3, MysqlResultStep, MysqlTableMoves, MysqlMoveStep
  <1>4. CASE \E r \in Results, i \in Iters : Mysql!RowsOf(r, i)
    BY <1>4, MysqlRowsOfMoves, MysqlMoveStep
  <1>5. ASSUME NEW i \in Iters, Mysql!RowsNext(i) PROVE MysqlHeapInv'
    <2>1. PICK r \in myiter[i].res :
             /\ res[r].state = "open" /\ myheap' = Mysql!Used(myheap, Mysql!Needs(r)) /\ UNCHANGED conn
             /\ IF res[r].cursor < res[r].rows
                THEN /\ res' = [res EXCEPT ![r].cursor = @ + 1]
                     /\ myiter' = [j \in Iters |-> IF j # i THEN Mysql!Disturbed(r)[j] ELSE MysqlMore(myiter[i])]
                ELSE myiter' = [myiter EXCEPT ![i].state = "ended"] /\ UNCHANGED res
      BY <1>5 DEF Mysql!RowsNext, MysqlMore
    <2>2. r \in Results /\ MysqlMoves(r)
      BY <2>1, MysqlRowsNextMoves
    <2> QED BY <2>2, MysqlMoveStep
  <1>6. ASSUME NEW i \in Iters, Mysql!DropIter(i) PROVE MysqlHeapInv'
    BY <1>6, MysqlDropType DEF Mysql!DropIter, MysqlHeapInv, MysqlTypeOK, MysqlSameConns, MysqlSameResults
  <1>7. CASE UNCHANGED Mysql!vars
    BY <1>7 DEF Mysql!vars, MysqlHeapInv, MysqlTypeOK, MysqlSameConns, MysqlSameResults
  <1> QED BY <1>1, <1>2, <1>3, <1>4, <1>5, <1>6, <1>7 DEF Mysql!Next

LEMMA MysqlHeapIsSound == MysqlHeapInv => Mysql!MysqlSafe
  BY DEF MysqlHeapInv, MysqlTypeOK, MysqlSameConns, MysqlSameResults, Mysql!MysqlSafe, Mysql!Sound,
       Mysql!Held, Mysql!HeapStates

\* No MYSQL or MYSQL_RES is closed twice, used after it is closed, or lost, for any
\* number of connections and results (lua_mysql_close, lua_mysql_result_close, __gc).
LEMMA MysqlSpecSafe == ASSUME Mysql!MysqlAssumption PROVE Mysql!Spec => []Mysql!MysqlSafe
  <1>1. Mysql!Init => MysqlHeapInv
    BY MysqlInitHeap
  <1>2. MysqlHeapInv /\ [Mysql!Next]_(Mysql!vars) => MysqlHeapInv'
    BY MysqlHeapStep
  <1>3. MysqlHeapInv => Mysql!MysqlSafe
    BY MysqlHeapIsSound
  <1> QED BY <1>1, <1>2, <1>3, PTL DEF Mysql!Spec
--------------------------------------------------------------------------------
(***************************************************************************)
(* The rows.                                                               *)
(***************************************************************************)
\* Nothing becomes what no call has made.
MysqlKept == \A r \in Results : myheap[r] # "none" => myheap'[r] # "none"
LEMMA MysqlOthersKeep ==
    ASSUME MysqlHeapInv, NEW r \in Results, MysqlKept, UNCHANGED myiter, MysqlRowsInv, res' \in [Results -> MysqlStoredRows],
           \A q \in Results : q # r => res'[q] = res[q],
           myheap[r] = "none" \/ res'[r].state # "open", res'[r].cursor <= res'[r].rows
    PROVE  MysqlRowsInv'
  <1>1. \A i \in Iters : myiter[i].res \subseteq Results
    BY DEF MysqlHeapInv, MysqlTypeOK, MysqlLoops
  <1>2. MysqlOneResult' /\ MysqlOfStored'
    BY <1>1 DEF MysqlRowsInv, MysqlOneResult, MysqlOfStored, MysqlKept
  <1>3. MysqlInRange'
    BY DEF MysqlRowsInv, MysqlInRange
  <1>4. Mysql!MysqlRows'
    BY <1>1 DEF MysqlRowsInv, MysqlOfStored, Mysql!MysqlRows
  <1> QED BY <1>2, <1>3, <1>4 DEF MysqlRowsInv

LEMMA MysqlRowsUntouched ==
    ASSUME MysqlHeapInv, MysqlKept, UNCHANGED <<res, myiter>>, MysqlRowsInv
    PROVE  MysqlRowsInv'
  <1>1. \A i \in Iters : myiter[i].res \subseteq Results
    BY DEF MysqlHeapInv, MysqlTypeOK, MysqlLoops
  <1> QED BY <1>1 DEF MysqlRowsInv, MysqlOneResult, MysqlOfStored, MysqlInRange, Mysql!MysqlRows, MysqlKept

LEMMA MysqlInitRows == ASSUME Mysql!MysqlAssumption, Mysql!Init PROVE MysqlRowsInv
  BY DEF Mysql!Init, MysqlRowsInv, MysqlOneResult, MysqlOfStored, MysqlInRange, Mysql!MysqlRows,
       Mysql!NoIter, Mysql!NoResult

LEMMA MysqlQueryKeepsRows ==
    ASSUME Mysql!MysqlAssumption, MysqlHeapInv, MysqlRowsInv, NEW k \in Conns, NEW r \in Results, Mysql!Query(k, r)
    PROVE  MysqlRowsInv'
  <1>1. MysqlKept
    BY DEF MysqlKept, Mysql!Query, Mysql!Used, Mysql!Allocated, Mysql!Released, MysqlHeapInv, MysqlTypeOK,
         Mysql!MysqlAssumption
  <1>2. CASE UNCHANGED res
    BY <1>1, <1>2, MysqlRowsUntouched DEF Mysql!Query
  <1>3. ASSUME NEW n \in 0..MaxRows,
               res' = [res EXCEPT ![r] = [state |-> "open", of |-> k, rows |-> n, cursor |-> 0]]
        PROVE  MysqlRowsInv'
    <2>1. n \in Nat /\ 0 <= n
      BY <1>3 DEF Mysql!MysqlAssumption
    <2>2. [state |-> "open", of |-> k, rows |-> n, cursor |-> 0] \in MysqlStoredRows
      BY <2>1 DEF MysqlStoredRows
    <2>3. res' \in [Results -> MysqlStoredRows] /\ res'[r].cursor <= res'[r].rows
          /\ \A q \in Results : q # r => res'[q] = res[q]
      BY <1>3, <2>1, <2>2 DEF MysqlHeapInv, MysqlTypeOK
    <2> QED BY <1>1, <2>3, MysqlOthersKeep DEF Mysql!Query
  <1> QED BY <1>2, <1>3 DEF Mysql!Query

LEMMA MysqlFreeKeepsRows ==
    ASSUME Mysql!MysqlAssumption, MysqlHeapInv, MysqlRowsInv, NEW r \in Results, Mysql!CloseResult(r) \/ Mysql!CollectResult(r)
    PROVE  MysqlRowsInv'
  <1>1. PICK after \in {"closed", "gone"} : Mysql!Free(r, after)
    BY DEF Mysql!CloseResult, Mysql!CollectResult
  <1>2. MysqlKept
    BY <1>1 DEF MysqlKept, Mysql!Free, Mysql!Released, Mysql!Needs, MysqlHeapInv, MysqlTypeOK
  <1>3. /\ res' \in [Results -> MysqlStoredRows] /\ res'[r].state = after
        /\ res'[r].cursor = res[r].cursor /\ res'[r].rows = res[r].rows
        /\ \A q \in Results : q # r => res'[q] = res[q]
    BY <1>1 DEF Mysql!Free, MysqlHeapInv, MysqlTypeOK, MysqlStoredRows
  <1> QED BY <1>1, <1>2, <1>3, MysqlOthersKeep DEF Mysql!Free, MysqlRowsInv, MysqlInRange

LEMMA MysqlMovesKeep == ASSUME MysqlHeapInv, NEW r \in Results, MysqlMoves(r) PROVE MysqlKept
  BY DEF MysqlKept, MysqlMoves, Mysql!Used, Mysql!Needs, MysqlHeapInv, MysqlTypeOK

LEMMA MysqlRowsOfInOrder ==
    ASSUME MysqlHeapInv, MysqlRowsInv, NEW r \in Results, NEW i \in Iters, Mysql!RowsOf(r, i)
    PROVE  MysqlRowsInv'
  <1>1. MysqlKept /\ myheap[r] = "live"
    BY MysqlRowsOfMoves, MysqlMovesKeep DEF Mysql!RowsOf, MysqlHeapInv, MysqlSameResults
  <1>2. myiter'[i] = [state |-> "on", res |-> {r}, given |-> 0, alone |-> TRUE]
        /\ \A j \in Iters : j # i => myiter'[j] = Mysql!Disturbed(r)[j]
    BY MysqlDisturbedType DEF Mysql!RowsOf, MysqlHeapInv, MysqlTypeOK
  <1>3. \A q \in Results : /\ res'[q].state = res[q].state /\ res'[q].rows = res[q].rows
                           /\ res'[q].cursor = IF q = r THEN 0 ELSE res[q].cursor
    BY MysqlCursorType DEF Mysql!RowsOf, Mysql!Sought
  <1>4. \A j \in Iters : myiter[j].res \subseteq Results
    BY DEF MysqlHeapInv, MysqlTypeOK, MysqlLoops
  <1>5. MysqlOneResult' /\ MysqlOfStored'
    BY <1>1, <1>2, <1>4, MysqlDisturbedType DEF MysqlRowsInv, MysqlOneResult, MysqlOfStored, MysqlKept
  <1>6. MysqlInRange'
    BY <1>3 DEF MysqlRowsInv, MysqlInRange, MysqlHeapInv, MysqlTypeOK, MysqlStoredRows
  <1>7. Mysql!MysqlRows'
    BY <1>2, <1>3, <1>4, MysqlDisturbedType DEF MysqlRowsInv, Mysql!MysqlRows
  <1> QED BY <1>5, <1>6, <1>7 DEF MysqlRowsInv

LEMMA MysqlTableInOrder ==
    ASSUME MysqlHeapInv, MysqlRowsInv, NEW r \in Results, Mysql!Table(r)
    PROVE  MysqlRowsInv'
  <1>1. MysqlKept /\ res[r].rows \in Nat
    BY MysqlTableMoves, MysqlMovesKeep DEF MysqlHeapInv, MysqlTypeOK, MysqlStoredRows
  <1>2. \A q \in Results : /\ res'[q].state = res[q].state /\ res'[q].rows = res[q].rows
                           /\ res'[q].cursor = IF q = r THEN res[r].rows ELSE res[q].cursor
    BY <1>1, MysqlCursorType DEF Mysql!Table
  <1>3. \A j \in Iters : myiter[j].res \subseteq Results
    BY DEF MysqlHeapInv, MysqlTypeOK, MysqlLoops
  <1>4. MysqlOneResult' /\ MysqlOfStored'
    BY <1>1, <1>3, MysqlDisturbedType DEF Mysql!Table, MysqlRowsInv, MysqlOneResult, MysqlOfStored, MysqlKept
  <1>5. MysqlInRange'
    BY <1>1, <1>2 DEF MysqlRowsInv, MysqlInRange
  <1>6. Mysql!MysqlRows'
    BY <1>2, <1>3, MysqlDisturbedType DEF Mysql!Table, MysqlRowsInv, Mysql!MysqlRows
  <1> QED BY <1>4, <1>5, <1>6 DEF MysqlRowsInv

LEMMA MysqlRowsNextInOrder ==
    ASSUME MysqlHeapInv, MysqlRowsInv, NEW i \in Iters, Mysql!RowsNext(i)
    PROVE  MysqlRowsInv'
  <1>1. PICK r \in myiter[i].res :
           /\ res[r].state = "open" /\ myheap' = Mysql!Used(myheap, Mysql!Needs(r)) /\ UNCHANGED conn
           /\ IF res[r].cursor < res[r].rows
              THEN /\ res' = [res EXCEPT ![r].cursor = @ + 1]
                   /\ myiter' = [j \in Iters |-> IF j # i THEN Mysql!Disturbed(r)[j] ELSE MysqlMore(myiter[i])]
              ELSE myiter' = [myiter EXCEPT ![i].state = "ended"] /\ UNCHANGED res
    BY DEF Mysql!RowsNext, MysqlMore
  <1>2. r \in Results /\ MysqlKept
    BY <1>1, MysqlRowsNextMoves, MysqlMovesKeep
  <1>3. /\ \A j \in Iters : myiter[j].res \subseteq Results /\ myiter[j] \in MysqlLoops
        /\ \A q \in myiter[i].res : q = r
        /\ res[r].cursor \in Nat /\ res[r].rows \in Nat /\ res[r].cursor <= res[r].rows
    BY <1>1, <1>2 DEF MysqlHeapInv, MysqlTypeOK, MysqlLoops, MysqlStoredRows, MysqlRowsInv, MysqlOneResult,
         MysqlInRange
  <1>4. CASE res[r].cursor < res[r].rows
    <2>1. \A q \in Results : /\ res'[q].state = res[q].state /\ res'[q].rows = res[q].rows
                             /\ res'[q].cursor = IF q = r THEN res[r].cursor + 1 ELSE res[q].cursor
      <3>1. res' = [res EXCEPT ![r].cursor = res[r].cursor + 1]
        BY <1>1, <1>2, <1>4 DEF MysqlHeapInv, MysqlTypeOK
      <3>2. res[r].cursor + 1 \in Nat
        BY <1>3
      <3> QED BY <3>1, <3>2, <1>2, MysqlCursorType
    <2>2. /\ \A j \in Iters : j # i => myiter'[j] = Mysql!Disturbed(r)[j]
          /\ myiter'[i] = MysqlMore(myiter[i])
      BY <1>1, <1>4
    <2>3. /\ MysqlMore(myiter[i]).res = myiter[i].res /\ MysqlMore(myiter[i]).alone = myiter[i].alone
          /\ MysqlMore(myiter[i]).given = (IF myiter[i].alone THEN myiter[i].given + 1 ELSE 0) /\ MysqlMore(myiter[i]).state = "on"
      BY <1>3, MysqlMoreType
    <2>4. MysqlOneResult' /\ MysqlOfStored'
      BY <1>2, <1>3, <2>2, <2>3, MysqlDisturbedType DEF MysqlRowsInv, MysqlOneResult, MysqlOfStored, MysqlKept
    <2>5. MysqlInRange'
      BY <1>2, <1>3, <1>4, <2>1 DEF MysqlRowsInv, MysqlInRange
    <2>6. Mysql!MysqlRows'
      <3>1. ASSUME NEW j \in Iters, NEW q \in Results, myiter'[j].alone, q \in myiter'[j].res, res'[q].state = "open"
            PROVE  /\ myiter'[j].given = res'[q].cursor
                   /\ myiter'[j].state = "ended" => myiter'[j].given = res'[q].rows
        <4>1. CASE j = i
          BY <1>2, <1>3, <2>1, <2>2, <2>3, <3>1, <4>1 DEF MysqlRowsInv, Mysql!MysqlRows
        <4>2. CASE j # i
          <5>1. q # r /\ myiter'[j] = myiter[j]
            BY <1>2, <2>2, <3>1, <4>2, MysqlDisturbedType
          <5> QED BY <2>1, <3>1, <5>1 DEF MysqlRowsInv, Mysql!MysqlRows
        <4> QED BY <4>1, <4>2
      <3> QED BY <3>1 DEF Mysql!MysqlRows
    <2> QED BY <2>4, <2>5, <2>6 DEF MysqlRowsInv
  <1>5. CASE ~(res[r].cursor < res[r].rows)
    <2>1. /\ UNCHANGED res /\ res[r].cursor = res[r].rows
          /\ \A j \in Iters : j # i => myiter'[j] = myiter[j]
          /\ myiter'[i].res = myiter[i].res /\ myiter'[i].alone = myiter[i].alone /\ myiter'[i].given = myiter[i].given
      <3>1. UNCHANGED res /\ myiter' = [myiter EXCEPT ![i].state = "ended"]
        BY <1>1, <1>5
      <3>2. res[r].cursor = res[r].rows
        BY <1>3, <1>5
      <3> QED BY <3>1, <3>2 DEF MysqlHeapInv, MysqlTypeOK, MysqlLoops
    <2>2. MysqlOneResult' /\ MysqlOfStored'
      BY <1>2, <1>3, <2>1 DEF MysqlRowsInv, MysqlOneResult, MysqlOfStored, MysqlKept
    <2>3. MysqlInRange'
      BY <2>1 DEF MysqlRowsInv, MysqlInRange
    <2>4. Mysql!MysqlRows'
      BY <1>3, <2>1 DEF MysqlRowsInv, Mysql!MysqlRows
    <2> QED BY <2>2, <2>3, <2>4 DEF MysqlRowsInv
  <1> QED BY <1>4, <1>5

LEMMA MysqlRowsStep ==
    ASSUME Mysql!MysqlAssumption, MysqlHeapInv, MysqlRowsInv, [Mysql!Next]_(Mysql!vars)
    PROVE  MysqlRowsInv'
  <1>1. ASSUME NEW k \in Conns, Mysql!Open(k) \/ Mysql!Close(k, "offline") \/ Mysql!Close(k, "gone") \/ Mysql!Ask(k)
        PROVE  MysqlRowsInv'
    <2>1. MysqlKept /\ UNCHANGED <<res, myiter>>
      BY <1>1 DEF Mysql!Open, Mysql!Close, Mysql!Ask, MysqlKept, Mysql!Used, Mysql!Allocated, Mysql!Released,
           MysqlHeapInv, MysqlTypeOK, Mysql!MysqlAssumption
    <2> QED BY <2>1, MysqlRowsUntouched
  <1>2. CASE \E k \in Conns, r \in Results : Mysql!Query(k, r)
    BY <1>2, MysqlQueryKeepsRows
  <1>3. CASE \E r \in Results : Mysql!CloseResult(r) \/ Mysql!CollectResult(r) \/ Mysql!Table(r)
    BY <1>3, MysqlFreeKeepsRows, MysqlTableInOrder
  <1>4. CASE \E r \in Results, i \in Iters : Mysql!RowsOf(r, i)
    BY <1>4, MysqlRowsOfInOrder
  <1>5. CASE \E i \in Iters : Mysql!RowsNext(i)
    BY <1>5, MysqlRowsNextInOrder
  <1>6. ASSUME NEW i \in Iters, Mysql!DropIter(i) PROVE MysqlRowsInv'
    <2>1. /\ UNCHANGED <<myheap, res>> /\ myiter'[i].res = {}
          /\ \A j \in Iters : j # i => myiter'[j] = myiter[j]
      BY <1>6, MysqlDropType DEF Mysql!DropIter
    <2>2. MysqlOneResult' /\ MysqlOfStored' /\ MysqlInRange'
      BY <2>1 DEF MysqlRowsInv, MysqlOneResult, MysqlOfStored, MysqlInRange
    <2>3. Mysql!MysqlRows'
      BY <2>1 DEF MysqlRowsInv, Mysql!MysqlRows
    <2> QED BY <2>2, <2>3 DEF MysqlRowsInv
  <1>7. CASE UNCHANGED Mysql!vars
    BY <1>7 DEF Mysql!vars, MysqlRowsInv, MysqlOneResult, MysqlOfStored, MysqlInRange, Mysql!MysqlRows
  <1> QED BY <1>1, <1>2, <1>3, <1>4, <1>5, <1>6, <1>7 DEF Mysql!Next

\* A loop over rows() that nothing disturbs has been given the rows up to the cursor,
\* and all when it ends, for any number of rows, results and iterators
\* (lua_mysql_result_rows, lua_mysql_result_rows_next).
LEMMA MysqlSpecInOrder == ASSUME Mysql!MysqlAssumption PROVE Mysql!Spec => []Mysql!MysqlRows
  <1>1. Mysql!Init => MysqlHeapInv /\ MysqlRowsInv
    BY MysqlInitHeap, MysqlInitRows
  <1>2. MysqlHeapInv /\ MysqlRowsInv /\ [Mysql!Next]_(Mysql!vars) => (MysqlHeapInv /\ MysqlRowsInv)'
    BY MysqlHeapStep, MysqlRowsStep
  <1>3. MysqlRowsInv => Mysql!MysqlRows
    BY DEF MysqlRowsInv
  <1> QED BY <1>1, <1>2, <1>3, PTL DEF Mysql!Spec

--------------------------------------------------------------------------------
(***************************************************************************)
(* cURL (CurlHandles): what is in range, and the easy handles and lists.   *)
(***************************************************************************)

CurlObjects == Handles \cup Lists \cup Files \cup {None}
CurlHeaps == [CurlObjects -> Curl!HeapStates]
Curls == [state : {"none", "object", "gone"}, of : Luas \cup {None}, curl : BOOLEAN,
          hdrs : Lists \cup {None}, log : Files \cup {None}, user : Luas \cup {None},
          sent : Nat, status : Nat]
CurlPlaces == {"none", "script", "fclose", "clear", "fopen", "cleanup", "closing", "closed"}
CurlTests == [fp : Files \cup {None}, next : {"script", "fopen", "cleanup"}]

CurlHandleTypes == /\ fp \in Files \cup {None} /\ user \in Luas \cup {None}
                   /\ handle \in [Handles -> Curls]
CurlLuaTypes == /\ inits \in Int /\ lua \in [Luas -> CurlPlaces]
                /\ tested \in [Luas -> CurlTests] /\ raced \in BOOLEAN
CurlTypeOK == cuheap \in CurlHeaps /\ CurlLuaTypes /\ CurlHandleTypes

CurlEasyHeld == \A h \in Handles : cuheap[h] # "abused" /\ (cuheap[h] = "live" <=> handle[h].curl)
CurlListsHeld ==
    \A l \in Lists : /\ cuheap[l] # "abused"
                     /\ (\E h \in Handles : handle[h].hdrs = l) => cuheap[l] = "live"
                     /\ cuheap[l] = "live" => l \in dropped \/ \E h \in Handles : handle[h].hdrs = l
\* A list is of one handle.
CurlOneOwner == \A g, h \in Handles : handle[g].hdrs = handle[h].hdrs /\ handle[g].hdrs # None => g = h
CurlUnmade == \A h \in Handles : handle[h].state = "none" => handle[h].hdrs = None /\ ~handle[h].curl
CurlHeapInv == CurlTypeOK /\ CurlUnmade /\ CurlEasyHeld /\ CurlListsHeld /\ CurlOneOwner
--------------------------------------------------------------------------------
(***************************************************************************)
(* The heap object by object, and handles one by one.                      *)
(***************************************************************************)
LEMMA CurlPoints ==
    ASSUME NEW b \in CurlHeaps, NEW S
    PROVE  /\ Curl!Used(b, S) \in CurlHeaps /\ Curl!Released(b, S) \in CurlHeaps
           /\ Curl!Allocated(b, S) \in CurlHeaps
           /\ \A x \in CurlObjects :
                /\ Curl!Used(b, S)[x] = IF x \in S /\ b[x] # "live" THEN "abused" ELSE b[x]
                /\ Curl!Released(b, S)[x] = IF x \notin S THEN b[x]
                                            ELSE IF b[x] = "live" THEN "freed" ELSE "abused"
                /\ Curl!Allocated(b, S)[x] = IF x \in S THEN "live" ELSE b[x]
  BY DEF CurlHeaps, Curl!Used, Curl!Released, Curl!Allocated, Curl!HeapStates

\* What belongs to whom
LEMMA CurlKinds ==
    ASSUME Curl!CurlAssumption
    PROVE  /\ Handles \subseteq CurlObjects /\ Lists \subseteq CurlObjects /\ Files \subseteq CurlObjects
           /\ None \in CurlObjects
           /\ \A h \in Handles : h \notin Lists /\ h \notin Files /\ h # None
           /\ \A l \in Lists : l \notin Handles /\ l \notin Files /\ l # None
           /\ \A f \in Files : f \notin Handles /\ f \notin Lists /\ f # None
           /\ \A s \in Luas : s # None
  BY DEF Curl!CurlAssumption, CurlObjects

LEMMA CurlHandleFacts ==
    ASSUME CurlHandleTypes, NEW h \in Handles
    PROVE  /\ handle[h] \in Curls /\ handle[h].hdrs \in Lists \cup {None} /\ handle[h].log \in Files \cup {None}
           /\ handle[h].curl \in BOOLEAN /\ handle[h].sent \in Nat /\ handle[h].status \in Nat
  BY DEF CurlHandleTypes, Curls

LEMMA CurlClosedType ==
    ASSUME CurlHandleTypes, NEW h \in Handles, NEW state \in {"object", "gone"}
    PROVE  /\ Curl!Closed(h, state) \in Curls /\ ~Curl!Closed(h, state).curl
           /\ Curl!Closed(h, state).hdrs = None /\ Curl!Closed(h, state).log = None /\ Curl!Closed(h, state).state = state
           /\ Curl!Closed(h, state).sent = handle[h].sent /\ Curl!Closed(h, state).status = handle[h].status
           /\ Curl!Closed(h, state).of = handle[h].of
  <1> DEFINE o == handle[h]
  <1>1. o \in Curls
    BY DEF CurlHandleTypes
  <1>2. Curl!Closed(h, state) = [o EXCEPT !.curl = FALSE, !.hdrs = None, !.log = None, !.state = state]
    BY DEF Curl!Closed
  <1> HIDE DEF o
  <1> DEFINE p == [o EXCEPT !.curl = FALSE, !.hdrs = None]
  <1>3. /\ p \in Curls /\ ~p.curl /\ p.hdrs = None /\ p.of = o.of
        /\ p.sent = o.sent /\ p.status = o.status
    BY <1>1 DEF Curls
  <1>4. Curl!Closed(h, state) = [p EXCEPT !.log = None, !.state = state]
    BY <1>2
  <1> HIDE DEF p
  <1>5. /\ Curl!Closed(h, state) \in Curls /\ ~Curl!Closed(h, state).curl /\ Curl!Closed(h, state).of = o.of
        /\ Curl!Closed(h, state).hdrs = None /\ Curl!Closed(h, state).log = None /\ Curl!Closed(h, state).state = state
        /\ Curl!Closed(h, state).sent = o.sent /\ Curl!Closed(h, state).status = o.status
    BY <1>3, <1>4 DEF Curls
  <1> QED BY <1>5 DEF o

\* What a handle uses when it sends or is closed: itself and its list, which are live,
\* and its log.
LEMMA CurlEasyUses ==
    ASSUME Curl!CurlAssumption, CurlHeapInv, NEW h \in Handles
    PROVE  /\ \A x \in Handles : x \in Curl!Easy(h) <=> x = h /\ handle[h].curl
           /\ \A x \in Handles : x \notin Curl!List(h)
           /\ \A x \in Lists : x \notin Curl!Easy(h) /\ (x \in Curl!List(h) <=> x = handle[h].hdrs)
           /\ \A x \in Files : /\ x \in Curl!Easy(h) <=> handle[h].curl /\ handle[h].log = x
                               /\ x \notin Curl!List(h)
           /\ None \notin Curl!Easy(h) /\ None \notin Curl!List(h)
  <1>1. handle[h].hdrs \in Lists \cup {None} /\ handle[h].log \in Files \cup {None} /\ handle[h].curl \in BOOLEAN
    BY CurlHandleFacts DEF CurlHeapInv, CurlTypeOK
  <1> QED BY <1>1, CurlKinds DEF Curl!Easy, Curl!List, Curl!FileOf

LEMMA CurlCleanedPoints ==
    ASSUME Curl!CurlAssumption, CurlHeapInv, NEW hs \in SUBSET Handles
    PROVE  /\ Curl!Cleaned(hs) \in CurlHeaps
           /\ \A h \in Handles : Curl!Cleaned(hs)[h] = IF h \in hs /\ handle[h].curl THEN "freed" ELSE cuheap[h]
           /\ \A l \in Lists : Curl!Cleaned(hs)[l] = IF \E h \in hs : handle[h].hdrs = l THEN "freed" ELSE cuheap[l]
           /\ \A f \in Files : \/ Curl!Cleaned(hs)[f] = cuheap[f]
                               \/ /\ Curl!Cleaned(hs)[f] = "abused" /\ cuheap[f] # "live"
                                  /\ \E h \in hs : handle[h].curl /\ handle[h].log = f
           /\ Curl!Cleaned(hs)[None] = cuheap[None]
  <1> DEFINE E == UNION {Curl!Easy(h) : h \in hs}
             R == {h \in hs : handle[h].curl} \cup UNION {Curl!List(h) : h \in hs}
             u == Curl!Used(cuheap, E)
  <1>1. Curl!Cleaned(hs) = Curl!Released(u, R)
    BY DEF Curl!Cleaned
  <1>2. /\ \A h \in Handles : (h \in E <=> h \in hs /\ handle[h].curl) /\ (h \in R <=> h \in hs /\ handle[h].curl)
        /\ \A l \in Lists : l \notin E /\ (l \in R <=> \E h \in hs : handle[h].hdrs = l)
        /\ \A f \in Files : (f \in E <=> \E h \in hs : handle[h].curl /\ handle[h].log = f) /\ f \notin R
        /\ None \notin E /\ None \notin R
    BY CurlEasyUses, CurlKinds
  <1> HIDE DEF E, R
  <1>3. cuheap \in CurlHeaps
    BY DEF CurlHeapInv, CurlTypeOK
  <1>4. u \in CurlHeaps /\ \A x \in CurlObjects : u[x] = IF x \in E /\ cuheap[x] # "live" THEN "abused" ELSE cuheap[x]
    BY <1>3, CurlPoints
  <1> HIDE DEF u
  <1>5. /\ Curl!Released(u, R) \in CurlHeaps
        /\ \A x \in CurlObjects : Curl!Released(u, R)[x] = IF x \notin R THEN u[x]
                                            ELSE IF u[x] = "live" THEN "freed" ELSE "abused"
    BY <1>4, CurlPoints
  <1>6. ASSUME NEW h \in Handles
        PROVE  Curl!Cleaned(hs)[h] = IF h \in hs /\ handle[h].curl THEN "freed" ELSE cuheap[h]
    BY <1>1, <1>2, <1>4, <1>5, CurlKinds DEF CurlHeapInv, CurlEasyHeld
  <1>7. ASSUME NEW l \in Lists
        PROVE  Curl!Cleaned(hs)[l] = IF \E h \in hs : handle[h].hdrs = l THEN "freed" ELSE cuheap[l]
    BY <1>1, <1>2, <1>4, <1>5, CurlKinds DEF CurlHeapInv, CurlListsHeld
  <1>8. ASSUME NEW f \in Files
        PROVE  \/ Curl!Cleaned(hs)[f] = cuheap[f]
               \/ /\ Curl!Cleaned(hs)[f] = "abused" /\ cuheap[f] # "live"
                  /\ \E h \in hs : handle[h].curl /\ handle[h].log = f
    BY <1>1, <1>2, <1>4, <1>5, CurlKinds
  <1>9. Curl!Cleaned(hs)[None] = cuheap[None]
    BY <1>1, <1>2, <1>4, <1>5, CurlKinds
  <1> QED BY <1>1, <1>5, <1>6, <1>7, <1>8, <1>9

\* What a handle that sends, or escapes, uses
LEMMA CurlUsedPoints ==
    ASSUME Curl!CurlAssumption, CurlHeapInv, NEW h \in Handles,
           NEW S, S \subseteq Curl!Easy(h) \cup Curl!List(h)
    PROVE  /\ Curl!Used(cuheap, S) \in CurlHeaps
           /\ \A x \in Handles \cup Lists \cup {None} : Curl!Used(cuheap, S)[x] = cuheap[x]
           /\ \A f \in Files : \/ Curl!Used(cuheap, S)[f] = cuheap[f]
                               \/ /\ Curl!Used(cuheap, S)[f] = "abused" /\ cuheap[f] # "live"
                                  /\ handle[h].curl /\ handle[h].log = f
  <1>1. cuheap \in CurlHeaps
    BY DEF CurlHeapInv, CurlTypeOK
  <1>2. \A x \in Handles : x \in S => cuheap[x] = "live"
    BY CurlEasyUses DEF CurlHeapInv, CurlEasyHeld
  <1>3. \A x \in Lists : x \in S => cuheap[x] = "live"
    BY CurlEasyUses DEF CurlHeapInv, CurlListsHeld
  <1>4. None \notin S /\ \A f \in Files : f \in S => handle[h].curl /\ handle[h].log = f
    BY CurlEasyUses
  <1> QED BY <1>1, <1>2, <1>3, <1>4, CurlPoints, CurlKinds
--------------------------------------------------------------------------------
(***************************************************************************)
(* Easy handles and lists, action by action.                               *)
(***************************************************************************)
\* The variables that are not about handles stay in range.
LEMMA CurlLuaTypesStep ==
    ASSUME CurlTypeOK, [Curl!Next]_(Curl!vars)
    PROVE  CurlLuaTypes'
  <1> USE DEF CurlTypeOK, CurlLuaTypes, CurlPlaces, Curl!Go, Curl!At
  <1>1. ASSUME NEW s \in Luas, Curl!luaopen(s) \/ Curl!cleanup(s) \/ Curl!userpwd(s) \/ Curl!lua_close(s)
        PROVE  CurlLuaTypes'
    BY <1>1 DEF Curl!luaopen, Curl!cleanup, Curl!userpwd, Curl!lua_close, Curl!Initialised, Curl!log
  <1>2. ASSUME NEW s \in Luas, NEW next \in {"fopen", "cleanup"}, Curl!TestLog(s, next) PROVE CurlLuaTypes'
    <2>1. [fp |-> fp, next |-> next] \in CurlTests
      BY DEF CurlHandleTypes, CurlTests
    <2> QED BY <1>2, <2>1 DEF Curl!TestLog, Curl!Reads
  <1>3. ASSUME NEW s \in Luas, Curl!fclose(s) \/ Curl!fopen(s) PROVE CurlLuaTypes'
    BY <1>3 DEF Curl!fclose, Curl!fopen
  <1>4. ASSUME NEW s \in Luas, Curl!clear(s) PROVE CurlLuaTypes'
    <2>1. Curl!NotTested \in CurlTests /\ tested[s].next \in CurlPlaces
      BY DEF Curl!NotTested, CurlTests
    <2> QED BY <1>4, <2>1 DEF Curl!clear
  <1>5. ASSUME NEW s \in Luas, Curl!Log(s) PROVE CurlLuaTypes'
    BY <1>2, <1>3, <1>4, <1>5 DEF Curl!Log, Curl!luaclose, Curl!log_file
  <1>6. ASSUME NEW s \in Luas, NEW h \in Handles, Curl!Script(s, h) PROVE CurlLuaTypes'
    BY <1>6 DEF Curl!Script, Curl!open, Curl!close, Curl!set_request_header, Curl!escape, Curl!send,
                Curl!Reads, Curl!log
  <1>7. CASE UNCHANGED Curl!vars
    BY <1>7 DEF Curl!vars, Curl!log
  <1> QED BY <1>1, <1>5, <1>6, <1>7 DEF Curl!Next

\* What leaves easy handles and lists, and who holds them, as they are
LEMMA CurlSameHandles ==
    ASSUME CurlHeapInv, CurlTypeOK', UNCHANGED dropped,
           \A x \in Handles \cup Lists : cuheap'[x] = cuheap[x],
           \A h \in Handles : /\ handle'[h].curl = handle[h].curl /\ handle'[h].hdrs = handle[h].hdrs
                              /\ handle'[h].state = handle[h].state
    PROVE  CurlHeapInv'
  BY DEF CurlHeapInv, CurlEasyHeld, CurlListsHeld, CurlOneOwner, CurlUnmade

\* close, __gc and lua_close, of any set of handles
LEMMA CurlCleanStep ==
    ASSUME Curl!CurlAssumption, CurlHeapInv, NEW hs \in SUBSET Handles, NEW state \in {"object", "gone"},
           cuheap' = Curl!Cleaned(hs), UNCHANGED <<fp, user, dropped>>, CurlLuaTypes',
           handle' = [h \in Handles |-> IF h \in hs THEN Curl!Closed(h, state) ELSE handle[h]]
    PROVE  CurlHeapInv'
  <1> DEFINE C(h) == Curl!Closed(h, state)
  <1>1. \A h \in hs : C(h) \in Curls /\ ~C(h).curl /\ C(h).hdrs = None /\ C(h).state # "none"
    BY CurlClosedType DEF CurlHeapInv, CurlTypeOK
  <1>2. handle' = [h \in Handles |-> IF h \in hs THEN C(h) ELSE handle[h]]
    OBVIOUS
  <1> HIDE DEF C
  <1>3. /\ handle' \in [Handles -> Curls]
        /\ \A h \in Handles : IF h \in hs THEN /\ ~handle'[h].curl /\ handle'[h].hdrs = None
                                               /\ handle'[h].state # "none"
                                          ELSE handle'[h] = handle[h]
    BY <1>1, <1>2 DEF CurlHeapInv, CurlTypeOK, CurlHandleTypes
  <1>4. /\ cuheap' \in CurlHeaps
        /\ \A h \in Handles : cuheap'[h] = IF h \in hs /\ handle[h].curl THEN "freed" ELSE cuheap[h]
        /\ \A l \in Lists : cuheap'[l] = IF \E h \in hs : handle[h].hdrs = l THEN "freed" ELSE cuheap[l]
    BY CurlCleanedPoints
  <1>5. CurlTypeOK'
    BY <1>3, <1>4 DEF CurlHeapInv, CurlTypeOK, CurlHandleTypes
  <1>6. CurlEasyHeld'
    BY <1>3, <1>4 DEF CurlHeapInv, CurlEasyHeld
  <1>7. CurlListsHeld'
    <2> SUFFICES ASSUME NEW l \in Lists
                 PROVE  /\ cuheap'[l] # "abused"
                        /\ (\E h \in Handles : handle'[h].hdrs = l) => cuheap'[l] = "live"
                        /\ cuheap'[l] = "live" => l \in dropped \/ \E h \in Handles : handle'[h].hdrs = l
      BY DEF CurlListsHeld
    <2>1. l # None
      BY CurlKinds
    <2>2. CASE \E h \in hs : handle[h].hdrs = l
      <3>1. PICK h \in hs : handle[h].hdrs = l
        BY <2>2
      <3>2. \A g \in Handles : handle[g].hdrs = l => g = h
        BY <2>1, <3>1 DEF CurlHeapInv, CurlOneOwner
      <3>3. \A g \in Handles : handle'[g].hdrs # l
        BY <1>3, <2>1, <3>1, <3>2
      <3> QED BY <1>4, <2>2, <3>3
    <2>3. CASE ~\E h \in hs : handle[h].hdrs = l
      <3>1. \A g \in Handles : handle'[g].hdrs = l <=> handle[g].hdrs = l
        BY <1>3, <2>1, <2>3
      <3> QED BY <1>4, <2>3, <3>1 DEF CurlHeapInv, CurlListsHeld
    <2> QED BY <2>2, <2>3
  <1>8. CurlOneOwner' /\ CurlUnmade'
    BY <1>3 DEF CurlHeapInv, CurlOneOwner, CurlUnmade
  <1> QED BY <1>5, <1>6, <1>7, <1>8 DEF CurlHeapInv

LEMMA CurlInitHeap == ASSUME Curl!CurlAssumption, Curl!Init PROVE CurlHeapInv
  <1>1. Curl!NoHandle \in Curls /\ Curl!NotTested \in CurlTests
    BY DEF Curl!NoHandle, Curl!NotTested, Curls, CurlTests
  <1>2. CurlTypeOK
    <2>1. cuheap \in CurlHeaps
      BY DEF Curl!Init, CurlHeaps, CurlObjects, Curl!HeapStates
    <2>2. CurlLuaTypes
      <3>1. lua \in [Luas -> CurlPlaces] /\ inits \in Int
        BY DEF Curl!Init, CurlPlaces
      <3>2. tested \in [Luas -> CurlTests]
        BY <1>1 DEF Curl!Init
      <3>3. raced \in BOOLEAN
        BY DEF Curl!Init
      <3> QED BY <3>1, <3>2, <3>3 DEF CurlLuaTypes
    <2>3. CurlHandleTypes
      BY <1>1 DEF Curl!Init, CurlHandleTypes
    <2> QED BY <2>1, <2>2, <2>3 DEF CurlTypeOK
  <1>3. /\ \A x \in CurlObjects : cuheap[x] = "none"
        /\ \A h \in Handles : ~handle[h].curl /\ handle[h].hdrs = None
    BY DEF Curl!Init, Curl!NoHandle, CurlObjects
  <1> QED BY <1>2, <1>3, CurlKinds DEF CurlHeapInv, CurlEasyHeld, CurlListsHeld, CurlOneOwner, CurlUnmade

LEMMA CurlCloseStep ==
    ASSUME Curl!CurlAssumption, CurlHeapInv, NEW s \in Luas, NEW h \in Handles, NEW state \in {"object", "gone"},
           Curl!close(s, h, state), CurlLuaTypes'
    PROVE  CurlHeapInv'
  <1>1. cuheap' = Curl!Cleaned({h}) /\ UNCHANGED <<fp, user, dropped>>
    BY DEF Curl!close, Curl!log
  <1>2. handle' = [g \in Handles |-> IF g \in {h} THEN Curl!Closed(g, state) ELSE handle[g]]
    BY DEF Curl!close, CurlHeapInv, CurlTypeOK, CurlHandleTypes
  <1> QED BY <1>1, <1>2, CurlCleanStep

LEMMA CurlLuaCloseStep ==
    ASSUME Curl!CurlAssumption, CurlHeapInv, NEW s \in Luas, Curl!lua_close(s), CurlLuaTypes'
    PROVE  CurlHeapInv'
  <1> DEFINE left == {h \in Handles : handle[h].of = s /\ handle[h].state = "object"}
  <1>1. /\ cuheap' = Curl!Cleaned(left) /\ UNCHANGED <<fp, user, dropped>> /\ left \in SUBSET Handles
        /\ handle' = [h \in Handles |-> IF h \in left THEN Curl!Closed(h, "gone") ELSE handle[h]]
    BY DEF Curl!lua_close, Curl!log
  <1> HIDE DEF left
  <1> QED BY <1>1, CurlCleanStep

\* The process: the log is none of the handles' business.
LEMMA CurlProcessStep ==
    ASSUME Curl!CurlAssumption, CurlHeapInv, NEW s \in Luas, CurlLuaTypes',
           Curl!luaopen(s) \/ Curl!Log(s) \/ Curl!cleanup(s) \/ Curl!userpwd(s)
    PROVE  CurlHeapInv'
  <1>0. cuheap \in CurlHeaps /\ fp \in Files \cup {None} /\ \A t \in Luas : tested[t].fp \in Files \cup {None}
    BY DEF CurlHeapInv, CurlTypeOK, CurlHandleTypes, CurlLuaTypes, CurlTests
  <1>1. UNCHANGED <<handle, dropped>> /\ user' \in Luas \cup {None}
    BY DEF Curl!luaopen, Curl!cleanup, Curl!userpwd, Curl!Log, Curl!luaclose, Curl!log_file, Curl!TestLog,
           Curl!fclose, Curl!clear, Curl!fopen, CurlHeapInv, CurlTypeOK, CurlHandleTypes
  <1>2. cuheap' \in CurlHeaps /\ fp' \in Files \cup {None} /\ \A x \in Handles \cup Lists : cuheap'[x] = cuheap[x]
    <2>1. CASE Curl!luaopen(s) \/ Curl!cleanup(s) \/ Curl!userpwd(s) \/ Curl!luaclose(s) \/ Curl!log_file(s)
      BY <1>0, <2>1 DEF Curl!luaopen, Curl!cleanup, Curl!userpwd, Curl!luaclose, Curl!log_file, Curl!TestLog,
                        Curl!log
    <2>2. CASE Curl!fclose(s)
      <3>1. PICK f \in {tested[s].fp, fp} : cuheap' = Curl!Released(cuheap, {f})
        BY <2>2 DEF Curl!fclose
      <3>2. fp' = fp /\ f \in Files \cup {None}
        BY <1>0, <2>2, <3>1 DEF Curl!fclose
      <3> QED BY <1>0, <3>1, <3>2, CurlPoints, CurlKinds
    <2>3. CASE Curl!clear(s)
      BY <1>0, <2>3 DEF Curl!clear, Curl!Cleared
    <2>4. CASE Curl!fopen(s)
      <3>1. CASE UNCHANGED cuheap /\ fp' \in {fp, None}
        BY <1>0, <3>1
      <3>2. ASSUME NEW f \in Files, fp' = f, cuheap' = Curl!Allocated(cuheap, {f})
            PROVE  <1>2!:
        BY <1>0, <3>2, CurlPoints, CurlKinds
      <3> QED BY <2>4, <3>1, <3>2 DEF Curl!fopen
    <2> QED BY <2>1, <2>2, <2>3, <2>4 DEF Curl!Log
  <1>3. CurlTypeOK'
    BY <1>1, <1>2 DEF CurlHeapInv, CurlTypeOK, CurlHandleTypes
  <1> QED BY <1>1, <1>2, <1>3, CurlSameHandles

\* A new object, with or without a handle
CurlMade(s, easy, log, u) == [state |-> "object", of |-> s, curl |-> easy, hdrs |-> None,
                              log |-> log, user |-> u, sent |-> 0, status |-> 0]
CurlIsNew(o, s) == o \in Curls /\ o.state = "object" /\ o.hdrs = None /\ o.of = s /\ o.sent = 0 /\ o.status = 0
CurlOpens(s, h, o) ==
    /\ CurlIsNew(o, s)
    /\ \A g \in Handles : handle'[g] = IF g = h THEN o ELSE handle[g]
    /\ handle' \in [Handles -> Curls]
    /\ \/ ~o.curl /\ UNCHANGED <<cuheap, raced>>
       \/ o.curl /\ o.log = fp /\ cuheap' = Curl!Allocated(cuheap, {h}) /\ Curl!Reads(s)
LEMMA CurlOpenMakes ==
    ASSUME CurlHandleTypes, NEW s \in Luas, NEW h \in Handles, Curl!open(s, h)
    PROVE  /\ cuheap[h] = "none" /\ handle[h].state = "none" /\ UNCHANGED <<inits, lua, fp, tested, user, cut, dropped>>
           /\ \E o : CurlOpens(s, h, o)
  <1>1. cuheap[h] = "none" /\ handle[h].state = "none" /\ UNCHANGED <<inits, lua, fp, tested, user, cut, dropped>>
    BY DEF Curl!open
  <1>2. \/ handle' = [handle EXCEPT ![h] = CurlMade(s, FALSE, None, None)] /\ UNCHANGED <<cuheap, raced>>
        \/ /\ handle' = [handle EXCEPT ![h] = CurlMade(s, TRUE, fp, user)] /\ cuheap' = Curl!Allocated(cuheap, {h})
           /\ Curl!Reads(s)
    BY DEF Curl!open, Curl!NoHandle, CurlMade
  <1>3. ASSUME NEW easy \in BOOLEAN, NEW log \in Files \cup {None}, NEW u \in Luas \cup {None}
        PROVE  /\ CurlIsNew(CurlMade(s, easy, log, u), s)
               /\ CurlMade(s, easy, log, u).curl = easy /\ CurlMade(s, easy, log, u).log = log
    BY DEF CurlMade, CurlIsNew, Curls
  <1>4. ASSUME NEW o \in Curls, handle' = [handle EXCEPT ![h] = o]
        PROVE  handle' \in [Handles -> Curls] /\ \A g \in Handles : handle'[g] = IF g = h THEN o ELSE handle[g]
    BY <1>4 DEF CurlHandleTypes
  <1>5. ASSUME handle' = [handle EXCEPT ![h] = CurlMade(s, FALSE, None, None)], UNCHANGED <<cuheap, raced>>
        PROVE  \E o : CurlOpens(s, h, o)
    <2>1. PICK o : o = CurlMade(s, FALSE, None, None)
      OBVIOUS
    <2>2. CurlIsNew(o, s) /\ ~o.curl
      BY <1>3, <2>1
    <2>3. handle' \in [Handles -> Curls] /\ \A g \in Handles : handle'[g] = IF g = h THEN o ELSE handle[g]
      BY <1>4, <1>5, <2>1, <2>2 DEF CurlIsNew
    <2> QED BY <1>5, <2>2, <2>3 DEF CurlOpens
  <1>6. ASSUME handle' = [handle EXCEPT ![h] = CurlMade(s, TRUE, fp, user)],
               cuheap' = Curl!Allocated(cuheap, {h}), Curl!Reads(s)
        PROVE  \E o : CurlOpens(s, h, o)
    <2>1. PICK o : o = CurlMade(s, TRUE, fp, user)
      OBVIOUS
    <2>2. CurlIsNew(o, s) /\ o.curl /\ o.log = fp
      BY <1>3, <2>1 DEF CurlHandleTypes
    <2>3. handle' \in [Handles -> Curls] /\ \A g \in Handles : handle'[g] = IF g = h THEN o ELSE handle[g]
      BY <1>4, <1>6, <2>1, <2>2 DEF CurlIsNew
    <2> QED BY <1>6, <2>2, <2>3 DEF CurlOpens
  <1> QED BY <1>1, <1>2, <1>5, <1>6

LEMMA CurlOpenStep ==
    ASSUME Curl!CurlAssumption, CurlHeapInv, NEW s \in Luas, NEW h \in Handles, Curl!open(s, h), CurlLuaTypes'
    PROVE  CurlHeapInv'
  <1>0. CurlHandleTypes
    BY DEF CurlHeapInv, CurlTypeOK
  <1>1. cuheap[h] = "none" /\ handle[h].state = "none" /\ UNCHANGED <<fp, user, dropped>>
    BY <1>0, CurlOpenMakes
  <1>p. PICK o : CurlOpens(s, h, o)
    BY <1>0, CurlOpenMakes
  <1>2. /\ o \in Curls /\ o.state = "object" /\ o.hdrs = None /\ handle' \in [Handles -> Curls]
        /\ \A g \in Handles : handle'[g] = IF g = h THEN o ELSE handle[g]
        /\ (~o.curl /\ UNCHANGED cuheap) \/ (o.curl /\ cuheap' = Curl!Allocated(cuheap, {h}))
    BY <1>p DEF CurlOpens, CurlIsNew
  <1>3. ~handle[h].curl /\ handle[h].hdrs = None
    BY <1>1 DEF CurlHeapInv, CurlUnmade
  <1>4. cuheap' \in CurlHeaps /\ \A x \in CurlObjects : cuheap'[x] = IF x = h /\ o.curl THEN "live" ELSE cuheap[x]
    BY <1>2, CurlPoints, CurlKinds DEF CurlHeapInv, CurlTypeOK
  <1>5. CurlTypeOK'
    BY <1>1, <1>2, <1>4 DEF CurlHeapInv, CurlTypeOK, CurlHandleTypes
  <1>6. CurlEasyHeld'
    BY <1>1, <1>2, <1>4, CurlKinds DEF CurlHeapInv, CurlEasyHeld
  <1>7. CurlListsHeld'
    <2>1. \A l \in Lists : cuheap'[l] = cuheap[l] /\ l # None
      BY <1>4, CurlKinds
    <2>2. \A g \in Handles : handle'[g].hdrs = handle[g].hdrs
      BY <1>2, <1>3
    <2> QED BY <1>1, <2>1, <2>2 DEF CurlHeapInv, CurlListsHeld
  <1>8. CurlOneOwner' /\ CurlUnmade'
    BY <1>2, <1>3 DEF CurlHeapInv, CurlOneOwner, CurlUnmade
  <1> QED BY <1>5, <1>6, <1>7, <1>8 DEF CurlHeapInv

\* Only the list of a handle changes.
LEMMA CurlHeaderHandles ==
    ASSUME CurlHandleTypes, NEW h \in Handles, NEW l \in Lists \cup {None}, handle' = [handle EXCEPT ![h].hdrs = l]
    PROVE  /\ handle' \in [Handles -> Curls]
           /\ \A g \in Handles : /\ handle'[g].curl = handle[g].curl /\ handle'[g].log = handle[g].log
                                 /\ handle'[g].state = handle[g].state /\ handle'[g].of = handle[g].of
                                 /\ handle'[g].sent = handle[g].sent /\ handle'[g].status = handle[g].status
                                 /\ handle'[g].hdrs = IF g = h THEN l ELSE handle[g].hdrs
  BY DEF CurlHandleTypes, Curls

LEMMA CurlHeaderStep ==
    ASSUME Curl!CurlAssumption, CurlHeapInv, NEW s \in Luas, NEW h \in Handles, Curl!set_request_header(s, h),
           CurlLuaTypes'
    PROVE  CurlHeapInv'
  <1>0. CurlHandleTypes /\ cuheap \in CurlHeaps
    BY DEF CurlHeapInv, CurlTypeOK
  <1>1. UNCHANGED <<fp, user>> /\ handle[h].state = "object" /\ handle[h].hdrs \in Lists \cup {None}
    BY <1>0, CurlHandleFacts DEF Curl!set_request_header, Curl!Mine, Curl!log
  <1>2. ASSUME handle[h].hdrs = None, NEW l \in Lists, cuheap[l] = "none", cuheap' = Curl!Allocated(cuheap, {l}),
               handle' = [handle EXCEPT ![h].hdrs = l], UNCHANGED dropped
        PROVE  CurlHeapInv'
    <2>1. /\ handle' \in [Handles -> Curls]
          /\ \A g \in Handles : /\ handle'[g].curl = handle[g].curl /\ handle'[g].state = handle[g].state
                                /\ handle'[g].hdrs = IF g = h THEN l ELSE handle[g].hdrs
      <3>1. l \in Lists \cup {None} /\ handle' = [handle EXCEPT ![h].hdrs = l]
        BY <1>2
      <3> HIDE <1>2
      <3> QED BY <1>0, <3>1, CurlHeaderHandles
    <2>2. cuheap' \in CurlHeaps /\ \A x \in CurlObjects : cuheap'[x] = IF x = l THEN "live" ELSE cuheap[x]
      BY <1>0, <1>2, CurlPoints
    <2>3. \A g \in Handles : g # l /\ handle[g].hdrs # l
      BY <1>2, CurlKinds DEF CurlHeapInv, CurlListsHeld
    <2>4. CurlTypeOK'
      BY <1>1, <2>1, <2>2 DEF CurlHeapInv, CurlTypeOK, CurlHandleTypes
    <2>5. CurlEasyHeld'
      BY <2>1, <2>2, <2>3, CurlKinds DEF CurlHeapInv, CurlEasyHeld
    <2>6. CurlListsHeld'
      <3> SUFFICES ASSUME NEW k \in Lists
                   PROVE  /\ cuheap'[k] # "abused"
                          /\ (\E g \in Handles : handle'[g].hdrs = k) => cuheap'[k] = "live"
                          /\ cuheap'[k] = "live" => k \in dropped \/ \E g \in Handles : handle'[g].hdrs = k
        BY <1>2 DEF CurlListsHeld
      <3>1. CASE k = l
        BY <2>1, <2>2, <3>1, CurlKinds
      <3>2. CASE k # l
        <4>1. k # None /\ cuheap'[k] = cuheap[k]
          BY <2>2, <3>2, CurlKinds
        <4>2. \A g \in Handles : handle'[g].hdrs = k <=> handle[g].hdrs = k
          BY <1>2, <2>1, <3>2, <4>1
        <4> QED BY <4>1, <4>2 DEF CurlHeapInv, CurlListsHeld
      <3> QED BY <3>1, <3>2
    <2>7. CurlOneOwner'
      BY <1>2, <2>1, <2>3 DEF CurlHeapInv, CurlOneOwner
    <2>8. CurlUnmade'
      BY <1>1, <2>1 DEF CurlHeapInv, CurlUnmade
    <2> QED BY <2>4, <2>5, <2>6, <2>7, <2>8 DEF CurlHeapInv
  <1>3. CASE cuheap' = Curl!Used(cuheap, Curl!List(h)) /\ UNCHANGED <<handle, dropped>>
    <2>1. cuheap' \in CurlHeaps /\ \A x \in Handles \cup Lists : cuheap'[x] = cuheap[x]
      BY <1>3, CurlUsedPoints
    <2>2. CurlTypeOK'
      BY <1>1, <1>3, <2>1 DEF CurlHeapInv, CurlTypeOK, CurlHandleTypes
    <2> QED BY <1>3, <2>1, <2>2, CurlSameHandles
  <1>4. CASE UNCHANGED cuheap /\ handle' = [handle EXCEPT ![h].hdrs = None] /\ dropped' = dropped \cup Curl!List(h)
    <2>1. /\ handle' \in [Handles -> Curls]
          /\ \A g \in Handles : /\ handle'[g].curl = handle[g].curl /\ handle'[g].state = handle[g].state
                                /\ handle'[g].hdrs = IF g = h THEN None ELSE handle[g].hdrs
      BY <1>0, <1>4, CurlHeaderHandles
    <2>2. CurlTypeOK'
      BY <1>0, <1>1, <1>4, <2>1 DEF CurlTypeOK, CurlHandleTypes
    <2>3. CurlEasyHeld' /\ CurlOneOwner' /\ CurlUnmade'
      BY <1>1, <1>4, <2>1 DEF CurlHeapInv, CurlEasyHeld, CurlOneOwner, CurlUnmade
    <2>4. CurlListsHeld'
      <3> SUFFICES ASSUME NEW k \in Lists
                   PROVE  /\ cuheap[k] # "abused"
                          /\ (\E g \in Handles : handle'[g].hdrs = k) => cuheap[k] = "live"
                          /\ cuheap[k] = "live" => k \in dropped' \/ \E g \in Handles : handle'[g].hdrs = k
        BY <1>4 DEF CurlListsHeld
      <3>1. k # None /\ (k \in dropped' <=> k \in dropped \/ k = handle[h].hdrs)
        BY <1>4, CurlKinds DEF Curl!List
      <3>2. \A g \in Handles : handle'[g].hdrs = k <=> g # h /\ handle[g].hdrs = k
        BY <2>1, <3>1
      <3> QED BY <3>1, <3>2 DEF CurlHeapInv, CurlListsHeld
    <2> QED BY <2>2, <2>3, <2>4 DEF CurlHeapInv
  <1> QED BY <1>2, <1>3, <1>4 DEF Curl!set_request_header

\* A send counts, and changes what is known of the status.
LEMMA CurlSendHandles ==
    ASSUME CurlHandleTypes, NEW s \in Luas, NEW h \in Handles, Curl!send(s, h)
    PROVE  /\ UNCHANGED <<fp, user, dropped>> /\ handle' \in [Handles -> Curls]
           /\ handle'[h].sent = handle[h].sent + 1 /\ handle'[h].status \in {0, handle[h].sent + 1}
           /\ handle'[h].curl = handle[h].curl /\ handle'[h].hdrs = handle[h].hdrs
           /\ handle'[h].log = handle[h].log /\ handle'[h].state = handle[h].state /\ handle'[h].of = handle[h].of
           /\ \A g \in Handles : g # h => handle'[g] = handle[g]
  <1>1. UNCHANGED <<fp, user, dropped>>
    BY DEF Curl!send, Curl!log
  <1>2. PICK n \in {0, handle[h].sent + 1} :
           handle' = [handle EXCEPT ![h].sent = handle[h].sent + 1, ![h].status = n]
    BY DEF Curl!send, Curl!Reset, CurlHandleTypes
  <1>3. handle[h] \in Curls /\ handle[h].sent + 1 \in Nat /\ n \in Nat
    BY <1>2 DEF CurlHandleTypes, Curls
  <1> DEFINE o == [handle[h] EXCEPT !.sent = handle[h].sent + 1, !.status = n]
  <1>4. handle' = [handle EXCEPT ![h] = o]
    BY <1>2 DEF CurlHandleTypes
  <1>5. /\ o \in Curls /\ o.sent = handle[h].sent + 1 /\ o.status = n
        /\ o.curl = handle[h].curl /\ o.hdrs = handle[h].hdrs /\ o.log = handle[h].log /\ o.state = handle[h].state
        /\ o.of = handle[h].of
    BY <1>3 DEF Curls
  <1> HIDE DEF o
  <1>6. /\ handle' \in [Handles -> Curls] /\ handle'[h] = o
        /\ \A g \in Handles : g # h => handle'[g] = handle[g]
    BY <1>4, <1>5 DEF CurlHandleTypes
  <1> QED BY <1>1, <1>2, <1>5, <1>6

LEMMA CurlSendStep ==
    ASSUME Curl!CurlAssumption, CurlHeapInv, NEW s \in Luas, NEW h \in Handles, Curl!send(s, h), CurlLuaTypes'
    PROVE  CurlHeapInv'
  <1>1. cuheap' \in CurlHeaps /\ \A x \in Handles \cup Lists : cuheap'[x] = cuheap[x]
    <2>1. CASE cuheap' = Curl!Used(cuheap, Curl!Easy(h) \cup Curl!List(h))
      BY <2>1, CurlUsedPoints
    <2> QED BY <2>1 DEF Curl!send, CurlHeapInv, CurlTypeOK
  <1>2. /\ UNCHANGED <<fp, user, dropped>> /\ handle' \in [Handles -> Curls]
        /\ \A g \in Handles : /\ handle'[g].curl = handle[g].curl /\ handle'[g].hdrs = handle[g].hdrs
                              /\ handle'[g].state = handle[g].state
    BY CurlSendHandles DEF CurlHeapInv, CurlTypeOK
  <1>3. CurlTypeOK'
    BY <1>1, <1>2 DEF CurlHeapInv, CurlTypeOK, CurlHandleTypes
  <1> QED BY <1>1, <1>2, <1>3, CurlSameHandles

LEMMA CurlEscapeStep ==
    ASSUME Curl!CurlAssumption, CurlHeapInv, NEW s \in Luas, NEW h \in Handles, Curl!escape(s, h), CurlLuaTypes'
    PROVE  CurlHeapInv'
  <1>1. UNCHANGED <<fp, user, handle, dropped>>
    BY DEF Curl!escape, Curl!log
  <1> DEFINE S == IF handle[h].curl THEN {h} ELSE {}
  <1>2. S \subseteq Curl!Easy(h) \cup Curl!List(h) /\ cuheap' = Curl!Used(cuheap, S)
    BY CurlEasyUses DEF Curl!escape
  <1> HIDE DEF S
  <1>3. cuheap' \in CurlHeaps /\ \A x \in Handles \cup Lists : cuheap'[x] = cuheap[x]
    BY <1>2, CurlUsedPoints
  <1>4. CurlTypeOK'
    BY <1>1, <1>3 DEF CurlHeapInv, CurlTypeOK, CurlHandleTypes
  <1> QED BY <1>1, <1>3, <1>4, CurlSameHandles

LEMMA CurlHeapStep ==
    ASSUME Curl!CurlAssumption, CurlHeapInv, [Curl!Next]_(Curl!vars)
    PROVE  CurlHeapInv'
  <1>0. CurlLuaTypes'
    BY CurlLuaTypesStep DEF CurlHeapInv
  <1>1. ASSUME NEW s \in Luas,
               Curl!luaopen(s) \/ Curl!Log(s) \/ Curl!cleanup(s) \/ Curl!userpwd(s) \/ Curl!lua_close(s)
        PROVE  CurlHeapInv'
    BY <1>0, <1>1, CurlProcessStep, CurlLuaCloseStep
  <1>2. ASSUME NEW s \in Luas, NEW h \in Handles, Curl!Script(s, h) PROVE CurlHeapInv'
    BY <1>0, <1>2, CurlOpenStep, CurlCloseStep, CurlHeaderStep, CurlEscapeStep, CurlSendStep DEF Curl!Script
  <1>3. CASE UNCHANGED Curl!vars
    BY <1>0, <1>3, CurlSameHandles DEF Curl!vars, Curl!log, CurlHeapInv, CurlTypeOK, CurlHandleTypes
  <1> QED BY <1>1, <1>2, <1>3 DEF Curl!Next
--------------------------------------------------------------------------------
(***************************************************************************)
(* The log, as long as no thread reads fp while another replaces it.       *)
(***************************************************************************)
CurlReplacing == {"fclose", "clear", "fopen"}
CurlOneReplaces == \A s, t \in Luas : lua[s] \in CurlReplacing /\ lua[t] \in CurlReplacing => s = t
CurlInClose == \A s \in Luas :
                 /\ lua[s] = "fclose" => tested[s].fp = fp /\ fp \in Files /\ cuheap[fp] = "live"
                 /\ lua[s] = "clear"  => fp \in Files /\ cuheap[fp] # "live"
                 /\ lua[s] = "fopen"  => fp = None
CurlLogOpen == fp \in Files => cuheap[fp] = "live" \/ \E s \in Luas : lua[s] = "clear"
CurlWritten == \A h \in Handles : handle[h].curl /\ handle[h].log \in Files =>
                                     cuheap[handle[h].log] = "live" \/ handle[h].log \in cut
CurlFilesHeld == /\ cuheap[None] # "abused"
                 /\ \A f \in Files : (cuheap[f] = "abused" => f \in cut) /\ (cuheap[f] = "live" => fp = f)
CurlLogGood == CurlOneReplaces /\ CurlInClose /\ CurlLogOpen /\ CurlWritten /\ CurlFilesHeld
CurlLogInv == raced \/ CurlLogGood

\* What leaves the log as it is, but for what handles do to files that were closed
LEMMA CurlLogSame ==
    ASSUME Curl!CurlAssumption, CurlTypeOK, CurlLogGood, UNCHANGED <<fp, tested, cut>>, cuheap'[None] = cuheap[None],
           \A f \in Files : cuheap'[f] = cuheap[f] \/ (cuheap[f] # "live" /\ cuheap'[f] = "abused" /\ f \in cut),
           \A h \in Handles : handle'[h].curl => handle[h].curl /\ handle'[h].log = handle[h].log,
           \A s \in Luas : lua'[s] = lua[s] \/ (lua[s] \notin CurlReplacing /\ lua'[s] \notin CurlReplacing)
    PROVE  CurlLogGood'
  <1>1. CurlOneReplaces'
    BY DEF CurlLogGood, CurlOneReplaces
  <1>2. CurlInClose'
    <2> SUFFICES ASSUME NEW s \in Luas, lua'[s] \in CurlReplacing
                 PROVE  /\ lua'[s] = "fclose" => tested[s].fp = fp /\ fp \in Files /\ cuheap'[fp] = "live"
                        /\ lua'[s] = "clear"  => fp \in Files /\ cuheap'[fp] # "live"
                        /\ lua'[s] = "fopen"  => fp = None
      BY DEF CurlInClose, CurlReplacing
    <2>1. lua'[s] = lua[s]
      OBVIOUS
    <2> QED BY <2>1 DEF CurlLogGood, CurlInClose
  <1>3. CurlLogOpen'
    <2> SUFFICES ASSUME fp \in Files PROVE cuheap'[fp] = "live" \/ \E s \in Luas : lua'[s] = "clear"
      BY DEF CurlLogOpen
    <2>1. CASE cuheap[fp] = "live"
      BY <2>1
    <2>2. ASSUME NEW s \in Luas, lua[s] = "clear" PROVE lua'[s] = "clear"
      BY <2>2 DEF CurlReplacing
    <2> QED BY <2>1, <2>2 DEF CurlLogGood, CurlLogOpen
  <1>4. CurlWritten'
    BY DEF CurlLogGood, CurlWritten
  <1>5. CurlFilesHeld'
    BY DEF CurlLogGood, CurlFilesHeld
  <1> QED BY <1>1, <1>2, <1>3, <1>4, <1>5 DEF CurlLogGood

\* One that reads fp while nobody replaces it finds it open, or None.
LEMMA CurlReadsGood ==
    ASSUME Curl!CurlAssumption, CurlTypeOK, CurlLogGood, NEW s \in Luas, lua[s] = "script", Curl!Reads(s), ~raced'
    PROVE  /\ \A t \in Luas : lua[t] \notin CurlReplacing
           /\ fp = None \/ (fp \in Files /\ cuheap[fp] = "live")
  <1>1. Curl!Replacing \ {s} = {}
    BY DEF Curl!Reads
  <1>2. \A t \in Luas : lua[t] \notin CurlReplacing
    BY <1>1 DEF Curl!Replacing, CurlReplacing
  <1> QED BY <1>2 DEF CurlLogGood, CurlLogOpen, CurlReplacing, CurlTypeOK, CurlHandleTypes

LEMMA CurlTestLogged ==
    ASSUME Curl!CurlAssumption, CurlTypeOK, CurlLogGood, NEW s \in Luas, NEW next \in {"fopen", "cleanup"},
           Curl!TestLog(s, next), ~raced'
    PROVE  CurlLogGood'
  <1>1. lua[s] = "script" /\ Curl!Reads(s) /\ UNCHANGED <<cuheap, fp, cut, handle>>
    BY DEF Curl!TestLog, Curl!At
  <1>2. /\ \A t \in Luas : lua[t] \notin CurlReplacing
        /\ fp = None \/ (fp \in Files /\ cuheap[fp] = "live")
    BY <1>1, CurlReadsGood
  <1>3. \A t \in Luas : t # s => lua'[t] = lua[t]
    BY DEF Curl!TestLog, Curl!Go, CurlTypeOK, CurlLuaTypes
  <1>4. \/ fp = None /\ lua'[s] = next
        \/ fp # None /\ lua'[s] = "fclose" /\ tested'[s].fp = fp
    BY DEF Curl!TestLog, Curl!Go, CurlTypeOK, CurlLuaTypes
  <1>5. CurlOneReplaces'
    BY <1>2, <1>3 DEF CurlOneReplaces
  <1>6. CurlInClose'
    BY <1>1, <1>2, <1>3, <1>4 DEF CurlInClose, CurlReplacing
  <1>7. CurlLogOpen' /\ CurlWritten' /\ CurlFilesHeld'
    BY <1>1, <1>2, CurlKinds DEF CurlLogGood, CurlLogOpen, CurlWritten, CurlFilesHeld
  <1> QED BY <1>5, <1>6, <1>7 DEF CurlLogGood

LEMMA CurlFclosed ==
    ASSUME Curl!CurlAssumption, CurlTypeOK, CurlLogGood, NEW s \in Luas, Curl!fclose(s)
    PROVE  CurlLogGood'
  <1>1. lua[s] = "fclose" /\ UNCHANGED <<fp, tested, handle>> /\ lua' = [lua EXCEPT ![s] = "clear"]
    BY DEF Curl!fclose, Curl!At, Curl!Go
  <1>2. tested[s].fp = fp /\ fp \in Files /\ cuheap[fp] = "live"
    BY <1>1 DEF CurlLogGood, CurlInClose
  <1>3. /\ cuheap' = Curl!Released(cuheap, {fp})
        /\ cut' = IF Curl!Writers(fp) # {} THEN cut \cup {fp} ELSE cut
    BY <1>2 DEF Curl!fclose
  <1>4. /\ \A f \in Files : cuheap'[f] = IF f = fp THEN "freed" ELSE cuheap[f]
        /\ cuheap'[None] = cuheap[None]
    BY <1>2, <1>3, CurlPoints, CurlKinds DEF CurlTypeOK
  <1>5. lua'[s] = "clear" /\ \A t \in Luas : t # s => lua'[t] = lua[t] /\ lua[t] \notin CurlReplacing
    BY <1>1 DEF CurlTypeOK, CurlLuaTypes, CurlLogGood, CurlOneReplaces, CurlReplacing
  <1>6. CurlOneReplaces' /\ CurlInClose' /\ CurlLogOpen'
    BY <1>1, <1>2, <1>4, <1>5 DEF CurlOneReplaces, CurlInClose, CurlLogOpen, CurlReplacing
  <1>7. CurlWritten'
    <2> SUFFICES ASSUME NEW h \in Handles, handle[h].curl, handle[h].log \in Files
                 PROVE  cuheap'[handle[h].log] = "live" \/ handle[h].log \in cut'
      BY <1>1 DEF CurlWritten
    <2>1. CASE handle[h].log = fp
      <3>1. h \in Curl!Writers(fp)
        BY <2>1 DEF Curl!Writers
      <3> QED BY <1>3, <2>1, <3>1
    <2>2. CASE handle[h].log # fp
      BY <1>3, <1>4, <2>2 DEF CurlLogGood, CurlWritten
    <2> QED BY <2>1, <2>2
  <1>8. CurlFilesHeld'
    BY <1>1, <1>3, <1>4 DEF CurlLogGood, CurlFilesHeld
  <1> QED BY <1>6, <1>7, <1>8 DEF CurlLogGood

LEMMA CurlClearedLog ==
    ASSUME Curl!CurlAssumption, CurlTypeOK, CurlLogGood, NEW s \in Luas, Curl!clear(s)
    PROVE  CurlLogGood'
  <1>1. /\ lua[s] = "clear" /\ UNCHANGED <<cuheap, cut, handle>> /\ fp' = None
        /\ lua' = [lua EXCEPT ![s] = tested[s].next]
    BY DEF Curl!clear, Curl!Cleared, Curl!At, Curl!Go
  <1>2. tested[s].next \in {"script", "fopen", "cleanup"}
    BY DEF CurlTypeOK, CurlLuaTypes, CurlTests
  <1>3. lua'[s] \notin {"fclose", "clear"} /\ \A t \in Luas : t # s => lua'[t] = lua[t] /\ lua[t] \notin CurlReplacing
    BY <1>1, <1>2 DEF CurlTypeOK, CurlLuaTypes, CurlLogGood, CurlOneReplaces, CurlReplacing
  <1>4. fp \in Files /\ cuheap[fp] # "live" /\ None \notin Files
    BY <1>1, CurlKinds DEF CurlLogGood, CurlInClose
  <1>5. CurlOneReplaces' /\ CurlInClose' /\ CurlLogOpen'
    BY <1>1, <1>3, <1>4 DEF CurlOneReplaces, CurlInClose, CurlLogOpen, CurlReplacing
  <1>6. CurlWritten' /\ CurlFilesHeld'
    BY <1>1, <1>4 DEF CurlLogGood, CurlWritten, CurlFilesHeld
  <1> QED BY <1>5, <1>6 DEF CurlLogGood

LEMMA CurlFopened ==
    ASSUME Curl!CurlAssumption, CurlTypeOK, CurlLogGood, NEW s \in Luas, Curl!fopen(s)
    PROVE  CurlLogGood'
  <1>1. lua[s] = "fopen" /\ UNCHANGED <<tested, cut, handle>> /\ lua' = [lua EXCEPT ![s] = "script"]
    BY DEF Curl!fopen, Curl!At, Curl!Go
  <1>2. fp = None /\ None \notin Files
    BY <1>1, CurlKinds DEF CurlLogGood, CurlInClose
  <1>3. lua'[s] = "script" /\ \A t \in Luas : t # s => lua'[t] = lua[t] /\ lua[t] \notin CurlReplacing
    BY <1>1 DEF CurlTypeOK, CurlLuaTypes, CurlLogGood, CurlOneReplaces, CurlReplacing
  <1>4. CurlOneReplaces' /\ CurlInClose'
    BY <1>3 DEF CurlOneReplaces, CurlInClose, CurlReplacing
  <1>5. CASE fp' = None /\ UNCHANGED cuheap
    BY <1>1, <1>2, <1>4, <1>5 DEF CurlLogGood, CurlLogOpen, CurlWritten, CurlFilesHeld
  <1>6. ASSUME NEW f \in Files, cuheap[f] = "none", fp' = f, cuheap' = Curl!Allocated(cuheap, {f})
        PROVE  CurlLogGood'
    <2>1. /\ \A g \in Files : cuheap'[g] = IF g = f THEN "live" ELSE cuheap[g]
          /\ cuheap'[None] = cuheap[None]
      BY <1>2, <1>6, CurlPoints, CurlKinds DEF CurlTypeOK
    <2>2. CurlLogOpen' /\ CurlFilesHeld' /\ CurlWritten'
      BY <1>1, <1>2, <1>6, <2>1 DEF CurlLogGood, CurlLogOpen, CurlFilesHeld, CurlWritten
    <2> QED BY <1>4, <2>2 DEF CurlLogGood
  <1> QED BY <1>2, <1>5, <1>6 DEF Curl!fopen

LEMMA CurlOpenedLog ==
    ASSUME Curl!CurlAssumption, CurlTypeOK, CurlLogGood, NEW s \in Luas, NEW h \in Handles, Curl!open(s, h), ~raced'
    PROVE  CurlLogGood'
  <1>1. UNCHANGED <<lua, fp, tested, cut>> /\ lua[s] = "script"
    BY DEF Curl!open, Curl!At
  <1>2. PICK o : CurlOpens(s, h, o)
    BY CurlOpenMakes DEF CurlTypeOK
  <1>3. /\ \A g \in Handles : handle'[g] = IF g = h THEN o ELSE handle[g]
        /\ (~o.curl /\ UNCHANGED cuheap) \/ (o.curl /\ o.log = fp /\ cuheap' = Curl!Allocated(cuheap, {h}) /\ Curl!Reads(s))
    BY <1>2 DEF CurlOpens
  <1>4. cuheap'[None] = cuheap[None] /\ \A f \in Files : cuheap'[f] = cuheap[f]
    BY <1>3, CurlPoints, CurlKinds DEF CurlTypeOK
  <1>5. CurlOneReplaces' /\ CurlInClose' /\ CurlLogOpen' /\ CurlFilesHeld'
    BY <1>1, <1>4 DEF CurlLogGood, CurlOneReplaces, CurlInClose, CurlLogOpen, CurlFilesHeld
  <1>6. CurlWritten'
    <2> SUFFICES ASSUME NEW g \in Handles, handle'[g].curl, handle'[g].log \in Files
                 PROVE  cuheap'[handle'[g].log] = "live" \/ handle'[g].log \in cut
      BY <1>1 DEF CurlWritten
    <2>1. CASE g = h
      <3>1. handle'[g].log = fp /\ Curl!Reads(s)
        BY <1>3, <2>1
      <3>2. fp = None \/ cuheap[fp] = "live"
        BY <1>1, <3>1, CurlReadsGood
      <3> QED BY <1>4, <3>1, <3>2, CurlKinds
    <2>2. CASE g # h
      BY <1>3, <1>4, <2>2 DEF CurlLogGood, CurlWritten
    <2> QED BY <2>1, <2>2
  <1> QED BY <1>5, <1>6 DEF CurlLogGood

\* What closes handles leaves the log as it is, but for files that were closed.
CurlLogKept == /\ UNCHANGED <<fp, tested, cut>>
               /\ \A t \in Luas : \/ lua'[t] = lua[t]
                                  \/ lua[t] \notin CurlReplacing /\ lua'[t] \notin CurlReplacing
LEMMA CurlCleanedLog ==
    ASSUME Curl!CurlAssumption, CurlHeapInv, CurlLogGood, CurlLogKept, NEW hs \in SUBSET Handles,
           NEW state \in {"object", "gone"}, cuheap' = Curl!Cleaned(hs),
           handle' = [g \in Handles |-> IF g \in hs THEN Curl!Closed(g, state) ELSE handle[g]]
    PROVE  CurlLogGood'
  <1>0. CurlTypeOK /\ CurlHandleTypes
    BY DEF CurlHeapInv, CurlTypeOK
  <1>1. /\ cuheap'[None] = cuheap[None]
        /\ \A f \in Files : cuheap'[f] = cuheap[f] \/ (cuheap[f] # "live" /\ cuheap'[f] = "abused" /\ f \in cut)
    BY CurlCleanedPoints DEF CurlLogGood, CurlWritten
  <1>2. \A g \in hs : ~Curl!Closed(g, state).curl
    BY <1>0, CurlClosedType
  <1>3. \A g \in Handles : handle'[g].curl => handle[g].curl /\ handle'[g].log = handle[g].log
    BY <1>2
  <1> QED BY <1>0, <1>1, <1>3, CurlLogSame DEF CurlLogKept

LEMMA CurlLuaClosedLog ==
    ASSUME Curl!CurlAssumption, CurlHeapInv, CurlLogGood, NEW s \in Luas, Curl!lua_close(s)
    PROVE  CurlLogGood'
  <1> DEFINE left == {g \in Handles : handle[g].of = s /\ handle[g].state = "object"}
  <1>1. /\ cuheap' = Curl!Cleaned(left) /\ left \in SUBSET Handles
        /\ handle' = [g \in Handles |-> IF g \in left THEN Curl!Closed(g, "gone") ELSE handle[g]]
    BY DEF Curl!lua_close
  <1> HIDE DEF left
  <1>2. CurlLogKept
    BY DEF Curl!lua_close, Curl!At, Curl!Go, Curl!log, CurlReplacing, CurlLogKept, CurlHeapInv, CurlTypeOK, CurlLuaTypes
  <1> QED BY <1>1, <1>2, CurlCleanedLog

\* What scripts do with handles that are there
LEMMA CurlHandledLog ==
    ASSUME Curl!CurlAssumption, CurlHeapInv, CurlLogGood, NEW s \in Luas, NEW h \in Handles,
           \/ \E state \in {"object", "gone"} : Curl!close(s, h, state)
           \/ Curl!set_request_header(s, h) \/ Curl!escape(s, h) \/ Curl!send(s, h)
    PROVE  CurlLogGood'
  <1>0. CurlTypeOK /\ CurlHandleTypes
    BY DEF CurlHeapInv, CurlTypeOK
  <1>1. CurlLogKept
    BY <1>0 DEF Curl!close, Curl!set_request_header, Curl!escape, Curl!send, Curl!log, CurlLogKept
  <1>c. ASSUME NEW f \in Files, cuheap[f] # "live", \E g \in Handles : handle[g].curl /\ handle[g].log = f
        PROVE  f \in cut
    BY <1>c DEF CurlLogGood, CurlWritten
  <1>3. ASSUME NEW S, S \subseteq Curl!Easy(h) \cup Curl!List(h), cuheap' = Curl!Used(cuheap, S),
               \A g \in Handles : handle'[g].curl = handle[g].curl /\ handle'[g].log = handle[g].log
        PROVE  CurlLogGood'
    <2>1. /\ cuheap'[None] = cuheap[None]
          /\ \A f \in Files : cuheap'[f] = cuheap[f] \/ (cuheap[f] # "live" /\ cuheap'[f] = "abused" /\ f \in cut)
      BY <1>3, <1>c, CurlUsedPoints
    <2> QED BY <1>0, <1>1, <1>3, <2>1, CurlLogSame DEF CurlLogKept
  <1>4. ASSUME NEW state \in {"object", "gone"}, Curl!close(s, h, state) PROVE CurlLogGood'
    <2>1. /\ cuheap' = Curl!Cleaned({h})
          /\ handle' = [g \in Handles |-> IF g \in {h} THEN Curl!Closed(g, state) ELSE handle[g]]
      BY <1>0, <1>4 DEF Curl!close, CurlHandleTypes
    <2> QED BY <1>1, <2>1, CurlCleanedLog
  <1>6. CASE Curl!set_request_header(s, h)
    <2>1. ASSUME NEW l \in Lists \cup {None}, handle' = [handle EXCEPT ![h].hdrs = l]
          PROVE  \A g \in Handles : handle'[g].curl = handle[g].curl /\ handle'[g].log = handle[g].log
      BY <1>0, <2>1, CurlHeaderHandles
    <2>2. ASSUME NEW l \in Lists, cuheap' = Curl!Allocated(cuheap, {l}), handle' = [handle EXCEPT ![h].hdrs = l]
          PROVE  CurlLogGood'
      <3>1. cuheap'[None] = cuheap[None] /\ \A f \in Files : cuheap'[f] = cuheap[f]
        BY <1>0, <2>2, CurlPoints, CurlKinds DEF CurlTypeOK
      <3>2. \A g \in Handles : handle'[g].curl = handle[g].curl /\ handle'[g].log = handle[g].log
        BY <2>1, <2>2
      <3> QED BY <1>0, <1>1, <3>1, <3>2, CurlLogSame DEF CurlLogKept
    <2>3. CASE cuheap' = Curl!Used(cuheap, Curl!List(h)) /\ UNCHANGED handle
      BY <1>3, <2>3
    <2>4. CASE UNCHANGED cuheap /\ handle' = [handle EXCEPT ![h].hdrs = None]
      <3>1. \A g \in Handles : handle'[g].curl = handle[g].curl /\ handle'[g].log = handle[g].log
        BY <2>1, <2>4
      <3> QED BY <1>0, <1>1, <2>4, <3>1, CurlLogSame DEF CurlLogKept
    <2> QED BY <1>6, <2>2, <2>3, <2>4 DEF Curl!set_request_header
  <1>7. CASE Curl!escape(s, h)
    <2>1. UNCHANGED handle /\ cuheap' = Curl!Used(cuheap, IF handle[h].curl THEN {h} ELSE {})
      BY <1>7 DEF Curl!escape
    <2>2. (IF handle[h].curl THEN {h} ELSE {}) \subseteq Curl!Easy(h) \cup Curl!List(h)
      BY CurlEasyUses
    <2> QED BY <1>3, <2>1, <2>2
  <1>8. CASE Curl!send(s, h)
    <2>1. \A g \in Handles : handle'[g].curl = handle[g].curl /\ handle'[g].log = handle[g].log
      BY <1>0, <1>8, CurlSendHandles
    <2>2. CASE cuheap' = Curl!Used(cuheap, Curl!Easy(h) \cup Curl!List(h))
      BY <1>3, <2>1, <2>2
    <2>3. CASE UNCHANGED cuheap
      BY <1>0, <1>1, <2>1, <2>3, CurlLogSame DEF CurlLogKept
    <2> QED BY <1>8, <2>2, <2>3 DEF Curl!send
  <1> QED BY <1>4, <1>6, <1>7, <1>8

LEMMA CurlLogStep ==
    ASSUME Curl!CurlAssumption, CurlHeapInv, CurlLogInv, [Curl!Next]_(Curl!vars)
    PROVE  CurlLogInv'
  <1>0. CurlTypeOK
    BY DEF CurlHeapInv
  <1>1. raced => raced'
    BY DEF Curl!Next, Curl!vars, Curl!log, Curl!luaopen, Curl!Log, Curl!luaclose, Curl!log_file, Curl!TestLog,
           Curl!Reads, Curl!fclose, Curl!clear, Curl!fopen, Curl!cleanup, Curl!userpwd, Curl!lua_close, Curl!Script,
           Curl!open, Curl!close, Curl!set_request_header, Curl!escape, Curl!send
  <1> SUFFICES ASSUME ~raced', CurlLogGood PROVE CurlLogGood'
    BY <1>1 DEF CurlLogInv
  <1>2. ASSUME NEW s \in Luas, Curl!luaopen(s) \/ Curl!cleanup(s) \/ Curl!userpwd(s) PROVE CurlLogGood'
    <2>1. CurlLogKept /\ UNCHANGED <<cuheap, handle>>
      BY <1>0, <1>2 DEF Curl!luaopen, Curl!cleanup, Curl!userpwd, Curl!At, Curl!Go, Curl!log, CurlReplacing,
                        CurlLogKept, CurlTypeOK, CurlLuaTypes
    <2> QED BY <1>0, <2>1, CurlLogSame DEF CurlLogKept
  <1>3. ASSUME NEW s \in Luas, Curl!luaclose(s) \/ Curl!log_file(s) PROVE CurlLogGood'
    BY <1>0, <1>3, CurlTestLogged DEF Curl!luaclose, Curl!log_file
  <1>4. ASSUME NEW s \in Luas, Curl!Log(s) PROVE CurlLogGood'
    BY <1>0, <1>3, <1>4, CurlFclosed, CurlClearedLog, CurlFopened DEF Curl!Log
  <1>5. ASSUME NEW s \in Luas, NEW h \in Handles, Curl!Script(s, h) PROVE CurlLogGood'
    BY <1>0, <1>5, CurlOpenedLog, CurlHandledLog DEF Curl!Script
  <1>6. CASE UNCHANGED Curl!vars
    <2>1. CurlLogKept /\ UNCHANGED <<cuheap, handle>>
      BY <1>6 DEF Curl!vars, Curl!log, CurlLogKept
    <2> QED BY <1>0, <2>1, CurlLogSame DEF CurlLogKept
  <1> QED BY <1>2, <1>4, <1>5, <1>6, CurlLuaClosedLog DEF Curl!Next

LEMMA CurlInitLog == ASSUME Curl!CurlAssumption, Curl!Init PROVE CurlLogInv
  <1>1. \A x \in CurlObjects : cuheap[x] = "none"
    BY DEF Curl!Init, CurlObjects
  <1>2. fp = None /\ \A s \in Luas : lua[s] = "none"
    BY DEF Curl!Init
  <1>3. \A h \in Handles : ~handle[h].curl
    BY DEF Curl!Init, Curl!NoHandle
  <1> QED BY <1>1, <1>2, <1>3, CurlKinds
      DEF CurlLogInv, CurlLogGood, CurlOneReplaces, CurlInClose, CurlLogOpen, CurlWritten, CurlFilesHeld, CurlReplacing

LEMMA CurlHeapIsSound == ASSUME Curl!CurlAssumption, CurlHeapInv, CurlLogInv PROVE Curl!CurlSafe
  <1>1. \A h \in Handles : cuheap[h] # "abused" /\ (cuheap[h] = "live" => handle[h].curl)
    BY DEF CurlHeapInv, CurlEasyHeld
  <1>2. ASSUME NEW l \in Lists
        PROVE  cuheap[l] # "abused" /\ (cuheap[l] = "live" => l \in dropped \/ \E h \in Handles : l \in Curl!List(h))
    BY CurlKinds DEF CurlHeapInv, CurlListsHeld, Curl!List
  <1>3. Curl!ObjectsSafe
    BY <1>1, <1>2 DEF Curl!ObjectsSafe
  <1> QED BY <1>3 DEF Curl!CurlSafe, CurlLogInv, CurlLogGood, CurlFilesHeld

\* Easy handles and header lists are freed once, not used afterwards, and not lost unless
\* curl_slist_append fails, for any number of Lua states, of whatever threads; and a log
\* file is closed twice, lost, or written to after it is closed only if a handle that is
\* open writes to it when it is closed, or if a thread reads fp while another replaces the
\* log (lua_curl_close, lua_curl_logfile, luaclose_luacurl and lua_close after it).
LEMMA CurlSpecSafe == ASSUME Curl!CurlAssumption PROVE Curl!Spec => []Curl!CurlSafe
  <1>1. Curl!Init => CurlHeapInv /\ CurlLogInv
    BY CurlInitHeap, CurlInitLog
  <1>2. CurlHeapInv /\ CurlLogInv /\ [Curl!Next]_(Curl!vars) => CurlHeapInv' /\ CurlLogInv'
    BY CurlHeapStep, CurlLogStep
  <1>3. CurlHeapInv /\ CurlLogInv => Curl!CurlSafe
    BY CurlHeapIsSound
  <1> QED BY <1>1, <1>2, <1>3, PTL DEF Curl!Spec
--------------------------------------------------------------------------------
(***************************************************************************)
(* The initialisations of libcurl.                                         *)
(***************************************************************************)
CurlOpened == {s \in Luas : lua[s] \in {"script", "fclose", "clear", "fopen", "cleanup"}}
CurlOwned == \A h \in Handles : handle[h].curl => handle[h].of \in Luas
CurlCountInv == CurlHeapInv /\ CurlOwned /\ inits = Cardinality(CurlOpened)

LEMMA CurlCounts ==
    ASSUME NEW S
    PROVE  Curl!IsFiniteSet(S) = IsFiniteSet(S) /\ Curl!Cardinality(S) = Cardinality(S)
  <1>1. Curl!IsFiniteSet(S) = IsFiniteSet(S)
    BY Zenon DEF Curl!IsFiniteSet, IsFiniteSet
  <1>2. Curl!Cardinality(S) = Cardinality(S)
    BY Zenon DEF Curl!Cardinality, Cardinality, Curl!IsFiniteSet, IsFiniteSet
  <1> QED BY <1>1, <1>2

\* Only open makes a handle, of the state that opens it.
LEMMA CurlOwnedStep ==
    ASSUME Curl!CurlAssumption, CurlHeapInv, CurlOwned, [Curl!Next]_(Curl!vars)
    PROVE  CurlOwned'
  <1>0. CurlHandleTypes
    BY DEF CurlHeapInv, CurlTypeOK
  <1>1. CASE UNCHANGED handle
    BY <1>1 DEF CurlOwned
  <1>2. ASSUME NEW s \in Luas, Curl!luaopen(s) \/ Curl!Log(s) \/ Curl!cleanup(s) \/ Curl!userpwd(s)
        PROVE  UNCHANGED handle
    BY <1>2 DEF Curl!luaopen, Curl!cleanup, Curl!userpwd, Curl!Log, Curl!luaclose, Curl!log_file, Curl!TestLog,
           Curl!fclose, Curl!clear, Curl!fopen
  <1>3. ASSUME NEW hs \in SUBSET Handles, NEW state \in {"object", "gone"},
               handle' = [h \in Handles |-> IF h \in hs THEN Curl!Closed(h, state) ELSE handle[h]]
        PROVE  CurlOwned'
    <2>1. \A h \in hs : ~Curl!Closed(h, state).curl
      BY <1>0, CurlClosedType
    <2> QED BY <1>3, <2>1 DEF CurlOwned
  <1>4. ASSUME NEW s \in Luas, Curl!lua_close(s) PROVE CurlOwned'
    <2> DEFINE left == {h \in Handles : handle[h].of = s /\ handle[h].state = "object"}
    <2>1. /\ left \in SUBSET Handles
          /\ handle' = [h \in Handles |-> IF h \in left THEN Curl!Closed(h, "gone") ELSE handle[h]]
      BY <1>4 DEF Curl!lua_close
    <2> HIDE DEF left
    <2> QED BY <1>3, <2>1
  <1>5. ASSUME NEW s \in Luas, NEW h \in Handles, NEW state \in {"object", "gone"}, Curl!close(s, h, state)
        PROVE  CurlOwned'
    <2>1. handle' = [g \in Handles |-> IF g \in {h} THEN Curl!Closed(g, state) ELSE handle[g]]
      BY <1>0, <1>5 DEF Curl!close, CurlHandleTypes
    <2> QED BY <1>3, <2>1
  <1>6. ASSUME NEW s \in Luas, NEW h \in Handles, Curl!open(s, h) PROVE CurlOwned'
    <2>1. PICK o : CurlOpens(s, h, o)
      BY <1>0, <1>6, CurlOpenMakes
    <2>2. o.of = s /\ \A g \in Handles : handle'[g] = IF g = h THEN o ELSE handle[g]
      BY <2>1 DEF CurlOpens, CurlIsNew
    <2> QED BY <2>2 DEF CurlOwned
  <1>7. ASSUME NEW s \in Luas, NEW h \in Handles, Curl!set_request_header(s, h) PROVE CurlOwned'
    <2>1. ASSUME NEW l \in Lists \cup {None}, handle' = [handle EXCEPT ![h].hdrs = l] PROVE CurlOwned'
      <3>1. \A g \in Handles : handle'[g].curl = handle[g].curl /\ handle'[g].of = handle[g].of
        BY <1>0, <2>1, CurlHeaderHandles
      <3> QED BY <3>1 DEF CurlOwned
    <2> QED BY <1>1, <1>7, <2>1 DEF Curl!set_request_header
  <1>8. ASSUME NEW s \in Luas, NEW h \in Handles, Curl!send(s, h) PROVE CurlOwned'
    <2>1. \A g \in Handles : handle'[g].curl = handle[g].curl /\ handle'[g].of = handle[g].of
      BY <1>0, <1>8, CurlSendHandles
    <2> QED BY <2>1 DEF CurlOwned
  <1>9. ASSUME NEW s \in Luas, NEW h \in Handles, Curl!escape(s, h) PROVE UNCHANGED handle
    BY <1>9 DEF Curl!escape
  <1>10. ASSUME NEW s \in Luas, NEW h \in Handles, Curl!Script(s, h) PROVE CurlOwned'
    BY <1>1, <1>5, <1>6, <1>7, <1>8, <1>9, <1>10 DEF Curl!Script
  <1>11. UNCHANGED Curl!vars => UNCHANGED handle
    BY DEF Curl!vars
  <1> QED BY <1>1, <1>2, <1>4, <1>10, <1>11 DEF Curl!Next

LEMMA CurlCountStep ==
    ASSUME Curl!CurlAssumption, CurlCountInv, [Curl!Next]_(Curl!vars)
    PROVE  inits' = Cardinality(CurlOpened')
  <1>0. lua \in [Luas -> CurlPlaces] /\ inits \in Int /\ \A s \in Luas : tested[s].next \in {"script", "fopen", "cleanup"}
    BY DEF CurlCountInv, CurlHeapInv, CurlTypeOK, CurlLuaTypes, CurlTests
  <1>1. IsFiniteSet(CurlOpened) /\ inits = Cardinality(CurlOpened)
    BY CurlCounts, FS_Subset DEF Curl!CurlAssumption, CurlCountInv, CurlOpened
  <1>2. ASSUME NEW s \in Luas, Curl!luaopen(s) PROVE inits' = Cardinality(CurlOpened')
    <2>1. CurlOpened' = CurlOpened \cup {s} /\ s \notin CurlOpened /\ inits' = inits + 1
      BY <1>0, <1>2 DEF Curl!luaopen, Curl!Initialised, Curl!At, Curl!Go, CurlOpened
    <2>2. Cardinality(CurlOpened') = Cardinality(CurlOpened) + 1
      BY <1>1, <2>1, FS_AddElement
    <2> QED BY <1>1, <2>1, <2>2
  <1>3. ASSUME NEW s \in Luas, Curl!cleanup(s) PROVE inits' = Cardinality(CurlOpened')
    <2>1. CurlOpened' = CurlOpened \ {s} /\ s \in CurlOpened /\ inits' = inits - 1
      BY <1>0, <1>3 DEF Curl!cleanup, Curl!At, Curl!Go, CurlOpened
    <2>2. Cardinality(CurlOpened') = Cardinality(CurlOpened) - 1
      BY <1>1, <2>1, FS_RemoveElement
    <2> QED BY <1>1, <2>1, <2>2
  <1>4. CASE inits' = inits /\ CurlOpened' = CurlOpened
    BY <1>1, <1>4
  <1>5. ASSUME NEW s \in Luas, Curl!Log(s) PROVE inits' = inits /\ CurlOpened' = CurlOpened
    BY <1>0, <1>5 DEF Curl!Log, Curl!luaclose, Curl!log_file, Curl!TestLog, Curl!fclose, Curl!clear, Curl!fopen,
                      Curl!At, Curl!Go, CurlOpened
  <1>6. ASSUME NEW s \in Luas, Curl!userpwd(s) \/ Curl!lua_close(s) PROVE inits' = inits /\ CurlOpened' = CurlOpened
    BY <1>0, <1>6 DEF Curl!userpwd, Curl!lua_close, Curl!At, Curl!Go, CurlOpened
  <1>7. ASSUME NEW s \in Luas, NEW h \in Handles, Curl!Script(s, h) PROVE inits' = inits /\ CurlOpened' = CurlOpened
    BY <1>7 DEF Curl!Script, Curl!open, Curl!close, Curl!set_request_header, Curl!escape, Curl!send, CurlOpened
  <1>8. UNCHANGED Curl!vars => inits' = inits /\ CurlOpened' = CurlOpened
    BY DEF Curl!vars, CurlOpened
  <1> QED BY <1>2, <1>3, <1>4, <1>5, <1>6, <1>7, <1>8 DEF Curl!Next

\* libcurl stays initialised for every handle of a state that scripts still run in, for any
\* number of states, although luaclose_luacurl takes back an initialisation without asking
\* whose (luaopen_luacurl, luaclose_luacurl).
LEMMA CurlSpecInitialised == ASSUME Curl!CurlAssumption PROVE Curl!Spec => []Curl!InitialisedForScripts
  <1>1. Curl!Init => CurlCountInv
    <2> SUFFICES ASSUME Curl!Init PROVE CurlCountInv
      OBVIOUS
    <2>1. CurlOpened = {} /\ inits = 0 /\ CurlOwned
      BY DEF Curl!Init, Curl!NoHandle, CurlOpened, CurlOwned
    <2> QED BY <2>1, FS_EmptySet, CurlInitHeap DEF CurlCountInv
  <1>2. CurlCountInv /\ [Curl!Next]_(Curl!vars) => CurlCountInv'
    BY CurlCountStep, CurlOwnedStep, CurlHeapStep DEF CurlCountInv
  <1>3. CurlCountInv => Curl!InitialisedForScripts
    <2> SUFFICES ASSUME CurlCountInv, NEW h \in Handles, handle[h].curl, lua[handle[h].of] \in Curl!Scripting
                 PROVE  inits > 0
      BY DEF Curl!InitialisedForScripts
    <2>1. handle[h].of \in CurlOpened
      BY DEF CurlCountInv, CurlOwned, CurlOpened, Curl!Scripting
    <2>2. IsFiniteSet(CurlOpened) /\ inits = Cardinality(CurlOpened)
      BY CurlCounts, FS_Subset DEF Curl!CurlAssumption, CurlCountInv, CurlOpened
    <2>3. Cardinality(CurlOpened) \in Nat /\ Cardinality(CurlOpened) # 0
      BY <2>1, <2>2, FS_CardinalityType, FS_EmptySet
    <2> QED BY <2>2, <2>3
  <1> QED BY <1>1, <1>2, <1>3, PTL DEF Curl!Spec
--------------------------------------------------------------------------------
(***************************************************************************)
(* The status.                                                             *)
(***************************************************************************)
CurlSends(o) == o.status \in {0, o.sent}
CurlStatusInv == CurlHeapInv /\ Curl!StatusIsLast

LEMMA CurlStatusStep ==
    ASSUME Curl!CurlAssumption, CurlStatusInv, [Curl!Next]_(Curl!vars)
    PROVE  Curl!StatusIsLast'
  <1>0. CurlHandleTypes
    BY DEF CurlStatusInv, CurlHeapInv, CurlTypeOK
  \* A step after which every handle has the numbers it had, or right ones
  <1> DEFINE Kept(h) == handle'[h].sent = handle[h].sent /\ handle'[h].status = handle[h].status
  <1>k. ASSUME \A h \in Handles : Kept(h) \/ CurlSends(handle'[h]) PROVE Curl!StatusIsLast'
    BY <1>k DEF CurlStatusInv, Curl!StatusIsLast, CurlSends
  <1> HIDE DEF Kept
  <1>1. CASE UNCHANGED handle
    BY <1>k, <1>1 DEF Kept
  <1>2. ASSUME NEW s \in Luas, Curl!luaopen(s) \/ Curl!Log(s) \/ Curl!cleanup(s) \/ Curl!userpwd(s)
        PROVE  UNCHANGED handle
    BY <1>2 DEF Curl!luaopen, Curl!cleanup, Curl!userpwd, Curl!Log, Curl!luaclose, Curl!log_file, Curl!TestLog,
           Curl!fclose, Curl!clear, Curl!fopen
  <1>3. ASSUME NEW hs \in SUBSET Handles, NEW state \in {"object", "gone"},
               handle' = [h \in Handles |-> IF h \in hs THEN Curl!Closed(h, state) ELSE handle[h]]
        PROVE  Curl!StatusIsLast'
    <2>1. \A h \in hs : Curl!Closed(h, state).sent = handle[h].sent /\ Curl!Closed(h, state).status = handle[h].status
      BY <1>0, CurlClosedType
    <2>2. \A h \in Handles : Kept(h)
      BY <1>3, <2>1 DEF Kept
    <2> QED BY <1>k, <2>2
  <1>4. ASSUME NEW s \in Luas, Curl!lua_close(s) PROVE Curl!StatusIsLast'
    <2> DEFINE left == {h \in Handles : handle[h].of = s /\ handle[h].state = "object"}
    <2>1. /\ left \in SUBSET Handles
          /\ handle' = [h \in Handles |-> IF h \in left THEN Curl!Closed(h, "gone") ELSE handle[h]]
      BY <1>4 DEF Curl!lua_close
    <2> HIDE DEF left
    <2> QED BY <1>3, <2>1
  <1>5. ASSUME NEW s \in Luas, NEW h \in Handles, NEW state \in {"object", "gone"}, Curl!close(s, h, state)
        PROVE  Curl!StatusIsLast'
    <2>1. handle' = [g \in Handles |-> IF g \in {h} THEN Curl!Closed(g, state) ELSE handle[g]]
      BY <1>0, <1>5 DEF Curl!close, CurlHandleTypes
    <2> QED BY <1>3, <2>1
  <1>6. ASSUME NEW s \in Luas, NEW h \in Handles, Curl!open(s, h) PROVE Curl!StatusIsLast'
    <2>1. PICK o : CurlOpens(s, h, o)
      BY <1>0, <1>6, CurlOpenMakes
    <2>2. o.sent = 0 /\ o.status = 0 /\ \A g \in Handles : handle'[g] = IF g = h THEN o ELSE handle[g]
      BY <2>1 DEF CurlOpens, CurlIsNew
    <2>3. \A g \in Handles : Kept(g) \/ CurlSends(handle'[g])
      BY <2>2 DEF CurlSends, Kept
    <2> QED BY <1>k, <2>3
  <1>7. ASSUME NEW s \in Luas, NEW h \in Handles, Curl!set_request_header(s, h) PROVE Curl!StatusIsLast'
    <2>1. ASSUME NEW l \in Lists \cup {None}, handle' = [handle EXCEPT ![h].hdrs = l] PROVE Curl!StatusIsLast'
      <3>1. \A g \in Handles : Kept(g)
        BY <1>0, <2>1, CurlHeaderHandles DEF Kept
      <3> QED BY <1>k, <3>1
    <2> QED BY <1>1, <1>7, <2>1 DEF Curl!set_request_header
  <1>8. ASSUME NEW s \in Luas, NEW h \in Handles, Curl!send(s, h) PROVE Curl!StatusIsLast'
    <2>1. CurlSends(handle'[h]) /\ \A g \in Handles : g # h => Kept(g)
      BY <1>0, <1>8, CurlSendHandles DEF CurlSends, Kept
    <2> QED BY <1>k, <2>1
  <1>9. ASSUME NEW s \in Luas, NEW h \in Handles, Curl!escape(s, h) PROVE UNCHANGED handle
    BY <1>9 DEF Curl!escape
  <1>10. ASSUME NEW s \in Luas, NEW h \in Handles, Curl!Script(s, h) PROVE Curl!StatusIsLast'
    BY <1>1, <1>5, <1>6, <1>7, <1>8, <1>9, <1>10 DEF Curl!Script
  <1>11. UNCHANGED Curl!vars => UNCHANGED handle
    BY DEF Curl!vars
  <1> QED BY <1>1, <1>2, <1>4, <1>10, <1>11 DEF Curl!Next

\* A status is that of the handle's last send or 0, however many sends fail, for any
\* number of handles and sends (lua_curl_send, lua_curl_status).
LEMMA CurlSpecStatus == ASSUME Curl!CurlAssumption PROVE Curl!Spec => []Curl!StatusIsLast
  <1>1. Curl!Init => CurlStatusInv
    <2>1. Curl!Init => Curl!StatusIsLast
      BY DEF Curl!Init, Curl!NoHandle, Curl!StatusIsLast
    <2> QED BY <2>1, CurlInitHeap DEF CurlStatusInv
  <1>2. CurlStatusInv /\ [Curl!Next]_(Curl!vars) => CurlStatusInv'
    BY CurlStatusStep, CurlHeapStep DEF CurlStatusInv
  <1>3. CurlStatusInv => Curl!StatusIsLast
    BY DEF CurlStatusInv
  <1> QED BY <1>1, <1>2, <1>3, PTL DEF Curl!Spec
--------------------------------------------------------------------------------
(***************************************************************************)
(* Oracle (OraStatement): what is in range.                                *)
(***************************************************************************)

Objects == Sessions \cup Stmts \cup Buffers
Statements == [state : {"none", "object", "gone"}, svc : Sessions \cup {None}, stmt : BOOLEAN,
               select : BOOLEAN, executed : BOOLEAN, row : Buffers \cup {None},
               binds : Seq(Buffers), index : [Names -> Nat]]
Cursors == [targets : SUBSET Buffers, bound : [Names -> Buffers \cup {None}], rows : Nat, cursor : Nat]
Loops == [state : {"none", "on", "ended", "failed", "gone"}, of : Stmts \cup {None},
          first : BOOLEAN, given : Nat, alone : BOOLEAN]

StmtTypes == stmt \in [Stmts -> Statements] /\ oci \in [Stmts -> Cursors]
LoopTypes == iter \in [Iters -> Loops]
TypeOK == /\ heap \in [Objects -> HeapStates]
          /\ session \in [Sessions -> {"none", "open", "closed", "gone"}]
          /\ StmtTypes /\ LoopTypes
          /\ orphaned \in SUBSET Sessions /\ stale \in SUBSET Buffers

\* What OCI may have worked on after it was freed
Worn == orphaned \cup stale

Mine(o) == RowOf(o) \cup Buffered(o)
\* A row is of a SELECT that was executed, and no variable; OCI writes to it, or to a
\* stale one.
OwnRow(o) == stmt[o].row # None => /\ stmt[o].executed /\ stmt[o].select
                                   /\ oci[o].targets \subseteq {stmt[o].row} \cup stale /\ stmt[o].row \notin Buffered(o)
WithSession(o) == /\ stmt[o].stmt => stmt[o].state = "object" /\ stmt[o].svc \in Sessions
                  /\ stmt[o].svc \in Sessions => session[stmt[o].svc] = "open" \/ stmt[o].svc \in orphaned
Right(o) == /\ OwnRow(o) /\ WithSession(o)
            /\ BoundTo(o) \subseteq Buffered(o)
            /\ ~stmt[o].stmt => Mine(o) = {}

NotAbused == \A x \in Objects : heap[x] = "abused" => x \in Worn
SessionsHeld == \A s \in Sessions : heap[s] = "live" <=> session[s] = "open"
StmtsHeld == \A o \in Stmts : heap[o] = "live" <=> stmt[o].stmt
BuffersHeld == \A b \in Buffers : heap[b] = "live" <=> \E o \in Stmts : b \in Mine(o)
OneOwner == \A o, p \in Stmts : o # p => Mine(o) \cap Mine(p) = {}
HeapInv == /\ TypeOK /\ NotAbused /\ SessionsHeld /\ StmtsHeld /\ BuffersHeld /\ OneOwner
           /\ \A o \in Stmts : Right(o)

\* A step leaves x alone, or works on it, and it was freed before.
Kept(x) == heap'[x] = heap[x] \/ (heap'[x] = "abused" /\ heap[x] # "live" /\ x \in Worn)
\* A step makes the buffers in new, frees those in old, and leaves the others.
Exchanged(o, new, old) ==
    \A x \in Objects : x # o => IF x \in new THEN heap'[x] = "live"
                               ELSE IF x \in old THEN heap'[x] = "freed" ELSE Kept(x)
--------------------------------------------------------------------------------
(***************************************************************************)
(* Heaps, records and sequences.                                           *)
(***************************************************************************)
LEMMA UsedLive ==
    ASSUME NEW h \in [Objects -> HeapStates], NEW S, \A x \in S \cap Objects : h[x] = "live"
    PROVE  Used(h, S) = h
  BY DEF Used

LEMMA UsedWorn ==
    ASSUME NEW h \in [Objects -> HeapStates], NEW S, NEW T,
           \A x \in S \cap Objects : h[x] = "live" \/ x \in T
    PROVE  /\ Used(h, S) \in [Objects -> HeapStates]
           /\ \A x \in Objects : Used(h, S)[x] = h[x] \/ (Used(h, S)[x] = "abused" /\ h[x] # "live" /\ x \in T)
  <1> DEFINE g == Used(h, S)
  <1>1. g = [x \in Objects |-> IF x \in S /\ h[x] # "live" THEN "abused" ELSE h[x]]
    BY DEF Used
  <1> HIDE DEF g
  <1>2. "abused" \in HeapStates
    BY DEF HeapStates
  <1>3. g \in [Objects -> HeapStates]
    BY <1>1, <1>2
  <1>4. ASSUME NEW x \in Objects
        PROVE g[x] = h[x] \/ (g[x] = "abused" /\ h[x] # "live" /\ x \in T)
    BY <1>1
  <1>5. \A x \in Objects : g[x] = h[x] \/ (g[x] = "abused" /\ h[x] # "live" /\ x \in T)
    BY <1>4
  <1> QED BY <1>3, <1>5 DEF g

LEMMA ReleasedLive ==
    ASSUME NEW h \in [Objects -> HeapStates], NEW S, \A x \in S \cap Objects : h[x] = "live"
    PROVE  /\ Released(h, S) \in [Objects -> HeapStates]
           /\ \A x \in Objects : Released(h, S)[x] = IF x \in S THEN "freed" ELSE h[x]
  BY DEF Released, HeapStates

LEMMA AllocatedAll ==
    ASSUME NEW h \in [Objects -> HeapStates], NEW S
    PROVE  /\ Allocated(h, S) \in [Objects -> HeapStates]
           /\ \A x \in Objects : Allocated(h, S)[x] = IF x \in S THEN "live" ELSE h[x]
  BY DEF Allocated, HeapStates

LEMMA Appended ==
    ASSUME NEW s \in Seq(Buffers), NEW b \in Buffers
    PROVE  /\ Append(s, b) \in Seq(Buffers)
           /\ Append(s, b)[Len(s) + 1] = b /\ Len(s) + 1 \in DOMAIN Append(s, b)
           /\ \A k \in DOMAIN s : k \in DOMAIN Append(s, b) /\ Append(s, b)[k] = s[k]
           /\ {Append(s, b)[k] : k \in DOMAIN Append(s, b)} = {s[k] : k \in DOMAIN s} \cup {b}
  <1>1. /\ Append(s, b) \in Seq(Buffers) /\ Len(s) \in Nat /\ DOMAIN s = 1..Len(s)
        /\ DOMAIN Append(s, b) = 1..(Len(s) + 1)
        /\ Append(s, b)[Len(s) + 1] = b
        /\ \A k \in 1..Len(s) : Append(s, b)[k] = s[k]
    OBVIOUS
  <1>2. \A k \in 1..(Len(s) + 1) : k \in 1..Len(s) \/ k = Len(s) + 1
    BY <1>1
  <1>3. Len(s) + 1 \in 1..(Len(s) + 1) /\ \A k \in 1..Len(s) : k \in 1..(Len(s) + 1)
    BY <1>1
  <1>4. {Append(s, b)[k] : k \in DOMAIN Append(s, b)} = {s[k] : k \in DOMAIN s} \cup {b}
    BY <1>1, <1>2, <1>3
  <1> QED BY <1>1, <1>3, <1>4

LEMMA BufferTypes ==
    ASSUME StmtTypes, NEW o \in Stmts
    PROVE  /\ Buffered(o) \subseteq Buffers /\ RowOf(o) \subseteq Buffers /\ BoundTo(o) \subseteq Buffers
           /\ Mine(o) \subseteq Buffers /\ Cleared(o) \subseteq RowOf(o)
  <1>1. stmt[o] \in Statements /\ oci[o] \in Cursors
    BY DEF StmtTypes
  <1>2. \A k \in DOMAIN stmt[o].binds : stmt[o].binds[k] \in Buffers
    BY <1>1 DEF Statements
  <1>3. RowOf(o) \subseteq Buffers
    BY <1>1 DEF Statements, RowOf
  <1>4. BoundTo(o) \subseteq Buffers
    BY <1>1 DEF Cursors, BoundTo
  <1> QED BY <1>2, <1>3, <1>4 DEF Buffered, Mine, Cleared

LEMMA DisturbedType ==
    ASSUME LoopTypes, NEW o
    PROVE  /\ Disturbed(o) \in [Iters -> Loops]
           /\ \A j \in Iters : /\ Disturbed(o)[j].of = iter[j].of
                               /\ Disturbed(o)[j].alone => iter[j].of # o /\ Disturbed(o)[j] = iter[j]
  <1> DEFINE Cut(l) == [l EXCEPT !.alone = FALSE, !.given = 0]
  <1>1. ASSUME NEW l \in Loops
        PROVE  Cut(l) \in Loops /\ Cut(l).of = l.of /\ ~Cut(l).alone
    BY DEF Loops
  <1>2. Disturbed(o) = [j \in Iters |-> IF iter[j].of # o THEN iter[j] ELSE Cut(iter[j])]
    BY DEF Disturbed
  <1> HIDE DEF Cut
  <1> QED BY <1>1, <1>2 DEF LoopTypes
--------------------------------------------------------------------------------
(***************************************************************************)
(* The heap, when one statement changes, or one session.                   *)
(***************************************************************************)
\* Statement o gives up some buffers and gets some new ones.
LEMMA StmtChanges ==
    ASSUME OraAssumption, HeapInv, TypeOK', UNCHANGED <<session, orphaned>>, stale \subseteq stale', NEW o \in Stmts,
           \A p \in Stmts : p # o => stmt'[p] = stmt[p] /\ oci'[p] = oci[p],
           NEW new \in SUBSET Buffers, NEW old \in SUBSET Mine(o), \A b \in new : heap[b] = "none",
           Mine(o)' = (Mine(o) \ old) \cup new,
           Exchanged(o, new, old),
           heap'[o] # "abused", heap'[o] = "live" <=> stmt'[o].stmt, Right(o)'
    PROVE  HeapInv'
  <1>1. /\ \A p \in Stmts : Mine(p) \subseteq Buffers
        /\ o \notin Buffers /\ o \notin Sessions
        /\ \A p \in Stmts : p \notin Buffers /\ p \notin Mine(o)
        /\ \A s \in Sessions : s \notin Buffers /\ s \notin Mine(o)
    BY BufferTypes DEF HeapInv, TypeOK, OraAssumption
  <1>2. ASSUME NEW p \in Stmts, p # o PROVE Mine(p)' = Mine(p) /\ Right(p)'
    <2>1. stmt'[p] = stmt[p] /\ oci'[p] = oci[p]
      BY <1>2
    <2>2. Buffered(p)' = Buffered(p) /\ RowOf(p)' = RowOf(p) /\ BoundTo(p)' = BoundTo(p)
      BY <2>1 DEF RowOf, Buffered, BoundTo
    <2>3. OwnRow(p)' /\ WithSession(p)'
      BY <2>1, <2>2 DEF HeapInv, Right, OwnRow, WithSession
    <2> QED BY <2>1, <2>2, <2>3 DEF HeapInv, Right, Mine
  <1>3. \A b \in new, p \in Stmts : b \notin Mine(p)
    BY DEF HeapInv, BuffersHeld
  <1>4. OneOwner'
    <2>1. \A p, q \in Stmts : p # q /\ q # o => Mine(p)' \cap Mine(q)' = {}
      BY <1>2, <1>3 DEF HeapInv, OneOwner
    <2> QED BY <2>1 DEF OneOwner
  <1>5. BuffersHeld'
    <2>1. ASSUME NEW b \in Buffers PROVE heap'[b] = "live" <=> \E p \in Stmts : b \in Mine(p)'
      <3>1. b # o /\ b \in Objects
        BY <1>1 DEF Objects
      <3>2. (\E p \in Stmts : b \in Mine(p)') <=> b \in new \/ (b \notin old /\ \E p \in Stmts : b \in Mine(p))
        BY <1>2, <1>3 DEF HeapInv, OneOwner
      <3>3. heap'[b] = "live" <=> b \in new \/ (b \notin old /\ heap[b] = "live")
        BY <3>1 DEF Exchanged, Kept
      <3>4. heap[b] = "live" <=> \E p \in Stmts : b \in Mine(p)
        BY DEF HeapInv, BuffersHeld
      <3> QED BY <3>2, <3>3, <3>4
    <2> QED BY <2>1 DEF BuffersHeld
  <1>6. NotAbused'
    BY DEF HeapInv, NotAbused, Exchanged, Kept, Worn
  <1>7. SessionsHeld' /\ StmtsHeld'
    <2>1. \A s \in Sessions : heap'[s] = "live" <=> heap[s] = "live"
      BY <1>1 DEF Objects, Exchanged, Kept
    <2>2. \A p \in Stmts : p # o => (heap'[p] = "live" <=> heap[p] = "live")
      BY <1>1 DEF Objects, Exchanged, Kept
    <2> QED BY <2>1, <2>2 DEF HeapInv, SessionsHeld, StmtsHeld
  <1>8. \A p \in Stmts : Right(p)'
    BY <1>2
  <1> QED BY <1>4, <1>5, <1>6, <1>7, <1>8 DEF HeapInv

\* Statement o's handle changes, and no buffer.
LEMMA HandleChanges ==
    ASSUME OraAssumption, HeapInv, TypeOK', UNCHANGED <<session, stmt, oci, orphaned, stale>>,
           NEW o \in Stmts, \A x \in Objects : x # o => heap'[x] = heap[x],
           heap'[o] # "abused", heap'[o] = "live" <=> stmt[o].stmt
    PROVE  HeapInv'
  <1>1. ASSUME NEW p \in Stmts PROVE Mine(p)' = Mine(p) /\ Right(p)'
    <2>1. RowOf(p)' = RowOf(p) /\ Buffered(p)' = Buffered(p) /\ BoundTo(p)' = BoundTo(p)
      BY DEF RowOf, Buffered, BoundTo
    <2>2. OwnRow(p)' /\ WithSession(p)'
      BY <2>1 DEF HeapInv, Right, OwnRow, WithSession
    <2> QED BY <2>1, <2>2 DEF HeapInv, Right, Mine
  <1>2. \A x \in Sessions \cup Buffers : heap'[x] = heap[x]
    BY DEF OraAssumption, Objects
  <1>3. BuffersHeld' /\ OneOwner'
    BY <1>1, <1>2 DEF HeapInv, BuffersHeld, OneOwner
  <1>4. NotAbused' /\ SessionsHeld' /\ StmtsHeld'
    BY <1>2 DEF HeapInv, NotAbused, SessionsHeld, StmtsHeld, Objects, Worn
  <1> QED BY <1>1, <1>3, <1>4 DEF HeapInv

\* What only moves iterators and OCI's cursors
LEMMA NothingChanges ==
    ASSUME OraAssumption, HeapInv, TypeOK', UNCHANGED <<session, stmt, orphaned, stale>>,
           \A x \in Objects : Kept(x),
           \A o \in Stmts : oci'[o].targets = oci[o].targets /\ oci'[o].bound = oci[o].bound
    PROVE  HeapInv'
  <1>1. ASSUME NEW o \in Stmts PROVE Mine(o)' = Mine(o) /\ Right(o)'
    <2>1. RowOf(o)' = RowOf(o) /\ Buffered(o)' = Buffered(o) /\ BoundTo(o)' = BoundTo(o)
      BY DEF RowOf, Buffered, BoundTo
    <2>2. OwnRow(o)' /\ WithSession(o)'
      BY <2>1 DEF HeapInv, Right, OwnRow, WithSession
    <2> QED BY <2>1, <2>2 DEF HeapInv, Right, Mine
  <1>2. \A x \in Objects : heap'[x] = "live" <=> heap[x] = "live"
    BY DEF Kept
  <1>3. SessionsHeld' /\ StmtsHeld' /\ BuffersHeld'
    BY <1>1, <1>2 DEF HeapInv, SessionsHeld, StmtsHeld, BuffersHeld, Objects
  <1>4. NotAbused'
    BY DEF HeapInv, NotAbused, Kept, Worn
  <1> QED BY <1>1, <1>3, <1>4 DEF HeapInv, OneOwner

\* What only opens a session, or closes one that is orphaned if a statement has it
LEMMA SessionChanges ==
    ASSUME OraAssumption, HeapInv, TypeOK', UNCHANGED <<stmt, oci, stale>>, orphaned \subseteq orphaned',
           NEW s \in Sessions, \A x \in Objects : x # s => heap'[x] = heap[x],
           \A r \in Sessions : r # s => session'[r] = session[r],
           heap'[s] = "abused" => s \in orphaned', heap'[s] = "live" <=> session'[s] = "open",
           session'[s] = "open" \/ \A o \in Stmts : stmt[o].svc = s => s \in orphaned'
    PROVE  HeapInv'
  <1>1. \A o \in Stmts : Mine(o)' = Mine(o) /\ BoundTo(o)' = BoundTo(o) /\ Buffered(o)' = Buffered(o)
    BY DEF Mine, RowOf, Buffered, BoundTo
  <1>2. \A o \in Stmts : Right(o)'
    BY <1>1 DEF Right, OwnRow, WithSession, HeapInv
  <1>3. \A x \in Stmts \cup Buffers : heap'[x] = heap[x]
    BY DEF OraAssumption, Objects
  <1>4. NotAbused' /\ SessionsHeld'
    BY DEF HeapInv, NotAbused, SessionsHeld, Objects, Worn
  <1>5. StmtsHeld' /\ BuffersHeld' /\ OneOwner'
    BY <1>1, <1>3 DEF HeapInv, StmtsHeld, BuffersHeld, OneOwner
  <1> QED BY <1>2, <1>4, <1>5 DEF HeapInv

LEMMA InitHeap == ASSUME OraAssumption, Init PROVE HeapInv
  <1>1. NoStmt \in Statements /\ NoCursor \in Cursors /\ NoIter \in Loops
    BY DEF NoStmt, NoCursor, NoIter, Statements, Cursors, Loops
  <1>2. TypeOK
    BY <1>1 DEF Init, TypeOK, StmtTypes, LoopTypes, Objects, HeapStates
  <1>3. \A o \in Stmts : RowOf(o) = {} /\ Buffered(o) = {} /\ BoundTo(o) = {}
    BY DEF Init, RowOf, Buffered, BoundTo, NoStmt, NoCursor
  <1>4. \A o \in Stmts : Right(o)
    BY <1>3 DEF Init, Right, OwnRow, WithSession, Mine, NoStmt, OraAssumption
  <1>5. NotAbused /\ SessionsHeld /\ StmtsHeld /\ BuffersHeld /\ OneOwner
    BY <1>3 DEF Init, NotAbused, SessionsHeld, StmtsHeld, BuffersHeld, OneOwner, Mine, NoStmt, Objects
  <1> QED BY <1>2, <1>4, <1>5 DEF HeapInv

LEMMA OfSessionStep ==
    ASSUME OraAssumption, HeapInv, NEW s \in Sessions, OfSession(s)
    PROVE  HeapInv'
  <1> USE DEF HeapInv, TypeOK, StmtTypes, LoopTypes
  <1>1. /\ s \in Objects /\ (heap[s] = "live" <=> session[s] = "open")
        /\ heap[s] = "abused" => s \in orphaned
    BY DEF Objects, SessionsHeld, NotAbused, Worn, OraAssumption
  <1>2. CASE Open(s)
    <2>1. /\ TypeOK' /\ heap'[s] = "live" /\ session'[s] = "open"
          /\ \A x \in Objects : x # s => heap'[x] = heap[x]
      BY <1>1, <1>2, AllocatedAll DEF Open
    <2> QED BY <1>2, <2>1, SessionChanges DEF Open
  <1>3. ASSUME NEW after \in {"closed", "gone"}, Close(s, after) PROVE HeapInv'
    <2>1. /\ heap' \in [Objects -> HeapStates] /\ heap'[s] # "live"
          /\ heap'[s] = "abused" => s \in orphaned
          /\ \A x \in Objects : x # s => heap'[x] = heap[x]
      BY <1>1, <1>3, ReleasedLive DEF Close
    <2>2. /\ orphaned \subseteq orphaned' /\ orphaned' \in SUBSET Sessions
          /\ \A o \in Stmts : stmt[o].svc = s => s \in orphaned'
      BY <1>3 DEF Close, InUse
    <2>3. TypeOK' /\ session'[s] = after /\ \A q \in Sessions : q # s => session'[q] = session[q]
      BY <1>3, <2>1, <2>2 DEF Close
    <2> QED BY <1>3, <2>1, <2>2, <2>3, SessionChanges DEF Close
  <1>4. CASE End(s)
    <2>1. heap' = heap
      BY <1>1, <1>4, UsedLive DEF End
    <2> QED BY <1>4, <2>1, NothingChanges DEF End, Kept
  <1> QED BY <1>2, <1>3, <1>4 DEF OfSession
--------------------------------------------------------------------------------
(***************************************************************************)
(* A statement is made.                                                    *)
(***************************************************************************)
\* What a statement is made of, and that it was none before
LEMMA Prepared ==
    ASSUME OraAssumption, HeapInv, NEW s \in Sessions, NEW o \in Stmts, Prepare(s, o)
    PROVE  /\ heap[s] = "live" /\ heap[o] = "none" /\ s # o
           /\ Mine(o) = {} /\ RowOf(o) = {} /\ Buffered(o) = {} /\ BoundTo(o) = {}
  <1>1. session[s] = "open" /\ heap[o] = "none" /\ heap[s] = "live"
    BY DEF Prepare, HeapInv, SessionsHeld
  <1>2. Mine(o) = {} /\ BoundTo(o) \subseteq Buffered(o)
    BY <1>1 DEF HeapInv, StmtsHeld, Right
  <1> QED BY <1>1, <1>2 DEF Mine

LEMMA NewType ==
    ASSUME NEW s \in Sessions, NEW select \in BOOLEAN
    PROVE  /\ New(s, select) \in Statements
           /\ New(s, select).state = "object" /\ New(s, select).svc = s /\ New(s, select).stmt
           /\ New(s, select).select = select
           /\ New(s, select).row = None /\ New(s, select).binds = <<>>
           /\ New(s, select).index = [n \in Names |-> 0]
  <1>1. /\ NoStmt \in Statements /\ NoStmt.row = None /\ NoStmt.binds = <<>>
        /\ NoStmt.index = [n \in Names |-> 0]
    BY DEF NoStmt, Statements
  <1> DEFINE r == [NoStmt EXCEPT !.state = "object", !.svc = s]
  <1>2. /\ r \in Statements /\ r.row = None /\ r.binds = <<>> /\ r.index = [n \in Names |-> 0]
        /\ r.state = "object" /\ r.svc = s
    BY <1>1 DEF Statements
  <1>3. New(s, select) = [r EXCEPT !.stmt = TRUE, !.select = select]
    BY DEF New
  <1> HIDE DEF r
  <1> QED BY <1>2, <1>3 DEF Statements

\* What a statement and its cursor are set to
LEMMA StmtSet ==
    ASSUME StmtTypes, NEW o \in Stmts, NEW r \in Statements, NEW c \in Cursors,
           stmt' = [stmt EXCEPT ![o] = r], oci' = [oci EXCEPT ![o] = c]
    PROVE  /\ StmtTypes' /\ stmt'[o] = r /\ oci'[o] = c
           /\ \A p \in Stmts : p # o => stmt'[p] = stmt[p] /\ oci'[p] = oci[p]
  BY DEF StmtTypes

\* A statement with a row
WithRow(r, b) == [r EXCEPT !.executed = TRUE, !.row = b]
LEMMA WithRowType ==
    ASSUME NEW r \in Statements, NEW b \in Buffers \cup {None}
    PROVE  /\ WithRow(r, b) \in Statements /\ WithRow(r, b).executed /\ WithRow(r, b).row = b
           /\ WithRow(r, b).state = r.state /\ WithRow(r, b).svc = r.svc /\ WithRow(r, b).stmt = r.stmt
           /\ WithRow(r, b).select = r.select /\ WithRow(r, b).binds = r.binds /\ WithRow(r, b).index = r.index
  BY DEF WithRow, Statements

\* OCI's cursor of a statement that was executed
LEMMA ExecutedType ==
    ASSUME OraAssumption, NEW c \in Cursors, NEW targets \in SUBSET Buffers, NEW d \in Executed(c, targets)
    PROVE  d \in Cursors /\ d.targets = targets /\ d.bound = c.bound /\ d.cursor = 0 /\ 0 <= d.rows
  <1>1. PICK n \in 0..MaxRows : d = [c EXCEPT !.targets = targets, !.rows = n, !.cursor = 0]
    BY DEF Executed
  <1>2. n \in Nat
    BY DEF OraAssumption
  <1> DEFINE e == [c EXCEPT !.targets = targets, !.rows = n]
  <1>3. e \in Cursors /\ e.targets = targets /\ e.bound = c.bound
    BY <1>2 DEF Cursors
  <1>4. d = [e EXCEPT !.cursor = 0]
    BY <1>1
  <1> HIDE DEF e
  <1> QED BY <1>3, <1>4 DEF Cursors

\* What oci_define_row makes of OCI's cursor: a column is in the new row, or where it was.
CursorDefined(o, c, row, d) ==
    /\ oci' = [oci EXCEPT ![o] = d]
    /\ d.bound = c.bound /\ d.cursor <= d.rows
    /\ row # None => d.targets \subseteq {row} \cup stale'
    /\ stale \subseteq stale' /\ stale' \subseteq stale \cup Buffers
LEMMA DefinesCursor ==
    ASSUME OraAssumption, NEW o \in Stmts, NEW h, NEW c \in Cursors, NEW row \in Buffers \cup {None},
           DefineRow(o, h, c, row)
    PROVE  \E d \in Cursors : CursorDefined(o, c, row, d)
  <1>1. CASE row = None
    <2>1. PICK d \in Executed(c, c.targets) : oci' = [oci EXCEPT ![o] = d] /\ UNCHANGED stale
      BY <1>1 DEF DefineRow
    <2>2. d \in Cursors /\ d.bound = c.bound /\ d.cursor <= d.rows
      BY <2>1, ExecutedType DEF Cursors
    <2> QED BY <1>1, <2>1, <2>2 DEF CursorDefined
  <1>2. CASE row # None
    <2>1. PICK targets \in Defined(c, row) :
             /\ \E d \in Executed(c, targets) : oci' = [oci EXCEPT ![o] = d]
             /\ stale' = stale \cup (targets \ {row})
      BY <1>2 DEF DefineRow
    <2>2. PICK d \in Executed(c, targets) : oci' = [oci EXCEPT ![o] = d]
      BY <2>1
    <2>3. targets \in SUBSET Buffers
      BY <1>2, <2>1 DEF Defined, Cursors
    <2>4. d \in Cursors /\ d.targets = targets /\ d.bound = c.bound /\ d.cursor <= d.rows
      BY <2>2, <2>3, ExecutedType DEF Cursors
    <2> QED BY <2>1, <2>2, <2>3, <2>4 DEF CursorDefined
  <1> QED BY <1>1, <1>2

LEMMA DefinesHeap ==
    ASSUME OraAssumption, NEW o \in Stmts, NEW h \in [Objects -> HeapStates], NEW c,
           NEW row \in Buffers \cup {None}, DefineRow(o, h, c, row)
    PROVE  /\ heap' \in [Objects -> HeapStates]
           /\ \A x \in Objects : heap'[x] = IF x \in {row} \ {None} THEN "live" ELSE h[x]
           /\ row # None => heap[row] = "none"
  <1>1. CASE row = None
    BY <1>1 DEF DefineRow
  <1>2. CASE row # None
    <2>1. heap' = Allocated(h, {row}) /\ heap[row] = "none"
      BY <1>2 DEF DefineRow
    <2> QED BY <1>2, <2>1, AllocatedAll
  <1> QED BY <1>1, <1>2

LEMMA QueryFailsStep ==
    ASSUME OraAssumption, HeapInv, NEW s \in Sessions, NEW o \in Stmts, QueryFails(s, o) \/ QueryChange(s, o)
    PROVE  HeapInv'
  <1> DEFINE h == Allocated(heap, {o})
  <1>1. Prepare(s, o) /\ heap' = Released(Used(h, {s}), {o}) /\ UNCHANGED <<session, stmt, oci, iter, orphaned, stale>>
    BY DEF QueryFails, QueryChange
  <1>2. /\ heap[s] = "live" /\ s # o /\ heap[o] = "none"
        /\ heap \in [Objects -> HeapStates] /\ s \in Objects /\ o \in Objects
    BY <1>1, Prepared DEF Objects, HeapInv, TypeOK
  <1>3. h \in [Objects -> HeapStates] /\ \A x \in Objects : h[x] = IF x \in {o} THEN "live" ELSE heap[x]
    BY <1>2, AllocatedAll
  <1> HIDE DEF h
  <1>4. Used(h, {s}) = h
    BY <1>2, <1>3, UsedLive
  <1>5. heap' \in [Objects -> HeapStates] /\ \A x \in Objects : heap'[x] = IF x \in {o} THEN "freed" ELSE h[x]
    <2>1. heap' = Released(h, {o}) /\ \A x \in {o} \cap Objects : h[x] = "live"
      BY <1>1, <1>3, <1>4
    <2> QED BY <1>3, <2>1, ReleasedLive
  <1>6. /\ TypeOK' /\ heap'[o] = "freed" /\ ~stmt[o].stmt
        /\ \A x \in Objects : x # o => heap'[x] = heap[x]
    BY <1>1, <1>2, <1>3, <1>5 DEF HeapInv, TypeOK, StmtTypes, LoopTypes, StmtsHeld
  <1> QED BY <1>1, <1>6, HandleChanges

LEMMA QuerySelectStep ==
    ASSUME OraAssumption, HeapInv, NEW s \in Sessions, NEW o \in Stmts, QuerySelect(s, o)
    PROVE  HeapInv'
  <1> DEFINE h == Allocated(Used(heap, {s}), {o})
  <1>0. PICK b \in Buffers \cup {None} :
           /\ DefineRow(o, h, NoCursor, b)
           /\ stmt' = [stmt EXCEPT ![o] = WithRow(New(s, TRUE), b)]
    BY DEF QuerySelect, WithRow
  <1>1. NoCursor \in Cursors
    BY DEF NoCursor, Cursors
  <1>2. /\ heap[s] = "live" /\ Mine(o) = {}
        /\ heap \in [Objects -> HeapStates] /\ s \in Objects /\ o \in Objects /\ o \notin Buffers
    BY Prepared DEF QuerySelect, Objects, HeapInv, TypeOK, OraAssumption
  <1>3. h \in [Objects -> HeapStates] /\ \A x \in Objects : h[x] = IF x \in {o} THEN "live" ELSE heap[x]
    <2>1. Used(heap, {s}) = heap
      BY <1>2, UsedLive
    <2>2. h = Allocated(heap, {o})
      BY <2>1
    <2> HIDE DEF h
    <2> QED BY <1>2, <2>2, AllocatedAll
  <1> HIDE DEF h
  <1>4. /\ heap' \in [Objects -> HeapStates]
        /\ \A x \in Objects : heap'[x] = IF x \in {b} \ {None} THEN "live" ELSE h[x]
        /\ b # None => heap[b] = "none"
    BY <1>0, <1>3, DefinesHeap
  <1>5. PICK cursor \in Cursors : CursorDefined(o, NoCursor, b, cursor)
    BY <1>0, <1>1, DefinesCursor
  <1>6. /\ oci' = [oci EXCEPT ![o] = cursor] /\ cursor.bound = [n \in Names |-> None]
        /\ b # None => cursor.targets \subseteq {b} \cup stale'
        /\ stale \subseteq stale' /\ stale' \subseteq stale \cup Buffers
    BY <1>5 DEF CursorDefined, NoCursor
  <1> DEFINE r == WithRow(New(s, TRUE), b)
  <1>7. /\ r \in Statements /\ r.state = "object" /\ r.svc = s /\ r.stmt /\ r.select /\ r.executed
        /\ r.row = b /\ r.binds = <<>>
    <2> DEFINE q == New(s, TRUE)
    <2>1. q \in Statements /\ q.state = "object" /\ q.svc = s /\ q.stmt /\ q.select /\ q.binds = <<>>
      BY NewType
    <2> HIDE DEF q
    <2>2. r = WithRow(q, b)
      BY DEF q
    <2> HIDE DEF r
    <2> QED BY <2>1, <2>2, WithRowType
  <1> HIDE DEF r
  <1>8. stmt' = [stmt EXCEPT ![o] = r]
    BY <1>0 DEF r
  <1>9. /\ TypeOK' /\ stmt'[o] = r /\ oci'[o] = cursor
        /\ \A p \in Stmts : p # o => stmt'[p] = stmt[p] /\ oci'[p] = oci[p]
    <2>1. /\ StmtTypes' /\ stmt'[o] = r /\ oci'[o] = cursor
          /\ \A p \in Stmts : p # o => stmt'[p] = stmt[p] /\ oci'[p] = oci[p]
      <3>1. StmtTypes
        BY DEF HeapInv, TypeOK
      <3> QED BY <1>6, <1>7, <1>8, <3>1, StmtSet
    <2> QED BY <1>4, <1>6, <2>1 DEF HeapInv, TypeOK, LoopTypes, QuerySelect
  <1>10. Buffered(o)' = {} /\ RowOf(o)' = {b} \ {None} /\ BoundTo(o)' = {}
    <2>1. Buffered(o)' = {}
      BY <1>7, <1>9 DEF Buffered
    <2>2. RowOf(o)' = {b} \ {None}
      BY <1>7, <1>9 DEF RowOf
    <2>3. BoundTo(o)' = {}
      BY <1>6, <1>9 DEF BoundTo
    <2> QED BY <2>1, <2>2, <2>3
  <1>11. Right(o)' /\ Mine(o)' = {b} \ {None}
    <2>1. OwnRow(o)'
      BY <1>6, <1>7, <1>9, <1>10 DEF OwnRow
    <2>2. WithSession(o)'
      BY <1>7, <1>9 DEF WithSession, QuerySelect, Prepare
    <2>3. stmt'[o].stmt
      BY <1>7, <1>9
    <2> QED BY <1>10, <2>1, <2>2, <2>3 DEF Right, Mine
  <1> DEFINE new == {b} \ {None}
             old == {}
  <1>12. /\ new \in SUBSET Buffers /\ old \in SUBSET Mine(o) /\ Mine(o)' = (Mine(o) \ old) \cup new
         /\ \A c \in new : heap[c] = "none"
         /\ Exchanged(o, new, old)
    BY <1>2, <1>3, <1>4, <1>11 DEF Exchanged, Kept
  <1>13. heap'[o] # "abused" /\ (heap'[o] = "live" <=> stmt'[o].stmt)
    BY <1>2, <1>3, <1>4, <1>7, <1>9
  <1>14. UNCHANGED <<session, orphaned>>
    BY DEF QuerySelect
  <1> HIDE DEF new, old
  <1> QED BY <1>6, <1>9, <1>11, <1>12, <1>13, <1>14, StmtChanges

LEMMA OpenStmtStep ==
    ASSUME OraAssumption, HeapInv, NEW s \in Sessions, NEW o \in Stmts, OpenStmt(s, o)
    PROVE  HeapInv'
  <1>1. PICK select \in BOOLEAN : stmt' = [stmt EXCEPT ![o] = New(s, select)]
    BY DEF OpenStmt
  <1>2. /\ Mine(o) = {} /\ BoundTo(o) = {}
        /\ heap \in [Objects -> HeapStates] /\ o \in Objects
    BY Prepared DEF OpenStmt, Objects, HeapInv, TypeOK
  <1>3. heap' \in [Objects -> HeapStates] /\ \A x \in Objects : heap'[x] = IF x \in {o} THEN "live" ELSE heap[x]
    BY <1>2, AllocatedAll DEF OpenStmt
  <1> DEFINE r == New(s, select)
  <1>4. r \in Statements /\ r.state = "object" /\ r.svc = s /\ r.stmt /\ r.row = None /\ r.binds = <<>>
    BY NewType
  <1> HIDE DEF r
  <1>5. stmt' = [stmt EXCEPT ![o] = r]
    BY <1>1 DEF r
  <1>6. /\ TypeOK' /\ stmt'[o] = r /\ UNCHANGED <<session, oci, orphaned, stale>>
        /\ \A p \in Stmts : p # o => stmt'[p] = stmt[p]
    BY <1>3, <1>4, <1>5 DEF HeapInv, TypeOK, StmtTypes, LoopTypes, OpenStmt
  <1>7. Buffered(o)' = {} /\ RowOf(o)' = {} /\ BoundTo(o)' = {}
    BY <1>2, <1>4, <1>6 DEF Buffered, RowOf, BoundTo
  <1>8. Right(o)' /\ Mine(o)' = {}
    BY <1>4, <1>6, <1>7 DEF Right, OwnRow, WithSession, Mine, OpenStmt, Prepare
  <1> DEFINE new == {}
             old == {}
  <1>9. /\ new \in SUBSET Buffers /\ old \in SUBSET Mine(o) /\ Mine(o)' = (Mine(o) \ old) \cup new
        /\ \A b \in new : heap[b] = "none"
        /\ Exchanged(o, new, old)
        /\ heap'[o] = "live" /\ stmt'[o].stmt
    BY <1>2, <1>3, <1>4, <1>6, <1>8 DEF Exchanged, Kept
  <1> HIDE DEF new, old
  <1> QED BY <1>6, <1>8, <1>9, StmtChanges
--------------------------------------------------------------------------------
(***************************************************************************)
(* A statement works.                                                      *)
(***************************************************************************)
\* What OCI works on is there, or it was freed as one of the exceptions.
LEMMA WorksOn ==
    ASSUME OraAssumption, HeapInv, NEW o \in Stmts, Ready(o)
    PROVE  /\ o \in Objects /\ stmt[o].svc \in Sessions /\ Handle(o) \subseteq Objects
           /\ heap[o] = "live"
           /\ \A x \in Handle(o) \cup BoundTo(o) : heap[x] = "live" \/ x \in Worn
           /\ (Handle(o) \cup BoundTo(o)) \cap RowOf(o) = {}
           /\ \A x \in Mine(o) : x \in Objects /\ heap[x] = "live" /\ x # o
           /\ HasRow(o) => \A x \in Fetched(o) : heap[x] = "live" \/ x \in Worn
  <1>1. stmt[o].stmt /\ Right(o)
    BY DEF Ready, HeapInv
  <1>2. /\ stmt[o].svc \in Sessions /\ heap[o] = "live"
        /\ heap[stmt[o].svc] = "live" \/ stmt[o].svc \in Worn
    BY <1>1 DEF Right, WithSession, HeapInv, SessionsHeld, StmtsHeld, Worn
  <1>3. \A x \in Mine(o) : x \in Buffers /\ heap[x] = "live"
    BY BufferTypes DEF HeapInv, TypeOK, BuffersHeld
  <1>4. BoundTo(o) \subseteq Buffered(o) /\ RowOf(o) \cap Buffered(o) = {}
    BY <1>1 DEF Right, OwnRow, RowOf
  <1>5. HasRow(o) => oci[o].targets \subseteq RowOf(o) \cup Worn
    BY <1>1 DEF HasRow, Right, OwnRow, RowOf, Worn
  <1>6. \A x \in Buffers : x # o /\ x # stmt[o].svc
    BY <1>2 DEF OraAssumption
  <1>7. \A x \in Handle(o) \cup BoundTo(o) : heap[x] = "live" \/ x \in Worn
    BY <1>2, <1>3, <1>4 DEF Handle, Mine
  <1> QED BY <1>2, <1>3, <1>4, <1>5, <1>6, <1>7 DEF Handle, Fetched, Mine, Objects

\* A call that works on a statement and leaves the statement and its buffers alone
LEMMA WorksStep ==
    ASSUME OraAssumption, HeapInv, LoopTypes', UNCHANGED <<session, stmt, orphaned, stale>>,
           NEW o \in Stmts, Ready(o),
           NEW S, S \subseteq Handle(o) \cup BoundTo(o) \/ (HasRow(o) /\ S \subseteq Fetched(o)),
           heap' = Used(heap, S), oci' \in [Stmts -> Cursors],
           \A p \in Stmts : oci'[p].targets = oci[p].targets /\ oci'[p].bound = oci[p].bound
    PROVE  HeapInv'
  <1>1. heap \in [Objects -> HeapStates] /\ \A x \in S \cap Objects : heap[x] = "live" \/ x \in Worn
    BY WorksOn DEF HeapInv, TypeOK
  <1>2. heap' \in [Objects -> HeapStates] /\ \A x \in Objects : Kept(x)
    BY <1>1, UsedWorn DEF Kept
  <1>3. TypeOK'
    BY <1>2 DEF HeapInv, TypeOK, StmtTypes
  <1> QED BY <1>2, <1>3, NothingChanges

\* The row is cleared before an execute: what it makes of x
Clearing(o, h, x) == IF x \in RowOf(o) THEN h[x] = "freed"
                     ELSE h[x] = heap[x] \/ (h[x] = "abused" /\ heap[x] # "live" /\ x \in Worn)
LEMMA Clears ==
    ASSUME OraAssumption, HeapInv, NEW o \in Stmts, Ready(o)
    PROVE  LET h == Used(Released(heap, Cleared(o)), Handle(o) \cup BoundTo(o))
           IN  /\ h \in [Objects -> HeapStates]
               /\ \A x \in Objects : Clearing(o, h, x)
               /\ h[o] = "live"
               /\ Cleared(o) = RowOf(o)
  <1>1. Cleared(o) = RowOf(o) /\ RowOf(o) \subseteq Mine(o)
    BY DEF Cleared, RowOf, HeapInv, Right, OwnRow, Mine
  <1> DEFINE g == Released(heap, Cleared(o))
  <1>2. g \in [Objects -> HeapStates] /\ \A x \in Objects : g[x] = IF x \in Cleared(o) THEN "freed" ELSE heap[x]
    BY <1>1, WorksOn, ReleasedLive DEF HeapInv, TypeOK
  <1> HIDE DEF g
  <1> DEFINE S == Handle(o) \cup BoundTo(o)
             T == Worn \ RowOf(o)
  <1>3. \A x \in S \cap Objects : g[x] = "live" \/ x \in T
    BY <1>1, <1>2, WorksOn
  <1>4. o \in Objects /\ g[o] = "live"
    BY <1>1, <1>2, WorksOn
  <1> HIDE DEF S, T
  <1>5. /\ Used(g, S) \in [Objects -> HeapStates]
        /\ \A x \in Objects : Used(g, S)[x] = g[x] \/ (Used(g, S)[x] = "abused" /\ g[x] # "live" /\ x \in T)
    BY <1>2, <1>3, UsedWorn
  <1>6. ASSUME NEW x \in Objects PROVE Clearing(o, Used(g, S), x)
    <2>1. x \in T => x \in Worn /\ x \notin RowOf(o)
      BY DEF T
    <2> QED BY <1>1, <1>2, <1>5, <2>1 DEF Clearing
  <1> QED BY <1>1, <1>4, <1>5, <1>6 DEF g, S

LEMMA CursorsReset ==
    ASSUME NEW c \in Cursors
    PROVE  LET d == [c EXCEPT !.rows = 0, !.cursor = 0]
           IN  d \in Cursors /\ d.targets = c.targets /\ d.bound = c.bound /\ d.rows = 0 /\ d.cursor = 0
  BY DEF Cursors

LEMMA RowNone ==
    ASSUME NEW r \in Statements
    PROVE  LET q == [r EXCEPT !.row = None]
           IN  /\ q \in Statements /\ q.row = None /\ q.state = r.state /\ q.svc = r.svc /\ q.stmt = r.stmt
               /\ q.binds = r.binds /\ q.index = r.index /\ q.select = r.select
  BY DEF Statements

LEMMA ExecuteFailsStep ==
    ASSUME OraAssumption, HeapInv, NEW o \in Stmts, ExecuteFails(o)
    PROVE  HeapInv'
  <1>1. Ready(o) /\ stmt[o] \in Statements /\ oci[o] \in Cursors /\ StmtTypes
    BY DEF ExecuteFails, HeapInv, TypeOK, StmtTypes
  <1>2. /\ heap' \in [Objects -> HeapStates]
        /\ \A x \in Objects : Clearing(o, heap', x)
        /\ heap'[o] = "live" /\ Cleared(o) = RowOf(o) /\ RowOf(o) \subseteq Mine(o)
    BY <1>1, Clears DEF ExecuteFails, Mine
  <1> DEFINE r == [stmt[o] EXCEPT !.row = None]
             c == [oci[o] EXCEPT !.rows = 0, !.cursor = 0]
  <1>3. /\ r \in Statements /\ r.row = None /\ r.state = stmt[o].state /\ r.svc = stmt[o].svc
        /\ r.stmt = stmt[o].stmt /\ r.binds = stmt[o].binds
    BY <1>1, RowNone
  <1>4. c \in Cursors /\ c.targets = oci[o].targets /\ c.bound = oci[o].bound
    BY <1>1, CursorsReset
  <1>5. stmt' = [stmt EXCEPT ![o] = r]
    <2>1. CASE Cleared(o) = {}
      <3>1. stmt[o].row = None
        BY <1>2, <2>1 DEF RowOf
      <3>2. stmt' = [stmt EXCEPT ![o].row = None]
        BY <2>1, <3>1 DEF ExecuteFails, HeapInv, TypeOK, StmtTypes
      <3> QED BY <3>2
    <2>2. CASE Cleared(o) # {}
      BY <2>2 DEF ExecuteFails
    <2> QED BY <2>1, <2>2
  <1>6. oci' = [oci EXCEPT ![o] = c]
    BY DEF ExecuteFails
  <1> HIDE DEF r, c
  <1>7. /\ StmtTypes' /\ stmt'[o] = r /\ oci'[o] = c
        /\ \A p \in Stmts : p # o => stmt'[p] = stmt[p] /\ oci'[p] = oci[p]
    BY <1>1, <1>3, <1>4, <1>5, <1>6, StmtSet
  <1>8. TypeOK'
    BY <1>2, <1>7, DisturbedType DEF ExecuteFails, HeapInv, TypeOK, LoopTypes
  <1>9. RowOf(o)' = {} /\ Buffered(o)' = Buffered(o) /\ BoundTo(o)' = BoundTo(o)
    BY <1>3, <1>4, <1>7 DEF RowOf, Buffered, BoundTo
  <1>10. Right(o)'
    <2>1. OwnRow(o)'
      BY <1>3, <1>7 DEF OwnRow
    <2>2. WithSession(o)' /\ stmt'[o].stmt /\ BoundTo(o)' \subseteq Buffered(o)'
      BY <1>1, <1>3, <1>7, <1>9 DEF WithSession, ExecuteFails, HeapInv, Right, Ready
    <2> QED BY <2>1, <2>2 DEF Right
  <1> DEFINE new == {}
             old == RowOf(o)
  <1>11. /\ new \in SUBSET Buffers /\ old \in SUBSET Mine(o) /\ \A b \in new : heap[b] = "none"
         /\ Exchanged(o, new, old)
    BY <1>2 DEF Exchanged, Clearing, Kept
  <1>12. Mine(o)' = (Mine(o) \ old) \cup new
    <2>1. RowOf(o) \cap Buffered(o) = {}
      BY DEF HeapInv, Right, OwnRow, RowOf
    <2> QED BY <1>9, <2>1 DEF Mine
  <1>13. heap'[o] = "live" /\ stmt'[o].stmt /\ UNCHANGED <<session, orphaned, stale>>
    BY <1>1, <1>2, <1>3, <1>7 DEF Ready, ExecuteFails
  <1> HIDE DEF new, old
  <1> QED BY <1>7, <1>8, <1>10, <1>11, <1>12, <1>13, StmtChanges

LEMMA ExecuteChangeStep ==
    ASSUME OraAssumption, HeapInv, NEW o \in Stmts, ExecuteChange(o)
    PROVE  HeapInv'
  <1>1. /\ Ready(o) /\ stmt[o] \in Statements /\ oci[o] \in Cursors /\ StmtTypes
        /\ heap \in [Objects -> HeapStates]
    BY DEF ExecuteChange, HeapInv, TypeOK, StmtTypes
  <1>2. /\ heap' \in [Objects -> HeapStates] /\ heap'[o] = "live"
        /\ \A x \in Objects : Kept(x)
    <2> DEFINE S == Handle(o) \cup BoundTo(o)
    <2>1. heap' = Used(heap, S) /\ \A x \in S \cap Objects : heap[x] = "live" \/ x \in Worn
      BY <1>1, WorksOn DEF ExecuteChange
    <2> HIDE DEF S
    <2>2. o \in Objects /\ heap[o] = "live"
      BY <1>1, WorksOn
    <2> QED BY <1>1, <2>1, <2>2, UsedWorn DEF Kept
  <1> DEFINE r == [stmt[o] EXCEPT !.executed = TRUE]
  <1>3. /\ r \in Statements /\ r.row = stmt[o].row /\ r.state = stmt[o].state /\ r.svc = stmt[o].svc
        /\ r.stmt = stmt[o].stmt /\ r.binds = stmt[o].binds /\ r.executed /\ r.select = stmt[o].select
    BY <1>1 DEF Statements
  <1>4. stmt' = [stmt EXCEPT ![o] = r]
    BY DEF ExecuteChange
  <1> HIDE DEF r
  <1>5. oci' = [oci EXCEPT ![o] = oci[o]]
    BY <1>1 DEF ExecuteChange, StmtTypes
  <1>6. /\ StmtTypes' /\ stmt'[o] = r /\ oci'[o] = oci[o]
        /\ \A p \in Stmts : p # o => stmt'[p] = stmt[p] /\ oci'[p] = oci[p]
    BY <1>1, <1>3, <1>4, <1>5, StmtSet
  <1>7. TypeOK'
    BY <1>1, <1>2, <1>6 DEF ExecuteChange, HeapInv, TypeOK, LoopTypes
  <1>8. RowOf(o)' = RowOf(o) /\ Buffered(o)' = Buffered(o) /\ BoundTo(o)' = BoundTo(o)
    BY <1>3, <1>6 DEF RowOf, Buffered, BoundTo
  <1>9. Right(o)' /\ Mine(o)' = Mine(o)
    <2>1. OwnRow(o)'
      <3>1. UNCHANGED stale /\ OwnRow(o)
        BY DEF ExecuteChange, HeapInv, Right
      <3> QED BY <1>3, <1>6, <1>8, <3>1 DEF OwnRow
    <2>2. WithSession(o)' /\ stmt'[o].stmt
      BY <1>1, <1>3, <1>6 DEF WithSession, ExecuteChange, HeapInv, Right, Ready
    <2> QED BY <1>8, <2>1, <2>2 DEF HeapInv, Right, Mine
  <1> DEFINE new == {}
             old == {}
  <1>10. /\ new \in SUBSET Buffers /\ old \in SUBSET Mine(o) /\ \A b \in new : heap[b] = "none"
         /\ Exchanged(o, new, old)
         /\ Mine(o)' = (Mine(o) \ old) \cup new
    BY <1>2, <1>9 DEF Exchanged
  <1>11. heap'[o] = "live" /\ stmt'[o].stmt /\ UNCHANGED <<session, orphaned, stale>>
    BY <1>1, <1>2, <1>3, <1>6 DEF Ready, ExecuteChange
  <1> HIDE DEF new, old
  <1>12. heap'[o] # "abused" /\ (heap'[o] = "live" <=> stmt'[o].stmt)
    BY <1>11
  <1>13. Right(o)'
    BY <1>9
  <1> QED BY <1>6, <1>7, <1>10, <1>11, <1>12, <1>13, StmtChanges

LEMMA ExecuteSelectStep ==
    ASSUME OraAssumption, HeapInv, NEW o \in Stmts, ExecuteSelect(o)
    PROVE  HeapInv'
  <1>1. Ready(o) /\ stmt[o] \in Statements /\ oci[o] \in Cursors /\ StmtTypes /\ stmt[o].select
    BY DEF ExecuteSelect, HeapInv, TypeOK, StmtTypes
  <1> DEFINE h == Used(Released(heap, Cleared(o)), Handle(o) \cup BoundTo(o))
  <1>2. PICK b \in Buffers \cup {None} :
           /\ DefineRow(o, h, oci[o], b)
           /\ stmt' = [stmt EXCEPT ![o] = WithRow(stmt[o], b)]
    <2>1. PICK b \in Buffers \cup {None} :
             /\ DefineRow(o, h, oci[o], b)
             /\ stmt' = [stmt EXCEPT ![o].executed = TRUE, ![o].row = b]
      BY DEF ExecuteSelect
    <2>2. stmt' = [stmt EXCEPT ![o] = WithRow(stmt[o], b)]
      BY <1>1, <2>1 DEF WithRow, StmtTypes
    <2> HIDE DEF h
    <2> QED BY <2>1, <2>2
  <1>3. /\ h \in [Objects -> HeapStates] /\ h[o] = "live"
        /\ \A x \in Objects : Clearing(o, h, x)
        /\ RowOf(o) \subseteq Mine(o)
    BY <1>1, Clears DEF Mine
  <1> HIDE DEF h
  <1>4. /\ heap' \in [Objects -> HeapStates]
        /\ \A x \in Objects : heap'[x] = IF x \in {b} \ {None} THEN "live" ELSE h[x]
        /\ b # None => heap[b] = "none"
    BY <1>2, <1>3, DefinesHeap
  <1>5. PICK cursor \in Cursors : CursorDefined(o, oci[o], b, cursor)
    BY <1>1, <1>2, DefinesCursor
  <1>6. /\ oci' = [oci EXCEPT ![o] = cursor] /\ cursor.bound = oci[o].bound
        /\ b # None => cursor.targets \subseteq {b} \cup stale'
        /\ stale \subseteq stale' /\ stale' \subseteq stale \cup Buffers
    BY <1>5 DEF CursorDefined
  <1> DEFINE r == WithRow(stmt[o], b)
  <1>7. /\ r \in Statements /\ r.row = b /\ r.state = stmt[o].state /\ r.svc = stmt[o].svc
        /\ r.stmt = stmt[o].stmt /\ r.binds = stmt[o].binds /\ r.executed /\ r.select
    BY <1>1, WithRowType
  <1>8. stmt' = [stmt EXCEPT ![o] = r]
    BY <1>2
  <1> HIDE DEF r
  <1>9. /\ StmtTypes' /\ stmt'[o] = r /\ oci'[o] = cursor
        /\ \A p \in Stmts : p # o => stmt'[p] = stmt[p] /\ oci'[p] = oci[p]
    BY <1>1, <1>6, <1>7, <1>8, StmtSet
  <1>10. TypeOK'
    BY <1>4, <1>6, <1>9, DisturbedType DEF ExecuteSelect, HeapInv, TypeOK, LoopTypes
  <1>11. RowOf(o)' = {b} \ {None} /\ Buffered(o)' = Buffered(o) /\ BoundTo(o)' = BoundTo(o)
    <2>1. RowOf(o)' = {b} \ {None}
      BY <1>7, <1>9 DEF RowOf
    <2> QED BY <1>6, <1>7, <1>9, <2>1 DEF Buffered, BoundTo
  <1>12. b \notin Mine(o) /\ b # o
    <2>1. b = None => b \notin Mine(o) /\ b # o
      BY <1>1, BufferTypes DEF OraAssumption
    <2>2. b # None => b \notin Mine(o) /\ b # o
      BY <1>1, <1>4, WorksOn DEF OraAssumption
    <2> QED BY <2>1, <2>2
  <1>13. Right(o)'
    <2>1. OwnRow(o)'
      BY <1>6, <1>7, <1>9, <1>11, <1>12 DEF OwnRow, Mine
    <2>2. WithSession(o)' /\ stmt'[o].stmt /\ BoundTo(o)' \subseteq Buffered(o)'
      <3>1. /\ stmt'[o].svc = stmt[o].svc /\ stmt'[o].stmt = stmt[o].stmt /\ stmt'[o].state = stmt[o].state
            /\ WithSession(o) /\ stmt[o].stmt /\ BoundTo(o) \subseteq Buffered(o)
        BY <1>1, <1>7, <1>9 DEF HeapInv, Right, Ready
      <3>2. UNCHANGED <<session, orphaned>>
        BY DEF ExecuteSelect
      <3> QED BY <1>11, <3>1, <3>2 DEF WithSession
    <2> QED BY <2>1, <2>2 DEF Right
  <1> DEFINE new == {b} \ {None}
             old == RowOf(o)
  <1>14. /\ new \in SUBSET Buffers /\ old \in SUBSET Mine(o) /\ \A c \in new : heap[c] = "none"
         /\ Exchanged(o, new, old)
    BY <1>3, <1>4 DEF Exchanged, Kept, Clearing
  <1>15. Mine(o)' = (Mine(o) \ old) \cup new
    BY <1>11 DEF Mine, HeapInv, Right, OwnRow, RowOf
  <1>16. heap'[o] # "abused" /\ (heap'[o] = "live" <=> stmt'[o].stmt)
    BY <1>1, <1>3, <1>4, <1>7, <1>9, WorksOn DEF Ready
  <1> HIDE DEF new, old
  <1>17. /\ \A p \in Stmts : p # o => stmt'[p] = stmt[p] /\ oci'[p] = oci[p]
         /\ stale \subseteq stale' /\ UNCHANGED <<session, orphaned>>
    BY <1>6, <1>9 DEF ExecuteSelect
  <1> QED BY <1>10, <1>13, <1>14, <1>15, <1>16, <1>17, StmtChanges

LEMMA CloseStmtStep ==
    ASSUME OraAssumption, HeapInv, NEW o \in Stmts, NEW after \in {"object", "gone"}, CloseStmt(o, after)
    PROVE  HeapInv'
  <1> DEFINE S == (IF stmt[o].stmt THEN {o} ELSE {}) \cup RowOf(o) \cup Buffered(o)
  <1>1. \A x \in S : heap[x] = "live"
    BY BufferTypes DEF HeapInv, TypeOK, StmtsHeld, BuffersHeld, Mine
  <1>2. heap' = Released(heap, S) /\ heap \in [Objects -> HeapStates] /\ StmtTypes
    BY DEF CloseStmt, HeapInv, TypeOK
  <1>3. \A x \in Objects : x \in S <=> (x = o /\ stmt[o].stmt) \/ x \in Mine(o)
    BY DEF Mine
  <1> HIDE DEF S
  <1>4. heap' \in [Objects -> HeapStates] /\ \A x \in Objects : heap'[x] = IF x \in S THEN "freed" ELSE heap[x]
    BY <1>1, <1>2, ReleasedLive
  <1> DEFINE r == [NoStmt EXCEPT !.state = after]
  <1>5. r \in Statements /\ r.row = None /\ r.binds = <<>> /\ ~r.stmt /\ r.svc = None
    <2>1. /\ NoStmt \in Statements /\ NoStmt.row = None /\ NoStmt.binds = <<>> /\ ~NoStmt.stmt
          /\ NoStmt.svc = None
      BY DEF NoStmt, Statements
    <2> QED BY <2>1 DEF Statements
  <1>6. NoCursor \in Cursors /\ NoCursor.bound = [n \in Names |-> None]
    BY DEF NoCursor, Cursors
  <1>7. stmt' = [stmt EXCEPT ![o] = r] /\ oci' = [oci EXCEPT ![o] = NoCursor]
    BY DEF CloseStmt
  <1> HIDE DEF r
  <1>8. /\ StmtTypes' /\ stmt'[o] = r /\ oci'[o] = NoCursor
        /\ \A p \in Stmts : p # o => stmt'[p] = stmt[p] /\ oci'[p] = oci[p]
    BY <1>2, <1>5, <1>6, <1>7, StmtSet
  <1>9. TypeOK'
    BY <1>4, <1>8, DisturbedType DEF CloseStmt, HeapInv, TypeOK, LoopTypes
  <1>10. RowOf(o)' = {} /\ Buffered(o)' = {} /\ BoundTo(o)' = {}
    BY <1>5, <1>6, <1>8 DEF RowOf, Buffered, BoundTo
  <1>11. Right(o)' /\ Mine(o)' = {}
    BY <1>5, <1>8, <1>10 DEF Right, OwnRow, WithSession, Mine, OraAssumption
  <1>12. o \notin Mine(o) /\ o \in Objects
    BY BufferTypes DEF HeapInv, TypeOK, OraAssumption, Objects
  <1> DEFINE new == {}
             old == Mine(o)
  <1>13. /\ new \in SUBSET Buffers /\ old \in SUBSET Mine(o) /\ \A c \in new : heap[c] = "none"
         /\ Exchanged(o, new, old)
         /\ Mine(o)' = (Mine(o) \ old) \cup new
    BY <1>3, <1>4, <1>11 DEF Exchanged, Kept
  <1>14. /\ heap'[o] # "abused" /\ heap'[o] # "live" /\ ~stmt'[o].stmt
         /\ UNCHANGED <<session, orphaned, stale>>
    <2>1. /\ heap[o] # "abused" /\ (heap[o] = "live" <=> stmt[o].stmt)
          /\ heap'[o] = IF stmt[o].stmt THEN "freed" ELSE heap[o]
      BY <1>3, <1>4, <1>12 DEF HeapInv, StmtsHeld, NotAbused, Worn, TypeOK, OraAssumption
    <2>2. ~stmt'[o].stmt
      BY <1>5, <1>8
    <2>3. UNCHANGED <<session, orphaned, stale>>
      BY DEF CloseStmt
    <2> QED BY <2>1, <2>2, <2>3
  <1> HIDE DEF new, old
  <1> QED BY <1>8, <1>9, <1>11, <1>13, <1>14, StmtChanges

\* A statement with one more variable, under the name's number when it is bound
WithBind(r, b) == [r EXCEPT !.binds = Append(@, b)]
Numbered(r, n, k) == [r EXCEPT !.index[n] = k]
LEMMA WithBindType ==
    ASSUME NEW r \in Statements, NEW b \in Buffers
    PROVE  LET q == WithBind(r, b)
           IN  /\ q \in Statements /\ q.row = r.row /\ q.state = r.state /\ q.svc = r.svc /\ q.stmt = r.stmt
               /\ q.executed = r.executed /\ q.select = r.select /\ q.index = r.index
               /\ q.binds = Append(r.binds, b)
  <1>1. r.binds \in Seq(Buffers)
    BY DEF Statements
  <1> DEFINE s == Append(r.binds, b)
  <1>2. s \in Seq(Buffers) /\ WithBind(r, b) = [r EXCEPT !.binds = s]
    BY <1>1, Appended DEF WithBind
  <1> HIDE DEF s
  <1>3. LET q == [r EXCEPT !.binds = s]
        IN  /\ q \in Statements /\ q.row = r.row /\ q.state = r.state /\ q.svc = r.svc /\ q.stmt = r.stmt
            /\ q.executed = r.executed /\ q.select = r.select /\ q.index = r.index /\ q.binds = s
    BY <1>2 DEF Statements
  <1> QED BY <1>2, <1>3 DEF s

LEMMA NumberedType ==
    ASSUME NEW r \in Statements, NEW n \in Names, NEW k \in Nat
    PROVE  LET q == Numbered(r, n, k)
           IN  /\ q \in Statements /\ q.row = r.row /\ q.state = r.state /\ q.svc = r.svc /\ q.stmt = r.stmt
               /\ q.executed = r.executed /\ q.select = r.select /\ q.binds = r.binds
               /\ \A m \in Names : q.index[m] = IF m = n THEN k ELSE r.index[m]
  <1> DEFINE f == [r.index EXCEPT ![n] = k]
  <1>1. r.index \in [Names -> Nat]
    BY DEF Statements
  <1>2. f \in [Names -> Nat] /\ \A m \in Names : f[m] = IF m = n THEN k ELSE r.index[m]
    BY <1>1
  <1>3. Numbered(r, n, k) = [r EXCEPT !.index = f]
    BY DEF Numbered
  <1> HIDE DEF f
  <1> QED BY <1>2, <1>3 DEF Statements

LEMMA BoundType ==
    ASSUME NEW c \in Cursors, NEW n \in Names, NEW b \in Buffers
    PROVE  LET d == [c EXCEPT !.bound[n] = b]
           IN  /\ d \in Cursors /\ d.targets = c.targets /\ d.rows = c.rows /\ d.cursor = c.cursor
               /\ \A m \in Names : d.bound[m] = IF m = n THEN b ELSE c.bound[m]
  <1> DEFINE f == [c.bound EXCEPT ![n] = b]
  <1>1. c.bound \in [Names -> Buffers \cup {None}]
    BY DEF Cursors
  <1>2. f \in [Names -> Buffers \cup {None}] /\ \A m \in Names : f[m] = IF m = n THEN b ELSE c.bound[m]
    BY <1>1
  <1>3. [c EXCEPT !.bound[n] = b] = [c EXCEPT !.bound = f]
    OBVIOUS
  <1> HIDE DEF f
  <1> QED BY <1>2, <1>3 DEF Cursors

\* What bind makes of the statement and of OCI's cursor
BindMakes(o, n, b, r, c) ==
    /\ heap[b] = "none" /\ heap' = Allocated(Used(heap, {o}), {b})
    /\ stmt' = [stmt EXCEPT ![o] = r] /\ oci' = [oci EXCEPT ![o] = c]
    /\ r.row = stmt[o].row /\ r.state = stmt[o].state /\ r.svc = stmt[o].svc /\ r.stmt = stmt[o].stmt
    /\ r.executed = stmt[o].executed /\ r.select = stmt[o].select
    /\ r.binds = Append(stmt[o].binds, b)
    /\ c.targets = oci[o].targets /\ c.rows = oci[o].rows /\ c.cursor = oci[o].cursor
    /\ \/ r.index = stmt[o].index /\ c = oci[o]
       \/ \A m \in Names : /\ r.index[m] = IF m = n THEN Index(o) ELSE stmt[o].index[m]
                           /\ c.bound[m] = IF m = n THEN b ELSE oci[o].bound[m]

LEMMA BindSets ==
    ASSUME StmtTypes, NEW o \in Stmts, NEW n \in Names, Bind(o, n)
    PROVE  \E b \in Buffers, r \in Statements, c \in Cursors : BindMakes(o, n, b, r, c)
  <1>1. stmt[o] \in Statements /\ oci[o] \in Cursors /\ StmtTypes /\ Index(o) \in Nat
    BY DEF StmtTypes, Statements, Index
  <1>2. PICK b \in Buffers :
           /\ heap[b] = "none" /\ heap' = Allocated(Used(heap, {o}), {b})
           /\ \/ /\ stmt' = [stmt EXCEPT ![o].binds = Append(@, b), ![o].index[n] = Index(o)]
                 /\ oci' = [oci EXCEPT ![o].bound[n] = b]
              \/ /\ stmt' = [stmt EXCEPT ![o].binds = Append(@, b)]
                 /\ UNCHANGED oci
    BY DEF Bind
  <1> DEFINE w == WithBind(stmt[o], b)
  <1>3. /\ w \in Statements /\ w.row = stmt[o].row /\ w.state = stmt[o].state /\ w.svc = stmt[o].svc
        /\ w.stmt = stmt[o].stmt /\ w.executed = stmt[o].executed /\ w.select = stmt[o].select
        /\ w.index = stmt[o].index /\ w.binds = Append(stmt[o].binds, b)
    BY <1>1, WithBindType
  <1>4. CASE stmt' = [stmt EXCEPT ![o].binds = Append(@, b)] /\ UNCHANGED oci
    <2>1. stmt' = [stmt EXCEPT ![o] = w] /\ oci' = [oci EXCEPT ![o] = oci[o]]
      BY <1>1, <1>4 DEF WithBind, StmtTypes
    <2> HIDE DEF w
    <2> QED BY <1>1, <1>2, <1>3, <2>1 DEF BindMakes
  <1>5. CASE /\ stmt' = [stmt EXCEPT ![o].binds = Append(@, b), ![o].index[n] = Index(o)]
             /\ oci' = [oci EXCEPT ![o].bound[n] = b]
    <2> DEFINE r == Numbered(w, n, Index(o))
               c == [oci[o] EXCEPT !.bound[n] = b]
    <2>1. stmt' = [stmt EXCEPT ![o] = r]
      BY <1>1, <1>5 DEF WithBind, Numbered, StmtTypes
    <2>2. oci' = [oci EXCEPT ![o] = c]
      BY <1>1, <1>5 DEF StmtTypes
    <2> HIDE DEF w
    <2>3. /\ r \in Statements /\ r.row = w.row /\ r.state = w.state /\ r.svc = w.svc /\ r.stmt = w.stmt
          /\ r.executed = w.executed /\ r.select = w.select /\ r.binds = w.binds
          /\ \A m \in Names : r.index[m] = IF m = n THEN Index(o) ELSE w.index[m]
      BY <1>1, <1>3, NumberedType
    <2>4. /\ c \in Cursors /\ c.targets = oci[o].targets /\ c.rows = oci[o].rows /\ c.cursor = oci[o].cursor
          /\ \A m \in Names : c.bound[m] = IF m = n THEN b ELSE oci[o].bound[m]
      BY <1>1, BoundType
    <2> HIDE DEF r, c
    <2>5. /\ heap[b] = "none" /\ heap' = Allocated(Used(heap, {o}), {b})
          /\ r.row = stmt[o].row /\ r.state = stmt[o].state /\ r.svc = stmt[o].svc /\ r.stmt = stmt[o].stmt
          /\ r.executed = stmt[o].executed /\ r.select = stmt[o].select
          /\ r.binds = Append(stmt[o].binds, b)
          /\ \A m \in Names : r.index[m] = IF m = n THEN Index(o) ELSE stmt[o].index[m]
      BY <1>2, <1>3, <2>3
    <2> b \in Buffers /\ r \in Statements /\ c \in Cursors
      BY <2>3, <2>4
    <2> WITNESS b \in Buffers, r \in Statements, c \in Cursors
    <2> QED BY <2>1, <2>2, <2>4, <2>5 DEF BindMakes
  <1> QED BY <1>2, <1>4, <1>5

LEMMA BindStep ==
    ASSUME OraAssumption, HeapInv, NEW o \in Stmts, NEW n \in Names, Bind(o, n)
    PROVE  HeapInv'
  <1>0. StmtTypes
    BY DEF HeapInv, TypeOK
  <1>01. PICK b \in Buffers, r \in Statements, c \in Cursors : BindMakes(o, n, b, r, c)
    BY <1>0, BindSets
  <1>1. /\ heap[b] = "none" /\ heap' = Allocated(Used(heap, {o}), {b})
        /\ stmt' = [stmt EXCEPT ![o] = r] /\ oci' = [oci EXCEPT ![o] = c]
        /\ r.row = stmt[o].row /\ r.state = stmt[o].state /\ r.svc = stmt[o].svc /\ r.stmt = stmt[o].stmt
        /\ r.executed = stmt[o].executed /\ r.select = stmt[o].select
        /\ r.binds = Append(stmt[o].binds, b)
        /\ c.targets = oci[o].targets /\ c.rows = oci[o].rows /\ c.cursor = oci[o].cursor
        /\ \/ r.index = stmt[o].index /\ c = oci[o]
           \/ \A m \in Names : /\ r.index[m] = IF m = n THEN Index(o) ELSE stmt[o].index[m]
                               /\ c.bound[m] = IF m = n THEN b ELSE oci[o].bound[m]
    BY <1>01 DEF BindMakes
  <1>2. /\ Ready(o) /\ StmtTypes /\ stmt[o].binds \in Seq(Buffers) /\ heap \in [Objects -> HeapStates]
        /\ UNCHANGED <<session, iter, orphaned, stale>>
    BY DEF Bind, HeapInv, TypeOK, StmtTypes, Statements
  <1>3. /\ StmtTypes' /\ stmt'[o] = r /\ oci'[o] = c
        /\ \A p \in Stmts : p # o => stmt'[p] = stmt[p] /\ oci'[p] = oci[p]
    BY <1>1, <1>2, StmtSet
  <1>4. heap' = Allocated(heap, {b})
    <2>1. \A x \in {o} \cap Objects : heap[x] = "live"
      BY <1>2, WorksOn DEF Handle
    <2> QED BY <1>1, <1>2, <2>1, UsedLive
  <1>5. heap' \in [Objects -> HeapStates] /\ \A x \in Objects : heap'[x] = IF x \in {b} THEN "live" ELSE heap[x]
    BY <1>2, <1>4, AllocatedAll
  <1>6. TypeOK'
    BY <1>2, <1>3, <1>5 DEF HeapInv, TypeOK, LoopTypes
  <1>7. Buffered(o)' = Buffered(o) \cup {b} /\ RowOf(o)' = RowOf(o)
    <2>1. Buffered(o)' = {Append(stmt[o].binds, b)[k] : k \in DOMAIN Append(stmt[o].binds, b)}
      BY <1>1, <1>3 DEF Buffered
    <2>2. Buffered(o)' = {stmt[o].binds[k] : k \in DOMAIN stmt[o].binds} \cup {b}
      BY <1>2, <2>1, Appended
    <2> QED BY <1>1, <1>3, <2>2 DEF Buffered, RowOf
  <1>8. BoundTo(o)' \subseteq BoundTo(o) \cup {b}
    BY <1>1, <1>3 DEF BoundTo
  <1>9. b \notin Mine(o) /\ b # o /\ b \in Objects
    BY <1>1, <1>2, WorksOn DEF OraAssumption, Objects
  <1>10. Right(o)'
    <2>1. OwnRow(o)'
      <3>1. UNCHANGED stale /\ OwnRow(o) /\ c.targets = oci[o].targets
        BY <1>1, <1>2 DEF HeapInv, Right
      <3>2. stmt[o].row # None => stmt[o].row \in Mine(o)
        BY DEF Mine, RowOf
      <3> QED BY <1>1, <1>3, <1>7, <1>9, <3>1, <3>2 DEF OwnRow
    <2>2. WithSession(o)' /\ stmt'[o].stmt
      <3>1. /\ stmt'[o].svc = stmt[o].svc /\ stmt'[o].stmt = stmt[o].stmt /\ stmt'[o].state = stmt[o].state
            /\ WithSession(o) /\ stmt[o].stmt
        BY <1>1, <1>2, <1>3 DEF HeapInv, Right, Ready
      <3> QED BY <1>2, <3>1 DEF WithSession
    <2> QED BY <1>7, <1>8, <2>1, <2>2 DEF HeapInv, Right
  <1> DEFINE new == {b}
             old == {}
  <1>11. /\ new \in SUBSET Buffers /\ old \in SUBSET Mine(o) /\ \A d \in new : heap[d] = "none"
         /\ Exchanged(o, new, old)
    BY <1>1, <1>5 DEF Exchanged, Kept
  <1>12. Mine(o)' = (Mine(o) \ old) \cup new
    BY <1>7 DEF Mine
  <1>13. heap'[o] # "abused" /\ (heap'[o] = "live" <=> stmt'[o].stmt)
    <2>1. o \in Objects /\ heap[o] = "live"
      BY <1>2, WorksOn DEF Handle
    <2>2. stmt'[o].stmt
      BY <1>1, <1>2, <1>3 DEF Ready
    <2> QED BY <1>5, <1>9, <2>1, <2>2
  <1>14. \A p \in Stmts : p # o => stmt'[p] = stmt[p] /\ oci'[p] = oci[p]
    BY <1>3
  <1>15. UNCHANGED <<session, orphaned, stale>>
    BY <1>2
  <1> HIDE DEF new, old
  <1> QED BY <1>6, <1>10, <1>11, <1>12, <1>13, <1>14, <1>15, StmtChanges

LEMMA AtStep ==
    ASSUME OraAssumption, HeapInv, NEW o \in Stmts, NEW k, At(o, k)
    PROVE  HeapInv'
  <1>1. heap[stmt[o].binds[k]] = "live"
    BY BufferTypes DEF At, HeapInv, TypeOK, BuffersHeld, Mine, Buffered
  <1>2. heap' = heap
    BY <1>1, UsedLive DEF At, HeapInv, TypeOK
  <1>3. TypeOK'
    BY <1>2 DEF At, HeapInv, TypeOK, StmtTypes, LoopTypes
  <1> QED BY <1>2, <1>3, NothingChanges DEF At, Kept
--------------------------------------------------------------------------------
(***************************************************************************)
(* Rows.                                                                   *)
(***************************************************************************)
\* OCI's cursor moves.
LEMMA CursorMoves ==
    ASSUME StmtTypes, NEW o \in Stmts, NEW n \in Nat, oci' = [oci EXCEPT ![o].cursor = n]
    PROVE  /\ oci' \in [Stmts -> Cursors]
           /\ \A p \in Stmts : /\ oci'[p].targets = oci[p].targets /\ oci'[p].bound = oci[p].bound
                               /\ oci'[p].rows = oci[p].rows
                               /\ oci'[p].cursor = IF p = o THEN n ELSE oci[p].cursor
  BY DEF StmtTypes, Cursors

\* An iterator after the next row
Moved(l, given, alone) == [l EXCEPT !.state = "on", !.first = FALSE, !.given = given, !.alone = alone]
LEMMA MovedType ==
    ASSUME NEW l \in Loops, NEW given \in Nat, NEW alone \in BOOLEAN
    PROVE  LET m == Moved(l, given, alone)
           IN  /\ m \in Loops /\ m.of = l.of /\ m.state = "on" /\ ~m.first /\ m.given = given
               /\ m.alone = alone
  <1> DEFINE k == [l EXCEPT !.state = "on", !.first = FALSE]
  <1>1. k \in Loops /\ k.of = l.of /\ k.state = "on" /\ ~k.first
    BY DEF Loops
  <1>2. Moved(l, given, alone) = [k EXCEPT !.given = given, !.alone = alone]
    BY DEF Moved
  <1> HIDE DEF k
  <1> QED BY <1>1, <1>2 DEF Loops

LEMMA LoopEnds ==
    ASSUME NEW l \in Loops, NEW state \in {"ended", "failed"}
    PROVE  LET m == [l EXCEPT !.state = state, !.first = FALSE]
           IN  m \in Loops /\ m.of = l.of /\ m.state = state /\ ~m.first /\ m.given = l.given /\ m.alone = l.alone
  BY DEF Loops

LEMMA LoopEndsType ==
    ASSUME LoopTypes, NEW i \in Iters, NEW state \in {"ended", "failed"},
           iter' = [iter EXCEPT ![i].state = state, ![i].first = FALSE]
    PROVE  LoopTypes'
  <1> DEFINE l == [iter[i] EXCEPT !.state = state, !.first = FALSE]
  <1>1. iter[i] \in Loops
    BY DEF LoopTypes
  <1>2. l \in Loops
    BY <1>1, LoopEnds
  <1>3. iter' = [iter EXCEPT ![i] = l]
    OBVIOUS
  <1> HIDE DEF l
  <1> QED BY <1>2, <1>3 DEF LoopTypes

LEMMA NoLoopType == NoIter \in Loops /\ ~NoIter.alone
  BY DEF NoIter, Loops

LEMMA RowsOfStep ==
    ASSUME OraAssumption, HeapInv, NEW o \in Stmts, NEW i \in Iters, RowsOf(o, i)
    PROVE  HeapInv'
  <1> DEFINE l == [NoIter EXCEPT !.state = "on", !.of = o, !.first = TRUE]
  <1>1. l \in Loops
    BY NoLoopType DEF Loops
  <1>2. iter' = [iter EXCEPT ![i] = l] /\ UNCHANGED <<heap, session, stmt, oci, orphaned, stale>>
    BY DEF RowsOf
  <1> HIDE DEF l
  <1>3. TypeOK'
    BY <1>1, <1>2 DEF HeapInv, TypeOK, StmtTypes, LoopTypes
  <1> QED BY <1>2, <1>3, NothingChanges DEF Kept

LEMMA RowsNothingStep ==
    ASSUME OraAssumption, HeapInv, NEW i \in Iters, RowsNothing(i) \/ DropIter(i)
    PROVE  HeapInv'
  <1>1. CASE RowsNothing(i)
    <2>1. iter' = [iter EXCEPT ![i].state = "ended", ![i].first = FALSE]
      BY <1>1 DEF RowsNothing
    <2>2. LoopTypes'
      BY <2>1, LoopEndsType DEF HeapInv, TypeOK
    <2> QED BY <1>1, <2>2, NothingChanges DEF Kept, RowsNothing, HeapInv, TypeOK, StmtTypes
  <1>2. CASE DropIter(i)
    <2>1. LoopTypes'
      BY <1>2, NoLoopType DEF DropIter, HeapInv, TypeOK, LoopTypes, Loops
    <2> QED BY <1>2, <2>1, NothingChanges DEF Kept, DropIter, HeapInv, TypeOK, StmtTypes
  <1> QED BY <1>1, <1>2

\* What the next row makes of the iterator
Given(l) == IF l.first THEN 1 ELSE IF l.alone THEN l.given + 1 ELSE 0
LEMMA RowsNextSets ==
    ASSUME OraAssumption, StmtTypes, LoopTypes, NEW i \in Iters, RowsNext(i)
    PROVE  \E o \in Stmts, l \in Loops :
             /\ iter[i].of = o /\ l.of = o /\ l.state = "on" /\ ~l.first
             /\ l.given = Given(iter[i]) /\ l.alone = (iter[i].first \/ iter[i].alone)
             /\ iter[i] \in Loops /\ From(i) \in Nat /\ From(i) + 1 \in Nat
             /\ iter' = [Disturbed(o) EXCEPT ![i] = l]
             /\ oci' = [oci EXCEPT ![o].cursor = From(i) + 1]
  <1> DEFINE o == iter[i].of
             g == Given(iter[i])
             a == iter[i].first \/ iter[i].alone
             l == Moved(iter[i], g, a)
  <1>1. iter[i] \in Loops /\ o \in Stmts
    BY DEF RowsNext, Fetch, LoopTypes, Loops
  <1>2. g \in Nat /\ a \in BOOLEAN
    BY <1>1 DEF Given, Loops
  <1>3. oci[o] \in Cursors
    BY <1>1 DEF StmtTypes
  <1>4. From(i) \in Nat /\ From(i) + 1 \in Nat
    BY <1>3 DEF From, Cursors
  <1>5. iter' = [Disturbed(o) EXCEPT ![i] = l] /\ oci' = [oci EXCEPT ![o].cursor = From(i) + 1]
    BY DEF RowsNext, Given, Moved
  <1> HIDE DEF g, a
  <1>6. l \in Loops /\ l.of = o /\ l.state = "on" /\ ~l.first /\ l.given = g /\ l.alone = a
    BY <1>1, <1>2, MovedType
  <1> HIDE DEF l
  <1> QED BY <1>1, <1>4, <1>5, <1>6 DEF g, a

LEMMA FetchStep ==
    ASSUME OraAssumption, HeapInv, NEW i \in Iters, RowsNext(i) \/ RowsEnd(i)
    PROVE  HeapInv'
  <1> DEFINE o == iter[i].of
  <1>1. /\ o \in Stmts /\ Ready(o) /\ HasRow(o) /\ heap' = Used(heap, Fetched(o))
        /\ UNCHANGED <<session, stmt, orphaned, stale>>
    BY DEF RowsNext, RowsEnd, Fetch, HeapInv, TypeOK, LoopTypes, Loops
  <1>2. CASE RowsNext(i)
    <2>0. PICK l \in Loops : /\ From(i) + 1 \in Nat
                             /\ iter' = [Disturbed(o) EXCEPT ![i] = l]
                             /\ oci' = [oci EXCEPT ![o].cursor = From(i) + 1]
      BY <1>2, RowsNextSets DEF HeapInv, TypeOK
    <2>1. oci' \in [Stmts -> Cursors] /\ \A p \in Stmts : oci'[p].targets = oci[p].targets /\ oci'[p].bound = oci[p].bound
      BY <1>1, <2>0, CursorMoves DEF HeapInv, TypeOK
    <2>2. LoopTypes'
      BY <2>0, DisturbedType DEF HeapInv, TypeOK, LoopTypes
    <2> QED BY <1>1, <2>1, <2>2, WorksStep
  <1>3. CASE RowsEnd(i)
    <2>1. PICK state \in {"ended", "failed"} : iter' = [iter EXCEPT ![i].state = state, ![i].first = FALSE]
      BY <1>3 DEF RowsEnd
    <2>2. LoopTypes'
      BY <2>1, LoopEndsType DEF HeapInv, TypeOK
    <2> QED BY <1>1, <1>3, <2>2, WorksStep DEF RowsEnd, HeapInv, TypeOK, StmtTypes
  <1> QED BY <1>2, <1>3

LEMMA TableStep ==
    ASSUME OraAssumption, HeapInv, NEW o \in Stmts, Table(o)
    PROVE  HeapInv'
  <1>1. PICK n \in 0..oci[o].rows : oci' = [oci EXCEPT ![o].cursor = n]
    BY DEF Table
  <1>2. oci[o].rows \in Nat
    BY DEF HeapInv, TypeOK, StmtTypes, Cursors
  <1>3. n \in Nat
    BY <1>1, <1>2
  <1>4. oci' \in [Stmts -> Cursors] /\ \A p \in Stmts : oci'[p].targets = oci[p].targets /\ oci'[p].bound = oci[p].bound
    BY <1>1, <1>3, CursorMoves DEF HeapInv, TypeOK
  <1>5. LoopTypes'
    BY DisturbedType DEF Table, HeapInv, TypeOK, LoopTypes
  <1>6. Ready(o) /\ HasRow(o) /\ heap' = Used(heap, Fetched(o)) /\ UNCHANGED <<session, stmt, orphaned, stale>>
    BY DEF Table
  <1> QED BY <1>4, <1>5, <1>6, WorksStep
--------------------------------------------------------------------------------
LEMMA HeapStep ==
    ASSUME OraAssumption, HeapInv, [Next]_vars
    PROVE  HeapInv'
  <1>1. ASSUME NEW s \in Sessions, OfSession(s) PROVE HeapInv'
    BY <1>1, OfSessionStep
  <1>2. ASSUME NEW s \in Sessions, NEW o \in Stmts, Query(s, o) \/ OpenStmt(s, o) PROVE HeapInv'
    BY <1>2, QueryFailsStep, QuerySelectStep, OpenStmtStep DEF Query
  <1>3. ASSUME NEW o \in Stmts, Execute(o) \/ CloseStmt(o, "object") \/ CollectStmt(o) \/ Table(o) PROVE HeapInv'
    BY <1>3, ExecuteFailsStep, ExecuteChangeStep, ExecuteSelectStep, CloseStmtStep, TableStep DEF Execute,
         CollectStmt
  <1>4. ASSUME NEW o \in Stmts, NEW i \in Iters, RowsOf(o, i) PROVE HeapInv'
    BY <1>4, RowsOfStep
  <1>5. ASSUME NEW i \in Iters, RowsNothing(i) \/ RowsNext(i) \/ RowsEnd(i) \/ DropIter(i) PROVE HeapInv'
    BY <1>5, RowsNothingStep, FetchStep
  <1>6. ASSUME NEW o \in Stmts, NEW n \in Names, Bind(o, n) PROVE HeapInv'
    BY <1>6, BindStep
  <1>7. ASSUME NEW o \in Stmts, NEW k \in 1..max_bind_count, At(o, k) PROVE HeapInv'
    BY <1>7, AtStep
  <1>8. CASE UNCHANGED vars
    <2>1. UNCHANGED <<heap, session, stmt, oci, iter, orphaned, stale>>
      BY <1>8 DEF vars
    <2> QED BY <2>1, NothingChanges DEF Kept, HeapInv, TypeOK, StmtTypes, LoopTypes
  <1> QED BY <1>1, <1>2, <1>3, <1>4, <1>5, <1>6, <1>7, <1>8 DEF Next

LEMMA HeapIsSound == ASSUME OraAssumption, HeapInv PROVE OraSafe
  <1>1. DOMAIN heap = Objects /\ \A x \in Objects : heap[x] = "abused" => x \in orphaned \cup stale
    BY DEF HeapInv, TypeOK, NotAbused, Worn
  <1>2. ASSUME NEW x \in Objects, heap[x] = "live" PROVE x \in Held
    <2>1. CASE x \in Sessions
      BY <1>2, <2>1 DEF HeapInv, SessionsHeld, Held
    <2>2. CASE x \in Stmts
      BY <1>2, <2>2 DEF HeapInv, StmtsHeld, Held
    <2>3. CASE x \in Buffers
      <3>1. PICK o \in Stmts : x \in RowOf(o) \cup Buffered(o)
        BY <1>2, <2>3 DEF HeapInv, BuffersHeld, Mine
      <3>2. x \in UNION {RowOf(p) \cup Buffered(p) : p \in Stmts}
        BY <3>1
      <3> QED BY <3>2 DEF Held
    <2> QED BY <2>1, <2>2, <2>3 DEF Objects
  <1> QED BY <1>1, <1>2 DEF OraSafe

\* No session, statement, row or variable is lost, and none is freed twice or used by OCI
\* after it is freed, but for a session closed before its statement and a row with a
\* column that was not defined anew (lua_ora_stmt_execute, OCI_STMT::clear).
LEMMA OraSpecSafe == ASSUME OraAssumption PROVE Spec => []OraSafe
  <1>1. Init => HeapInv
    BY InitHeap
  <1>2. HeapInv /\ [Next]_vars => HeapInv'
    BY HeapStep
  <1>3. HeapInv => OraSafe
    BY HeapIsSound
  <1> QED BY <1>1, <1>2, <1>3, PTL DEF Spec
--------------------------------------------------------------------------------
(***************************************************************************)
(* Variables and loops, whatever scripts do with the session.              *)
(***************************************************************************)
\* A loop that is alone is past its first row, over rows that are still there.
LoopRight(i) == iter[i].alone /\ iter[i].of # None =>
                   LET o == iter[i].of
                   IN  /\ ~iter[i].first /\ Ready(o) /\ HasRow(o)
                       /\ iter[i].given = oci[o].cursor
                       /\ iter[i].state = "ended" => iter[i].given = oci[o].rows
InRange == \A o \in Stmts : oci[o].cursor <= oci[o].rows
Placed(r, c) == \A m \in Names : r.index[m] # 0 => /\ r.index[m] \in DOMAIN r.binds
                                                   /\ r.binds[r.index[m]] = c.bound[m]
OrderInv == /\ StmtTypes /\ LoopTypes /\ InRange
            /\ \A i \in Iters : LoopRight(i)
            /\ \A o \in Stmts : Placed(stmt[o], oci[o])

\* One statement and its cursor change; its loops are disturbed, or none is alone, or
\* the rows are what they were.
LEMMA OrderKept ==
    ASSUME OrderInv, NEW o \in Stmts, NEW r \in Statements, NEW c \in Cursors,
           stmt' = [stmt EXCEPT ![o] = r], oci' = [oci EXCEPT ![o] = c],
           Placed(r, c), c.cursor <= c.rows,
           \/ iter' = Disturbed(o)
           \/ iter' = iter /\ \A i \in Iters : iter[i].alone => iter[i].of # o
           \/ /\ iter' = iter /\ c.rows = oci[o].rows /\ c.cursor = oci[o].cursor
              /\ r.state = stmt[o].state /\ r.stmt = stmt[o].stmt /\ r.row = stmt[o].row
    PROVE  OrderInv'
  <1>1. /\ StmtTypes' /\ stmt'[o] = r /\ oci'[o] = c
        /\ \A p \in Stmts : p # o => stmt'[p] = stmt[p] /\ oci'[p] = oci[p]
    BY StmtSet DEF OrderInv
  <1>2. InRange' /\ \A p \in Stmts : Placed(stmt[p], oci[p])'
    BY <1>1 DEF OrderInv, InRange, Placed
  <1>3. LoopTypes'
    BY DisturbedType DEF OrderInv, LoopTypes
  <1>4. ASSUME NEW i \in Iters PROVE LoopRight(i)'
    <2>1. CASE iter'[i].alone /\ iter[i].of # o /\ iter'[i] = iter[i] /\ iter[i].of # None
      <3>1. iter[i].of \in Stmts
        BY <2>1 DEF OrderInv, LoopTypes, Loops
      <3> QED BY <1>1, <2>1, <3>1 DEF OrderInv, LoopRight, Ready, HasRow
    <2>2. CASE /\ iter' = iter /\ c.rows = oci[o].rows /\ c.cursor = oci[o].cursor /\ iter[i].of = o
               /\ r.state = stmt[o].state /\ r.stmt = stmt[o].stmt /\ r.row = stmt[o].row
      BY <1>1, <2>2 DEF OrderInv, LoopRight, Ready, HasRow
    <2>3. CASE ~iter'[i].alone \/ iter'[i].of = None
      BY <2>3 DEF LoopRight
    <2>4. iter'[i].alone /\ iter'[i] # iter[i] => FALSE
      BY DisturbedType DEF OrderInv
    <2>5. iter' = Disturbed(o) /\ iter'[i].alone => iter[i].of # o
      BY DisturbedType DEF OrderInv
    <2> QED BY <2>1, <2>2, <2>3, <2>4, <2>5
  <1> QED BY <1>1, <1>2, <1>3, <1>4 DEF OrderInv

\* Only iterators change.
LEMMA LoopsChange ==
    ASSUME OrderInv, UNCHANGED <<stmt, oci>>, NEW i \in Iters, NEW l \in Loops,
           iter' = [iter EXCEPT ![i] = l],
           l.alone => /\ iter[i].alone /\ l.of = iter[i].of /\ l.given = iter[i].given /\ ~l.first
                      /\ l.state = "ended" /\ l.of # None => l.given = oci[l.of].rows
    PROVE  OrderInv'
  <1>1. LoopTypes' /\ iter'[i] = l /\ \A j \in Iters : j # i => iter'[j] = iter[j]
    BY DEF OrderInv, LoopTypes
  <1>2. \A j \in Iters : LoopRight(j)'
    BY <1>1 DEF OrderInv, LoopRight, Ready, HasRow
  <1> QED BY <1>1, <1>2 DEF OrderInv, StmtTypes, InRange, Placed

LEMMA InitOrder == ASSUME OraAssumption, Init PROVE OrderInv
  <1>1. NoStmt \in Statements /\ NoCursor \in Cursors /\ NoIter \in Loops /\ ~NoIter.alone
    BY DEF NoStmt, NoCursor, NoIter, Statements, Cursors, Loops
  <1>2. Placed(NoStmt, NoCursor) /\ NoCursor.cursor <= NoCursor.rows
    BY DEF Placed, NoStmt, NoCursor
  <1> QED BY <1>1, <1>2 DEF Init, OrderInv, StmtTypes, LoopTypes, InRange, LoopRight

LEMMA OrderImplies == ASSUME OrderInv PROVE BindsInPlace /\ OraRows
  BY DEF OrderInv, Placed, LoopRight, BindsInPlace, OraRows

\* A statement that is made has had no loops.
LEMMA NewInOrder ==
    ASSUME OraAssumption, OrderInv, NEW s \in Sessions, NEW o \in Stmts, QuerySelect(s, o) \/ OpenStmt(s, o)
    PROVE  OrderInv'
  <1>1. iter' = iter /\ \A i \in Iters : iter[i].alone => iter[i].of # o
    BY DEF QuerySelect, OpenStmt, Prepare, OrderInv, LoopRight, Ready, OraAssumption
  <1>2. StmtTypes /\ oci[o] \in Cursors
    BY DEF OrderInv, StmtTypes
  <1>3. CASE QuerySelect(s, o)
    <2> DEFINE h == Allocated(Used(heap, {s}), {o})
    <2>1. PICK b \in Buffers \cup {None} : /\ stmt' = [stmt EXCEPT ![o] = WithRow(New(s, TRUE), b)]
                                         /\ DefineRow(o, h, NoCursor, b)
      BY <1>3 DEF QuerySelect, WithRow
    <2> HIDE DEF h
    <2>2. NoCursor \in Cursors
      BY DEF NoCursor, Cursors
    <2>3. PICK c \in Cursors : CursorDefined(o, NoCursor, b, c)
      BY <2>1, <2>2, DefinesCursor
    <2>4. oci' = [oci EXCEPT ![o] = c] /\ c.cursor <= c.rows
      BY <2>3 DEF CursorDefined
    <2> DEFINE q == New(s, TRUE)
               r == WithRow(q, b)
    <2>5. q \in Statements /\ q.index = [n \in Names |-> 0]
      BY NewType
    <2> HIDE DEF q
    <2>6. r \in Statements /\ r.index = [n \in Names |-> 0]
      BY <2>5, WithRowType
    <2>7. stmt' = [stmt EXCEPT ![o] = r]
      BY <2>1 DEF q
    <2> HIDE DEF r
    <2>8. Placed(r, c)
      BY <2>6 DEF Placed
    <2> QED BY <1>1, <2>3, <2>4, <2>6, <2>7, <2>8, OrderKept
  <1>4. CASE OpenStmt(s, o)
    <2>1. PICK select \in BOOLEAN : stmt' = [stmt EXCEPT ![o] = New(s, select)]
      BY <1>4 DEF OpenStmt
    <2> DEFINE r == New(s, select)
    <2>2. r \in Statements /\ r.index = [n \in Names |-> 0]
      BY NewType
    <2>3. stmt' = [stmt EXCEPT ![o] = r] /\ oci' = [oci EXCEPT ![o] = oci[o]]
      BY <1>2, <1>4, <2>1 DEF OpenStmt, StmtTypes
    <2> HIDE DEF r
    <2>4. Placed(r, oci[o]) /\ oci[o].cursor <= oci[o].rows
      BY <2>2 DEF Placed, OrderInv, InRange
    <2> QED BY <1>1, <1>2, <2>2, <2>3, <2>4, OrderKept
  <1> QED BY <1>3, <1>4

LEMMA ExecuteInOrder ==
    ASSUME OraAssumption, OrderInv, NEW o \in Stmts, Execute(o)
    PROVE  OrderInv'
  <1>1. stmt[o] \in Statements /\ oci[o] \in Cursors /\ Placed(stmt[o], oci[o]) /\ oci[o].cursor <= oci[o].rows
    BY DEF OrderInv, StmtTypes, InRange
  <1>2. CASE ExecuteFails(o)
    <2> DEFINE row == IF Cleared(o) = {} THEN stmt[o].row ELSE None
               r == [stmt[o] EXCEPT !.row = row]
               c == [oci[o] EXCEPT !.rows = 0, !.cursor = 0]
    <2>1. r \in Statements /\ r.binds = stmt[o].binds /\ r.index = stmt[o].index
      <3>1. row \in Buffers \cup {None}
        BY <1>1 DEF Statements
      <3> HIDE DEF row
      <3> QED BY <1>1, <3>1 DEF Statements
    <2>2. c \in Cursors /\ c.bound = oci[o].bound /\ c.rows = 0 /\ c.cursor = 0
      BY <1>1, CursorsReset
    <2>3. stmt' = [stmt EXCEPT ![o] = r]
      BY <1>2 DEF ExecuteFails
    <2>4. oci' = [oci EXCEPT ![o] = c]
      BY <1>2 DEF ExecuteFails
    <2> HIDE DEF r, c
    <2>5. Placed(r, c) /\ c.cursor <= c.rows
      BY <1>1, <2>1, <2>2 DEF Placed
    <2>6. iter' = Disturbed(o)
      BY <1>2 DEF ExecuteFails
    <2> QED BY <2>1, <2>2, <2>3, <2>4, <2>5, <2>6, OrderKept
  <1>3. CASE ExecuteChange(o)
    <2> DEFINE r == [stmt[o] EXCEPT !.executed = TRUE]
    <2>1. /\ r \in Statements /\ r.binds = stmt[o].binds /\ r.index = stmt[o].index
          /\ r.state = stmt[o].state /\ r.stmt = stmt[o].stmt /\ r.row = stmt[o].row
      BY <1>1 DEF Statements
    <2>2. stmt' = [stmt EXCEPT ![o] = r] /\ oci' = [oci EXCEPT ![o] = oci[o]] /\ iter' = iter
      BY <1>3 DEF ExecuteChange, OrderInv, StmtTypes
    <2> HIDE DEF r
    <2>3. Placed(r, oci[o])
      BY <1>1, <2>1 DEF Placed
    <2> QED BY <1>1, <2>1, <2>2, <2>3, OrderKept
  <1>4. CASE ExecuteSelect(o)
    <2> DEFINE h == Used(Released(heap, Cleared(o)), Handle(o) \cup BoundTo(o))
    <2>1. PICK b \in Buffers \cup {None} : /\ stmt' = [stmt EXCEPT ![o].executed = TRUE, ![o].row = b]
                                         /\ DefineRow(o, h, oci[o], b)
      BY <1>4 DEF ExecuteSelect
    <2> HIDE DEF h
    <2>2. PICK c \in Cursors : CursorDefined(o, oci[o], b, c)
      BY <1>1, <2>1, DefinesCursor
    <2>3. oci' = [oci EXCEPT ![o] = c] /\ c.bound = oci[o].bound /\ c.cursor <= c.rows
      BY <2>2 DEF CursorDefined
    <2> DEFINE r == WithRow(stmt[o], b)
    <2>4. r \in Statements /\ r.binds = stmt[o].binds /\ r.index = stmt[o].index
      BY <1>1, WithRowType
    <2>5. stmt' = [stmt EXCEPT ![o] = r]
      BY <1>1, <2>1 DEF WithRow, OrderInv, StmtTypes
    <2> HIDE DEF r
    <2>6. Placed(r, c)
      BY <1>1, <2>3, <2>4 DEF Placed
    <2>7. iter' = Disturbed(o)
      BY <1>4 DEF ExecuteSelect
    <2> QED BY <2>2, <2>3, <2>4, <2>5, <2>6, <2>7, OrderKept
  <1> QED BY <1>2, <1>3, <1>4 DEF Execute

LEMMA CloseInOrder ==
    ASSUME OraAssumption, OrderInv, NEW o \in Stmts, NEW after \in {"object", "gone"}, CloseStmt(o, after)
    PROVE  OrderInv'
  <1> DEFINE r == [NoStmt EXCEPT !.state = after]
  <1>1. r \in Statements /\ r.index = [n \in Names |-> 0]
    <2>1. NoStmt \in Statements /\ NoStmt.index = [n \in Names |-> 0]
      BY DEF NoStmt, Statements
    <2> QED BY <2>1 DEF Statements
  <1>2. NoCursor \in Cursors /\ NoCursor.cursor <= NoCursor.rows
    BY DEF NoCursor, Cursors
  <1>3. stmt' = [stmt EXCEPT ![o] = r] /\ oci' = [oci EXCEPT ![o] = NoCursor] /\ iter' = Disturbed(o)
    BY DEF CloseStmt
  <1> HIDE DEF r
  <1>4. Placed(r, NoCursor)
    BY <1>1 DEF Placed
  <1> QED BY <1>1, <1>2, <1>3, <1>4, OrderKept

LEMMA BindInOrder ==
    ASSUME OraAssumption, OrderInv, NEW o \in Stmts, NEW n \in Names, Bind(o, n)
    PROVE  OrderInv'
  <1>0. PICK b \in Buffers, r \in Statements, c \in Cursors : BindMakes(o, n, b, r, c)
    BY BindSets DEF OrderInv
  <1>1. /\ heap[b] = "none" /\ heap' = Allocated(Used(heap, {o}), {b})
        /\ stmt' = [stmt EXCEPT ![o] = r] /\ oci' = [oci EXCEPT ![o] = c]
        /\ r.row = stmt[o].row /\ r.state = stmt[o].state /\ r.svc = stmt[o].svc /\ r.stmt = stmt[o].stmt
        /\ r.executed = stmt[o].executed /\ r.select = stmt[o].select
        /\ r.binds = Append(stmt[o].binds, b)
        /\ c.targets = oci[o].targets /\ c.rows = oci[o].rows /\ c.cursor = oci[o].cursor
        /\ \/ r.index = stmt[o].index /\ c = oci[o]
           \/ \A m \in Names : /\ r.index[m] = IF m = n THEN Index(o) ELSE stmt[o].index[m]
                               /\ c.bound[m] = IF m = n THEN b ELSE oci[o].bound[m]
    BY <1>0 DEF BindMakes
  <1>2. stmt[o].binds \in Seq(Buffers) /\ Placed(stmt[o], oci[o]) /\ oci[o].cursor <= oci[o].rows
    BY DEF OrderInv, StmtTypes, Statements, InRange
  <1>3. /\ Index(o) \in DOMAIN r.binds /\ r.binds[Index(o)] = b
        /\ \A k \in DOMAIN stmt[o].binds : k \in DOMAIN r.binds /\ r.binds[k] = stmt[o].binds[k]
    <2> DEFINE s == stmt[o].binds
    <2>1. r.binds = Append(s, b) /\ Index(o) = Len(s) + 1 /\ s \in Seq(Buffers)
      BY <1>1, <1>2 DEF Index
    <2> HIDE DEF s
    <2>2. /\ Len(s) + 1 \in DOMAIN r.binds /\ r.binds[Len(s) + 1] = b
          /\ \A k \in DOMAIN s : k \in DOMAIN r.binds /\ r.binds[k] = s[k]
      BY <2>1, Appended
    <2> QED BY <2>1, <2>2 DEF s
  <1>4. Placed(r, c)
    <2>1. ASSUME NEW m \in Names, r.index[m] # 0 PROVE r.index[m] \in DOMAIN r.binds /\ r.binds[r.index[m]] = c.bound[m]
      <3>1. CASE r.index[m] = Index(o) /\ c.bound[m] = b
        BY <1>3, <3>1
      <3>2. CASE r.index[m] = stmt[o].index[m] /\ c.bound[m] = oci[o].bound[m]
        <4>1. stmt[o].index[m] \in DOMAIN stmt[o].binds /\ stmt[o].binds[stmt[o].index[m]] = oci[o].bound[m]
          BY <1>2, <2>1, <3>2 DEF Placed
        <4> QED BY <1>3, <3>2, <4>1
      <3> QED BY <1>1, <3>1, <3>2
    <2> QED BY <2>1 DEF Placed
  <1>5. iter' = iter /\ c.cursor <= c.rows
    BY <1>1, <1>2 DEF Bind
  <1> QED BY <1>1, <1>4, <1>5, OrderKept

\* Loops that begin, that find nothing more, and that are dropped
LEMMA LoopInOrder ==
    ASSUME OraAssumption, OrderInv, NEW i \in Iters,
           (\E o \in Stmts : RowsOf(o, i)) \/ RowsNothing(i) \/ RowsEnd(i) \/ DropIter(i)
    PROVE  OrderInv'
  <1>1. iter \in [Iters -> Loops] /\ UNCHANGED <<stmt, oci>> /\ LoopRight(i)
    BY DEF OrderInv, LoopTypes, RowsOf, RowsNothing, RowsEnd, Fetch, DropIter
  <1>2. ASSUME NEW o \in Stmts, RowsOf(o, i) PROVE OrderInv'
    <2> DEFINE l == [NoIter EXCEPT !.state = "on", !.of = o, !.first = TRUE]
    <2>1. l \in Loops /\ ~l.alone
      BY NoLoopType DEF Loops
    <2>2. iter' = [iter EXCEPT ![i] = l]
      BY <1>2 DEF RowsOf
    <2> HIDE DEF l
    <2> QED BY <1>1, <2>1, <2>2, LoopsChange
  <1>3. ASSUME NEW state \in {"ended", "failed"}, iter' = [iter EXCEPT ![i].first = FALSE, ![i].state = state],
               iter[i].alone /\ state = "ended" /\ iter[i].of # None => iter[i].given = oci[iter[i].of].rows
        PROVE  OrderInv'
    <2> DEFINE l == [iter[i] EXCEPT !.state = state, !.first = FALSE]
    <2>1. l \in Loops /\ l.of = iter[i].of /\ l.state = state /\ ~l.first /\ l.given = iter[i].given /\ l.alone = iter[i].alone
      BY <1>1, LoopEnds
    <2>2. iter' = [iter EXCEPT ![i] = l]
      BY <1>1, <1>3
    <2> HIDE DEF l
    <2>3. l.alone => /\ iter[i].alone /\ l.of = iter[i].of /\ l.given = iter[i].given /\ ~l.first
                     /\ l.state = "ended" /\ l.of # None => l.given = oci[l.of].rows
      BY <1>3, <2>1
    <2> QED BY <1>1, <2>1, <2>2, <2>3, LoopsChange
  <1>4. CASE RowsNothing(i)
    <2>1. ~iter[i].alone
      BY <1>1, <1>4 DEF RowsNothing, LoopRight
    <2> QED BY <1>3, <1>4, <2>1 DEF RowsNothing
  <1>5. CASE RowsEnd(i)
    <2>1. PICK state \in (IF From(i) < oci[iter[i].of].rows THEN {"failed"} ELSE {"ended", "failed"}) :
             iter' = [iter EXCEPT ![i].state = state, ![i].first = FALSE]
      BY <1>5 DEF RowsEnd
    <2>2. ASSUME iter[i].alone, state = "ended", iter[i].of # None PROVE iter[i].given = oci[iter[i].of].rows
      <3> DEFINE o == iter[i].of
      <3>1. o \in Stmts
        BY <1>1, <2>2 DEF Loops
      <3>2. oci[o].cursor \in Nat /\ oci[o].rows \in Nat /\ oci[o].cursor <= oci[o].rows
        BY <3>1 DEF OrderInv, StmtTypes, Cursors, InRange
      <3>3. From(i) = oci[o].cursor /\ iter[i].given = oci[o].cursor
        BY <1>1, <2>2 DEF LoopRight, From
      <3>4. ~(From(i) < oci[o].rows)
        BY <2>1, <2>2
      <3> QED BY <3>2, <3>3, <3>4
    <2>3. iter' = [iter EXCEPT ![i].first = FALSE, ![i].state = state]
      BY <2>1
    <2>4. state \in {"ended", "failed"}
      BY <2>1
    <2> QED BY <1>3, <2>2, <2>3, <2>4
  <1>6. CASE DropIter(i)
    <2> DEFINE l == [NoIter EXCEPT !.state = "gone"]
    <2>1. l \in Loops /\ ~l.alone
      BY NoLoopType DEF Loops
    <2>2. iter' = [iter EXCEPT ![i] = l]
      BY <1>6 DEF DropIter
    <2> HIDE DEF l
    <2> QED BY <1>1, <2>1, <2>2, LoopsChange
  <1> QED BY <1>2, <1>4, <1>5, <1>6

LEMMA RowsNextInOrder ==
    ASSUME OraAssumption, OrderInv, NEW i \in Iters, RowsNext(i)
    PROVE  OrderInv'
  <1>1. PICK o \in Stmts, l \in Loops :
             /\ iter[i].of = o /\ l.of = o /\ l.state = "on" /\ ~l.first
             /\ l.given = Given(iter[i]) /\ l.alone = (iter[i].first \/ iter[i].alone)
             /\ iter[i] \in Loops /\ From(i) \in Nat /\ From(i) + 1 \in Nat
             /\ iter' = [Disturbed(o) EXCEPT ![i] = l]
             /\ oci' = [oci EXCEPT ![o].cursor = From(i) + 1]
    BY RowsNextSets DEF OrderInv
  <1>2. UNCHANGED stmt /\ Ready(o) /\ HasRow(o) /\ From(i) < oci[o].rows /\ oci[o].rows \in Nat
    BY <1>1 DEF RowsNext, Fetch, OrderInv, StmtTypes, Cursors
  <1>3. /\ oci' \in [Stmts -> Cursors]
        /\ \A p \in Stmts : /\ oci'[p].bound = oci[p].bound /\ oci'[p].rows = oci[p].rows
                            /\ oci'[p].cursor = IF p = o THEN From(i) + 1 ELSE oci[p].cursor
    BY <1>1, CursorMoves DEF OrderInv
  <1>4. /\ LoopTypes' /\ iter'[i] = l
        /\ \A j \in Iters : j # i => iter'[j] = Disturbed(o)[j]
    BY <1>1, DisturbedType DEF OrderInv, LoopTypes
  <1>5. InRange'
    <2>1. From(i) + 1 <= oci[o].rows
      BY <1>1, <1>2
    <2> QED BY <1>3, <2>1 DEF OrderInv, InRange
  <1>6. \A p \in Stmts : Placed(stmt[p], oci[p])'
    BY <1>2, <1>3 DEF OrderInv, Placed
  <1>7. l.alone => l.given = From(i) + 1
    <2>1. CASE iter[i].first
      BY <1>1, <2>1 DEF Given, From
    <2>2. CASE ~iter[i].first /\ iter[i].alone
      <3>1. iter[i].of # None
        BY <1>1 DEF OraAssumption
      <3>2. From(i) = oci[o].cursor /\ l.given = iter[i].given + 1 /\ iter[i].given = oci[o].cursor
        BY <1>1, <2>2, <3>1 DEF OrderInv, LoopRight, Given, From
      <3> QED BY <3>2
    <2> QED BY <1>1, <2>1, <2>2
  <1>8. ASSUME NEW j \in Iters PROVE LoopRight(j)'
    <2>1. CASE j = i
      BY <1>1, <1>2, <1>3, <1>4, <1>7, <2>1 DEF LoopRight, Ready, HasRow
    <2>2. CASE j # i /\ iter'[j].alone /\ iter'[j].of # None
      <3>1. iter'[j] = iter[j] /\ iter[j].of # o
        BY <1>4, <2>2, DisturbedType DEF OrderInv
      <3>2. iter[j].of \in Stmts
        BY <2>2, <3>1 DEF OrderInv, LoopTypes, Loops
      <3> QED BY <1>2, <1>3, <2>2, <3>1, <3>2 DEF OrderInv, LoopRight, Ready, HasRow
    <2>3. CASE ~iter'[j].alone \/ iter'[j].of = None
      BY <2>3 DEF LoopRight
    <2> QED BY <2>1, <2>2, <2>3
  <1> QED BY <1>2, <1>3, <1>4, <1>5, <1>6, <1>8 DEF OrderInv, StmtTypes

LEMMA TableInOrder ==
    ASSUME OraAssumption, OrderInv, NEW o \in Stmts, Table(o)
    PROVE  OrderInv'
  <1>1. PICK n \in 0..oci[o].rows : oci' = [oci EXCEPT ![o].cursor = n]
    BY DEF Table
  <1>2. oci[o] \in Cursors /\ oci[o].rows \in Nat /\ n \in Nat /\ n <= oci[o].rows
    BY <1>1 DEF OrderInv, StmtTypes, Cursors
  <1> DEFINE c == [oci[o] EXCEPT !.cursor = n]
  <1>3. c \in Cursors /\ c.bound = oci[o].bound /\ c.cursor <= c.rows
    BY <1>2 DEF Cursors
  <1>4. /\ oci' = [oci EXCEPT ![o] = c] /\ stmt' = [stmt EXCEPT ![o] = stmt[o]]
        /\ iter' = Disturbed(o) /\ stmt[o] \in Statements
    BY <1>1 DEF Table, OrderInv, StmtTypes
  <1> HIDE DEF c
  <1>5. Placed(stmt[o], c)
    BY <1>3 DEF OrderInv, Placed
  <1> QED BY <1>3, <1>4, <1>5, OrderKept

LEMMA OrderStep ==
    ASSUME OraAssumption, OrderInv, [Next]_vars
    PROVE  OrderInv'
  <1>1. CASE UNCHANGED <<stmt, oci, iter>>
    BY <1>1 DEF OrderInv, StmtTypes, LoopTypes, InRange, LoopRight, Ready, HasRow, Placed
  <1>2. ASSUME NEW s \in Sessions, OfSession(s) PROVE OrderInv'
    BY <1>1, <1>2 DEF OfSession, Open, Close, End
  <1>3. ASSUME NEW s \in Sessions, NEW o \in Stmts, Query(s, o) \/ OpenStmt(s, o) PROVE OrderInv'
    <2>1. QueryFails(s, o) \/ QueryChange(s, o) => UNCHANGED <<stmt, oci, iter>>
      BY DEF QueryFails, QueryChange
    <2> QED BY <1>1, <1>3, <2>1, NewInOrder DEF Query
  <1>4. ASSUME NEW o \in Stmts, Execute(o) \/ CloseStmt(o, "object") \/ CollectStmt(o) \/ Table(o) PROVE OrderInv'
    BY <1>4, ExecuteInOrder, CloseInOrder, TableInOrder DEF CollectStmt
  <1>5. ASSUME NEW o \in Stmts, NEW i \in Iters, RowsOf(o, i) PROVE OrderInv'
    BY <1>5, LoopInOrder
  <1>6. ASSUME NEW i \in Iters, RowsNothing(i) \/ RowsNext(i) \/ RowsEnd(i) \/ DropIter(i) PROVE OrderInv'
    BY <1>6, LoopInOrder, RowsNextInOrder
  <1>7. ASSUME NEW o \in Stmts, NEW n \in Names, Bind(o, n) PROVE OrderInv'
    BY <1>7, BindInOrder
  <1>8. ASSUME NEW o \in Stmts, NEW k \in 1..max_bind_count, At(o, k) PROVE OrderInv'
    BY <1>1, <1>8 DEF At
  <1>9. CASE UNCHANGED vars
    BY <1>1, <1>9 DEF vars
  <1> QED BY <1>2, <1>3, <1>4, <1>5, <1>6, <1>7, <1>8, <1>9 DEF Next

\* The number bind has returned for a variable is that of the buffer OCI has for it,
\* for any number of variables, also after others could not be bound (lua_ora_stmt_bind).
LEMMA OraSpecInPlace == ASSUME OraAssumption PROVE Spec => []BindsInPlace
  <1>1. Init => OrderInv
    BY InitOrder
  <1>2. OrderInv /\ [Next]_vars => OrderInv'
    BY OrderStep
  <1>3. OrderInv => BindsInPlace
    BY OrderImplies
  <1> QED BY <1>1, <1>2, <1>3, PTL DEF Spec

\* A loop over rows() that nothing disturbs has been given the rows up to OCI's cursor,
\* and all when it ends, for any number of rows and loops (lua_ora_stmt_rows_next).
LEMMA OraSpecInOrder == ASSUME OraAssumption PROVE Spec => []OraRows
  <1>1. Init => OrderInv
    BY InitOrder
  <1>2. OrderInv /\ [Next]_vars => OrderInv'
    BY OrderStep
  <1>3. OrderInv => OraRows
    BY OrderImplies
  <1> QED BY <1>1, <1>2, <1>3, PTL DEF Spec
--------------------------------------------------------------------------------
(***************************************************************************)
(* memcached (Memcache): what is in range, and what is under way.          *)
(***************************************************************************)
\* The keys given to set are one word.
PlainKeys == \A k \in SetKeys : Len(k) = 1

McAllKeys == SetKeys \cup Keys
McFound == Values \cup {Mcache!Nothing}
McValueKinds == {"VALUE", "part", "rest", "crlf"}
McFinal == {"STORED", "END", "DELETED", "NOT_FOUND"} \cup Mcache!Refusals
McKinds == {"set", "data", "get", "delete", "none", "io"} \cup McValueKinds \cup McFinal
McLines == [n : Nat, kind : McKinds, key : Seq(Words), v : McFound]
McCalls == [n : 0..MaxCalls, key : Seq(Words), v : McFound]
McTypes == /\ Mcache!TypeOK
           /\ call \in McCalls /\ outcome \in McLines
           /\ sent \in Seq(McLines) /\ recv \in Seq(McLines)
           /\ got \in Seq([w : Words, v : McFound])
           /\ may \in [Words -> SUBSET McFound]

\* What is under way is of the call that runs, and if none does there is nothing.
McSilent == sent = <<>> /\ recv = <<>> /\ awaits = 0
McRunning == IF pc = "idle" THEN McSilent
             ELSE mcfp /\ call.n # 0 /\ call.key \in McAllKeys
McRequest(kind) == Mcache!Line(call.n, kind, call.key, call.v)
\* A request that the server has not read has no reply yet, and nothing is lost.
McAsked == \/ sent = <<>> /\ awaits = 0
           \/ /\ recv = <<>> /\ alive /\ got = <<>>
              /\ \/ pc = "set" /\ sent = <<McRequest("set"), McRequest("data")>> /\ awaits = 0
                 \/ pc = "set" /\ sent = <<McRequest("data")>> /\ awaits = call.n
                 \/ pc = "get" /\ sent = <<McRequest("get")>> /\ awaits = 0
                 \/ pc = "del" /\ sent = <<McRequest("delete")>> /\ awaits = 0

\* The lines of a reply, and which of them the call reads next
McFollows == {<<"VALUE", "part">>, <<"part", "rest">>, <<"rest", "crlf">>,
              <<"crlf", "VALUE">>, <<"crlf", "END">>}
McChained(r) == \A i \in 1..Len(r) : i + 1 <= Len(r) => <<r[i].kind, r[i + 1].kind>> \in McFollows
McFirst == {<<"set", "STORED">>, <<"set", "SERVER_ERROR">>, <<"get", "VALUE">>, <<"get", "END">>,
            <<"get", "SERVER_ERROR">>, <<"del", "DELETED">>, <<"del", "NOT_FOUND">>, <<"del", "ERROR">>,
            <<"body", IF length = 0 THEN "part" ELSE "rest">>, <<"crlf", "crlf">>}
McInOrder == /\ McChained(recv)
             /\ recv # <<>> => <<pc, recv[1].kind>> \in McFirst
             /\ pc = "body" => length < 2
McOwn(r) == \A i \in 1..Len(r) : r[i].n = call.n

\* The values on their way are values the script may expect.
McExpected(l) == l.kind \in McValueKinds => /\ l.key \in Seq(Words) /\ l.key # <<>>
                                            /\ l.v \in may[l.key[1]]
McFresh == /\ \A w \in Words : store[w] # Mcache!Nothing => store[w] \in may[w]
           /\ \A i \in 1..Len(recv) : McExpected(recv[i])
           /\ \A i \in 1..Len(got) : got[i].v \in may[got[i].w]
\* What set has stored, or del deleted, when its reply has come
McSettled ==
    /\ pc \in {"set", "del"} => got = <<>>
    /\ pc = "set" => Len(call.key) = 1 /\ call.v \in Values /\ call.v \in may[call.key[1]]
    /\ pc = "set" /\ recv # <<>> /\ recv[1].kind = "STORED" => store[call.key[1]] \in {Mcache!Nothing, call.v}
    /\ pc = "del" /\ recv # <<>> /\ Len(call.key) = 1 => store[call.key[1]] = Mcache!Nothing

McIInv == /\ McTypes /\ McRunning /\ McAsked /\ McInOrder /\ McOwn(recv) /\ McFresh /\ McSettled
          /\ Mcache!NoFalseAlarm
--------------------------------------------------------------------------------
(***************************************************************************)
(* Lines.                                                                  *)
(***************************************************************************)
McSound(r) == r \in Seq(McLines) /\ McChained(r) /\ McOwn(r) /\ \A i \in 1..Len(r) : McExpected(r[i])

\* What is assumed of keys and calls.
LEMMA McKeys == /\ \A k \in SetKeys \cup Keys : k \in Seq(Words) /\ k # <<>>
                /\ MaxCalls \in Nat
  BY HandlesAssumption DEF Mcache!KeysAssumption

LEMMA McEmptySound == McSound(<<>>)
  BY DEF McSound, McChained, McOwn

\* A prefix of a reply, and what is left of it when a line has been read, are sound.
LEMMA McPrefixSound ==
    ASSUME NEW r, McSound(r), NEW n \in 0..Len(r)
    PROVE  LET p == SubSeq(r, 1, n) IN McSound(p) /\ (p # <<>> => r # <<>> /\ p[1] = r[1])
  <1> DEFINE p == SubSeq(r, 1, n)
  <1>1. r \in Seq(McLines) /\ Len(r) \in Nat
    BY DEF McSound
  <1>2. p \in Seq(McLines) /\ Len(p) = n /\ \A i \in 1..n : p[i] = r[i]
    BY <1>1, SubSeqProperties
  <1> HIDE DEF p
  <1>3. McChained(p)
    <2> SUFFICES ASSUME NEW i \in 1..Len(p), i + 1 <= Len(p)
                 PROVE  <<p[i].kind, p[i + 1].kind>> \in McFollows
      BY DEF McChained
    <2>1. p[i] = r[i] /\ p[i + 1] = r[i + 1] /\ i \in 1..Len(r) /\ i + 1 <= Len(r)
      BY <1>1, <1>2
    <2> QED BY <2>1 DEF McSound, McChained
  <1>4. McOwn(p) /\ \A i \in 1..Len(p) : McExpected(p[i])
    BY <1>1, <1>2 DEF McSound, McOwn
  <1>5. p # <<>> => n > 0
    BY <1>2
  <1> QED BY <1>1, <1>2, <1>3, <1>4, <1>5 DEF McSound, p

LEMMA McTailSound ==
    ASSUME NEW r, McSound(r), r # <<>>
    PROVE  /\ McSound(Tail(r)) /\ Head(r) = r[1] /\ r[1] \in McLines /\ McExpected(r[1]) /\ r[1].n = call.n
           /\ Tail(r) # <<>> => <<r[1].kind, Tail(r)[1].kind>> \in McFollows
  <1> DEFINE t == Tail(r)
  <1>1. r \in Seq(McLines) /\ Len(r) \in Nat /\ Len(r) > 0 /\ Head(r) = r[1] /\ r[1] \in McLines
    BY DEF McSound
  <1>2. t \in Seq(McLines) /\ Len(t) = Len(r) - 1 /\ \A i \in 1..Len(t) : t[i] = r[i + 1]
    BY <1>1
  <1> HIDE DEF t
  <1>3. McChained(t)
    BY <1>1, <1>2 DEF McSound, McChained
  <1>4. McOwn(t) /\ \A i \in 1..Len(t) : McExpected(t[i])
    <2>1. \A i \in 1..Len(t) : i + 1 \in 1..Len(r)
      BY <1>1, <1>2
    <2>2. \A i \in 1..Len(r) : r[i].n = call.n /\ McExpected(r[i])
      BY DEF McSound, McOwn
    <2>3. \A i \in 1..Len(t) : t[i].n = call.n /\ McExpected(t[i])
      BY <1>2, <2>1, <2>2
    <2> QED BY <2>3 DEF McOwn
  <1>5. t # <<>> => Len(t) >= 1
    BY <1>2
  <1>6. t # <<>> => <<r[1].kind, t[1].kind>> \in McFollows
    BY <1>1, <1>2, <1>5 DEF McSound, McChained
  <1> QED BY <1>1, <1>2, <1>3, <1>4, <1>6 DEF McSound, t, McOwn

\* Blocks of values, and the lines that may come after them
LEMMA McConcatSound ==
    ASSUME NEW a, NEW b, McSound(a), McSound(b),
           a # <<>> => a[Len(a)].kind = "crlf",
           b # <<>> => b[1].kind \in {"VALUE", "END"}
    PROVE  /\ McSound(a \o b)
           /\ a # <<>> => a \o b # <<>> /\ (a \o b)[1] = a[1]
           /\ a = <<>> => a \o b = b
           /\ b # <<>> => a \o b # <<>> /\ (a \o b)[Len(a \o b)] = b[Len(b)]
           /\ b = <<>> => a \o b = a
  <1> DEFINE c == a \o b
  <1>1. /\ a \in Seq(McLines) /\ b \in Seq(McLines) /\ Len(a) \in Nat /\ Len(b) \in Nat
        /\ a # <<>> => Len(a) > 0
        /\ b # <<>> => Len(b) > 0
    BY DEF McSound
  <1>2. /\ c \in Seq(McLines) /\ Len(c) = Len(a) + Len(b)
        /\ \A i \in 1..Len(c) : c[i] = IF i <= Len(a) THEN a[i] ELSE b[i - Len(a)]
    BY <1>1
  <1>3. (a = <<>> => c = b) /\ (b = <<>> => c = a)
    BY <1>1
  <1> HIDE DEF c
  <1>4. McChained(c)
    <2> SUFFICES ASSUME NEW i \in 1..Len(c), i + 1 <= Len(c)
                 PROVE  <<c[i].kind, c[i + 1].kind>> \in McFollows
      BY DEF McChained
    <2>1. CASE i + 1 <= Len(a)
      BY <1>1, <1>2, <2>1 DEF McSound, McChained
    <2>2. CASE i = Len(a)
      <3>1. c[i] = a[Len(a)] /\ c[i + 1] = b[1] /\ a # <<>> /\ b # <<>>
        BY <1>1, <1>2, <2>2
      <3> QED BY <3>1 DEF McFollows
    <2>3. CASE i > Len(a)
      <3>1. c[i] = b[i - Len(a)] /\ c[i + 1] = b[i - Len(a) + 1] /\ i - Len(a) \in 1..Len(b)
            /\ i - Len(a) + 1 <= Len(b)
        BY <1>1, <1>2, <2>3
      <3> QED BY <3>1 DEF McSound, McChained
    <2> QED BY <1>1, <2>1, <2>2, <2>3
  <1>5. McOwn(c) /\ \A i \in 1..Len(c) : McExpected(c[i])
    <2> SUFFICES ASSUME NEW i \in 1..Len(c) PROVE c[i].n = call.n /\ McExpected(c[i])
      BY DEF McOwn
    <2>1. CASE i <= Len(a)
      BY <1>1, <1>2, <2>1 DEF McSound, McOwn
    <2>2. CASE i > Len(a)
      <3>1. c[i] = b[i - Len(a)] /\ i - Len(a) \in 1..Len(b)
        BY <1>1, <1>2, <2>2
      <3> QED BY <3>1 DEF McSound, McOwn
    <2> QED BY <1>1, <2>1, <2>2
  <1>6. (a # <<>> => c # <<>> /\ c[1] = a[1]) /\ (b # <<>> => c # <<>> /\ c[Len(c)] = b[Len(b)])
    BY <1>1, <1>2
  <1> QED BY <1>2, <1>3, <1>4, <1>5, <1>6 DEF McSound, c

\* A reply of one line
LEMMA McLineSound ==
    ASSUME call.n \in Nat, NEW kind \in McFinal
    PROVE  LET l == Mcache!Line(call.n, kind, <<>>, Mcache!Nothing)
           IN  l \in McLines /\ McSound(<<l>>) /\ l.kind = kind
  <1> DEFINE l == Mcache!Line(call.n, kind, <<>>, Mcache!Nothing)
  <1>1. kind \in McKinds /\ kind \notin McValueKinds /\ Mcache!Nothing \in McFound
    BY DEF McFound, McKinds, McFinal, Mcache!Refusals, McValueKinds
  <1>2. <<>> \in Seq(Words)
    OBVIOUS
  <1>3. l \in McLines /\ l.n = call.n /\ l.kind = kind
    BY <1>1, <1>2 DEF Mcache!Line, McLines
  <1> HIDE DEF l
  <1>4. <<l>> \in Seq(McLines) /\ Len(<<l>>) = 1 /\ <<l>>[1] = l
    BY <1>3
  <1> QED BY <1>1, <1>3, <1>4 DEF McSound, McChained, McOwn, McExpected, l

\* What the server has of one word
LEMMA McBlockSound ==
    ASSUME McTypes, McFresh, sent # <<>>, Head(sent).n = call.n, NEW w \in Words
    PROVE  /\ McSound(Mcache!Block(w))
           /\ Mcache!Block(w) # <<>> => /\ Mcache!Block(w)[1].kind = "VALUE"
                                        /\ Mcache!Block(w)[Len(Mcache!Block(w))].kind = "crlf"
  <1>1. CASE store[w] = Mcache!Nothing
    BY <1>1, McEmptySound DEF Mcache!Block
  <1>2. CASE store[w] # Mcache!Nothing
    <2> DEFINE kinds == <<"VALUE", "part", "rest", "crlf">>
               l(i) == Mcache!Line(call.n, kinds[i], <<w>>, store[w])
               b == [i \in 1..4 |-> l(i)]
    <2>1. Mcache!Block(w) = b
      BY <1>2 DEF Mcache!Block
    <2>2. <<w>> \in Seq(Words) /\ <<w>> # <<>> /\ <<w>>[1] = w /\ store[w] \in McFound /\ store[w] \in may[w]
          /\ call.n \in Nat
      BY <1>2 DEF McTypes, Mcache!TypeOK, McFresh, McFound, McCalls
    <2>3. \A i \in 1..4 : /\ l(i) \in McLines /\ l(i).n = call.n /\ l(i).kind = kinds[i]
                          /\ l(i).key = <<w>> /\ l(i).v = store[w]
      <3>1. \A i \in 1..4 : kinds[i] \in McKinds
        BY DEF McKinds, McValueKinds
      <3> QED BY <2>2, <3>1 DEF Mcache!Line, McLines
    <2>4. kinds[1] = "VALUE" /\ kinds[2] = "part" /\ kinds[3] = "rest" /\ kinds[4] = "crlf"
      OBVIOUS
    <2> HIDE DEF l, kinds
    <2>5. b \in Seq(McLines) /\ Len(b) = 4 /\ \A i \in 1..4 : b[i] = l(i)
      BY <2>3
    <2> HIDE DEF b
    <2>6. McChained(b)
      <3> SUFFICES ASSUME NEW i \in 1..4, i + 1 <= 4
                   PROVE  <<b[i].kind, b[i + 1].kind>> \in McFollows
        BY <2>5 DEF McChained
      <3>1. i = 1 \/ i = 2 \/ i = 3
        OBVIOUS
      <3> QED BY <2>3, <2>4, <2>5, <3>1 DEF McFollows
    <2>7. McOwn(b) /\ \A i \in 1..4 : McExpected(b[i])
      BY <2>2, <2>3, <2>5 DEF McOwn, McExpected
    <2> QED BY <2>1, <2>3, <2>4, <2>5, <2>6, <2>7 DEF McSound
  <1> QED BY <1>1, <1>2
--------------------------------------------------------------------------------
(***************************************************************************)
(* The server.                                                             *)
(***************************************************************************)
\* What a step of the server has to keep
LEMMA McServerKeeps ==
    ASSUME McIInv, UNCHANGED <<Mcache!client, may>>, alive' \in BOOLEAN, alive' => mcfp,
           sent' \in Seq(McLines), awaits' \in 0..MaxCalls, store' \in [Words -> McFound],
           McSound(recv'), recv' # <<>> => <<pc, recv'[1].kind>> \in McFirst,
           McAsked', pc = "idle" => McSilent',
           \A w \in Words : store'[w] # Mcache!Nothing => store'[w] \in may[w],
           pc = "set" /\ recv' # <<>> /\ recv'[1].kind = "STORED" => store'[call.key[1]] \in {Mcache!Nothing, call.v},
           pc = "del" /\ recv' # <<>> /\ Len(call.key) = 1 => store'[call.key[1]] = Mcache!Nothing
    PROVE  McIInv'
  <1>1. /\ mcfp' = mcfp /\ pc' = pc /\ call' = call /\ length' = length /\ got' = got
        /\ outcome' = outcome /\ may' = may
    BY DEF Mcache!client
  <1>2. McTypes'
    BY <1>1 DEF McIInv, McTypes, Mcache!TypeOK, McSound, McFound
  <1>3. McRunning' /\ Mcache!NoFalseAlarm'
    BY <1>1 DEF McIInv, McRunning, Mcache!NoFalseAlarm, McSilent
  <1>4. McInOrder' /\ McOwn(recv)'
    BY <1>1 DEF McIInv, McInOrder, McSound, McOwn, McChained, McFirst
  <1>5. McFresh'
    BY <1>1 DEF McIInv, McFresh, McSound, McExpected
  <1>6. McSettled'
    BY <1>1 DEF McIInv, McSettled
  <1> QED BY <1>2, <1>3, <1>4, <1>5, <1>6 DEF McIInv

LEMMA McOneOrTwo ==
    ASSUME NEW x, NEW y
    PROVE  /\ Head(<<x>>) = x /\ Tail(<<x>>) = <<>>
           /\ Head(<<x, y>>) = x /\ Tail(<<x, y>>) = <<y>>
  <1>1. <<x>> \in Seq({x, y}) /\ <<x, y>> \in Seq({x, y}) /\ <<y>> \in Seq({x, y})
    OBVIOUS
  <1>2. Head(<<x>>) = x /\ Head(<<x, y>>) = x
    OBVIOUS
  <1>3. Tail(<<x>>) = <<>>
    OBVIOUS
  <1>4. Tail(<<x, y>>) = <<y>>
    OBVIOUS
  <1> QED BY <1>2, <1>3, <1>4

\* What the server has to read
LEMMA McServing ==
    ASSUME McIInv, sent # <<>>
    PROVE  /\ recv = <<>> /\ alive /\ got = <<>>
           /\ Head(sent).n = call.n /\ Head(sent).key = call.key /\ Head(sent).v = call.v
           /\ call.n # 0 /\ call.key \in McAllKeys
           /\ \/ /\ pc = "set" /\ Head(sent).kind = "set"
                 /\ Tail(sent) = <<McRequest("data")>> /\ awaits = 0
              \/ pc = "set" /\ Head(sent).kind = "data" /\ Tail(sent) = <<>> /\ awaits = call.n
              \/ pc = "get" /\ Head(sent).kind = "get" /\ Tail(sent) = <<>> /\ awaits = 0
              \/ pc = "del" /\ Head(sent).kind = "delete" /\ Tail(sent) = <<>> /\ awaits = 0
  <1>1. recv = <<>> /\ alive /\ got = <<>> /\ pc # "idle"
    BY DEF McIInv, McAsked
  <1>2. ASSUME NEW kind
        PROVE  /\ McRequest(kind).n = call.n /\ McRequest(kind).key = call.key /\ McRequest(kind).v = call.v
               /\ McRequest(kind).kind = kind
    BY DEF McRequest, Mcache!Line
  <1>3. \/ /\ pc = "set" /\ Head(sent) = McRequest("set")
           /\ Tail(sent) = <<McRequest("data")>> /\ awaits = 0
        \/ pc = "set" /\ Head(sent) = McRequest("data") /\ Tail(sent) = <<>> /\ awaits = call.n
        \/ pc = "get" /\ Head(sent) = McRequest("get") /\ Tail(sent) = <<>> /\ awaits = 0
        \/ pc = "del" /\ Head(sent) = McRequest("delete") /\ Tail(sent) = <<>> /\ awaits = 0
    BY McOneOrTwo DEF McIInv, McAsked
  <1> QED BY <1>1, <1>2, <1>3 DEF McIInv, McRunning

\* The server answers with one line.
LEMMA McAnswered ==
    ASSUME McIInv, sent # <<>>, UNCHANGED <<Mcache!client, alive, may>>, sent' = <<>>, awaits' = 0,
           NEW kind \in McFinal, Mcache!Reply(Mcache!Say(kind)),
           <<pc, kind>> \in McFirst, store' \in [Words -> McFound],
           \A w \in Words : store'[w] # Mcache!Nothing => store'[w] \in may[w],
           pc = "set" /\ kind = "STORED" => store'[call.key[1]] \in {Mcache!Nothing, call.v},
           pc = "del" /\ Len(call.key) = 1 => store'[call.key[1]] = Mcache!Nothing
    PROVE  McIInv'
  <1> DEFINE l == Mcache!Line(call.n, kind, <<>>, Mcache!Nothing)
  <1>1. recv' = <<l>>
    BY McServing DEF Mcache!Reply, Mcache!Say
  <1>2. McSound(<<l>>) /\ l.kind = kind
    BY McLineSound DEF McIInv, McTypes, McCalls
  <1> HIDE DEF l
  <1>3. recv'[1].kind = kind
    BY <1>1, <1>2
  <1>4. McAsked' /\ pc # "idle"
    BY McServing DEF McAsked
  <1>5. alive' \in BOOLEAN /\ (alive' => mcfp)
    BY DEF McIInv, McTypes, Mcache!TypeOK
  <1>6. <<>> \in Seq(McLines)
    OBVIOUS
  <1>7. sent' \in Seq(McLines)
    BY <1>6, Zenon
  <1>8. awaits' \in 0..MaxCalls
    BY McKeys
  <1>9. McSound(recv')
    BY <1>1, <1>2
  <1> QED BY <1>3, <1>4, <1>5, <1>7, <1>8, <1>9, McServerKeeps

LEMMA McServeSetKeeps == ASSUME McIInv, PlainKeys, Mcache!ServeSet PROVE McIInv'
  <1>1. /\ sent # <<>> /\ Head(sent).kind = "set" /\ UNCHANGED <<Mcache!client, alive, may, store>>
        /\ sent' = Tail(sent)
    BY DEF Mcache!ServeSet, Mcache!Took
  <1>2. pc = "set" /\ sent' = <<McRequest("data")>> /\ Len(call.key) = 1
    BY <1>1, McServing DEF McIInv, McSettled
  <1>3. awaits' = call.n /\ recv' = <<>>
    BY <1>1, <1>2, McServing DEF Mcache!ServeSet
  <1>4. McRequest("data") \in McLines
    BY DEF McIInv, McTypes, McCalls, McRequest, Mcache!Line, McLines, McKinds
  <1>5. sent' \in Seq(McLines)
    BY <1>2, <1>4
  <1>6. McAsked'
    <2>1. McRequest("data")' = McRequest("data")
      BY <1>1 DEF Mcache!client, McRequest
    <2> QED BY <1>1, <1>2, <1>3, <2>1, McServing DEF McAsked, Mcache!client
  <1>7. McSound(recv') /\ alive' \in BOOLEAN /\ (alive' => mcfp) /\ store' \in [Words -> McFound]
        /\ awaits' \in 0..MaxCalls /\ \A w \in Words : store'[w] # Mcache!Nothing => store'[w] \in may[w]
    BY <1>1, <1>3, McEmptySound DEF McIInv, McTypes, Mcache!TypeOK, McFound, McFresh
  <1> QED BY <1>1, <1>2, <1>3, <1>5, <1>6, <1>7, McServerKeeps

LEMMA McServeDataKeeps == ASSUME McIInv, Mcache!ServeData PROVE McIInv'
  <1>1. /\ sent # <<>> /\ Head(sent).kind = "data" /\ UNCHANGED <<Mcache!client, alive, may>>
        /\ sent' = Tail(sent) /\ awaits' = 0
    BY DEF Mcache!ServeData
  <1>2. /\ pc = "set" /\ sent' = <<>> /\ awaits # 0
        /\ Head(sent).key = call.key /\ Head(sent).v = call.v
    BY <1>1, McServing
  <1>3. /\ call.key[1] \in Words /\ call.v \in Values /\ call.v \in may[call.key[1]]
    BY <1>2 DEF McIInv, McSettled, McTypes, McCalls
  <1>4. \A w \in Words : store[w] # Mcache!Nothing => store[w] \in may[w]
    BY DEF McIInv, McFresh
  <1>5. store \in [Words -> McFound]
    BY DEF McIInv, McTypes, Mcache!TypeOK, McFound
  <1>6. CASE store' = [store EXCEPT ![call.key[1]] = call.v] /\ Mcache!Reply(Mcache!Say("STORED"))
    <2>1. "STORED" \in McFinal /\ <<pc, "STORED">> \in McFirst
      BY <1>2 DEF McFinal, McFirst
    <2>2. /\ store' \in [Words -> McFound] /\ store'[call.key[1]] = call.v
          /\ \A w \in Words : store'[w] # Mcache!Nothing => store'[w] \in may[w]
      BY <1>3, <1>4, <1>5, <1>6 DEF McFound
    <2> QED BY <1>1, <1>2, <1>6, <2>1, <2>2, McAnswered
  <1>7. CASE store' = [store EXCEPT ![call.key[1]] = Mcache!Nothing] /\ Mcache!Reply(Mcache!Say("SERVER_ERROR"))
    <2>1. "SERVER_ERROR" \in McFinal /\ <<pc, "SERVER_ERROR">> \in McFirst
      BY <1>2 DEF McFinal, McFirst, Mcache!Refusals
    <2>2. /\ store' \in [Words -> McFound]
          /\ \A w \in Words : store'[w] # Mcache!Nothing => store'[w] \in may[w]
      BY <1>3, <1>4, <1>5, <1>7 DEF McFound
    <2> QED BY <1>1, <1>2, <1>7, <2>1, <2>2, McAnswered
  <1> QED BY <1>2, <1>6, <1>7 DEF Mcache!ServeData

LEMMA McServeGetKeeps == ASSUME McIInv, Mcache!ServeGet PROVE McIInv'
  <1>1. /\ sent # <<>> /\ Head(sent).kind = "get" /\ UNCHANGED <<Mcache!client, alive, may, awaits, store>>
        /\ sent' = Tail(sent)
    BY DEF Mcache!ServeGet, Mcache!Took
  <1>2. /\ pc = "get" /\ sent' = <<>> /\ awaits' = 0 /\ recv = <<>>
        /\ Head(sent).n = call.n /\ Head(sent).key = call.key /\ call.key \in McAllKeys
    BY <1>1, McServing
  <1>3. /\ store' \in [Words -> McFound]
        /\ \A w \in Words : store'[w] # Mcache!Nothing => store'[w] \in may[w]
    BY <1>1 DEF McIInv, McFresh, McTypes, Mcache!TypeOK, McFound
  <1>4. CASE Mcache!Reply(Mcache!Say("SERVER_ERROR"))
    <2>1. "SERVER_ERROR" \in McFinal /\ <<pc, "SERVER_ERROR">> \in McFirst
      BY <1>2 DEF McFinal, McFirst, Mcache!Refusals
    <2> QED BY <1>1, <1>2, <1>3, <1>4, <2>1, McAnswered
  <1> DEFINE k == call.key
             a == Mcache!Block(k[1])
             b == IF Len(k) > 1 THEN Mcache!Block(k[2]) ELSE <<>>
             e == Mcache!Say("END")
  <1>5. CASE Mcache!Reply(a \o b \o e)
    <2>1. k[1] \in Words /\ (Len(k) > 1 => k[2] \in Words)
      BY <1>2, McKeys DEF McAllKeys
    <2>2. /\ McSound(a)
          /\ a # <<>> => a[1].kind = "VALUE" /\ a[Len(a)].kind = "crlf"
      <3>1. McTypes /\ McFresh /\ Head(sent).n = call.n
        BY <1>2 DEF McIInv
      <3> QED BY <1>1, <2>1, <3>1, McBlockSound
    <2>3. /\ McSound(b)
          /\ b # <<>> => b[1].kind = "VALUE" /\ b[Len(b)].kind = "crlf"
      <3>1. McTypes /\ McFresh /\ Head(sent).n = call.n
        BY <1>2 DEF McIInv
      <3>2. CASE Len(k) > 1
        BY <1>1, <2>1, <3>1, <3>2, McBlockSound
      <3> QED BY <3>2, McEmptySound
    <2>4. McSound(e) /\ e # <<>> /\ e[1].kind = "END"
      <3>1. "END" \in McFinal /\ call.n \in Nat
        BY DEF McFinal, McIInv, McTypes, McCalls
      <3>2. e = <<Mcache!Line(call.n, "END", <<>>, Mcache!Nothing)>>
        BY <1>2 DEF Mcache!Say
      <3> QED BY <3>1, <3>2, McLineSound
    <2> HIDE DEF a, b, e
    <2>5. /\ McSound(a \o b)
          /\ (a \o b) # <<>> => (a \o b)[1].kind = "VALUE" /\ (a \o b)[Len(a \o b)].kind = "crlf"
      BY <2>2, <2>3, McConcatSound
    <2> DEFINE c == a \o b
    <2> HIDE DEF c
    <2>6. McSound(c \o e) /\ (c \o e)[1].kind \in {"VALUE", "END"}
      BY <2>4, <2>5, McConcatSound DEF c
    <2>7. recv' = c \o e
      <3>1. c \o e \in Seq(McLines)
        BY <2>6 DEF McSound
      <3>2. recv' = <<>> \o (c \o e)
        BY <1>2, <1>5 DEF Mcache!Reply, c
      <3> QED BY <3>1, <3>2
    <2>8. McSound(recv') /\ <<pc, recv'[1].kind>> \in McFirst
      BY <1>2, <2>6, <2>7 DEF McFirst
    <2>9. <<>> \in Seq(McLines)
      OBVIOUS
    <2>10. sent' \in Seq(McLines)
      BY <1>2, <2>9, Zenon
    <2>11. alive' \in BOOLEAN /\ (alive' => mcfp) /\ awaits' \in 0..MaxCalls /\ McAsked'
      BY <1>1, <1>2, McKeys DEF McIInv, McTypes, Mcache!TypeOK, McAsked
    <2> QED BY <1>1, <1>2, <1>3, <2>8, <2>10, <2>11, McServerKeeps
  <1> QED BY <1>2, <1>4, <1>5 DEF Mcache!ServeGet

LEMMA McServeDeleteKeeps == ASSUME McIInv, Mcache!ServeDelete PROVE McIInv'
  <1>1. /\ sent # <<>> /\ Head(sent).kind = "delete" /\ UNCHANGED <<Mcache!client, alive, may, awaits>>
        /\ sent' = Tail(sent)
    BY DEF Mcache!ServeDelete, Mcache!Took
  <1>2. /\ pc = "del" /\ sent' = <<>> /\ awaits' = 0
        /\ Head(sent).key = call.key /\ call.key \in McAllKeys
    BY <1>1, McServing
  <1>3. call.key[1] \in Words
    BY <1>2, McKeys DEF McAllKeys
  <1>4. /\ store \in [Words -> McFound]
        /\ \A w \in Words : store[w] # Mcache!Nothing => store[w] \in may[w]
    BY DEF McIInv, McFresh, McTypes, Mcache!TypeOK, McFound
  <1>5. CASE Len(call.key) > 1
    <2> DEFINE n == Len(call.key)
    <2>0. n \in Nat /\ n > 1
      BY <1>2, <1>5, McKeys DEF McAllKeys
    <2> HIDE DEF n
    <2>1. "ERROR" \in McFinal /\ <<pc, "ERROR">> \in McFirst
      BY <1>2 DEF McFinal, McFirst, Mcache!Refusals
    <2>2. n # 1
      BY <2>0
    <2>3. store' = store /\ Mcache!Reply(Mcache!Say("ERROR"))
      BY <1>2, <1>5 DEF Mcache!ServeDelete
    <2> QED BY <1>1, <1>2, <1>4, <2>1, <2>2, <2>3, McAnswered DEF n
  <1>6. CASE ~(Len(call.key) > 1)
    <2>1. PICK kind \in {"NOT_FOUND", "DELETED"} : Mcache!Reply(Mcache!Say(kind))
      BY <1>2, <1>6 DEF Mcache!ServeDelete
    <2>2. kind \in McFinal /\ <<pc, kind>> \in McFirst /\ kind # "STORED"
      BY <1>2 DEF McFinal, McFirst
    <2>3. store' = [store EXCEPT ![call.key[1]] = Mcache!Nothing]
      BY <1>2, <1>6 DEF Mcache!ServeDelete
    <2>4. /\ store' \in [Words -> McFound] /\ store'[call.key[1]] = Mcache!Nothing
          /\ \A w \in Words : store'[w] # Mcache!Nothing => store'[w] \in may[w]
      BY <1>3, <1>4, <2>3 DEF McFound
    <2> QED BY <1>1, <1>2, <2>1, <2>2, <2>4, McAnswered
  <1> QED BY <1>5, <1>6

LEMMA McEvictKeeps == ASSUME McIInv, Mcache!Evict PROVE McIInv'
  <1>1. UNCHANGED <<Mcache!client, may>> /\ alive' = alive /\ sent' = sent /\ recv' = recv /\ awaits' = awaits
    BY DEF Mcache!Evict
  <1>2. PICK w \in Words : store' = [store EXCEPT ![w] = Mcache!Nothing]
    BY DEF Mcache!Evict
  <1>3. store \in [Words -> McFound]
    BY DEF McIInv, McTypes, Mcache!TypeOK, McFound
  <1>4. store' \in [Words -> McFound] /\ \A x \in Words : store'[x] \in {Mcache!Nothing, store[x]}
    BY <1>2, <1>3 DEF McFound
  <1>5. \A x \in Words : store'[x] # Mcache!Nothing => store'[x] \in may[x]
    BY <1>4 DEF McIInv, McFresh
  <1>6. McAsked' /\ (pc = "idle" => McSilent')
    BY <1>1 DEF McIInv, McAsked, McRequest, McRunning, McSilent, Mcache!client
  <1>7. /\ alive' \in BOOLEAN /\ (alive' => mcfp) /\ sent' \in Seq(McLines) /\ awaits' \in 0..MaxCalls
    BY <1>1 DEF McIInv, McTypes, Mcache!TypeOK
  <1>8. McSound(recv') /\ (recv' # <<>> => <<pc, recv'[1].kind>> \in McFirst)
    BY <1>1 DEF McIInv, McTypes, McInOrder, McFresh, McSound
  <1>9. pc # "idle" => call.key[1] \in Words
    BY McKeys DEF McIInv, McRunning, McAllKeys
  <1>10. /\ pc = "set" /\ recv' # <<>> /\ recv'[1].kind = "STORED" => store'[call.key[1]] \in {Mcache!Nothing, call.v}
         /\ pc = "del" /\ recv' # <<>> /\ Len(call.key) = 1 => store'[call.key[1]] = Mcache!Nothing
    BY <1>1, <1>4, <1>9 DEF McIInv, McSettled
  <1> QED BY <1>1, <1>4, <1>5, <1>6, <1>7, <1>8, <1>10, McServerKeeps

LEMMA McBreakKeeps == ASSUME McIInv, Mcache!Break PROVE McIInv'
  <1>1. UNCHANGED <<Mcache!client, may>> /\ store' = store /\ alive' = FALSE /\ sent' = <<>> /\ awaits' = 0
    BY DEF Mcache!Break
  <1>2. McSound(recv)
    BY DEF McIInv, McTypes, McInOrder, McFresh, McSound
  <1>3. McSound(recv') /\ (recv' # <<>> => recv # <<>> /\ recv'[1] = recv[1])
    BY <1>2, McPrefixSound DEF Mcache!Break
  <1>4. recv' # <<>> => <<pc, recv'[1].kind>> \in McFirst
    BY <1>3 DEF McIInv, McInOrder
  <1>5. pc = "idle" => McSilent'
    <2>1. recv = <<>> => recv' = <<>>
      BY <1>3
    <2> QED BY <1>1, <2>1 DEF McIInv, McRunning, McSilent
  <1>6. <<>> \in Seq(McLines)
    OBVIOUS
  <1>7. sent' \in Seq(McLines)
    BY <1>1, <1>6, Zenon
  <1>8. /\ awaits' \in 0..MaxCalls /\ store' \in [Words -> McFound] /\ McAsked'
        /\ \A w \in Words : store'[w] # Mcache!Nothing => store'[w] \in may[w]
    BY <1>1, McKeys DEF McIInv, McTypes, Mcache!TypeOK, McFound, McFresh, McAsked
  <1>9. /\ pc = "set" /\ recv' # <<>> /\ recv'[1].kind = "STORED" => store'[call.key[1]] \in {Mcache!Nothing, call.v}
        /\ pc = "del" /\ recv' # <<>> /\ Len(call.key) = 1 => store'[call.key[1]] = Mcache!Nothing
    BY <1>1, <1>3 DEF McIInv, McSettled
  <1> QED BY <1>1, <1>3, <1>4, <1>5, <1>7, <1>8, <1>9, McServerKeeps
--------------------------------------------------------------------------------
(***************************************************************************)
(* The client.                                                             *)
(***************************************************************************)
\* A connection is opened or closed between calls.
LEMMA McOpenCloseKeeps == ASSUME McIInv, Mcache!Open \/ Mcache!Close PROVE McIInv'
  <1>1. /\ pc = "idle" /\ sent' = <<>> /\ recv' = <<>> /\ awaits' = 0
        /\ mcfp' \in BOOLEAN /\ alive' = mcfp'
        /\ pc' = pc /\ call' = call /\ length' = length /\ got' = got /\ outcome' = outcome
        /\ store' = store /\ may' = may
    BY DEF Mcache!Open, Mcache!Close, Mcache!Fclose
  <1>2. <<>> \in Seq(McLines)
    OBVIOUS
  <1>3. sent' \in Seq(McLines) /\ recv' \in Seq(McLines)
    BY <1>1, <1>2, Zenon
  <1>4. McTypes'
    BY <1>1, <1>3, McKeys DEF McIInv, McTypes, Mcache!TypeOK
  <1>5. McRunning' /\ McAsked' /\ McInOrder' /\ McOwn(recv)' /\ McSettled'
    BY <1>1 DEF McIInv, McRunning, McSilent, McAsked, McInOrder, McChained, McOwn, McSettled
  <1>6. McFresh' /\ Mcache!NoFalseAlarm'
    BY <1>1 DEF McIInv, McFresh, Mcache!NoFalseAlarm
  <1> QED BY <1>4, <1>5, <1>6 DEF McIInv

\* A call writes its request, of one line or two, and has no reply yet.
LEMMA McBeginKeeps ==
    ASSUME McIInv, NEW l \in {"set", "get", "del"}, NEW k \in McAllKeys, NEW v \in McFound,
           NEW lines, Mcache!Begin(l, k, v), Mcache!Write(lines), may' \in [Words -> SUBSET McFound],
           \A w \in Words : may[w] \subseteq may'[w],
           LET request(kind) == Mcache!Line(call.n + 1, kind, k, v)
           IN  \/ l = "set" /\ lines = <<request("set"), request("data")>>
               \/ l = "get" /\ lines = <<request("get")>>
               \/ l = "del" /\ lines = <<request("delete")>>,
           l = "set" => Len(k) = 1 /\ v \in Values /\ v \in may'[k[1]]
    PROVE  McIInv'
  <1> DEFINE request(kind) == Mcache!Line(call.n + 1, kind, k, v)
  <1>1. /\ pc = "idle" /\ mcfp /\ mcfp' = mcfp /\ alive' = alive /\ awaits' = 0 /\ store' = store
        /\ pc' = l /\ sent = <<>> /\ recv = <<>>
        /\ call' = [n |-> call.n + 1, key |-> k, v |-> v]
    BY DEF Mcache!Begin, McIInv, McRunning, McSilent
  <1>2. /\ recv' = <<>> /\ length' = 0 /\ got' = <<>>
        /\ outcome' = Mcache!Line(call.n + 1, "none", <<>>, Mcache!Nothing)
    BY <1>1 DEF Mcache!Write
  <1>3. k \in Seq(Words) /\ k # <<>> /\ <<>> \in Seq(Words) /\ Mcache!Nothing \in McFound
    BY McKeys DEF McAllKeys, McFound
  <1>4. call.n + 1 \in 0..MaxCalls /\ call.n + 1 \in Nat /\ call.n + 1 # 0
    BY McKeys DEF Mcache!Begin, McIInv, McTypes, McCalls
  <1>5. call' \in McCalls /\ call'.n = call.n + 1 /\ call'.key = k /\ call'.v = v
    BY <1>1, <1>3, <1>4 DEF McCalls
  <1>6. \A kind \in McKinds : request(kind) \in McLines
    BY <1>3, <1>4 DEF Mcache!Line, McLines
  <1>7. outcome' \in McLines
    BY <1>2, <1>3, <1>4 DEF Mcache!Line, McLines, McKinds
  <1>8. \A kind \in McKinds : McRequest(kind)' = request(kind)
    BY <1>5 DEF McRequest
  <1> HIDE DEF request
  <1>9. {"set", "data", "get", "delete"} \subseteq McKinds
    BY DEF McKinds
  <1>10. lines \in Seq(McLines)
    <2>1. CASE l = "set"
      <3>1. lines = <<request("set"), request("data")>>
        BY <2>1 DEF request
      <3> QED BY <1>6, <1>9, <3>1
    <2>2. CASE l = "get"
      <3>1. lines = <<request("get")>>
        BY <2>2 DEF request
      <3> QED BY <1>6, <1>9, <3>1
    <2>3. CASE l = "del"
      <3>1. lines = <<request("delete")>>
        BY <2>3 DEF request
      <3> QED BY <1>6, <1>9, <3>1
    <2> QED BY <2>1, <2>2, <2>3
  <1>11. sent' = IF alive THEN lines ELSE <<>>
    <2>1. <<>> \o lines = lines
      BY <1>10
    <2> QED BY <1>1, <2>1 DEF Mcache!Write
  <1>12. <<>> \in Seq(McLines) /\ <<>> \in Seq([w : Words, v : McFound])
    OBVIOUS
  <1>13. sent' \in Seq(McLines) /\ recv' \in Seq(McLines) /\ got' \in Seq([w : Words, v : McFound])
    BY <1>2, <1>10, <1>11, <1>12
  <1>14. McTypes'
    BY <1>1, <1>2, <1>4, <1>5, <1>7, <1>13, McKeys DEF McIInv, McTypes, Mcache!TypeOK, Mcache!Pcs
  <1>15. McRunning'
    BY <1>1, <1>4, <1>5 DEF McRunning
  <1>16. McAsked'
    <2>1. CASE alive
      BY <1>1, <1>2, <1>8, <1>9, <1>11, <2>1 DEF McAsked, request
    <2>2. CASE ~alive
      BY <1>1, <1>11, <2>2 DEF McAsked
    <2> QED BY <2>1, <2>2
  <1>17. McInOrder' /\ McOwn(recv)' /\ Mcache!NoFalseAlarm'
    BY <1>1, <1>2 DEF McInOrder, McChained, McOwn, Mcache!NoFalseAlarm
  <1>18. McFresh'
    BY <1>1, <1>2 DEF McIInv, McFresh
  <1>19. McSettled'
    BY <1>1, <1>2, <1>5 DEF McSettled
  <1> QED BY <1>14, <1>15, <1>16, <1>17, <1>18, <1>19 DEF McIInv

LEMMA McCallKeeps == ASSUME McIInv, PlainKeys, Mcache!SetCall \/ Mcache!GetCall \/ Mcache!DelCall PROVE McIInv'
  <1>1. Mcache!Nothing \in McFound /\ Values \subseteq McFound /\ may \in [Words -> SUBSET McFound]
    BY DEF McFound, McIInv, McTypes
  <1>2. CASE Mcache!SetCall
    <2>1. PICK k \in SetKeys, v \in Values :
            /\ Mcache!Begin("set", k, v)
            /\ Mcache!Write(<<Mcache!Line(call.n + 1, "set", k, v), Mcache!Line(call.n + 1, "data", k, v)>>)
            /\ IF Len(k) = 1 THEN Mcache!Expect(k[1], may[k[1]] \cup {v}) ELSE UNCHANGED may
      BY <1>2 DEF Mcache!SetCall
    <2>2. k \in McAllKeys /\ Len(k) = 1 /\ k[1] \in Words
      BY McKeys DEF PlainKeys, McAllKeys
    <2>3. may' = [may EXCEPT ![k[1]] = may[k[1]] \cup {v}]
      BY <2>1, <2>2 DEF Mcache!Expect
    <2>4. /\ may' \in [Words -> SUBSET McFound] /\ v \in may'[k[1]]
          /\ \A w \in Words : may[w] \subseteq may'[w]
      BY <1>1, <2>2, <2>3
    <2> QED BY <1>1, <2>1, <2>2, <2>4, McBeginKeeps
  <1>3. CASE Mcache!GetCall
    <2>1. PICK k \in Keys : /\ Mcache!Begin("get", k, Mcache!Nothing)
                            /\ Mcache!Write(<<Mcache!Line(call.n + 1, "get", k, Mcache!Nothing)>>)
                            /\ may' = may
      BY <1>3 DEF Mcache!GetCall
    <2> QED BY <1>1, <2>1, McBeginKeeps DEF McAllKeys
  <1>4. CASE Mcache!DelCall
    <2>1. PICK k \in Keys : /\ Mcache!Begin("del", k, Mcache!Nothing)
                            /\ Mcache!Write(<<Mcache!Line(call.n + 1, "delete", k, Mcache!Nothing)>>)
                            /\ may' = may
      BY <1>4 DEF Mcache!DelCall, Mcache!AfterDelete
    <2> QED BY <1>1, <2>1, McBeginKeeps DEF McAllKeys
  <1> QED BY <1>2, <1>3, <1>4

\* The connection is closed at once, because the request cannot be written.
LEMMA McSetFailsKeeps == ASSUME McIInv, Mcache!SetFails PROVE McIInv'
  <1>1. sent' = <<>> /\ recv' = <<>> /\ got' = <<>> /\ outcome' = Mcache!Line(call.n + 1, "io", <<>>, Mcache!Nothing)
    BY DEF Mcache!SetFails, Mcache!Fclose
  <1>0. /\ pc = "idle" /\ pc' = pc /\ awaits' = 0 /\ mcfp' \in BOOLEAN /\ alive' = mcfp' /\ ~mcfp'
        /\ length' = 0 /\ call.n < MaxCalls /\ store' = store /\ may' = may
    BY DEF Mcache!SetFails, Mcache!Fclose
  <1>2. PICK k \in SetKeys, v \in Values : call' = [n |-> call.n + 1, key |-> k, v |-> v]
    BY DEF Mcache!SetFails
  <1>3. k \in Seq(Words) /\ v \in McFound /\ Mcache!Nothing \in McFound
    BY McKeys DEF McFound
  <1>4. call.n + 1 \in 0..MaxCalls
    BY <1>0, <1>1, McKeys DEF McIInv, McTypes, McCalls
  <1>5. <<>> \in Seq(Words) /\ <<>> \in Seq(McLines) /\ <<>> \in Seq([w : Words, v : McFound])
    OBVIOUS
  <1>6. call' \in McCalls /\ call'.n = call.n + 1
    BY <1>2, <1>3, <1>4 DEF McCalls
  <1>7. outcome' \in McLines /\ outcome'.n = call.n + 1 /\ outcome'.kind = "io"
    BY <1>0, <1>1, <1>3, <1>4, <1>5 DEF Mcache!Line, McLines, McKinds
  <1>8. sent' \in Seq(McLines) /\ recv' \in Seq(McLines) /\ got' \in Seq([w : Words, v : McFound])
    BY <1>0, <1>1, <1>5, Zenon
  <1>9. McTypes'
    <2>1. Mcache!TypeOK'
      BY <1>0, <1>4, <1>6, McKeys DEF McIInv, McTypes, Mcache!TypeOK
    <2> QED BY <1>0, <1>1, <1>6, <1>7, <1>8, <2>1, Zenon DEF McIInv, McTypes
  <1>10. McRunning' /\ McAsked' /\ McInOrder' /\ McOwn(recv)' /\ McSettled'
    BY <1>0, <1>1 DEF McIInv, McRunning, McSilent, McAsked, McInOrder, McChained, McOwn, McSettled
  <1>11. McFresh' /\ Mcache!NoFalseAlarm'
    BY <1>0, <1>1, <1>6, <1>7 DEF McIInv, McFresh, Mcache!NoFalseAlarm
  <1> QED BY <1>9, <1>10, <1>11 DEF McIInv

\* An end of the input: the connection is closed.
LEMMA McEofKeeps == ASSUME McIInv, Mcache!Eof PROVE McIInv'
  <1>1. sent' = <<>> /\ recv' = <<>> /\ got' = <<>> /\ outcome' = Mcache!Line(call.n, "io", <<>>, Mcache!Nothing)
    BY DEF Mcache!Eof, Mcache!Fclose, Mcache!Done, Mcache!Answer, Mcache!Returns
  <1>0. /\ pc' = "idle" /\ awaits' = 0 /\ mcfp' \in BOOLEAN /\ alive' = mcfp' /\ ~mcfp'
        /\ length' = length /\ call' = call /\ store' = store /\ may' = may
    BY DEF Mcache!Eof, Mcache!Fclose, Mcache!Done, Mcache!Answer, Mcache!Returns
  <1>2. <<>> \in Seq(Words) /\ <<>> \in Seq(McLines) /\ <<>> \in Seq([w : Words, v : McFound])
    OBVIOUS
  <1>3. call.n \in Nat /\ Mcache!Nothing \in McFound
    BY DEF McIInv, McTypes, McCalls, McFound
  <1>4. outcome' \in McLines /\ outcome'.n = call.n /\ outcome'.kind = "io"
    BY <1>0, <1>1, <1>2, <1>3 DEF Mcache!Line, McLines, McKinds
  <1>5. sent' \in Seq(McLines) /\ recv' \in Seq(McLines) /\ got' \in Seq([w : Words, v : McFound])
    BY <1>0, <1>1, <1>2, Zenon
  <1>6. McTypes'
    <2>1. Mcache!TypeOK'
      BY <1>0, McKeys DEF McIInv, McTypes, Mcache!TypeOK, Mcache!Pcs
    <2> QED BY <1>0, <1>1, <1>4, <1>5, <2>1, Zenon DEF McIInv, McTypes
  <1>7. McRunning' /\ McAsked' /\ McInOrder' /\ McOwn(recv)' /\ McSettled'
    BY <1>0, <1>1 DEF McIInv, McRunning, McSilent, McAsked, McInOrder, McChained, McOwn, McSettled
  <1>8. McFresh' /\ Mcache!NoFalseAlarm'
    BY <1>0, <1>1, <1>4 DEF McIInv, McFresh, Mcache!NoFalseAlarm
  <1> QED BY <1>6, <1>7, <1>8 DEF McIInv

\* What is known of the next line and of those after it
LEMMA McReading ==
    ASSUME McIInv, recv # <<>>
    PROVE  /\ mcfp /\ pc # "idle" /\ sent = <<>> /\ awaits = 0
           /\ McSound(Tail(recv)) /\ Head(recv) = recv[1]
           /\ recv[1] \in McLines /\ recv[1].n = call.n /\ McExpected(recv[1])
           /\ <<pc, recv[1].kind>> \in McFirst
           /\ Tail(recv) # <<>> => <<recv[1].kind, Tail(recv)[1].kind>> \in McFollows
  <1>1. McSound(recv)
    BY DEF McIInv, McTypes, McInOrder, McFresh, McSound
  <1>2. mcfp /\ pc # "idle" /\ sent = <<>> /\ awaits = 0
    BY DEF McIInv, McRunning, McSilent, McAsked
  <1> QED BY <1>1, <1>2, McTailSound DEF McIInv, McInOrder

\* The last line of a reply ends the call.
LEMMA McLastLineKeeps ==
    ASSUME McIInv, recv # <<>>, Mcache!Read, Mcache!Done(Mcache!Next1), UNCHANGED <<mcfp, length, got>>,
           Mcache!Next1.kind \in McFinal,
           may' \in [Words -> SUBSET McFound],
           \A w \in Words : store[w] # Mcache!Nothing => store[w] \in may'[w],
           may' = may \/ got = <<>>
    PROVE  McIInv'
  <1>1. /\ pc' = "idle" /\ mcfp' = mcfp /\ length' = length /\ got' = got /\ outcome' = recv[1]
        /\ call' = call /\ alive' = alive /\ sent' = sent /\ awaits' = awaits /\ store' = store
    BY McReading DEF Mcache!Read, Mcache!Done, Mcache!Next1
  <1>2. recv' = <<>>
    <2>1. \A kind : <<Mcache!Next1.kind, kind>> \notin McFollows
      BY DEF McFollows, McFinal, Mcache!Refusals
    <2> QED BY <2>1, McReading DEF Mcache!Read, Mcache!Next1
  <1>3. <<>> \in Seq(McLines)
    OBVIOUS
  <1>4. recv' \in Seq(McLines)
    BY <1>2, <1>3, Zenon
  <1>5. McTypes'
    <2>1. Mcache!TypeOK'
      BY <1>1 DEF McIInv, McTypes, Mcache!TypeOK, Mcache!Pcs
    <2> QED BY <1>1, <1>4, <2>1, McReading DEF McIInv, McTypes
  <1>6. McRunning' /\ McAsked' /\ McSettled' /\ Mcache!NoFalseAlarm'
    BY <1>1, <1>2, McReading DEF McRunning, McSilent, McAsked, McSettled, Mcache!NoFalseAlarm, Mcache!Next1,
         McFinal
  <1>7. McInOrder' /\ McOwn(recv)'
    BY <1>1, <1>2 DEF McInOrder, McChained, McOwn
  <1>8. McFresh'
    BY <1>1, <1>2 DEF McIInv, McFresh
  <1> QED BY <1>5, <1>6, <1>7, <1>8 DEF McIInv

LEMMA McReadSetKeeps == ASSUME McIInv, Mcache!ReadSet PROVE McIInv'
  <1>1. /\ pc = "set" /\ recv # <<>> /\ Mcache!Read /\ Mcache!Done(Mcache!Next1) /\ UNCHANGED <<mcfp, length, got>>
    BY DEF Mcache!ReadSet, Mcache!At
  <1>2. Mcache!Next1 = recv[1] /\ Mcache!Next1.kind \in McFinal
    BY <1>1, McReading DEF McFirst, McFinal, Mcache!Refusals, Mcache!Next1
  <1>3. /\ may \in [Words -> SUBSET McFound] /\ got = <<>>
        /\ \A w \in Words : store[w] # Mcache!Nothing => store[w] \in may[w]
    BY <1>1 DEF McIInv, McTypes, McFresh, McSettled
  <1>4. CASE Mcache!Next1.kind = "STORED"
    <2>1. may' = [may EXCEPT ![call.key[1]] = {call.v}]
      BY <1>4 DEF Mcache!ReadSet, Mcache!Expect
    <2>2. call.key[1] \in Words
      BY <1>1, McKeys DEF McIInv, McRunning, McAllKeys
    <2>3. store[call.key[1]] \in {Mcache!Nothing, call.v} /\ call.v \in McFound
      BY <1>1, <1>2, <1>4 DEF McIInv, McSettled, McFound
    <2>4. /\ may' \in [Words -> SUBSET McFound]
          /\ \A w \in Words : may'[w] = IF w = call.key[1] THEN {call.v} ELSE may[w]
      BY <1>3, <2>1, <2>2, <2>3
    <2>5. \A w \in Words : store[w] # Mcache!Nothing => store[w] \in may'[w]
      BY <1>3, <2>3, <2>4
    <2> QED BY <1>1, <1>2, <1>3, <2>4, <2>5, McLastLineKeeps
  <1>5. CASE Mcache!Next1.kind # "STORED"
    <2>1. may' = may
      BY <1>5 DEF Mcache!ReadSet
    <2> QED BY <1>1, <1>2, <1>3, <2>1, McLastLineKeeps
  <1> QED BY <1>4, <1>5

LEMMA McReadDeleteKeeps == ASSUME McIInv, Mcache!ReadDelete PROVE McIInv'
  <1>1. /\ pc = "del" /\ recv # <<>> /\ Mcache!Read /\ Mcache!Done(Mcache!Next1) /\ UNCHANGED <<mcfp, length, got>>
    BY DEF Mcache!ReadDelete, Mcache!At
  <1>2. Mcache!Next1 = recv[1] /\ Mcache!Next1.kind \in McFinal
    BY <1>1, McReading DEF McFirst, McFinal, Mcache!Refusals, Mcache!Next1
  <1>3. /\ may \in [Words -> SUBSET McFound] /\ got = <<>>
        /\ \A w \in Words : store[w] # Mcache!Nothing => store[w] \in may[w]
    BY <1>1 DEF McIInv, McTypes, McFresh, McSettled
  <1>4. CASE Len(call.key) = 1
    <2>1. may' = [may EXCEPT ![call.key[1]] = {}]
      BY <1>4 DEF Mcache!ReadDelete, Mcache!Expect
    <2>2. call.key[1] \in Words /\ store[call.key[1]] = Mcache!Nothing
      BY <1>1, <1>4, McKeys DEF McIInv, McRunning, McAllKeys, McSettled
    <2>3. /\ may' \in [Words -> SUBSET McFound]
          /\ \A w \in Words : may'[w] = IF w = call.key[1] THEN {} ELSE may[w]
      BY <1>3, <2>1, <2>2
    <2>4. \A w \in Words : store[w] # Mcache!Nothing => store[w] \in may'[w]
      BY <1>3, <2>2, <2>3
    <2> QED BY <1>1, <1>2, <1>3, <2>3, <2>4, McLastLineKeeps
  <1>5. CASE Len(call.key) # 1
    <2>1. may' = may
      BY <1>5 DEF Mcache!ReadDelete
    <2> QED BY <1>1, <1>2, <1>3, <2>1, McLastLineKeeps
  <1> QED BY <1>4, <1>5

\* Any other line that get reads
LEMMA McLineKeeps ==
    ASSUME McIInv, recv # <<>>, recv' = Tail(recv), pc \in {"get", "body", "crlf"},
           pc' \in {"get", "body", "crlf"}, length' \in 0..2, pc' = "body" => length' < 2,
           UNCHANGED <<mcfp, call, outcome, alive, sent, awaits, store, may>>,
           Tail(recv) # <<>> => <<pc', Tail(recv)[1].kind>> \in McFirst',
           got' \in Seq([w : Words, v : McFound]),
           \A i \in 1..Len(got') : got'[i].v \in may[got'[i].w]
    PROVE  McIInv'
  <1>1. Mcache!TypeOK'
    BY DEF McIInv, McTypes, Mcache!TypeOK, Mcache!Pcs
  <1>2. McTypes'
    BY <1>1, McReading DEF McIInv, McTypes, McSound
  <1>3. McRunning' /\ McAsked' /\ McSettled' /\ Mcache!NoFalseAlarm'
    BY McReading DEF McIInv, McRunning, McAsked, McSettled, Mcache!NoFalseAlarm
  <1>4. McInOrder' /\ McOwn(recv)'
    BY McReading DEF McInOrder, McOwn, McSound, McChained
  <1>5. McFresh'
    BY McReading DEF McIInv, McFresh, McSound, McExpected
  <1> QED BY <1>2, <1>3, <1>4, <1>5 DEF McIInv

LEMMA McReadGetKeeps == ASSUME McIInv, Mcache!ReadGet PROVE McIInv'
  <1>1. pc = "get" /\ recv # <<>> /\ Mcache!Next1 = recv[1] /\ may' = may
    BY McReading DEF Mcache!ReadGet, Mcache!At, Mcache!Next1
  <1>2. /\ may \in [Words -> SUBSET McFound] /\ got \in Seq([w : Words, v : McFound])
        /\ \A w \in Words : store[w] # Mcache!Nothing => store[w] \in may[w]
        /\ \A i \in 1..Len(got) : got[i].v \in may[got[i].w]
    BY DEF McIInv, McTypes, McFresh
  <1>3. CASE Mcache!Next1.kind = "END" /\ Mcache!Read /\ Mcache!Done(Mcache!Next1) /\ UNCHANGED <<mcfp, length, got>>
    BY <1>1, <1>2, <1>3, McLastLineKeeps DEF McFinal
  <1>4. CASE Mcache!Next1.kind = "VALUE" /\ Mcache!Read /\ pc' = "body" /\ length' = 0 /\ UNCHANGED <<mcfp, outcome, got>>
    <2>1. Tail(recv) # <<>> => Tail(recv)[1].kind = "part"
      BY <1>1, <1>4, McReading DEF McFollows
    <2>2. <<"body", "part">> \in McFirst'
      BY <1>4 DEF McFirst
    <2>3. /\ recv' = Tail(recv) /\ length' \in 0..2 /\ length' < 2
          /\ UNCHANGED <<mcfp, call, outcome, alive, sent, awaits, store, may, got>>
      BY <1>1, <1>4 DEF Mcache!Read
    <2> QED BY <1>1, <1>2, <1>4, <2>1, <2>2, <2>3, McLineKeeps
  <1>5. CASE /\ Mcache!Next1.kind \notin {"END", "VALUE"} /\ Mcache!Fclose /\ Mcache!Done(Mcache!Next1) /\ got' = <<>>
             /\ UNCHANGED <<call, length, store>>
    <2>1. /\ Mcache!Next1.kind = "SERVER_ERROR" /\ Mcache!Next1 \in McLines /\ Mcache!Next1.n = call.n
      BY <1>1, <1>5, McReading DEF McFirst
    <2>2. sent' = <<>> /\ recv' = <<>> /\ got' = <<>>
      BY <1>5 DEF Mcache!Fclose
    <2>3. /\ pc' = "idle" /\ outcome' = Mcache!Next1 /\ awaits' = 0 /\ mcfp' \in BOOLEAN /\ ~mcfp' /\ alive' = mcfp'
          /\ call' = call /\ length' = length /\ store' = store
      BY <1>5 DEF Mcache!Fclose, Mcache!Done
    <2>4. <<>> \in Seq(McLines) /\ <<>> \in Seq([w : Words, v : McFound])
      OBVIOUS
    <2>5. sent' \in Seq(McLines) /\ recv' \in Seq(McLines) /\ got' \in Seq([w : Words, v : McFound])
      BY <2>2, <2>4, Zenon
    <2>6. Mcache!TypeOK'
      BY <2>3, McKeys DEF McIInv, McTypes, Mcache!TypeOK, Mcache!Pcs
    <2>7. McTypes'
      BY <1>1, <2>1, <2>3, <2>5, <2>6, Zenon DEF McIInv, McTypes
    <2>8. McRunning' /\ McAsked' /\ McInOrder' /\ McOwn(recv)' /\ McSettled'
      BY <2>2, <2>3 DEF McRunning, McSilent, McAsked, McInOrder, McChained, McOwn, McSettled
    <2>9. McFresh' /\ Mcache!NoFalseAlarm'
      BY <1>1, <2>1, <2>2, <2>3 DEF McIInv, McFresh, Mcache!NoFalseAlarm, Mcache!Refusals
    <2> QED BY <2>7, <2>8, <2>9 DEF McIInv
  <1> QED BY <1>3, <1>4, <1>5 DEF Mcache!ReadGet

LEMMA McReadBodyKeeps == ASSUME McIInv, Mcache!ReadBody PROVE McIInv'
  <1>1. /\ pc = "body" /\ recv # <<>> /\ recv' = Tail(recv) /\ length < 2 /\ length' = length + 1
        /\ pc' = (IF length' < 2 THEN "body" ELSE "crlf")
        /\ UNCHANGED <<mcfp, call, outcome, alive, sent, awaits, store, may, got>>
    BY DEF Mcache!ReadBody, Mcache!At, Mcache!Read, Mcache!Short
  <1>2. length = 0 \/ length = 1
    BY <1>1 DEF McIInv, McTypes, Mcache!TypeOK
  <1>3. /\ got \in Seq([w : Words, v : McFound])
        /\ \A i \in 1..Len(got) : got[i].v \in may[got[i].w]
    BY DEF McIInv, McTypes, McFresh
  <1>4. CASE length = 0
    <2>1. pc' = "body" /\ length' = 1
      BY <1>1, <1>4
    <2>2. recv[1].kind = "part"
      BY <1>1, <1>4, McReading DEF McFirst
    <2>3. Tail(recv) # <<>> => Tail(recv)[1].kind = "rest"
      BY <1>1, <2>2, McReading DEF McFollows
    <2>4. <<"body", "rest">> \in McFirst'
      BY <2>1 DEF McFirst
    <2>5. <<pc', Tail(recv)[1].kind>> \in McFirst' \/ Tail(recv) = <<>>
      BY <2>1, <2>3, <2>4
    <2>6. length' \in 0..2 /\ (pc' = "body" => length' < 2)
      BY <2>1
    <2> QED BY <1>1, <1>3, <2>1, <2>5, <2>6, McLineKeeps
  <1>5. CASE length = 1
    <2>1. pc' = "crlf" /\ length' = 2
      BY <1>1, <1>5
    <2>2. recv[1].kind = "rest"
      BY <1>1, <1>5, McReading DEF McFirst
    <2>3. Tail(recv) # <<>> => Tail(recv)[1].kind = "crlf"
      BY <1>1, <2>2, McReading DEF McFollows
    <2>4. <<"crlf", "crlf">> \in McFirst'
      BY DEF McFirst
    <2>5. <<pc', Tail(recv)[1].kind>> \in McFirst' \/ Tail(recv) = <<>>
      BY <2>1, <2>3, <2>4
    <2>6. length' \in 0..2 /\ (pc' = "body" => length' < 2)
      BY <2>1
    <2> QED BY <1>1, <1>3, <2>1, <2>5, <2>6, McLineKeeps
  <1> QED BY <1>2, <1>4, <1>5

LEMMA McReadCrLfKeeps == ASSUME McIInv, Mcache!ReadCrLf PROVE McIInv'
  <1> DEFINE found == [w |-> recv[1].key[1], v |-> recv[1].v]
  <1>1. /\ pc = "crlf" /\ recv # <<>> /\ recv' = Tail(recv) /\ pc' = "get"
        /\ got' = Append(got, found) /\ length' = length
        /\ UNCHANGED <<mcfp, call, outcome, alive, sent, awaits, store, may>>
    BY McReading DEF Mcache!ReadCrLf, Mcache!At, Mcache!Skips, Mcache!Next1
  <1>2. recv[1].kind = "crlf" /\ recv[1] \in McLines /\ McExpected(recv[1])
    BY <1>1, McReading DEF McFirst
  <1>3. recv[1].key \in Seq(Words) /\ recv[1].key # <<>> /\ recv[1].v \in may[recv[1].key[1]]
        /\ recv[1].v \in McFound
    BY <1>2 DEF McExpected, McValueKinds, McLines
  <1>4. found \in [w : Words, v : McFound] /\ found.v \in may[found.w]
    BY <1>3
  <1> HIDE DEF found
  <1>5. /\ got \in Seq([w : Words, v : McFound])
        /\ \A i \in 1..Len(got) : got[i].v \in may[got[i].w]
    BY DEF McIInv, McTypes, McFresh
  <1>6. /\ got' \in Seq([w : Words, v : McFound]) /\ Len(got') = Len(got) + 1
        /\ got'[Len(got) + 1] = found /\ \A i \in 1..Len(got) : got'[i] = got[i]
    BY <1>1, <1>4, <1>5
  <1>7. \A i \in 1..Len(got') : got'[i].v \in may[got'[i].w]
    <2> SUFFICES ASSUME NEW i \in 1..Len(got')
                 PROVE  got'[i].v \in may[got'[i].w]
      OBVIOUS
    <2>1. CASE i \in 1..Len(got)
      BY <1>5, <1>6, <2>1
    <2>2. CASE i = Len(got) + 1
      BY <1>4, <1>6, <2>2
    <2> QED BY <1>5, <1>6, <2>1, <2>2
  <1>8. Tail(recv) # <<>> => <<pc', Tail(recv)[1].kind>> \in McFirst'
    BY <1>1, <1>2, McReading DEF McFollows, McFirst
  <1>9. length' \in 0..2
    BY <1>1 DEF McIInv, McTypes, Mcache!TypeOK
  <1> QED BY <1>1, <1>6, <1>7, <1>8, <1>9, McLineKeeps
--------------------------------------------------------------------------------
(***************************************************************************)
(* The theorems.                                                           *)
(***************************************************************************)
LEMMA McInitInv == Mcache!Init => McIInv
  <1> SUFFICES ASSUME Mcache!Init PROVE McIInv
    OBVIOUS
  <1>1. /\ mcfp \in BOOLEAN /\ ~mcfp /\ pc = "idle" /\ call = Mcache!NoCall /\ length = 0 /\ got = <<>>
        /\ outcome = Mcache!Line(0, "none", <<>>, Mcache!Nothing)
        /\ alive \in BOOLEAN /\ ~alive /\ sent = <<>> /\ recv = <<>> /\ awaits = 0
        /\ store = [w \in Words |-> Mcache!Nothing] /\ may = [w \in Words |-> {}]
    BY DEF Mcache!Init, Mcache!Answer, Mcache!NoCall
  <1>2. /\ <<>> \in Seq(Words) /\ <<>> \in Seq(McLines) /\ <<>> \in Seq([w : Words, v : McFound])
    OBVIOUS
  <1>3. call \in McCalls /\ call.n = 0 /\ outcome \in McLines /\ outcome.n = 0 /\ outcome.kind = "none"
    BY <1>1, <1>2, McKeys DEF Mcache!NoCall, McCalls, Mcache!Line, McLines, McFound, McKinds
  <1>4. Mcache!TypeOK
    <2>1. pc \in Mcache!Pcs /\ length \in 0..2
      BY <1>1 DEF Mcache!Pcs
    <2>2. call.n \in 0..MaxCalls /\ awaits \in 0..MaxCalls
      BY <1>1, <1>3, McKeys
    <2>3. store \in [Words -> Values \cup {Mcache!Nothing}]
      BY <1>1
    <2> QED BY <1>1, <2>1, <2>2, <2>3 DEF Mcache!TypeOK
  <1>5. sent \in Seq(McLines) /\ recv \in Seq(McLines) /\ got \in Seq([w : Words, v : McFound])
    BY <1>1, <1>2, Zenon
  <1>6. may \in [Words -> SUBSET McFound]
    BY <1>1
  <1>7. McRunning /\ McAsked /\ McInOrder /\ McOwn(recv) /\ McSettled
    BY <1>1 DEF McRunning, McSilent, McAsked, McInOrder, McChained, McOwn, McSettled
  <1>8. McFresh /\ Mcache!NoFalseAlarm
    BY <1>1, <1>3 DEF McFresh, Mcache!NoFalseAlarm
  <1> QED BY <1>3, <1>4, <1>5, <1>6, <1>7, <1>8 DEF McIInv, McTypes

LEMMA McNextInv == ASSUME PlainKeys PROVE McIInv /\ [Mcache!Next]_(Mcache!vars) => McIInv'
  <1> SUFFICES ASSUME McIInv, [Mcache!Next]_(Mcache!vars) PROVE McIInv'
    OBVIOUS
  <1>1. CASE Mcache!Server
    BY <1>1, McServeSetKeeps, McServeDataKeeps, McServeGetKeeps, McServeDeleteKeeps, McEvictKeeps, McBreakKeeps
       DEF Mcache!Server
  <1>2. CASE Mcache!Open \/ Mcache!Close \/ Mcache!SetCall \/ Mcache!SetFails \/ Mcache!GetCall \/ Mcache!DelCall
    BY <1>2, McOpenCloseKeeps, McCallKeeps, McSetFailsKeeps
  <1>3. CASE Mcache!ReadSet \/ Mcache!ReadDelete \/ Mcache!ReadGet \/ Mcache!ReadBody \/ Mcache!ReadCrLf \/ Mcache!Eof
    BY <1>3, McReadSetKeeps, McReadDeleteKeeps, McReadGetKeeps, McReadBodyKeeps, McReadCrLfKeeps, McEofKeeps
  <1>4. CASE UNCHANGED Mcache!vars
    BY <1>4 DEF Mcache!vars, McIInv, McTypes, Mcache!TypeOK, McRunning, McSilent, McAsked, McRequest,
         McInOrder, McChained, McFirst,
                McOwn, McFresh, McExpected, McSettled, Mcache!NoFalseAlarm
  <1> QED BY <1>1, <1>2, <1>3, <1>4 DEF Mcache!Next, Mcache!Client

LEMMA McSpecInvariant == ASSUME PlainKeys PROVE Mcache!Spec => []McIInv
  BY McInitInv, McNextInv, PTL DEF Mcache!Spec
--------------------------------------------------------------------------------
(***************************************************************************)
(* All of them: each behaviour is one of each library.                     *)
(***************************************************************************)
LEMMA HandlesImplies == HandlesSpec => Mysql!Spec /\ Curl!Spec /\ Mcache!Spec /\ Spec
  <1>1. HandlesInit => Mysql!Init /\ Curl!Init /\ Mcache!Init /\ Init
    BY DEF HandlesInit
  <1>2. [HandlesNext]_allVars => /\ [Mysql!Next]_(Mysql!vars) /\ [Curl!Next]_(Curl!vars)
                                /\ [Mcache!Next]_(Mcache!vars) /\ [Next]_vars
    BY DEF HandlesNext, allVars, UsesMysql, UsesCurl, UsesOra, UsesMcache, mysql, curl, mcache,
           Mysql!vars, Curl!vars, Curl!log, Mcache!vars, vars
  <1> QED BY <1>1, <1>2, PTL DEF HandlesSpec, Mysql!Spec, Curl!Spec, Mcache!Spec, Spec

\* No connection and no result of MySQL is closed twice, used afterwards or lost, whoever
\* closes what first, for any number of them (lua_mysql_close, lua_mysql_result_close, __gc).
THEOREM MysqlObjectsSafe == HandlesSpec => []MysqlSafe
  <1>1. Mysql!MysqlSafe => MysqlSafe
    BY DEF MysqlSafe
  <1> QED BY <1>1, HandlesAssumption, HandlesImplies, MysqlSpecSafe, PTL

\* A loop over rows() of a MySQL result that nothing disturbs gets every row, in order, for
\* any number of rows, results and loops (lua_mysql_result_rows_next).
THEOREM MysqlLoopsInOrder == HandlesSpec => []MysqlRows
  <1>1. Mysql!MysqlRows => MysqlRows
    BY DEF MysqlRows
  <1> QED BY <1>1, HandlesAssumption, HandlesImplies, MysqlSpecInOrder, PTL

\* Easy handles and header lists are never freed twice or used afterwards, whatever scripts,
\* states and threads do, and none is lost but a list that curl_slist_append did not extend;
\* a log file is only if it was closed while a handle logged to it, or if a second state read
\* fp while one was closing the file (lua_curl_close, luaclose_luacurl).
THEOREM CurlObjectsSafe == HandlesSpec => []CurlSafe
  <1>1. Curl!CurlSafe => CurlSafe
    BY DEF CurlSafe
  <1> QED BY <1>1, HandlesAssumption, HandlesImplies, CurlSpecSafe, PTL

\* libcurl is initialised as long as a script can use a handle, whichever other states are
\* opened and closed (luaopen_luacurl, luaclose_luacurl).
THEOREM CurlInitialised == HandlesSpec => []InitialisedForScripts
  <1>1. Curl!InitialisedForScripts => InitialisedForScripts
    BY DEF InitialisedForScripts
  <1> QED BY <1>1, HandlesAssumption, HandlesImplies, CurlSpecInitialised, PTL

\* A status is that of the handle's last send or 0, however many fail (lua_curl_send).
THEOREM CurlStatusIsLast == HandlesSpec => []StatusIsLast
  <1>1. Curl!StatusIsLast => StatusIsLast
    BY DEF StatusIsLast
  <1> QED BY <1>1, HandlesAssumption, HandlesImplies, CurlSpecStatus, PTL

\* No session, statement, row or variable is lost, and none is freed twice or used by OCI
\* afterwards, but for a session that a script closes before its statement and a row with a
\* column that OCI could not define anew (OCI_STMT::clear, lua_ora_stmt_execute).
THEOREM OraObjectsSafe == HandlesSpec => []OraSafe
  BY HandlesAssumption, HandlesImplies, OraSpecSafe, PTL

\* The number bind has returned is that of the buffer OCI has for the variable, also after
\* binds that failed, for any number of variables (lua_ora_stmt_bind).
THEOREM OraBindsInPlace == HandlesSpec => []BindsInPlace
  BY HandlesAssumption, HandlesImplies, OraSpecInPlace, PTL

\* A loop over rows() of a statement that nothing disturbs has been given the rows up to
\* OCI's cursor, and all when it ends (lua_ora_stmt_rows_next).
THEOREM OraLoopsInOrder == HandlesSpec => []OraRows
  BY HandlesAssumption, HandlesImplies, OraSpecInOrder, PTL

\* If the keys given to set have no spaces, every call to memcached has read the whole of its
\* reply when it returns, whatever the server answers and wherever the connection breaks, so
\* that the next one reads its own (lua_mcache_set, lua_mcache_get, lua_mcache_del).
THEOREM CallsInStep == ASSUME PlainKeys PROVE HandlesSpec => []InStep
  <1>1. McIInv => InStep
    BY DEF McIInv, McRunning, McSilent, InStep, Mcache!InStep
  <1> QED BY <1>1, McSpecInvariant, HandlesImplies, PTL

\* If the keys given to set have no spaces, what get returns is a value that the script has
\* set and neither replaced nor deleted since, never a piece of one (lua_mcache_get).
THEOREM ValuesAreCurrent == ASSUME PlainKeys PROVE HandlesSpec => []Current
  <1>1. McIInv => Current
    <2> SUFFICES ASSUME McIInv, NEW i \in DOMAIN got PROVE got[i].v \in may[got[i].w]
      BY DEF Current, Mcache!Current
    <2>1. got \in Seq([w : Words, v : McFound])
      BY DEF McIInv, McTypes
    <2> QED BY <2>1 DEF McIInv, McFresh
  <1> QED BY <1>1, McSpecInvariant, HandlesImplies, PTL

\* If the keys given to set have no spaces, no call to memcached fails for what an earlier one
\* has left behind (lua_mcache_set, lua_mcache_get, lua_mcache_del).
THEOREM ErrorsAreOwn == ASSUME PlainKeys PROVE HandlesSpec => []NoFalseAlarm
  <1>1. McIInv => NoFalseAlarm
    BY DEF McIInv, NoFalseAlarm
  <1> QED BY <1>1, McSpecInvariant, HandlesImplies, PTL

\* If the keys given to set have no spaces, the connection's variables stay in their ranges: of
\* a value no more pieces are read than it has (the loop of fread in lua_mcache_get).
THEOREM McacheTypeCorrect == ASSUME PlainKeys PROVE HandlesSpec => []Mcache!TypeOK
  <1>1. McIInv => Mcache!TypeOK
    BY DEF McIInv, McTypes
  <1> QED BY <1>1, McSpecInvariant, HandlesImplies, PTL
================================================================================
