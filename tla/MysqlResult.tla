------------------------------ MODULE MysqlResult ------------------------------
(***************************************************************************)
(* src/luamysql/luamysql.cpp: connections, the results of their queries,   *)
(* and iterators over the results' rows.  The script closes them, or the   *)
(* collector does, in any order; an iterator is a closure that keeps its   *)
(* result, but nothing keeps a result's connection.                        *)
(*                                                                         *)
(* The client library is external: a query or a connection may fail, a     *)
(* statement may have no result, and a result has any number of rows.      *)
(***************************************************************************)
EXTENDS Integers, CHeap

CONSTANTS Conns, Results, Iters,
          NoConn,
          MaxRows

\* What is assumed of the constants
MysqlAssumption == Conns \cap Results = {} /\ NoConn \notin Conns /\ MaxRows \in Nat

VARIABLES heap,    \* the library's objects: MYSQL (once connected) and MYSQL_RES
          conn,    \* LMYSQL: "none", online or not, or "gone" when collected
          res,     \* LMYSQL_RESULT, with its rows and the library's cursor
          iter     \* closures of lua_mysql_result_rows_next

vars == <<heap, conn, res, iter>>

NoResult == [state |-> "none", of |-> NoConn, rows |-> 0, cursor |-> 0]
\* given is how many rows the iterator has given while it was alone: nothing else has
\* moved the cursor since it was made.
NoIter == [state |-> "none", res |-> {}, given |-> 0, alone |-> FALSE]

Init == /\ heap = [x \in Conns \cup Results |-> "none"]
        /\ conn = [k \in Conns |-> "none"]
        /\ res = [r \in Results |-> NoResult]
        /\ iter = [i \in Iters |-> NoIter]

(***************************************************************************)
(* Connections.                                                            *)
(***************************************************************************)
\* mysql_init or mysql_real_connect may fail; the latter's error closes again.
Open(k) == /\ conn[k] = "none"
           /\ \/ conn' = [conn EXCEPT ![k] = "offline"] /\ UNCHANGED heap
              \/ /\ conn' = [conn EXCEPT ![k] = "offline"]
                 /\ heap' = Released(Allocated(heap, {k}), {k})
              \/ /\ conn' = [conn EXCEPT ![k] = "online"]
                 /\ heap' = Allocated(heap, {k})
           /\ UNCHANGED <<res, iter>>
\* close, and __gc, after which the object is gone
Close(k, after) ==
    /\ conn[k] \in {"online", "offline"}
    /\ heap' = IF conn[k] = "online" THEN Released(heap, {k}) ELSE heap
    /\ conn' = [conn EXCEPT ![k] = after]
    /\ UNCHANGED <<res, iter>>
\* escape, affected_rows, insert_id
Ask(k) == /\ conn[k] \in {"online", "offline"}
          /\ heap' = IF conn[k] = "online" THEN Used(heap, {k}) ELSE heap
          /\ UNCHANGED <<conn, res, iter>>

\* mysql_store_result copies the rows, so that the result stands alone.
Needs_Connection(r) == {r, res[r].of}
Needs(r) == {r}

Query(k, r) == /\ conn[k] \in {"online", "offline"} /\ heap[r] = "none"
               /\ \/ \* offline, an error that is raised, or no result
                     /\ heap' = IF conn[k] = "online" THEN Used(heap, {k}) ELSE heap
                     /\ UNCHANGED res
                  \/ \* a result without fields
                     /\ conn[k] = "online"
                     /\ heap' = Released(Allocated(Used(heap, {k}), {r}), {r})
                     /\ UNCHANGED res
                  \/ /\ conn[k] = "online"
                     /\ heap' = Allocated(Used(heap, {k}), {r})
                     /\ \E n \in 0..MaxRows :
                          res' = [res EXCEPT ![r] = [state |-> "open", of |-> k, rows |-> n, cursor |-> 0]]
               /\ UNCHANGED <<conn, iter>>

(***************************************************************************)
(* Results and their rows.                                                 *)
(***************************************************************************)
Free(r, after) ==
    /\ res[r].state \in {"open", "closed"}
    /\ heap' = IF res[r].state = "open" THEN Released(heap, Needs(r)) ELSE heap
    /\ res' = [res EXCEPT ![r].state = after]
    /\ UNCHANGED <<conn, iter>>
CloseResult(r) == Free(r, "closed")
\* An iterator's upvalue keeps its result.
CollectResult(r) == (\A i \in Iters : r \notin iter[i].res) /\ Free(r, "gone")

Disturbed(r) == [j \in Iters |-> IF r \notin iter[j].res THEN iter[j]
                                 ELSE [iter[j] EXCEPT !.alone = FALSE, !.given = 0]]
\* mysql_data_seek(result, 0)
Sought_Not(cursor) == cursor
Sought(cursor) == 0

\* rows returns an iterator, or nothing for a closed result.
RowsOf(r, i) == /\ res[r].state = "open" /\ iter[i].state = "none"
                /\ heap' = Used(heap, Needs(r))
                /\ res' = [res EXCEPT ![r].cursor = Sought(@)]
                /\ iter' = [Disturbed(r) EXCEPT ![i] = [state |-> "on", res |-> {r}, given |-> 0, alone |-> TRUE]]
                /\ UNCHANGED conn
\* lua_mysql_result_rows_next
RowsNext(i) == \E r \in iter[i].res :
    /\ iter[i].state \in {"on", "ended"} /\ res[r].state = "open"
    /\ heap' = Used(heap, Needs(r))
    /\ IF res[r].cursor < res[r].rows
       THEN /\ res' = [res EXCEPT ![r].cursor = @ + 1]
            /\ iter' = [j \in Iters |->
                           IF j # i THEN Disturbed(r)[j]
                           ELSE [iter[i] EXCEPT !.given = IF iter[i].alone THEN @ + 1 ELSE 0, !.state = "on"]]
       ELSE iter' = [iter EXCEPT ![i].state = "ended"] /\ UNCHANGED res
    /\ UNCHANGED conn
Table(r) == /\ res[r].state = "open"
            /\ heap' = Used(heap, Needs(r))
            /\ res' = [res EXCEPT ![r].cursor = res[r].rows]
            /\ iter' = Disturbed(r)
            /\ UNCHANGED conn
DropIter(i) == /\ iter[i].state # "none" /\ iter[i].res # {}
               /\ iter' = [iter EXCEPT ![i].res = {}, ![i].state = "gone"]
               /\ UNCHANGED <<heap, conn, res>>

Next == \/ \E k \in Conns : Open(k) \/ Close(k, "offline") \/ Close(k, "gone") \/ Ask(k)
        \/ \E k \in Conns, r \in Results : Query(k, r)
        \/ \E r \in Results : CloseResult(r) \/ CollectResult(r) \/ Table(r)
        \/ \E r \in Results, i \in Iters : RowsOf(r, i)
        \/ \E i \in Iters : RowsNext(i) \/ DropIter(i)
Spec == Init /\ [][Next]_vars
--------------------------------------------------------------------------------
(***************************************************************************)
(* Properties.                                                             *)
(***************************************************************************)
Held == {k \in Conns : conn[k] = "online"} \cup {r \in Results : res[r].state = "open"}

\* Connections and results are freed once and not used afterwards, whoever
\* closes what first and whatever the collector takes before; none is lost.
MysqlSafe == Sound(heap, Held)

\* A loop over rows() that nothing else disturbs gets every row, in order, and
\* ends after the last, also when another loop or table() has left the cursor of
\* the result elsewhere.
MysqlRows ==
    \A i \in Iters, r \in Results :
        iter[i].alone /\ r \in iter[i].res /\ res[r].state = "open" =>
            /\ iter[i].given = res[r].cursor
            /\ iter[i].state = "ended" => iter[i].given = res[r].rows
================================================================================
