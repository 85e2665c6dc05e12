------------------------------ MODULE OraStatement -----------------------------
(***************************************************************************)
(* src/luaora/luaora.cpp: sessions, statements with their row and bound    *)
(* variables, and iterators over the rows, over OCI.  A statement keeps a  *)
(* copy of the session's pointer but not the session, and OCI keeps the    *)
(* places of the statement's row and variables, into which it writes.      *)
(*                                                                         *)
(* OCI is external: every call may fail.  A query's rows can be fetched    *)
(* from the first one again (OCI_STMT_SCROLLABLE_READONLY).  A column that *)
(* OCI could not define anew goes where it went before.                    *)
(***************************************************************************)
EXTENDS Integers, Sequences, CHeap

CONSTANTS Sessions, Stmts, Iters,
          Buffers,          \* what malloc and calloc give
          Names,            \* names or positions of bound variables
          None,
          max_bind_count,
          MaxRows           \* rows of a query

\* What is assumed of the constants
OraAssumption ==
    /\ Sessions \cap Stmts = {} /\ Sessions \cap Buffers = {} /\ Stmts \cap Buffers = {}
    /\ None \notin Sessions \cup Stmts \cup Buffers
    /\ max_bind_count \in Nat /\ MaxRows \in Nat

VARIABLES heap,     \* OCISvcCtx, OCIStmt and buffers
          session,  \* OCI_SVC: "none", "open", "closed" or "gone" when collected
          stmt,     \* OCI_STMT
          oci,      \* what OCI knows of a statement
          iter,     \* closures of lua_ora_stmt_rows_next
          pending,  \* sessions with work of execute that is not yet committed
          \* History: sessions that were closed before a statement of theirs
          orphaned,
          \* History: rows that were freed, and in which OCI still had a column of
          \* a statement that had got another row
          stale

vars == <<heap, session, stmt, oci, iter, pending, orphaned, stale>>

\* stmt is whether the handle is not 0, binds are the buffers of OCI_BIND_DEFINE,
\* index is what bind has returned for a name, or 0.
NoStmt == [state |-> "none", svc |-> None, stmt |-> FALSE, select |-> FALSE, executed |-> FALSE,
           row |-> None, binds |-> <<>>, index |-> [n \in Names |-> 0]]
\* Where columns are written to, which buffer a name is bound to, and the cursor
NoCursor == [targets |-> {}, bound |-> [n \in Names |-> None], rows |-> 0, cursor |-> 0]
\* first is whether the orientation is OCI_FETCH_FIRST, given how many rows it has
\* given while it was alone: nothing else has moved the cursor since the first.
NoIter == [state |-> "none", of |-> None, first |-> FALSE, given |-> 0, alone |-> FALSE]

Init == /\ heap = [x \in Sessions \cup Stmts \cup Buffers |-> "none"]
        /\ session = [s \in Sessions |-> "none"]
        /\ stmt = [o \in Stmts |-> NoStmt]
        /\ oci = [o \in Stmts |-> NoCursor]
        /\ iter = [i \in Iters |-> NoIter]
        /\ pending = {} /\ orphaned = {} /\ stale = {}

\* Rows of a statement have been cut off, or moved under its iterators.
Disturbed(o) == [j \in Iters |-> IF iter[j].of # o THEN iter[j]
                                 ELSE [iter[j] EXCEPT !.alone = FALSE, !.given = 0]]

(***************************************************************************)
(* Sessions.                                                               *)
(***************************************************************************)
\* open: OCILogon, before the object is made
Open(s) == /\ session[s] = "none"
           /\ session' = [session EXCEPT ![s] = "open"]
           /\ heap' = Allocated(heap, {s})
           /\ UNCHANGED <<stmt, oci, iter, pending, orphaned, stale>>
InUse(s) == \E o \in Stmts : stmt[o].svc = s
\* close, and __gc
Close(s, after) ==
    /\ session[s] \in {"open", "closed"}
    /\ heap' = IF session[s] = "open" THEN Released(heap, {s}) ELSE heap
    /\ orphaned' = IF InUse(s) THEN orphaned \cup {s} ELSE orphaned
    /\ session' = [session EXCEPT ![s] = after]
    /\ pending' = pending \ {s}
    /\ UNCHANGED <<stmt, oci, iter, stale>>
\* commit and rollback, which may fail
End(s) == /\ session[s] = "open"
          /\ heap' = Used(heap, {s})
          /\ UNCHANGED pending \/ pending' = pending \ {s}
          /\ UNCHANGED <<session, stmt, oci, iter, orphaned, stale>>

(***************************************************************************)
(* Statements.                                                             *)
(***************************************************************************)
New(s, select) == [NoStmt EXCEPT !.state = "object", !.svc = s, !.stmt = TRUE, !.select = select]
\* A SELECT was executed, and all its columns, some or none are defined in buffer b.
Defined(cursor, b) == {{b} \cup old : old \in SUBSET cursor.targets} \cup {cursor.targets}
Executed(cursor, targets) == {[cursor EXCEPT !.targets = targets, !.rows = n, !.cursor = 0] : n \in 0..MaxRows}
\* oci_define_row of o, whose cursor is given, over heap h: row is where, or None if the
\* number of columns cannot be found out, and then OCI knows what it has known.
DefineRow(o, h, cursor, row) ==
    \/ /\ row = None
       /\ heap' = h
       /\ \E new \in Executed(cursor, cursor.targets) : oci' = [oci EXCEPT ![o] = new]
       /\ UNCHANGED stale
    \/ /\ row # None /\ heap[row] = "none"
       /\ heap' = Allocated(h, {row})
       /\ \E targets \in Defined(cursor, row) :
            /\ \E new \in Executed(cursor, targets) : oci' = [oci EXCEPT ![o] = new]
            /\ stale' = stale \cup (targets \ {row})

\* query: a statement that is executed at once
Prepare(s, o) == session[s] = "open" /\ stmt[o].state = "none" /\ heap[o] = "none"
\* Preparing, looking at its type or executing may fail, and the handle is freed.
QueryFails(s, o) == /\ Prepare(s, o)
                    /\ heap' = Released(Used(Allocated(heap, {o}), {s}), {o})
                    /\ UNCHANGED <<session, stmt, oci, iter, pending, orphaned, stale>>
\* What is no SELECT is committed, with what was pending, and leaves no statement.
QueryChange(s, o) == /\ Prepare(s, o)
                     /\ heap' = Released(Used(Allocated(heap, {o}), {s}), {o})
                     /\ pending' = pending \ {s}
                     /\ UNCHANGED <<session, stmt, oci, iter, orphaned, stale>>
QuerySelect(s, o) == /\ Prepare(s, o)
                     /\ \E row \in Buffers \cup {None} :
                          /\ DefineRow(o, Allocated(Used(heap, {s}), {o}), NoCursor, row)
                          /\ stmt' = [stmt EXCEPT ![o] = [New(s, TRUE) EXCEPT !.executed = TRUE, !.row = row]]
                     /\ UNCHANGED <<session, iter, pending, orphaned>>
\* open: a statement that is prepared only
OpenStmt(s, o) == /\ Prepare(s, o)
                  /\ heap' = Allocated(heap, {o})
                  /\ \E select \in BOOLEAN : stmt' = [stmt EXCEPT ![o] = New(s, select)]
                  /\ UNCHANGED <<session, oci, iter, pending, orphaned, stale>>

\* Buffers that OCI writes to or reads when it executes
BoundTo(o) == {oci[o].bound[n] : n \in Names} \ {None}
RowOf(o) == {stmt[o].row} \ {None}
\* row.clear, of a SELECT that was executed before
Cleared(o) == IF stmt[o].executed /\ stmt[o].select THEN RowOf(o) ELSE {}
Handle(o) == {o, stmt[o].svc}
Ready(o) == stmt[o].state = "object" /\ stmt[o].stmt
\* execute, without commit.  An error leaves the statement without a row, though
\* OCI still knows where the last one was.
ExecuteFails(o) == /\ Ready(o)
                   /\ heap' = Used(Released(heap, Cleared(o)), Handle(o) \cup BoundTo(o))
                   /\ stmt' = [stmt EXCEPT ![o].row = IF Cleared(o) = {} THEN @ ELSE None]
                   /\ oci' = [oci EXCEPT ![o].rows = 0, ![o].cursor = 0]
                   /\ iter' = Disturbed(o)
                   /\ UNCHANGED <<session, pending, orphaned, stale>>
ExecuteChange(o) == /\ Ready(o) /\ ~stmt[o].select
                    /\ heap' = Used(heap, Handle(o) \cup BoundTo(o))
                    /\ stmt' = [stmt EXCEPT ![o].executed = TRUE]
                    /\ pending' = pending \cup {stmt[o].svc}
                    /\ UNCHANGED <<session, oci, iter, orphaned, stale>>
ExecuteSelect(o) == /\ Ready(o) /\ stmt[o].select
                    /\ \E row \in Buffers \cup {None} :
                         /\ DefineRow(o, Used(Released(heap, Cleared(o)), Handle(o) \cup BoundTo(o)), oci[o], row)
                         /\ stmt' = [stmt EXCEPT ![o].executed = TRUE, ![o].row = row]
                    /\ iter' = Disturbed(o)
                    /\ UNCHANGED <<session, pending, orphaned>>

\* OCI_STMT::clear: the handle before what OCI may write to
Buffered(o) == {stmt[o].binds[k] : k \in DOMAIN stmt[o].binds}
CloseStmt(o, after) ==
    /\ stmt[o].state = "object"
    /\ heap' = Released(heap, (IF stmt[o].stmt THEN {o} ELSE {}) \cup RowOf(o) \cup Buffered(o))
    /\ stmt' = [stmt EXCEPT ![o] = [NoStmt EXCEPT !.state = after]]
    /\ oci' = [oci EXCEPT ![o] = NoCursor]
    /\ iter' = Disturbed(o)
    /\ UNCHANGED <<session, pending, orphaned, stale>>
\* An iterator's upvalue keeps its statement.
CollectStmt(o) == (\A i \in Iters : iter[i].of # o) /\ CloseStmt(o, "gone")

(***************************************************************************)
(* Rows.                                                                   *)
(***************************************************************************)
\* rows and table need a row that was defined, and so does the next row.
HasRow_Executed(o) == stmt[o].executed
HasRow(o) == stmt[o].row # None
Fetched(o) == Handle(o) \cup oci[o].targets
RowsOf(o, i) == /\ Ready(o) /\ HasRow(o) /\ stmt[o].executed /\ iter[i].state = "none"
                /\ iter' = [iter EXCEPT ![i] = [NoIter EXCEPT !.state = "on", !.of = o, !.first = TRUE]]
                /\ UNCHANGED <<heap, session, stmt, oci, pending, orphaned, stale>>
\* The orientation changes with the first call, whatever comes of it.
RowsNothing(i) == /\ iter[i].of # None
                  /\ ~(Ready(iter[i].of) /\ HasRow(iter[i].of))
                  /\ iter' = [iter EXCEPT ![i].first = FALSE, ![i].state = "ended"]
                  /\ UNCHANGED <<heap, session, stmt, oci, pending, orphaned, stale>>
Fetch(i) == LET o == iter[i].of IN
            /\ o # None /\ Ready(o) /\ HasRow(o)
            /\ heap' = Used(heap, Fetched(o))
            /\ UNCHANGED <<session, stmt, pending, orphaned, stale>>
From_Next(i) == oci[iter[i].of].cursor
From(i) == IF iter[i].first THEN 0 ELSE oci[iter[i].of].cursor
RowsNext(i) == LET o == iter[i].of IN
               /\ Fetch(i) /\ From(i) < oci[o].rows
               /\ oci' = [oci EXCEPT ![o].cursor = From(i) + 1]
               /\ iter' = [Disturbed(o) EXCEPT
                              ![i] = [iter[i] EXCEPT !.state = "on", !.first = FALSE,
                                         !.given = IF iter[i].first THEN 1 ELSE IF iter[i].alone THEN @ + 1 ELSE 0,
                                         !.alone = iter[i].first \/ iter[i].alone]]
\* The end of the rows, or an error, which looks the same to the script.
RowsEnd(i) == LET o == iter[i].of IN
              /\ Fetch(i)
              /\ \E state \in (IF From(i) < oci[o].rows THEN {"failed"} ELSE {"ended", "failed"}) :
                   iter' = [iter EXCEPT ![i].state = state, ![i].first = FALSE]
              /\ UNCHANGED oci
\* table fetches from the first row to the end, or to an error.
Table(o) == /\ Ready(o) /\ HasRow(o) /\ stmt[o].executed
            /\ heap' = Used(heap, Fetched(o))
            /\ \E n \in 0..oci[o].rows : oci' = [oci EXCEPT ![o].cursor = n]
            /\ iter' = Disturbed(o)
            /\ UNCHANGED <<session, stmt, pending, orphaned, stale>>
DropIter(i) == /\ iter[i].of # None
               /\ iter' = [iter EXCEPT ![i] = [NoIter EXCEPT !.state = "gone"]]
               /\ UNCHANGED <<heap, session, stmt, oci, pending, orphaned, stale>>

(***************************************************************************)
(* Bound variables.                                                        *)
(***************************************************************************)
\* add counts the buffer before it is bound; binding may fail, with an error.
Index_Bound(o) == Len(SelectSeq(stmt[o].binds, LAMBDA b : b \in BoundTo(o))) + 1
Index(o) == Len(stmt[o].binds) + 1
Bind(o, n) == /\ Ready(o) /\ Len(stmt[o].binds) < max_bind_count
              /\ \E b \in Buffers :
                   /\ heap[b] = "none"
                   /\ heap' = Allocated(Used(heap, {o}), {b})
                   /\ \/ /\ stmt' = [stmt EXCEPT ![o].binds = Append(@, b), ![o].index[n] = Index(o)]
                         /\ oci' = [oci EXCEPT ![o].bound[n] = b]
                      \/ /\ stmt' = [stmt EXCEPT ![o].binds = Append(@, b)]
                         /\ UNCHANGED oci
              /\ UNCHANGED <<session, iter, pending, orphaned, stale>>
\* at, bind_assign and bind_query
At(o, k) == /\ stmt[o].state = "object" /\ k \in DOMAIN stmt[o].binds
            /\ heap' = Used(heap, {stmt[o].binds[k]})
            /\ UNCHANGED <<session, stmt, oci, iter, pending, orphaned, stale>>

OfSession(s) == Open(s) \/ Close(s, "closed") \/ Close(s, "gone") \/ End(s)
Query(s, o) == QueryFails(s, o) \/ QueryChange(s, o) \/ QuerySelect(s, o)
Execute(o) == ExecuteFails(o) \/ ExecuteChange(o) \/ ExecuteSelect(o)
Next == \/ \E s \in Sessions : OfSession(s)
        \/ \E s \in Sessions, o \in Stmts : Query(s, o) \/ OpenStmt(s, o)
        \/ \E o \in Stmts : Execute(o) \/ CloseStmt(o, "object") \/ CollectStmt(o) \/ Table(o)
        \/ \E o \in Stmts, i \in Iters : RowsOf(o, i)
        \/ \E i \in Iters : RowsNothing(i) \/ RowsNext(i) \/ RowsEnd(i) \/ DropIter(i)
        \/ \E o \in Stmts, n \in Names : Bind(o, n)
        \/ \E o \in Stmts, k \in 1..max_bind_count : At(o, k)
Spec == Init /\ [][Next]_vars
--------------------------------------------------------------------------------
(***************************************************************************)
(* Properties.                                                             *)
(***************************************************************************)
Held == {s \in Sessions : session[s] = "open"} \cup {o \in Stmts : stmt[o].stmt}
        \cup (UNION {RowOf(o) \cup Buffered(o) : o \in Stmts})

\* Sessions, statements and their buffers are freed once and none is lost, on every
\* error path; and OCI, which keeps the places of row and variables, never works
\* on one that is freed: an iterator that is older than a failed execute does not
\* fetch.  There are two exceptions, and no third: a session that a script closes
\* before its statement, and a row of which a column could not be defined anew.
OraSafe == /\ \A x \in DOMAIN heap : heap[x] = "live" => x \in Held
           /\ \A x \in DOMAIN heap : heap[x] = "abused" => x \in orphaned \cup stale

\* No statement works for a session that is closed; and OCI writes to no row that is
\* freed.  Not so.
SessionsSafe == \A s \in Sessions : heap[s] # "abused"
RowsSafe     == \A b \in Buffers : heap[b] # "abused"

\* A loop over rows() that nothing else disturbs gives every row once, and ends after
\* the last, unless a fetch fails; it starts from the first row, although the
\* cursor is OCI's and stays where other loops and table() have left it.
OraRows ==
    \A i \in Iters : LET o == iter[i].of IN
        iter[i].alone /\ o # None =>
            /\ iter[i].given = oci[o].cursor
            /\ iter[i].state = "ended" => iter[i].given = oci[o].rows

\* The number that bind has returned for a variable is that of the buffer OCI uses for
\* it, also when other variables could not be bound.
BindsInPlace ==
    \A o \in Stmts, n \in Names :
        stmt[o].index[n] # 0 => /\ stmt[o].index[n] \in DOMAIN stmt[o].binds
                                /\ stmt[o].binds[stmt[o].index[n]] = oci[o].bound[n]

\* Work of execute, which does not commit, stays pending until commit or rollback as
\* long as its session is open.  Not so: a query() that changes something commits it.
PendingUntilEnd == [][\A s \in pending \ pending' : session'[s] # "open" \/ End(s)]_vars
================================================================================
