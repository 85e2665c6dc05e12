------------------------------- MODULE Memcache -------------------------------
(***************************************************************************)
(* src/luamemcache/luamcache.cpp: set, get and del over one connection to  *)
(* a memcached server.  A call writes its request and reads lines until it *)
(* has its reply; nothing but the order of the lines tells which reply is  *)
(* whose.  The connection may break at any moment; then the call that      *)
(* notices closes it and raises an error, and the script may open another. *)
(*                                                                         *)
(* The server is external.  It may refuse a request, forget a value, and   *)
(* be slow.  A key is the sequence of words that the server finds in it.   *)
(***************************************************************************)
EXTENDS Integers, Sequences

CONSTANTS Words,      \* words of keys
          SetKeys,    \* keys given to set
          Keys,       \* keys given to get and del
          Values,
          MaxCalls    \* calls in a behaviour

KeysAssumption ==
    /\ \A k \in SetKeys \cup Keys : k \in Seq(Words) /\ k # <<>>
    /\ MaxCalls \in Nat

VARIABLES
    fp,        \* mcache->fp is not 0
    pc,        \* where the running call is, or "idle"
    call,      \* the call: its number and arguments
    length,    \* pieces of a value that fread has read
    got,       \* what get has pushed
    outcome,   \* of the last call
    alive,     \* the connection is not broken
    sent,      \* lines that the server has not read
    recv,      \* what the server has sent and the call has not read
    awaits,    \* number of the set whose data block the server reads, or 0
    store,     \* the server's values
    may        \* values that the script may expect of a word

client  == <<fp, pc, call, length, got, outcome>>
vars    == <<fp, pc, call, length, got, outcome, alive, sent, recv, awaits, store, may>>

Nothing == "nothing"
Line(n, kind, key, v) == [n |-> n, kind |-> kind, key |-> key, v |-> v]
Answer(kind) == Line(call.n, kind, <<>>, Nothing)
NoCall == [n |-> 0, key |-> <<>>, v |-> Nothing]
Refusals == {"ERROR", "SERVER_ERROR"}

Init == /\ fp = FALSE /\ pc = "idle" /\ call = NoCall
        /\ length = 0 /\ got = <<>> /\ outcome = Answer("none")
        /\ alive = FALSE /\ sent = <<>> /\ recv = <<>> /\ awaits = 0
        /\ store = [w \in Words |-> Nothing]
        /\ may = [w \in Words |-> {}]

(***************************************************************************)
(* The server (external).                                                  *)
(***************************************************************************)
Reply(lines) == recv' = recv \o lines
Took(kind) == /\ sent # <<>> /\ Head(sent).kind = kind /\ awaits = 0
              /\ sent' = Tail(sent)
              /\ UNCHANGED <<client, alive, may>>
Say(kind) == <<Line(Head(sent).n, kind, <<>>, Nothing)>>

\* A set whose key is several words is no set; its data is read as a command.
ServeSet == /\ Took("set")
            /\ IF Len(Head(sent).key) = 1 THEN awaits' = Head(sent).n /\ recv' = recv
                                          ELSE awaits' = 0 /\ Reply(Say("ERROR"))
            /\ UNCHANGED store
ServeData == /\ sent # <<>> /\ Head(sent).kind = "data"
             /\ sent' = Tail(sent) /\ awaits' = 0
             /\ \/ /\ awaits # 0
                   /\ store' = [store EXCEPT ![Head(sent).key[1]] = Head(sent).v]
                   /\ Reply(Say("STORED"))
                \/ /\ awaits # 0
                   /\ store' = [store EXCEPT ![Head(sent).key[1]] = Nothing]
                   /\ Reply(Say("SERVER_ERROR"))
                \/ awaits = 0 /\ UNCHANGED store /\ Reply(Say("ERROR"))
             /\ UNCHANGED <<client, alive, may>>
\* Every word of the key is looked up.
Block(w) == IF store[w] = Nothing THEN <<>>
            ELSE [i \in 1..4 |-> Line(Head(sent).n, <<"VALUE", "part", "rest", "crlf">>[i], <<w>>, store[w])]
ServeGet == /\ Took("get")
            /\ LET k == Head(sent).key
               IN  \/ Reply(Block(k[1]) \o (IF Len(k) > 1 THEN Block(k[2]) ELSE <<>>) \o Say("END"))
                   \/ Reply(Say("SERVER_ERROR"))
            /\ UNCHANGED <<awaits, store>>
ServeDelete == /\ Took("delete")
               /\ LET k == Head(sent).key
                  IN  IF Len(k) > 1 THEN UNCHANGED store /\ Reply(Say("ERROR"))
                      ELSE /\ store' = [store EXCEPT ![k[1]] = Nothing]
                           /\ Reply(Say(IF store[k[1]] = Nothing THEN "NOT_FOUND" ELSE "DELETED"))
               /\ UNCHANGED awaits
Evict == /\ \E w \in Words : store[w] # Nothing /\ store' = [store EXCEPT ![w] = Nothing]
         /\ UNCHANGED <<client, alive, sent, recv, awaits, may>>
\* What is under way is lost from some point on, and the server reads no more.
Break == /\ alive
         /\ alive' = FALSE /\ sent' = <<>> /\ awaits' = 0
         /\ \E n \in 0..Len(recv) : recv' = SubSeq(recv, 1, n)
         /\ UNCHANGED <<client, store, may>>
Server == ServeSet \/ ServeData \/ ServeGet \/ ServeDelete \/ Evict \/ Break

(***************************************************************************)
(* The client: opening, closing and writing a request.                     *)
(***************************************************************************)
\* lua_mcache_open
Open == /\ pc = "idle" /\ ~fp /\ call.n < MaxCalls
        /\ fp' = TRUE /\ alive' = TRUE
        /\ sent' = <<>> /\ recv' = <<>> /\ awaits' = 0
        /\ UNCHANGED <<pc, call, length, got, outcome, store, may>>
\* lua_mcache_close(LMCACHE*)
Fclose == fp' = FALSE /\ alive' = FALSE /\ sent' = <<>> /\ recv' = <<>> /\ awaits' = 0
\* close, or the collector
Close == /\ pc = "idle" /\ fp
         /\ Fclose
         /\ UNCHANGED <<pc, call, length, got, outcome, store, may>>

\* To write after reading without repositioning a stream that has unread input
\* is undefined: the input may stay or be dropped.
Write(lines) == /\ sent' = IF alive THEN sent \o lines ELSE sent
                /\ recv' \in {recv, <<>>}
                /\ length' = 0 /\ got' = <<>> /\ outcome' = Line(call.n + 1, "none", <<>>, Nothing)
Begin(l, k, v) == /\ pc = "idle" /\ fp /\ call.n < MaxCalls
                  /\ pc' = l
                  /\ call' = [n |-> call.n + 1, key |-> k, v |-> v]
                  /\ UNCHANGED <<fp, alive, awaits, store>>
\* A value that is being set may be found from now on, and one being deleted no
\* longer be found when del has returned.
Expect(w, values) == may' = [may EXCEPT ![w] = values]

SetCall == \E k \in SetKeys, v \in Values :
             /\ Begin("set", k, v)
             /\ Write(<<Line(call.n + 1, "set", k, v), Line(call.n + 1, "data", k, v)>>)
             /\ IF Len(k) = 1 THEN Expect(k[1], may[k[1]] \cup {v}) ELSE UNCHANGED may
\* A value that does not fit the stream's buffer is written at once, and that fails.
SetFails == /\ pc = "idle" /\ fp /\ ~alive /\ call.n < MaxCalls
            /\ \E k \in SetKeys, v \in Values : call' = [n |-> call.n + 1, key |-> k, v |-> v]
            /\ Fclose
            /\ length' = 0 /\ got' = <<>> /\ outcome' = Line(call.n + 1, "io", <<>>, Nothing)
            /\ UNCHANGED <<pc, store, may>>
GetCall == \E k \in Keys : /\ Begin("get", k, Nothing)
                           /\ Write(<<Line(call.n + 1, "get", k, Nothing)>>)
                           /\ UNCHANGED may
AfterDelete_NoWait == "idle"
AfterDelete == "del"
DelCall == \E k \in Keys : /\ Begin(AfterDelete, k, Nothing)
                           /\ Write(<<Line(call.n + 1, "delete", k, Nothing)>>)
                           /\ UNCHANGED may

(***************************************************************************)
(* The client: reading the reply.                                          *)
(***************************************************************************)
At(l) == pc = l /\ recv # <<>>
Next1 == Head(recv)
Read  == recv' = Tail(recv) /\ UNCHANGED <<call, alive, sent, awaits, store>>
Done(what) == pc' = "idle" /\ outcome' = what

\* set: anything but STORED is an error; the connection stays open.
ReadSet == /\ At("set") /\ Read
           /\ Done(Next1)
           /\ IF Next1.kind = "STORED" THEN Expect(call.key[1], {call.v}) ELSE UNCHANGED may
           /\ UNCHANGED <<fp, length, got>>
\* del does not look at its reply.
ReadDelete == /\ At("del") /\ Read
              /\ Done(Next1)
              /\ IF Len(call.key) = 1 THEN Expect(call.key[1], {}) ELSE UNCHANGED may
              /\ UNCHANGED <<fp, length, got>>
ReadGet == /\ At("get")
           /\ \/ Next1.kind = "END" /\ Read /\ Done(Next1) /\ UNCHANGED <<fp, length, got>>
              \/ /\ Next1.kind = "VALUE" /\ Read
                 /\ pc' = "body" /\ length' = 0 /\ UNCHANGED <<fp, outcome, got>>
              \/ /\ Next1.kind \notin {"END", "VALUE"}
                 /\ Fclose /\ Done(Next1) /\ got' = <<>> /\ UNCHANGED <<call, length, store>>
           /\ UNCHANGED may
Short(n) == n < 2
\* One fread of the loop.
ReadBody == /\ At("body") /\ Short(length) /\ Read
            /\ length' = length + 1
            /\ pc' = IF Short(length') THEN "body" ELSE "crlf"
            /\ UNCHANGED <<fp, got, outcome, may>>
\* luaL_pushresult, and fgets for the end of the line
Skips_Not == pc' = "get" /\ recv' = recv
Skips == pc' = "get" /\ recv' = Tail(recv)
ReadCrLf == /\ At("crlf")
            /\ Skips
            /\ got' = Append(got, [w |-> Next1.key[1], v |-> Next1.v])
            /\ UNCHANGED <<fp, call, length, outcome, alive, sent, awaits, store, may>>

\* fgets or fread finds the end: close, and raise an error.
Returns_Partial == got \o (IF pc = "crlf" \/ (pc = "body" /\ length > 0)
                           THEN <<[w |-> call.key[1], v |-> "partial"]>> ELSE <<>>)
Returns == <<>>
Eof == /\ pc # "idle" /\ recv = <<>> /\ ~alive
       /\ Fclose /\ Done(Answer("io")) /\ got' = Returns
       /\ UNCHANGED <<call, length, store, may>>

Client == \/ Open \/ Close \/ SetCall \/ SetFails \/ GetCall \/ DelCall
          \/ ReadSet \/ ReadDelete \/ ReadGet \/ ReadBody \/ ReadCrLf \/ Eof
Next == Client \/ Server
Spec == Init /\ [][Next]_vars
--------------------------------------------------------------------------------
(***************************************************************************)
(* Properties.                                                             *)
(***************************************************************************)
Pcs == {"idle", "set", "get", "del", "body", "crlf"}

\* The variables stay in their ranges: no more of a value is read than it has.
TypeOK ==
    /\ fp \in BOOLEAN /\ alive \in BOOLEAN /\ (alive => fp)
    /\ pc \in Pcs
    /\ call.n \in 0..MaxCalls
    /\ length \in 0..2
    /\ awaits \in 0..MaxCalls
    /\ store \in [Words -> Values \cup {Nothing}]

\* Between calls a connection that is open carries nothing: every call has read
\* all of its reply, whether it succeeded or raised an error, so the next one
\* will read its own.
InStep == pc = "idle" /\ fp => sent = <<>> /\ recv = <<>> /\ awaits = 0

\* What get returns is a whole value of the word, not one that was replaced or
\* deleted by a call that had returned.
Current == pc = "idle" => \A i \in DOMAIN got : got[i].v \in may[got[i].w]

\* An error is the server's refusal of this call, or a broken connection; no
\* call fails for what another one left behind.
NoFalseAlarm ==
    LET expected == {"none", "io", "STORED", "END", "DELETED", "NOT_FOUND"}
    IN  pc = "idle" => /\ outcome.n = call.n
                       /\ outcome.kind \in expected \cup Refusals
===============================================================================
