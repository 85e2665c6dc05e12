------------------------ MODULE Apache2Handler_proofs ------------------------
(***************************************************************************)
(* Proofs about Apache2Handler, for any number of connections, requests    *)
(* and shapes of requests, in either build.                                *)
(***************************************************************************)
EXTENDS Apache2Handler, SequenceTheorems, TLAPS

\* Where the handler has opened the bag, set the context, and so on.
HasReq     == Labels \ {"idle"}
HasBag     == HasReq \ {"guard", "open"}
HasIo      == HasBag \ {"io"}
HasBody    == HasIo \ {"body"}
HasArgs    == HasBody \ {"args"}
HasCwd     == HasArgs \ {"getcwd"}
HasDir     == HasCwd \ {"chdir"}
HasSession == HasDir \ {"session"}

Requests == [id : Ids, post : {"no", "form", "raw"}, query : BOOLEAN,
             dir : {s.dir : s \in Shapes} \cup {Gone}]

Types(aPc, aReq, aBag, aCalled, aLio, aCwd, aServed) ==
    /\ aPc \in [Conns -> Labels]
    /\ aReq \in [Conns -> Requests \cup {NoReq}]
    /\ aBag \in [Conns -> Bags \cup {NoBag}]
    /\ aCalled \in [Conns -> {NoCall} \cup Ids]
    /\ aLio \in Ids /\ aCwd \in Dirs /\ aServed \in Ids
    /\ \A d \in Conns : /\ aPc[d] \in HasReq => aReq[d] \in Requests
                        /\ aPc[d] \in HasReq \ HasDir => aReq[d].dir \in Dirs
                        /\ aPc[d] \in HasBag => aBag[d] \in Bags
Typed ==
    /\ threaded \in Builds
    /\ open \subseteq Conns
    /\ \A d \in Conns : pc[d] \in HasReq => d \in open
    /\ Types(pc, req, bag, called, lio, cwd, served)

\* Without THREAD_SAFE, one connection at a time.
OneAtATime == threaded \/ \A d, e \in open : d = e

\* What the Lua state of a request has got so far.
Filled ==
    \A d \in Conns :
        /\ pc[d] \in HasIo => Ctx(d) = Me(d)
        /\ pc[d] \in HasBody => /\ req[d].post = "form" => bag[d].args_post = Me(d)
                                /\ req[d].post = "raw" => bag[d].content = Me(d)
        /\ pc[d] \in HasArgs => /\ bag[d].args = Me(d) /\ bag[d].uri = Me(d)
                                /\ req[d].query => bag[d].env_args = Me(d)
        /\ pc[d] \in HasSession => bag[d].session = Me(d)

\* Where the process is.
Placed ==
    threaded \/
        /\ (\A d \in Conns : pc[d] \notin HasDir) => cwd = Root
        /\ \A d \in Conns :
             /\ pc[d] \in HasCwd => bag[d].lsp_cwd = Root
             /\ pc[d] \in HasDir /\ req[d].dir # Gone => OwnDirectory(d)
             /\ pc[d] = "run" => req[d].dir # Gone

\* The Lua stack, and what the handler makes of it.
Stacked == \A d \in Conns : bag[d].live => bag[d].stack \in {<<>>, NewBag.stack}
Answered == status \in [Conns -> Statuses]

--------------------------------------------------------------------------------
\* The ways to change a Lua state keep its type.
LEMMA BagIo == ASSUME NEW b \in Bags, NEW n \in Ids
               PROVE  [b EXCEPT !.io = n] \in Bags /\ [b EXCEPT !.session = n] \in Bags
  BY DEF Bags
LEMMA BagBody == ASSUME NEW b \in Bags, NEW n \in Body
                 PROVE  [b EXCEPT !.args_post = n] \in Bags /\ [b EXCEPT !.content = n] \in Bags
  BY DEF Bags
LEMMA BagArgs == ASSUME NEW b \in Bags, NEW n \in Ids, NEW q \in Ids
                 PROVE  [b EXCEPT !.args = n, !.uri = n, !.env_args = q] \in Bags
  BY DEF Bags
LEMMA BagDir == ASSUME NEW b \in Bags
                PROVE  /\ [b EXCEPT !.stack = <<>>] \in Bags
                       /\ \A dir \in Dirs : [b EXCEPT !.lsp_cwd = dir] \in Bags
<1>1. <<>> \in Seq({Lib} \cup Nat)
  OBVIOUS
<1>2. ASSUME NEW st \in Seq({Lib} \cup Nat) PROVE [b EXCEPT !.stack = st] \in Bags
  BY DEF Bags
<1>3. ASSUME NEW dir \in Dirs PROVE [b EXCEPT !.lsp_cwd = dir] \in Bags
  BY DEF Bags
<1> QED
  BY <1>1, <1>2, <1>3
LEMMA BagFields == ASSUME NEW b \in Bags
                   PROVE  b.env_args \in Ids /\ b.io \in Ids /\ b.lsp_cwd \in Dirs \cup {NoDir}
  BY DEF Bags
LEMMA LiveBag == ASSUME NEW b \in Bags \cup {NoBag}, b.live PROVE b \in Bags
  BY DEF NoBag

LEMMA NewBagType == NewBag \in Bags
<1> DEFINE left == NewBag.stack
           made(S) == [live |-> TRUE, io |-> None, args |-> None, args_post |-> None,
                       uri |-> None, env_args |-> None, content |-> None, session |-> None,
                       lsp_cwd |-> NoDir, stack |-> S]
<1>1. left \in Seq({Lib} \cup Nat)
  BY DEF NewBag, LeftByLibs
<1>2. None \in Ids /\ None \in Body
  BY ShapesAssumption DEF None, Ids, Body
<1>3. ASSUME NEW S \in Seq({Lib} \cup Nat) PROVE made(S) \in Bags
  BY <1>2 DEF Bags
<1>4. NewBag = made(left)
  BY DEF NewBag
<1> HIDE DEF left, made
<1> QED
  BY <1>1, <1>3, <1>4

\* The part of Typed that is about values, in the next state.
LEMMA TypesNext ==
    ASSUME Typed, NEW c \in Conns,
           Connect(c) \/ Arrive(c) \/ Disconnect(c) \/ Handler(c)
    PROVE  Types(pc', req', bag', called', lio', cwd', served')
<1> USE ShapesAssumption DEF Types, Typed, HasReq, HasBag, HasIo, HasBody, HasArgs, HasCwd, HasDir, Labels, At, Go
<1>a. pc[c] \in HasReq => Me(c) \in Ids /\ Me(c) \in Body /\ req[c].id \in Ids
  BY DEF Me, Requests, Ids, Body
<1>b. 0 \in Ids /\ Partial \in Body
  BY DEF Body, Ids
<1>c. lio \in Ids /\ (pc[c] \in HasBag => Ctx(c) \in Ids)
  BY BagFields DEF Ctx, Ids
<1>1. CASE Arrive(c)
  <2>1. served' \in Ids
    BY <1>1 DEF Arrive, Ids
  <2>2. PICK r : r \in Shapes /\ req' = [req EXCEPT ![c] = [id |-> served', post |-> r.post, query |-> r.query, dir |-> r.dir]]
    BY <1>1 DEF Arrive
  <2>3. req'[c] \in Requests /\ req'[c].dir \in Dirs
    BY <2>1, <2>2 DEF Requests, Dirs, Ids
  <2> QED
    BY <1>1, <2>1, <2>2, <2>3 DEF Arrive
<1>2. CASE ChDir(c)
  <2>1. req[c] \in Requests /\ req[c].dir \in Dirs
    BY <1>2 DEF ChDir
  <2>2. [req[c] EXCEPT !.dir = Gone] \in Requests
    BY <2>1 DEF Requests
  <2> QED
    BY <1>2, <2>1, <2>2 DEF ChDir
<1>3. CASE Connect(c)
  BY <1>3, <1>b DEF Connect
<1>4. CASE Disconnect(c)
  BY <1>4, <1>b DEF Disconnect, luabag_cleanup, SetBag
<1>5. CASE Refuse(c)
  BY <1>5, <1>b DEF Refuse, Reply
<1>6. CASE Admit(c)
  BY <1>6, <1>b, LiveBag DEF Admit
<1>7. CASE OpenBag(c)
  <2>1. NewContext \in Ids
    BY <1>b, <1>c DEF NewContext, None
  <2>2. called' \in [Conns -> {NoCall} \cup Ids]
    BY <1>7, <2>1 DEF OpenBag
  <2>3. bag' = [bag EXCEPT ![c] = NewBag] /\ pc' = [pc EXCEPT ![c] = "io"] /\ pc[c] = "open"
        /\ UNCHANGED <<req, lio, cwd, served>>
    BY <1>7 DEF OpenBag, SetBag
  <2> QED
    BY <2>2, <2>3, NewBagType
<1>8. CASE SetIo(c)
  <2>1. bag[c] \in Bags /\ Me(c) \in Ids
    BY <1>8, <1>a DEF SetIo
  <2>2. [bag[c] EXCEPT !.io = Me(c)] \in Bags
    BY <2>1, BagIo
  <2>3. bag' \in [Conns -> Bags \cup {NoBag}] /\ lio' \in Ids
        /\ \A d \in Conns : bag'[d] \in Bags \/ bag'[d] = bag[d]
    BY <1>8, <2>1, <2>2 DEF SetIo, luaL_lsp_set_io, SetBag
  <2> QED
    BY <1>8, <2>1, <2>3 DEF SetIo
<1>9. CASE ReadBody(c)
  <2>1. bag[c] \in Bags /\ Me(c) \in Body /\ Partial \in Body
    BY <1>9, <1>a, <1>b DEF ReadBody
  <2>2. StoreBody(bag[c], req[c].post = "form", Me(c)) \in Bags
        /\ StoreBody(bag[c], req[c].post = "form", Partial) \in Bags
    BY <2>1, BagBody DEF StoreBody
  <2>3. bag' \in [Conns -> Bags \cup {NoBag}]
        /\ \A d \in Conns : bag'[d] \in Bags \/ bag'[d] = bag[d]
    BY <1>9, <2>1, <2>2 DEF ReadBody, ShortBody, SetBag
  <2> QED
    BY <1>9, <2>1, <2>3 DEF ReadBody, ShortBody, Reply
<1>10. CASE SetArgs(c)
  BY <1>10, <1>b, <1>a, BagArgs, BagFields DEF SetArgs, SetBag, FillEnv, Me
<1>11. CASE GetCwd(c)
  BY <1>11, <1>b, BagDir DEF GetCwd, SetBag
<1>12. CASE SessionInit(c)
  BY <1>12, <1>b, <1>c, BagIo DEF SessionInit, SetBag, CallHost
<1>13. CASE Load(c)
  BY <1>13, <1>b DEF Load
<1>14. CASE HostCall(c)
  BY <1>14, <1>b, <1>c DEF HostCall, CallHost
<1>15. CASE EndRun(c)
  BY <1>15, <1>b, BagDir DEF EndRun, SetBag, PopResults
<1>16. CASE Restore(c)
  BY <1>16, <1>b, BagFields DEF Restore, Restored
<1> QED
  BY <1>1, <1>2, <1>3, <1>4, <1>5, <1>6, <1>7, <1>8, <1>9, <1>10, <1>11, <1>12, <1>13, <1>14, <1>15, <1>16 DEF Handler

LEMMA TypedNext == Typed /\ [Next]_vars => Typed'
<1> SUFFICES ASSUME Typed, [Next]_vars PROVE Typed'
  OBVIOUS
<1>1. ASSUME NEW c \in Conns, Connect(c) \/ Arrive(c) \/ Disconnect(c) \/ Handler(c) PROVE Typed'
  <2>1. Types(pc', req', bag', called', lio', cwd', served')
    BY <1>1, TypesNext
  <2>2. threaded' \in Builds /\ open' \subseteq Conns /\ \A d \in Conns : pc'[d] \in HasReq => d \in open'
    BY <1>1 DEF Typed, Types, HasReq, Labels, Handler, At, Go, Connect, Arrive, Disconnect,
       Refuse, Reply, Admit, OpenBag, SetIo, ReadBody, ShortBody, SetArgs, GetCwd, ChDir,
       SessionInit, Load, HostCall, EndRun, Restore
  <2> QED
    BY <2>1, <2>2 DEF Typed, Types, Bags, Requests
<1>2. CASE UNCHANGED vars
  BY <1>2 DEF vars, Typed, Types, Bags
<1> QED
  BY <1>1, <1>2 DEF Next

LEMMA OneAtATimeNext == Typed /\ OneAtATime /\ [Next]_vars => OneAtATime'
<1> SUFFICES ASSUME Typed, OneAtATime, [Next]_vars PROVE OneAtATime'
  OBVIOUS
<1>1. CASE \E c \in Conns : Connect(c)
  BY <1>1 DEF Connect, OneAtATime
<1>2. CASE \E c \in Conns : Disconnect(c)
  BY <1>2 DEF Disconnect, OneAtATime
<1>3. CASE UNCHANGED <<open, threaded>>
  BY <1>3 DEF OneAtATime
<1> QED
  BY <1>1, <1>2, <1>3 DEF Next, vars, Handler, Arrive, Refuse, Admit, OpenBag, SetIo, ReadBody,
     SetArgs, GetCwd, ChDir, SessionInit, Load, HostCall, EndRun, Restore

LEMMA FilledNext == Typed /\ OneAtATime /\ Filled /\ [Next]_vars => Filled'
<1> SUFFICES ASSUME Typed, OneAtATime, Filled, [Next]_vars PROVE Filled'
  OBVIOUS
<1> USE DEF Typed, Types, Requests, Bags, OneAtATime, Filled, HasReq, HasBag, HasIo, HasBody, HasArgs, HasCwd, HasDir, HasSession, Labels, At, Go, Ctx, Me
<1>1. ASSUME NEW c \in Conns, Connect(c) \/ Arrive(c) \/ Disconnect(c) \/ Handler(c) PROVE Filled'
  <2>1. CASE Connect(c)
    BY <2>1 DEF Connect
  <2>2. CASE Arrive(c)
    BY <2>2 DEF Arrive
  <2>3. CASE Disconnect(c)
    BY <2>3 DEF Disconnect, luabag_cleanup, SetBag
  <2>4. CASE Refuse(c)
    BY <2>4 DEF Refuse, Reply
  <2>5. CASE Admit(c)
    BY <2>5 DEF Admit
  <2>6. CASE OpenBag(c)
    BY <2>6 DEF OpenBag, SetBag, NewContext
  <2>7. CASE SetIo(c)
    <3>1. /\ pc[c] = "io" /\ pc' \in {[pc EXCEPT ![c] = l] : l \in {"args", "body"}}
          /\ req[c].post # "no" => pc'[c] = "body"
          /\ UNCHANGED <<threaded, open, req, called>>
      BY <2>7 DEF SetIo
    <3>2. CASE threaded
      <4>1. bag' = [bag EXCEPT ![c] = [bag[c] EXCEPT !.io = Me(c)]] /\ lio' = lio
        BY <2>7, <3>2 DEF SetIo, luaL_lsp_set_io, SetBag
      <4> QED
        BY <3>1, <3>2, <4>1
    <3>3. CASE ~threaded
      <4>1. bag' = bag /\ lio' = Me(c)
        BY <2>7, <3>3 DEF SetIo, luaL_lsp_set_io
      <4>2. \A d \in Conns : pc[d] \in HasReq => d = c
        BY <3>1, <3>3
      <4> QED
        BY <3>1, <3>3, <4>1, <4>2
    <3> QED
      BY <3>2, <3>3
  <2>8. CASE ReadBody(c)
    <3>1. pc[c] = "body" /\ UNCHANGED <<threaded, open, req, lio, called>>
      BY <2>8 DEF ReadBody
    <3>2. CASE pc' = [pc EXCEPT ![c] = "idle"] /\ (bag' = bag \/ ShortBody(c))
      <4>1. \A d \in Conns : d # c => bag'[d] = bag[d]
        BY <3>1, <3>2 DEF ShortBody, SetBag
      <4> QED
        BY <3>1, <3>2, <4>1
    <3>3. CASE /\ pc' = [pc EXCEPT ![c] = "args"]
               /\ SetBag(c, StoreBody(bag[c], req[c].post = "form", Me(c)))
      <4>1. /\ req[c].post = "form" => bag'[c].args_post = Me(c)
            /\ req[c].post = "raw" => bag'[c].content = Me(c)
            /\ bag'[c].io = bag[c].io
        BY <3>1, <3>3 DEF SetBag, StoreBody
      <4>2. \A d \in Conns : d # c => bag'[d] = bag[d]
        BY <3>3 DEF SetBag
      <4> QED
        BY <3>1, <3>3, <4>1, <4>2
    <3> QED
      BY <2>8, <3>2, <3>3 DEF ReadBody, Reply, ShortBody
  <2>9. CASE SetArgs(c)
    BY <2>9 DEF SetArgs, SetBag, FillEnv, Me
  <2>10. CASE GetCwd(c)
    BY <2>10 DEF GetCwd, SetBag
  <2>11. CASE ChDir(c)
    <3>1. /\ pc[c] = "chdir" /\ pc' = [pc EXCEPT ![c] = "session"]
          /\ UNCHANGED <<threaded, open, bag, lio, called>>
      BY <2>11 DEF ChDir
    <3>2. req[c] \in Requests
      BY <3>1
    <3>3. req'[c] = req[c] \/ req'[c] = [req[c] EXCEPT !.dir = Gone]
      BY <2>11 DEF ChDir
    <3>4. /\ req'[c].id = req[c].id /\ req'[c].post = req[c].post /\ req'[c].query = req[c].query
          /\ \A d \in Conns : d # c => req'[d] = req[d]
      BY <2>11, <3>2, <3>3 DEF ChDir
    <3> QED
      BY <3>1, <3>4
  <2>12. CASE SessionInit(c)
    BY <2>12 DEF SessionInit, SetBag, CallHost
  <2>13. CASE Load(c)
    BY <2>13 DEF Load
  <2>14. CASE HostCall(c)
    BY <2>14 DEF HostCall, CallHost
  <2>15. CASE EndRun(c)
    BY <2>15 DEF EndRun, SetBag, PopResults
  <2>16. CASE Restore(c)
    BY <2>16 DEF Restore
  <2> QED
    BY <1>1, <2>1, <2>2, <2>3, <2>4, <2>5, <2>6, <2>7, <2>8, <2>9, <2>10, <2>11, <2>12, <2>13, <2>14, <2>15, <2>16 DEF Handler
<1>2. CASE UNCHANGED vars
  BY <1>2 DEF vars
<1> QED
  BY <1>1, <1>2 DEF Next

LEMMA PlacedNext == Typed /\ OneAtATime /\ Placed /\ [Next]_vars => Placed'
<1> SUFFICES ASSUME Typed, OneAtATime, Placed, [Next]_vars PROVE Placed'
  OBVIOUS
<1> USE ShapesAssumption DEF Typed, Types, Requests, Bags, OneAtATime, Placed, OwnDirectory, HasReq, HasBag, HasIo, HasBody, HasArgs, HasCwd, HasDir, Labels, At, Go
<1>1. ASSUME NEW c \in Conns, Connect(c) \/ Arrive(c) \/ Disconnect(c) \/ Handler(c) PROVE Placed'
  <2>1. CASE Connect(c)
    BY <2>1 DEF Connect
  <2>2. CASE Arrive(c)
    BY <2>2 DEF Arrive
  <2>3. CASE Disconnect(c)
    BY <2>3 DEF Disconnect, luabag_cleanup, SetBag
  <2>4. CASE Refuse(c)
    BY <2>4 DEF Refuse, Reply
  <2>5. CASE Admit(c)
    BY <2>5 DEF Admit
  <2>6. CASE OpenBag(c)
    BY <2>6 DEF OpenBag, SetBag, NewContext
  <2>7. CASE SetIo(c)
    BY <2>7 DEF SetIo, luaL_lsp_set_io, SetBag, Me
  <2>8. CASE ReadBody(c)
    BY <2>8 DEF ReadBody, Reply, ShortBody, StoreBody, SetBag, Me
  <2>9. CASE SetArgs(c)
    BY <2>9 DEF SetArgs, SetBag, FillEnv, Me
  <2>10. CASE GetCwd(c)
    BY <2>10 DEF GetCwd, SetBag
  <2>11. CASE ChDir(c)
    <3>1. /\ pc[c] = "chdir" /\ pc' = [pc EXCEPT ![c] = "session"]
          /\ UNCHANGED <<threaded, open, bag>>
      BY <2>11 DEF ChDir
    <3>2. CASE ~threaded
      <4>1. \A d \in Conns : pc[d] \in HasReq => d = c
        BY <3>1, <3>2
      <4>2. cwd = Root
        BY <3>1, <3>2, <4>1
      <4>3. req'[c].dir # Gone => cwd' = IF req'[c].dir = "/" THEN Root ELSE req'[c].dir
        <5>1. req[c] \in Requests
          BY <3>1
        <5>2. CASE req' = [req EXCEPT ![c].dir = Gone]
          BY <5>1, <5>2
        <5>3. CASE req' = req /\ cwd' = IF req[c].dir = "/" THEN cwd ELSE req[c].dir
          BY <4>2, <5>3
        <5> QED
          BY <2>11, <5>2, <5>3 DEF ChDir
      <4> QED
        BY <3>1, <4>1, <4>3
    <3> QED
      BY <3>1, <3>2
  <2>12. CASE SessionInit(c)
    BY <2>12 DEF SessionInit, SetBag, CallHost
  <2>13. CASE Load(c)
    BY <2>13 DEF Load
  <2>14. CASE HostCall(c)
    BY <2>14 DEF HostCall, CallHost
  <2>15. CASE EndRun(c)
    BY <2>15 DEF EndRun, SetBag, PopResults
  <2>16. CASE Restore(c)
    BY <2>16 DEF Restore, Restored
  <2> QED
    BY <1>1, <2>1, <2>2, <2>3, <2>4, <2>5, <2>6, <2>7, <2>8, <2>9, <2>10, <2>11, <2>12, <2>13, <2>14, <2>15, <2>16 DEF Handler
<1>2. CASE UNCHANGED vars
  BY <1>2 DEF vars
<1> QED
  BY <1>1, <1>2 DEF Next

\* What was pushed last is on top.
LEMMA LastOfConcat ==
    ASSUME NEW S, NEW s \in Seq(S), NEW v \in Seq(S), v # <<>>
    PROVE  (s \o v)[Len(s \o v)] = v[Len(v)]
<1> DEFINE a == Len(s)
           b == Len(v)
<1>1. a \in Nat /\ b \in Nat /\ b # 0
  BY EmptySeq, LenProperties
<1>2. Len(s \o v) = a + b /\ \A i \in 1 .. a + b : (s \o v)[i] = IF i <= a THEN s[i] ELSE v[i - a]
  BY ConcatProperties
<1> DEFINE n == a + b
<1> HIDE DEF a, b
<1>3. n \in 1 .. a + b /\ ~(n <= a) /\ n - a = b
  BY <1>1
<1> HIDE DEF n
<1>4. (s \o v)[n] = IF n <= a THEN s[n] ELSE v[n - a]
  BY <1>2, <1>3, Zenon
<1>5. (s \o v)[n] = v[b]
  BY <1>3, <1>4, Zenon
<1>6. (s \o v)[a + b] = v[b]
  BY <1>5 DEF n
<1>7. v[b] = v[Len(v)]
  BY DEF b
<1> QED
  BY <1>2, <1>6, <1>7

\* Of what lies on the stack after the script, only its own number is a status.
LEMMA ResultIsStatus ==
    ASSUME NEW st \in {<<>>, NewBag.stack}, NEW v \in Returned
    PROVE  Result(st \o v) \in {OK, 404}
<1> DEFINE S == {Lib} \cup Nat
<1>s. 200 \in S /\ 404 \in S /\ 0 \in S
  OBVIOUS
<1>a. st \in Seq(S)
  <2>1. NewBag.stack \in Seq(S)
    BY DEF NewBag, LeftByLibs
  <2>2. <<>> \in Seq(S)
    OBVIOUS
  <2> QED
    BY <2>1, <2>2
<1>b. v \in Seq(S) /\ (v # <<>> => Len(v) \in {1, 2} /\ v[Len(v)] \in {200, 404})
  <2>1. CASE v = <<>>
    BY <2>1
  <2>2. CASE v = <<200>>
    BY <1>s, <2>2
  <2>3. CASE v = <<404>>
    BY <1>s, <2>3
  <2>4. CASE v = <<0, 404>>
    BY <1>s, <2>4
  <2> QED
    BY <2>1, <2>2, <2>3, <2>4 DEF Returned
<1> HIDE DEF S
<1>1. st \in Seq(S) /\ v \in Seq(S) /\ st \o v \in Seq(S)
  BY <1>a, <1>b
<1>2. Len(st \o v) = Len(st) + Len(v)
  BY <1>1
<1>3. CASE v = <<>>
  <2>1. st \o v = st
    BY <1>1, <1>3
  <2>2. CASE st = <<>>
    BY <2>1, <2>2 DEF Result, OK
  <2>3. CASE st = NewBag.stack
    <3>1. Len(st) = 8 /\ st[8] = Lib
      BY <2>3 DEF NewBag, LeftByLibs
    <3> QED
      BY <2>1, <3>1 DEF Result, ToInteger, OK
  <2> QED
    BY <2>2, <2>3
<1>4. CASE v # <<>>
  <2>1. Len(v) \in {1, 2} /\ v[Len(v)] \in {200, 404}
    BY <1>4, <1>b
  <2>2. (st \o v)[Len(st \o v)] = v[Len(v)]
    BY <1>1, <1>4, LastOfConcat
  <2>3. st \o v # <<>>
    BY <1>1, <1>2, <2>1
  <2>4. ToInteger((st \o v)[Len(st \o v)]) \in {200, 404}
    BY <2>1, <2>2 DEF ToInteger, Lib
  <2> QED
    BY <2>3, <2>4 DEF Result, OK
<1> QED
  BY <1>3, <1>4

LEMMA StackedNext == Typed /\ Stacked /\ [Next]_vars => Stacked'
<1> SUFFICES ASSUME Typed, Stacked, [Next]_vars, NEW d \in Conns, bag'[d].live
             PROVE  bag'[d].stack \in {<<>>, NewBag.stack}
  BY DEF Stacked, NewBag
<1>1. bag \in [Conns -> Bags \cup {NoBag}]
  BY DEF Typed, Types
<1>2. CASE bag'[d] = bag[d]
  BY <1>2 DEF Stacked
<1>3. CASE bag'[d] = NoBag
  BY <1>3 DEF NoBag
<1>4. CASE bag'[d] = NewBag
  BY <1>4
<1>5. CASE /\ bag[d] \in Bags
           /\ \/ \E n : bag'[d] = [bag[d] EXCEPT !.io = n] \/ bag'[d] = [bag[d] EXCEPT !.session = n]
              \/ \E n : bag'[d] = [bag[d] EXCEPT !.args_post = n] \/ bag'[d] = [bag[d] EXCEPT !.content = n]
              \/ \E n : bag'[d] = [bag[d] EXCEPT !.lsp_cwd = n]
              \/ \E n, m, q : bag'[d] = [bag[d] EXCEPT !.args = n, !.uri = m, !.env_args = q]
  <2>1. bag[d].live /\ bag'[d].stack = bag[d].stack
    BY <1>5 DEF Bags
  <2> QED
    BY <2>1 DEF Stacked
<1>6. CASE /\ bag[d] \in Bags
           /\ \E st : bag'[d] = [bag[d] EXCEPT !.stack = PopResults(st)]
  BY <1>6 DEF Bags, PopResults
<1>7. CASE UNCHANGED vars
  BY <1>2, <1>7 DEF vars
<1>8. ASSUME NEW c \in Conns, Connect(c) \/ Arrive(c) \/ Disconnect(c) \/ Handler(c)
      PROVE  bag'[d].stack \in {<<>>, NewBag.stack}
  <2> USE <1>1
  <2>1. CASE d # c
    BY <1>2, <1>8, <2>1 DEF Handler, SetBag, Connect, Arrive, Disconnect, luabag_cleanup, Refuse, Admit,
       OpenBag, SetIo, luaL_lsp_set_io, ReadBody, ShortBody, SetArgs, GetCwd, ChDir, SessionInit,
       Load, HostCall, EndRun, Restore
  <2>2. CASE d = c /\ pc[c] \notin HasBag
    BY <1>2, <1>3, <1>4, <1>8, <2>2 DEF Handler, SetBag, Connect, Arrive, Disconnect, luabag_cleanup,
       Refuse, Admit, OpenBag, SetIo, ReadBody, SetArgs, GetCwd, ChDir, SessionInit, Load, HostCall,
       EndRun, Restore, At, HasBag, HasReq, Labels
  <2>3. CASE d = c /\ pc[c] \in HasBag
    <3>1. bag[d] \in Bags
      BY <2>3 DEF Typed, Types
    <3>2. CASE SetIo(c)
      BY <1>2, <1>5, <2>3, <3>1, <3>2 DEF SetIo, luaL_lsp_set_io, SetBag
    <3>3. CASE ReadBody(c)
      BY <1>2, <1>5, <2>3, <3>1, <3>3 DEF ReadBody, ShortBody, StoreBody, SetBag
    <3>4. CASE SetArgs(c)
      BY <1>5, <2>3, <3>1, <3>4 DEF SetArgs, FillEnv, SetBag
    <3>5. CASE GetCwd(c) \/ SessionInit(c)
      BY <1>5, <2>3, <3>1, <3>5 DEF GetCwd, SessionInit, SetBag
    <3>6. CASE EndRun(c)
      BY <1>6, <2>3, <3>1, <3>6 DEF EndRun, SetBag
    <3>7. CASE ChDir(c) \/ Load(c) \/ HostCall(c) \/ Restore(c)
      BY <1>2, <3>7 DEF ChDir, Load, HostCall, Restore
    <3>8. ~Connect(c) \/ bag' = bag
      BY DEF Connect
    <3> QED
      BY <1>2, <1>8, <2>3, <3>2, <3>3, <3>4, <3>5, <3>6, <3>7, <3>8 DEF Handler, Arrive, Disconnect,
         Refuse, Admit, OpenBag, At, HasBag, HasReq, Labels
  <2> QED
    BY <2>1, <2>2, <2>3
<1> QED
  BY <1>7, <1>8 DEF Next

LEMMA AnsweredNext == Typed /\ Stacked /\ Answered /\ [Next]_vars => Answered'
<1> SUFFICES ASSUME Typed, Stacked, Answered, [Next]_vars PROVE Answered'
  OBVIOUS
<1> USE DEF Answered, Statuses, OK, DECLINED
<1>1. ASSUME NEW c \in Conns, EndRun(c) PROVE Answered'
  <2>1. PICK v \in Returned : status' = [status EXCEPT ![c] = Result(bag[c].stack \o v)]
    BY <1>1 DEF EndRun
  <2>2. bag[c] \in Bags
    BY <1>1 DEF EndRun, At, Typed, Types, HasBag, HasReq, Labels
  <2>3. bag[c].stack \in {<<>>, NewBag.stack}
    BY <2>2 DEF Stacked, Bags
  <2>4. Result(bag[c].stack \o v) \in {OK, 404}
    BY <2>3, ResultIsStatus
  <2> QED
    BY <2>1, <2>4
<1>2. ASSUME NEW c \in Conns, ~EndRun(c), Connect(c) \/ Arrive(c) \/ Disconnect(c) \/ Handler(c)
      PROVE  Answered'
  BY <1>2 DEF Handler, Connect, Arrive, Disconnect, Refuse, Reply, Admit, OpenBag, SetIo, ReadBody,
     ShortBody, SetArgs, GetCwd, ChDir, SessionInit, Load, HostCall, Restore
<1>3. CASE UNCHANGED vars
  BY <1>3 DEF vars
<1> QED
  BY <1>1, <1>2, <1>3 DEF Next

--------------------------------------------------------------------------------
LEMMA InitIsGood == Init => Typed /\ OneAtATime /\ Filled /\ Placed /\ Stacked /\ Answered
<1> SUFFICES ASSUME Init PROVE Typed /\ OneAtATime /\ Filled /\ Placed /\ Stacked /\ Answered
  OBVIOUS
<1> USE DEF Init
<1>1. Typed
  BY ShapesAssumption DEF Typed, Types, Labels, HasReq, HasBag, Ids, Dirs, None
<1>2. OneAtATime
  BY DEF OneAtATime
<1>3. Filled
  BY DEF Filled, HasReq, HasBag, HasIo, HasBody, HasArgs, HasCwd, HasDir, HasSession
<1>4. Placed
  BY DEF Placed, HasReq, HasBag, HasIo, HasBody, HasArgs, HasCwd, HasDir
<1>5. Stacked
  BY DEF Stacked, NoBag
<1>6. Answered
  BY DEF Answered, Statuses
<1> QED
  BY <1>1, <1>2, <1>3, <1>4, <1>5, <1>6

\* The inductive invariant of the handler.
IInv == Typed /\ OneAtATime /\ Filled /\ Placed /\ Stacked /\ Answered

LEMMA Invariance == Spec => []IInv
<1>1. Init => IInv
  BY InitIsGood DEF IInv
<1>2. IInv /\ [Next]_vars => IInv'
  BY TypedNext, OneAtATimeNext, FilledNext, PlacedNext, StackedNext, AnsweredNext DEF IInv
<1> QED
  BY <1>1, <1>2, PTL DEF Spec

\* Every variable of the handler stays in its range, and it only ever answers
\* with a status Apache knows, although it takes it from a stack on which the
\* libraries left their tables.
THEOREM TypeCorrect == Spec => []TypeOK
<1>1. ASSUME Typed, Answered PROVE TypeOK
  <2>1. ASSUME NEW c \in Conns PROVE req[c].id \in 0..MaxReq
    <3>1. CASE req[c] = NoReq
      BY <3>1, ShapesAssumption DEF NoReq, None
    <3>2. CASE req[c] \in Requests
      BY <3>2 DEF Requests, Ids
    <3> QED
      BY <1>1, <3>1, <3>2 DEF Typed, Types
  <2>2. ASSUME NEW c \in Conns PROVE bag[c] = NoBag \/ bag[c] \in Bags
    BY <1>1 DEF Typed, Types
  <2> QED
    BY <1>1, <2>1, <2>2 DEF Typed, Types, Answered, TypeOK, Ids
<1> QED
  BY <1>1, Invariance, PTL DEF IInv

\* A script sees the env, args and session of its own request and writes to
\* that request, however many others its connection and its process served.
THEOREM ScriptsGetTheirRequest == Spec => []OwnRequest
<1>1. Typed /\ Filled => OwnRequest
  BY DEF Filled, OwnRequest, Running, At, Labels, HasReq, HasBag, HasIo, HasBody, HasArgs,
     HasCwd, HasDir, HasSession
<1> QED
  BY <1>1, Invariance, PTL DEF IInv

\* A script of a request with a body has that body whole: never part of it, nor an
\* earlier one in its place.
THEOREM ScriptsGetTheirBody == Spec => []OwnBody
<1>1. Filled => OwnBody
  BY DEF Filled, OwnBody, Running, At, Labels, HasReq, HasBag, HasIo, HasBody
<1> QED
  BY <1>1, Invariance, PTL DEF IInv

\* In a build without THREAD_SAFE a script runs in its page's directory.
THEOREM ScriptsRunAtHome == Spec => []InOwnDirectory
<1>1. Placed => InOwnDirectory
  BY DEF Placed, InOwnDirectory, Running, At, Labels, HasReq, HasBag, HasIo, HasBody, HasArgs,
     HasCwd, HasDir
<1> QED
  BY <1>1, Invariance, PTL DEF IInv

\* And between requests the process is in the directory it was started in,
\* whichever of its returns the handler took.
THEOREM HandlerComesHome == Spec => []BackInRoot
<1>1. Placed => BackInRoot
  BY DEF Placed, BackInRoot, At, HasReq, HasBag, HasIo, HasBody, HasArgs, HasCwd, HasDir
<1> QED
  BY <1>1, Invariance, PTL DEF IInv

\* What lies on the Lua stack between requests is what the libraries left
\* there or nothing.
THEOREM StackStaysSmall == Spec => []StackBounded
<1>1. Stacked => StackBounded
  BY DEF Stacked, StackBounded
<1> QED
  BY <1>1, Invariance, PTL DEF IInv
================================================================================
