------------------------- MODULE Apache1Handler_proofs -------------------------
(***************************************************************************)
(* Proofs about Apache1Handler, for any number of requests and any shapes  *)
(* of requests.                                                            *)
(***************************************************************************)
EXTENDS Apache1Handler, SequenceTheorems, TLAPS

Labels == {"down", "idle", "called", "body", "args", "chdir", "session", "load", "run", "end"}
\* Where the handler has taken the request, read its body, and so on.
HasReq     == {"body", "args", "chdir", "session", "load", "run", "end"}
HasBody    == HasReq \ {"body"}
HasArgs    == HasBody \ {"args"}
HasDir     == HasArgs \ {"chdir"}
HasSession == HasDir \ {"session"}

Ids == 0..MaxReq
Requests == [id : Ids, post : Posts, query : BOOLEAN, dir : {s.dir : s \in Shapes}]

Types(aPc, aReq, aL, aApr, aSent, aCwd, aWire, aServed) ==
    /\ aPc \in Labels
    /\ aReq \in Requests \cup {[id |-> None]}
    /\ aPc \in HasReq \cup {"called"} => aReq \in Requests
    /\ aL \in States \cup {NoState}
    /\ aPc # "down" => aL \in States
    /\ aApr \in Ids /\ aSent \in BOOLEAN /\ aCwd \in Dirs
    /\ aWire \in [headers : Nat, bare : BOOLEAN]
    /\ aServed \in Ids
Typed == Types(pc, req, L, apr, data_sent, cwd, wire, served)

\* The Lua stack, and what the handler makes of it.
Stacked  == L.live => L.stack \in {<<>>, NewState.stack}
Answered == /\ status \in Statuses
            /\ pc \in (HasReq \ {"end"}) \cup {"called"} => status = Under

\* data_sent says whether the client of this request has got the header.
Headed ==
    /\ ~wire.bare
    /\ pc = "called" => wire.headers = 0
    /\ pc \in HasReq => wire.headers = IF data_sent THEN 1 ELSE 0
    /\ pc \in {"idle", "down"} /\ status # Under =>
           wire.headers = IF data_sent /\ status # OK THEN 2 ELSE 1

\* What the Lua state of the child has got so far of this request.
Filled ==
    /\ pc \in HasReq => apr = Me
    /\ pc \in HasBody => /\ req.post = "xform" => L.args_post = Me
                         /\ req.post = "raw"   => L.content = Me
    /\ pc \in HasArgs => /\ L.args = Me /\ L.uri = Me
                         /\ req.query => L.env_args = Me
    /\ pc \in HasSession => L.session = Me

\* Where the process is.
Placed == /\ pc \notin HasDir => cwd = Root
          /\ pc \in HasDir => L.lsp_cwd = Root

IInv == Typed /\ Stacked /\ Answered /\ Headed /\ Filled /\ Placed

--------------------------------------------------------------------------------
\* The ways to change the Lua state keep its type.
LEMMA StateTag == ASSUME NEW b \in States, NEW n \in Tags
                  PROVE  /\ [b EXCEPT !.args_post = n] \in States
                         /\ [b EXCEPT !.content = n] \in States
                         /\ [b EXCEPT !.session = n] \in States
  BY DEF States
LEMMA StateArgs == ASSUME NEW b \in States, NEW n \in Tags, NEW q \in Tags
                   PROVE  [b EXCEPT !.args = n, !.uri = n, !.env_args = q] \in States
  BY DEF States
LEMMA StateDir == ASSUME NEW b \in States, NEW dir \in Dirs PROVE [b EXCEPT !.lsp_cwd = dir] \in States
  BY DEF States
LEMMA StateStack == ASSUME NEW b \in States PROVE [b EXCEPT !.stack = <<>>] \in States
<1>1. <<>> \in Seq({Lib} \cup Nat)
  OBVIOUS
<1>2. ASSUME NEW st \in Seq({Lib} \cup Nat) PROVE [b EXCEPT !.stack = st] \in States
  BY DEF States
<1> QED
  BY <1>1, <1>2
LEMMA NewStateType == NewState \in States
<1> DEFINE left == NewState.stack
           made(S) == [live |-> TRUE, args |-> None, args_post |-> None, uri |-> None,
                       env_args |-> None, content |-> None, session |-> None,
                       lsp_cwd |-> NoDir, stack |-> S]
<1>1. left \in Seq({Lib} \cup Nat)
  BY DEF NewState, LeftByLibs
<1>2. None \in Tags
  BY ShapesAssumption DEF None, Tags
<1>3. ASSUME NEW S \in Seq({Lib} \cup Nat) PROVE made(S) \in States
  BY <1>2 DEF States
<1>4. NewState = made(left)
  BY DEF NewState
<1> QED
  BY <1>1, <1>3, <1>4

LEMMA InitIsGood == Init => IInv
<1> SUFFICES ASSUME Init PROVE IInv
  OBVIOUS
<1> USE ShapesAssumption DEF Init
<1>1. Typed
  <2>1. wire \in [headers : Nat, bare : BOOLEAN]
    BY DEF Silence
  <2>2. apr \in Ids /\ served \in Ids /\ cwd \in Dirs
    BY DEF Ids, Dirs, None
  <2> QED
    BY <2>1, <2>2 DEF Typed, Types, Labels, HasReq
<1>2. Stacked
  BY DEF Stacked, NoState
<1>3. Answered
  BY DEF Answered, Statuses, HasReq
<1>4. Headed
  BY DEF Headed, Silence, HasReq, OK, Under
<1>5. Filled /\ Placed
  BY DEF Filled, Placed, HasReq, HasBody, HasArgs, HasDir, HasSession
<1> QED
  BY <1>1, <1>2, <1>3, <1>4, <1>5 DEF IInv

LEMMA TypesNext == Typed /\ [Next]_vars => Types(pc', req', L', apr', data_sent', cwd', wire', served')
<1> SUFFICES ASSUME Typed, [Next]_vars
             PROVE  Types(pc', req', L', apr', data_sent', cwd', wire', served')
  OBVIOUS
<1> USE DEF Typed, Types, At, Go, Labels, HasReq
<1>0. Ids \subseteq Tags /\ Partial \in Tags /\ None \in Ids
  BY ShapesAssumption DEF Ids, Tags, None
<1>r. ASSUME NEW r \in Requests PROVE r.id \in Ids /\ r.dir \in Dirs
  BY DEF Requests, Dirs
<1>w. ASSUME NEW w \in [headers : Nat, bare : BOOLEAN]
      PROVE  /\ Header(w) \in [headers : Nat, bare : BOOLEAN]
             /\ Bytes(w) \in [headers : Nat, bare : BOOLEAN]
  <2>1. Header(w) \in [headers : Nat, bare : BOOLEAN]
    BY DEF Header
  <2>2. ASSUME NEW b \in BOOLEAN PROVE [w EXCEPT !.bare = b] \in [headers : Nat, bare : BOOLEAN]
    OBVIOUS
  <2> QED
    BY <2>1, <2>2 DEF Bytes
<1>e. ASSUME NEW s, NEW w \in [headers : Nat, bare : BOOLEAN]
      PROVE  ErrorPage(s, w) \in [headers : Nat, bare : BOOLEAN]
  BY <1>w DEF ErrorPage
<1>1. CASE lsp_init \/ lsp_done
  BY <1>1, NewStateType DEF lsp_init, lsp_done
<1>2. CASE Arrive
  <2>1. served' \in Ids
    BY <1>2, ShapesAssumption DEF Arrive, Ids
  <2>2. req' \in Requests
    BY <1>2, <2>1, ShapesAssumption DEF Arrive, Requests
  <2>3. wire' \in [headers : Nat, bare : BOOLEAN]
    BY <1>2 DEF Arrive, Silence
  <2> QED
    BY <1>2, <2>1, <2>2, <2>3 DEF Arrive
<1>3. CASE Refuse \/ HeadOnly \/ Admit
  <2>1. req \in Requests /\ L \in States
    BY <1>3 DEF Refuse, HeadOnly, Admit
  <2>2. apr' \in Ids /\ data_sent' \in BOOLEAN
    BY <1>3, <1>r, <2>1 DEF Refuse, HeadOnly, Admit, Begin, Me
  <2>3. wire' \in [headers : Nat, bare : BOOLEAN] /\ UNCHANGED <<req, L, cwd, served>> /\ pc' \in Labels
    BY <1>3, <1>w, <1>e DEF Refuse, HeadOnly, Admit, Reply
  <2> QED
    BY <2>1, <2>2, <2>3
<1>4. CASE ReadBody
  <2>1. req \in Requests /\ L \in States
    BY <1>4 DEF ReadBody
  <2>0. Me \in Tags
    BY <1>0, <1>r, <2>1 DEF Me
  <2>2. L' \in States
    <3>1. \/ L' = L
          \/ \E n \in {Partial, Me} : L' = [L EXCEPT !.args_post = n] \/ L' = [L EXCEPT !.content = n]
      BY <1>4 DEF ReadBody, ShortBody, StoreBody
    <3>2. CASE L' = L
      BY <2>1, <3>2
    <3>3. ASSUME NEW n \in {Partial, Me},
                 L' = [L EXCEPT !.args_post = n] \/ L' = [L EXCEPT !.content = n]
          PROVE  L' \in States
      <4>1. n \in Tags
        BY <1>0, <2>0
      <4>2. [L EXCEPT !.args_post = n] \in States /\ [L EXCEPT !.content = n] \in States
        BY <2>1, <4>1, StateTag
      <4> QED
        BY <3>3, <4>2
    <3> QED
      BY <3>1, <3>2, <3>3
  <2>3. wire' \in [headers : Nat, bare : BOOLEAN] /\ pc' \in {"idle", "args"}
    BY <1>4, <1>e DEF ReadBody, ShortBody, Reply
  <2> QED
    BY <1>4, <2>1, <2>2, <2>3 DEF ReadBody
<1>5. CASE SetArgs
  <2>1. req \in Requests /\ L \in States
    BY <1>5 DEF SetArgs
  <2>2. Me \in Tags /\ (IF req.query THEN Me ELSE L.env_args) \in Tags
    BY <1>0, <1>r, <2>1 DEF Me, States
  <2>3. L' \in States
    BY <1>5, <2>1, <2>2, StateArgs DEF SetArgs, FillEnv
  <2> QED
    BY <1>5, <2>1, <2>3 DEF SetArgs
<1>6. CASE ChdirToFile
  <2>1. req \in Requests /\ L \in States
    BY <1>6 DEF ChdirToFile
  <2>2. L' \in States /\ cwd' \in Dirs
    BY <1>6, <1>r, <2>1, StateDir DEF ChdirToFile
  <2> QED
    BY <1>6, <2>1, <2>2 DEF ChdirToFile
<1>7. CASE SessionInit
  <2>1. req \in Requests /\ L' \in States
    BY <1>0, <1>7, StateTag DEF SessionInit
  <2> QED
    BY <1>7, <2>1 DEF SessionInit
<1>8. CASE Load
  BY <1>8 DEF Load
<1>9. ASSUME Put PROVE data_sent' \in BOOLEAN /\ wire' \in [headers : Nat, bare : BOOLEAN]
  BY <1>9, <1>w DEF Put
<1>10. CASE Echo
  BY <1>9, <1>10 DEF Echo
<1>11. CASE Return \/ Raise
  <2>1. req \in Requests /\ L \in States
    BY <1>11 DEF Return, Raise
  <2>2. L' \in States
    BY <1>11, <2>1, StateStack DEF Return, Raise, Take, PopResults
  <2> QED
    BY <1>9, <1>11, <2>1, <2>2 DEF Return, Raise, Take
<1>12. CASE End
  <2>1. L \in States
    BY <1>12 DEF End
  <2>2. cwd' \in Dirs
    BY <1>12, <2>1 DEF End, Restored, States
  <2>3. wire' \in [headers : Nat, bare : BOOLEAN]
    BY <1>12, <1>w, <1>e DEF End
  <2> QED
    BY <1>12, <2>1, <2>2, <2>3 DEF End
<1>13. CASE UNCHANGED vars
  BY <1>13 DEF vars
<1> QED
  BY <1>1, <1>2, <1>3, <1>4, <1>5, <1>6, <1>7, <1>8, <1>10, <1>11, <1>12, <1>13 DEF Next, Handler

LEMMA TypedNext == Typed /\ [Next]_vars => Typed'
  BY TypesNext DEF Typed, Types, Requests, States, Ids, Tags, Dirs

\* What was pushed last is on top.
LEMMA LastOfConcat ==
    ASSUME NEW S, NEW s \in Seq(S), NEW v \in Seq(S), v # <<>>
    PROVE  (s \o v)[Len(s \o v)] = v[Len(v)]
<1> DEFINE a == Len(s)
           b == Len(v)
<1>1. a \in Nat /\ b \in Nat /\ b # 0
  BY EmptySeq, LenProperties
<1>2. Len(s \o v) = a + b /\ \A i \in 1 .. a + b : (s \o v)[i] = IF i <= a THEN s[i] ELSE v[i - a]
  BY ConcatProperties
<1> DEFINE n == a + b
<1> HIDE DEF a, b
<1>3. n \in 1 .. a + b /\ ~(n <= a) /\ n - a = b
  BY <1>1
<1> HIDE DEF n
<1>4. (s \o v)[n] = IF n <= a THEN s[n] ELSE v[n - a]
  BY <1>2, <1>3, Zenon
<1>5. (s \o v)[n] = v[b]
  BY <1>3, <1>4, Zenon
<1>6. (s \o v)[a + b] = v[b]
  BY <1>5 DEF n
<1>7. v[b] = v[Len(v)]
  BY DEF b
<1> QED
  BY <1>2, <1>6, <1>7

\* Of what lies on the stack after the script, only its own number is a status.
LEMMA ResultIsStatus ==
    ASSUME NEW st \in {<<>>, NewState.stack}, NEW v \in Returned
    PROVE  Result(st \o v) \in {OK, 404}
<1> DEFINE S == {Lib} \cup Nat
<1>s. 200 \in S /\ 404 \in S /\ 0 \in S
  OBVIOUS
<1>a. st \in Seq(S)
  <2>1. NewState.stack \in Seq(S)
    BY DEF NewState, LeftByLibs
  <2>2. <<>> \in Seq(S)
    OBVIOUS
  <2> QED
    BY <2>1, <2>2
<1>b. v \in Seq(S) /\ (v # <<>> => Len(v) \in {1, 2} /\ v[Len(v)] \in {200, 404})
  <2>1. CASE v = <<>>
    BY <2>1
  <2>2. CASE v = <<200>>
    BY <1>s, <2>2
  <2>3. CASE v = <<404>>
    BY <1>s, <2>3
  <2>4. CASE v = <<0, 404>>
    BY <1>s, <2>4
  <2> QED
    BY <2>1, <2>2, <2>3, <2>4 DEF Returned
<1> HIDE DEF S
<1>1. st \in Seq(S) /\ v \in Seq(S) /\ st \o v \in Seq(S)
  BY <1>a, <1>b
<1>2. Len(st \o v) = Len(st) + Len(v)
  BY <1>1
<1>3. CASE v = <<>>
  <2>1. st \o v = st
    BY <1>1, <1>3
  <2>2. CASE st = <<>>
    BY <2>1, <2>2 DEF Result, OK
  <2>3. CASE st = NewState.stack
    <3>1. Len(st) = 8 /\ st[8] = Lib
      BY <2>3 DEF NewState, LeftByLibs
    <3> QED
      BY <2>1, <3>1 DEF Result, ToInteger, OK
  <2> QED
    BY <2>2, <2>3
<1>4. CASE v # <<>>
  <2>1. Len(v) \in {1, 2} /\ v[Len(v)] \in {200, 404}
    BY <1>4, <1>b
  <2>2. (st \o v)[Len(st \o v)] = v[Len(v)]
    BY <1>1, <1>4, LastOfConcat
  <2>3. st \o v # <<>>
    BY <1>1, <1>2, <2>1
  <2>4. ToInteger((st \o v)[Len(st \o v)]) \in {200, 404}
    BY <2>1, <2>2 DEF ToInteger, Lib
  <2> QED
    BY <2>3, <2>4 DEF Result, OK
<1> QED
  BY <1>3, <1>4

LEMMA StackedNext == Typed /\ Stacked /\ [Next]_vars => Stacked'
<1> SUFFICES ASSUME Typed, Stacked, [Next]_vars PROVE Stacked'
  OBVIOUS
<1> USE DEF Stacked, Typed, Types, Labels, HasReq, At, Go
<1>1. CASE lsp_init \/ lsp_done
  BY <1>1, NewStateType DEF lsp_init, lsp_done, NoState, NewState
<1>2. CASE ReadBody \/ SetArgs \/ ChdirToFile \/ SessionInit
  <2>1. L \in States
    BY <1>2 DEF ReadBody, SetArgs, ChdirToFile, SessionInit
  <2>2. L'.stack = L.stack /\ L.live
    BY <1>2, <2>1 DEF ReadBody, ShortBody, StoreBody, SetArgs, FillEnv, ChdirToFile, SessionInit, States
  <2>3. pc # "end"
    BY <1>2 DEF ReadBody, SetArgs, ChdirToFile, SessionInit
  <2> QED
    BY <2>2, <2>3 DEF NewState
<1>3. CASE Return \/ Raise
  <2>1. L \in States
    BY <1>3 DEF Return, Raise
  <2>2. L'.stack = <<>>
    BY <1>3, <2>1 DEF Return, Raise, Take, PopResults, States
  <2> QED
    BY <2>2
<1>4. CASE Arrive \/ Refuse \/ HeadOnly \/ Admit \/ Load \/ Echo \/ UNCHANGED vars
  BY <1>4 DEF Arrive, Refuse, HeadOnly, Admit, Reply, Load, Echo, vars
<1>5. CASE End
  BY <1>5 DEF End
<1> QED
  BY <1>1, <1>2, <1>3, <1>4, <1>5 DEF Next, Handler

LEMMA AnsweredNext == Typed /\ Stacked /\ Answered /\ [Next]_vars => Answered'
<1> SUFFICES ASSUME Typed, Stacked, Answered, [Next]_vars PROVE Answered'
  OBVIOUS
<1>0. ASSUME NEW values \in Returned, L.live PROVE Result(L.stack \o values) \in {OK, 404}
  <2>1. L.stack \in {<<>>, NewState.stack}
    BY <1>0 DEF Stacked
  <2> QED
    BY <2>1, ResultIsStatus
<1> USE DEF Answered, Statuses, OK, Under, HasReq, At, Go
<1>1. ASSUME NEW values \in Returned, Take(values), L.live PROVE Answered'
  <2>1. Result(L.stack \o values) \in {OK, 404}
    BY <1>0, <1>1
  <2> QED
    BY <1>1, <2>1 DEF Take
<1>2. CASE Return \/ Raise
  <2>1. L \in States
    BY <1>2 DEF Return, Raise, Typed, Types
  <2>2. L.live
    BY <2>1 DEF States
  <2> QED
    BY <1>1, <1>2, <2>2 DEF Return, Raise, Returned
<1>3. CASE lsp_init \/ lsp_done \/ Arrive \/ Refuse \/ HeadOnly
  BY <1>3 DEF lsp_init, lsp_done, Arrive, Refuse, HeadOnly, Reply
<1>4. CASE Admit \/ SetArgs
  BY <1>4 DEF Admit, SetArgs
<1>5. CASE ReadBody
  BY <1>5 DEF ReadBody, ShortBody, Reply
<1>6. CASE ChdirToFile \/ SessionInit \/ Load \/ Echo \/ End \/ UNCHANGED vars
  BY <1>6 DEF ChdirToFile, SessionInit, Load, Echo, End, vars
<1> QED
  BY <1>2, <1>3, <1>4, <1>5, <1>6 DEF Next, Handler

LEMMA HeadedNext == Typed /\ Answered /\ Headed /\ [Next]_vars => Headed'
<1> SUFFICES ASSUME Typed, Answered, Headed, [Next]_vars PROVE Headed'
  OBVIOUS
<1> USE DEF Headed, OK, Under, HasReq, At, Go
<1>w. wire \in [headers : Nat, bare : BOOLEAN] /\ data_sent \in BOOLEAN
  BY DEF Typed, Types
<1>h. Header(wire).headers = wire.headers + 1 /\ Header(wire).bare = wire.bare
  BY <1>w DEF Header
<1>d. ASSUME NEW s, s # OK, ~wire.bare
      PROVE  ErrorPage(s, wire).headers = wire.headers + 1 /\ ~ErrorPage(s, wire).bare
  <2> DEFINE w == Header(wire)
  <2>1. w \in [headers : Nat, bare : BOOLEAN] /\ w.headers = wire.headers + 1 /\ ~w.bare
    BY <1>w, <1>h, <1>d DEF Header
  <2>2. ErrorPage(s, wire) = Bytes(w)
    BY <1>d DEF ErrorPage
  <2> HIDE DEF w
  <2> QED
    BY <1>w, <2>1, <2>2 DEF Bytes
<1>1. CASE lsp_init \/ lsp_done
  BY <1>1 DEF lsp_init, lsp_done
<1>2. CASE Arrive
  BY <1>2 DEF Arrive, Silence
<1>3. CASE Refuse
  BY <1>3, <1>d DEF Refuse, Begin, Reply
<1>4. CASE HeadOnly
  BY <1>4, <1>h DEF HeadOnly, Begin
<1>5. CASE Admit
  BY <1>5 DEF Admit, Begin
<1>6. CASE ReadBody
  BY <1>6, <1>d DEF ReadBody, ShortBody, Reply
<1>7. CASE SetArgs \/ ChdirToFile \/ SessionInit \/ Load
  BY <1>7 DEF SetArgs, ChdirToFile, SessionInit, Load
<1>8. ASSUME Put, pc = "run" PROVE ~wire'.bare /\ wire'.headers = 1 /\ data_sent' = TRUE
  <2> DEFINE w == IF data_sent THEN wire ELSE Header(wire)
  <2>1. w.headers = 1 /\ ~w.bare /\ w \in [headers : Nat, bare : BOOLEAN]
    <3>1. CASE data_sent
      BY <1>8, <1>w, <3>1
    <3>2. CASE ~data_sent
      <4>1. Header(wire) \in [headers : Nat, bare : BOOLEAN]
        BY <1>w DEF Header
      <4> QED
        BY <1>8, <1>h, <3>2, <4>1
    <3> QED
      BY <3>1, <3>2
  <2>2. wire' = Bytes(w) /\ data_sent' = TRUE
    BY <1>8 DEF Put
  <2> HIDE DEF w
  <2>3. wire'.headers = w.headers /\ wire'.bare = (w.bare \/ w.headers = 0)
    BY <2>1, <2>2 DEF Bytes
  <2> QED
    BY <2>1, <2>2, <2>3
<1>9. CASE Echo
  BY <1>8, <1>9 DEF Echo
<1>10. CASE Raise
  BY <1>8, <1>10 DEF Raise, Take
<1>11. CASE Return
  BY <1>11 DEF Return, Take
<1>12. CASE End
  <2>1. CASE status = OK
    BY <1>12, <2>1, <1>h, <1>w DEF End, ErrorPage
  <2>2. CASE status # OK
    BY <1>12, <2>2, <1>d DEF End
  <2> QED
    BY <2>1, <2>2
<1>13. CASE UNCHANGED vars
  BY <1>13 DEF vars
<1> QED
  BY <1>1, <1>2, <1>3, <1>4, <1>5, <1>6, <1>7, <1>9, <1>10, <1>11, <1>12, <1>13 DEF Next, Handler

LEMMA FilledNext == Typed /\ Filled /\ [Next]_vars => Filled'
<1> SUFFICES ASSUME Typed, Filled, [Next]_vars PROVE Filled'
  OBVIOUS
<1> USE DEF Filled, HasReq, HasBody, HasArgs, HasDir, HasSession, At, Go, Me
<1>1. CASE lsp_init \/ lsp_done \/ Arrive \/ Refuse \/ HeadOnly
  BY <1>1 DEF lsp_init, lsp_done, Arrive, Refuse, HeadOnly, Reply
<1>2. CASE Admit
  <2>1. req \in Requests
    BY <1>2 DEF Admit, Typed, Types
  <2> QED
    BY <1>2, <2>1 DEF Admit, Begin
<1>3. CASE Load \/ Echo \/ End \/ UNCHANGED vars
  BY <1>3 DEF Load, Echo, End, vars
<1>4. CASE ReadBody \/ SetArgs \/ ChdirToFile \/ SessionInit \/ Return \/ Raise
  <2>1. L \in States
    BY <1>4 DEF ReadBody, SetArgs, ChdirToFile, SessionInit, Return, Raise, Typed, Types
  <2> USE <2>1 DEF States
  <2>2. CASE ReadBody
    BY <2>2 DEF ReadBody, ShortBody, Reply, StoreBody
  <2>3. CASE SetArgs
    BY <2>3 DEF SetArgs, FillEnv
  <2>4. CASE ChdirToFile
    BY <2>4 DEF ChdirToFile
  <2>5. CASE SessionInit
    BY <2>5 DEF SessionInit
  <2>6. CASE Return \/ Raise
    BY <2>6 DEF Return, Raise, Take
  <2> QED
    BY <1>4, <2>2, <2>3, <2>4, <2>5, <2>6
<1> QED
  BY <1>1, <1>2, <1>3, <1>4 DEF Next, Handler

LEMMA PlacedNext == Typed /\ Placed /\ [Next]_vars => Placed'
<1> SUFFICES ASSUME Typed, Placed, [Next]_vars PROVE Placed'
  OBVIOUS
<1> USE DEF Placed, HasReq, HasBody, HasArgs, HasDir, At, Go
<1>1. CASE lsp_init \/ lsp_done \/ Arrive \/ Refuse \/ HeadOnly \/ Admit
  BY <1>1 DEF lsp_init, lsp_done, Arrive, Refuse, HeadOnly, Admit, Reply
<1>2. CASE ReadBody \/ SetArgs
  BY <1>2 DEF ReadBody, ShortBody, Reply, SetArgs
<1>3. CASE ChdirToFile \/ SessionInit \/ Return \/ Raise
  <2>1. L \in States
    BY <1>3 DEF ChdirToFile, SessionInit, Return, Raise, Typed, Types
  <2> QED
    BY <1>3, <2>1 DEF ChdirToFile, SessionInit, Return, Raise, Take, States
<1>4. CASE Load \/ Echo \/ UNCHANGED vars
  BY <1>4 DEF Load, Echo, vars
<1>5. CASE End
  BY <1>5, ShapesAssumption DEF End, Restored
<1> QED
  BY <1>1, <1>2, <1>3, <1>4, <1>5 DEF Next, Handler

--------------------------------------------------------------------------------
LEMMA Invariance == Spec => []IInv
<1>1. IInv /\ [Next]_vars => IInv'
  BY TypedNext, StackedNext, AnsweredNext, HeadedNext, FilledNext, PlacedNext DEF IInv
<1> QED
  BY <1>1, InitIsGood, PTL DEF Spec

\* Every variable of the handler stays in its range, and it only ever answers
\* with a status Apache knows, whatever lies on the Lua stack.
THEOREM TypeCorrect == Spec => []TypeOK
<1>1. ASSUME Typed, Answered PROVE TypeOK
  <2>1. req.id \in 0..MaxReq
    BY <1>1, ShapesAssumption DEF Typed, Types, Requests, Ids, None
  <2> QED
    BY <1>1, <2>1 DEF Typed, Types, Answered, TypeOK, Labels, Ids
<1> QED
  BY <1>1, Invariance, PTL DEF IInv

\* Every answer begins with a header and has no other, except that of a page
\* which has written something and returns a status of its own.
THEOREM HeaderOnceAndFirst == Spec => []OneHeader
<1>1. Typed /\ Headed => OneHeader
  BY DEF Typed, Types, Labels, Headed, OneHeader, At, HasReq
<1> QED
  BY <1>1, Invariance, PTL DEF IInv

\* A script sees its own request and writes to it, whatever other clients the
\* child has served.
THEOREM ScriptsGetTheirRequest == Spec => []OwnRequest
<1>1. Filled => OwnRequest
  BY DEF Filled, OwnRequest, Running, At, HasReq, HasBody, HasArgs, HasDir, HasSession
<1> QED
  BY <1>1, Invariance, PTL DEF IInv

\* A script whose request sends its body there gets the whole of it, not another
\* client's and not a part.
THEOREM ScriptsGetTheirBody == Spec => []OwnBody
<1>1. Filled => OwnBody
  BY DEF Filled, OwnBody, Running, At, HasReq, HasBody
<1> QED
  BY <1>1, Invariance, PTL DEF IInv

\* Between requests the child is in the directory it was started in.
THEOREM HandlerComesHome == Spec => []BackInRoot
<1>1. Placed => BackInRoot
  BY DEF Placed, BackInRoot, At, HasReq, HasBody, HasArgs, HasDir
<1> QED
  BY <1>1, Invariance, PTL DEF IInv

\* What lies on the Lua stack between scripts is what the libraries left there
\* or nothing.
THEOREM StackStaysSmall == Spec => []StackBounded
<1>1. Typed /\ Stacked => StackBounded
  BY DEF Typed, Types, Stacked, StackBounded, States
<1> QED
  BY <1>1, Invariance, PTL DEF IInv
================================================================================
