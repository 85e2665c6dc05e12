---------------------------- MODULE Apache1Handler ----------------------------
(***************************************************************************)
(* src/mod_apache1_3/mod_luasp.cpp: lsp::handler serves, one after the     *)
(* other, the requests of one Apache 1.3 child.  All of them, of whatever  *)
(* client, share one Lua state, the pointer apr to the request, and the    *)
(* flag data_sent; the header of an answer is sent by the module, before   *)
(* the first byte of a body or at the end, and by Apache (external) with   *)
(* its error page when the handler returns a status of its own.            *)
(*                                                                         *)
(* A value is the number of the request it comes from.                     *)
(***************************************************************************)
EXTENDS Integers, Sequences

CONSTANTS Shapes,      \* requests a client may send, but for their numbers
          Root,        \* the directory the server runs in
          MaxReq       \* requests served in a behaviour

None    == 0           \* no value: NULL or nil
NoDir   == ""          \* lsp_cwd is not in the registry
Partial == -1          \* a body cut short by the client
Lib     == -2          \* a library table or metatable
OK      == 0
Under   == -1          \* the handler has not returned yet

\* What the client says of its body: nothing sent, a browser's form
\* (application/x-www-form-urlencoded), application/x-form-urlencoded, other.
Posts == {"no", "form", "xform", "raw"}

ASSUME ShapesAssumption ==
    /\ \A s \in Shapes : s.post \in Posts /\ s.query \in BOOLEAN
    /\ MaxReq \in Nat /\ Root # NoDir

VARIABLES
    pc,         \* where the child is
    req,        \* request_rec* r
    L,          \* the Lua state, or NoState
    apr,        \* the request that io and host functions work on
    data_sent,
    cwd,        \* working directory of the process
    wire,       \* what the client of this request has got
    status,     \* what the handler returns
    served      \* requests so far

vars == <<pc, req, L, apr, data_sent, cwd, wire, status, served>>

NoState == [live |-> FALSE]
\* lsp_init: what luaopen_ functions return stays on the stack, as they are
\* called from C.
LeftByLibs == 3 + 2 + 1 + 2
NewState == [live |-> TRUE, args |-> None, args_post |-> None, uri |-> None,
             env_args |-> None, content |-> None, session |-> None,
             lsp_cwd |-> NoDir, stack |-> [i \in 1..LeftByLibs |-> Lib]]
Silence == [headers |-> 0, bare |-> FALSE]

Init == /\ pc = "down"
        /\ req = [id |-> None]
        /\ L = NoState /\ apr = None /\ data_sent = FALSE
        /\ cwd = Root /\ wire = Silence /\ status = Under /\ served = 0

At(l) == pc = l
Go(l) == pc' = l
Me    == req.id

(***************************************************************************)
(* Apache (external) starts and ends the child, and calls the handler.     *)
(***************************************************************************)
lsp_init == /\ At("down")
            /\ L' = NewState /\ Go("idle")
            /\ UNCHANGED <<req, apr, data_sent, cwd, wire, status, served>>
lsp_done == /\ At("idle")
            /\ L' = NoState /\ Go("down")
            /\ UNCHANGED <<req, apr, data_sent, cwd, wire, status, served>>

Arrive == /\ At("idle") /\ served < MaxReq
          /\ served' = served + 1
          /\ \E s \in Shapes :
               req' = [id |-> served', post |-> s.post, query |-> s.query, dir |-> s.dir]
          /\ wire' = Silence /\ status' = Under
          /\ Go("called")
          /\ UNCHANGED <<L, apr, data_sent, cwd>>

(***************************************************************************)
(* What goes to the client.                                                *)
(***************************************************************************)
Header(w) == [w EXCEPT !.headers = @ + 1]
Bytes(w)  == [w EXCEPT !.bare = @ \/ w.headers = 0]
\* ap_def_puts, ap_def_putc, ap_def_write
Put_NoFlag == /\ wire' = Bytes(IF data_sent THEN wire ELSE Header(wire))
              /\ data_sent' = data_sent
Put == /\ wire' = Bytes(IF data_sent THEN wire ELSE Header(wire))
       /\ data_sent' = TRUE

(***************************************************************************)
(* lsp::handler, up to the point where the script is loaded.               *)
(***************************************************************************)
Begin == apr' = Me /\ data_sent' = FALSE
\* ap_die (external): a status that is not OK is answered by Apache's error page,
\* with a header of its own, whatever the handler has sent.
ErrorPage(s, w) == IF s = OK THEN w ELSE Bytes(Header(w))
Reply(s) == Go("idle") /\ status' = s /\ wire' = ErrorPage(s, wire)

\* No file name, no file, or not a regular one.
Refuse == /\ At("called") /\ Begin
          /\ \E s \in {500, 404, 403} : Reply(s)
          /\ UNCHANGED <<req, L, cwd, served>>
HeadOnly == /\ At("called") /\ Begin /\ req.post = "no"
        /\ wire' = Header(wire)
        /\ Go("idle") /\ status' = OK
        /\ UNCHANGED <<req, L, cwd, served>>
Admit == /\ At("called") /\ Begin
         /\ Go(IF req.post = "no" THEN "args" ELSE "body")
         /\ UNCHANGED <<req, L, cwd, wire, status, served>>

\* read_request_data: what does not call itself application/x-form-urlencoded
\* is env.content.  A short body is stored, too.
StoreBody(what) == IF req.post = "xform" THEN L' = [L EXCEPT !.args_post = what]
                                         ELSE L' = [L EXCEPT !.content = what]
ShortBody_Ignored == StoreBody(Partial) /\ Go("args") /\ UNCHANGED <<status, wire>>
ShortBody == StoreBody(Partial) /\ Reply(408)
ReadBody == /\ At("body")
            /\ \/ \* 411, 400 or what ap_setup_client_block says
                  (\E s \in {411, 400, 413} : Reply(s)) /\ UNCHANGED L
               \/ ShortBody
               \/ StoreBody(Me) /\ Go("args") /\ UNCHANGED <<status, wire>>
            /\ UNCHANGED <<req, apr, data_sent, cwd, served>>

\* luaL_lsp_setargs replaces args; luaL_lsp_setfield skips what is NULL.
FillEnv_SkipsArgs == L' = [L EXCEPT !.args = IF req.query THEN Me ELSE @,
                                    !.uri = Me,
                                    !.env_args = IF req.query THEN Me ELSE @]
FillEnv == L' = [L EXCEPT !.args = Me,
                          !.uri = Me,
                          !.env_args = IF req.query THEN Me ELSE @]
SetArgs == /\ At("args")
           /\ FillEnv
           /\ Go("chdir")
           /\ UNCHANGED <<req, apr, data_sent, cwd, wire, status, served>>

\* luaL_lsp_chdir_to_file.  chdir("") and that to a vanished directory fail.
ChdirToFile == /\ At("chdir")
               /\ L' = [L EXCEPT !.lsp_cwd = cwd]
               /\ cwd' \in {cwd, IF req.dir = "/" THEN cwd ELSE req.dir}
               /\ Go("session")
               /\ UNCHANGED <<req, apr, data_sent, wire, status, served>>

\* get_in_header finds the cookie in apr, or set_out_header gives it one.
SessionInit == /\ At("session")
               /\ L' = [L EXCEPT !.session = apr]
               /\ Go("load")
               /\ UNCHANGED <<req, apr, data_sent, cwd, wire, status, served>>

Load == /\ At("load")
        /\ \/ Go("run") /\ UNCHANGED status
           \/ Go("end") /\ status' = 500
        /\ UNCHANGED <<req, L, apr, data_sent, cwd, wire, served>>

(***************************************************************************)
(* The script, and what the handler makes of its end.                      *)
(***************************************************************************)
Echo == /\ At("run")
        /\ Put
        /\ UNCHANGED <<pc, req, L, apr, cwd, status, served>>

\* lua_tointeger of the value on top of the stack.
ToInteger(v) == IF v = Lib THEN 0 ELSE v
Result(stack) == IF stack = <<>> \/ ToInteger(stack[Len(stack)]) \in {0, 200}
                 THEN OK ELSE ToInteger(stack[Len(stack)])
\* lua_pop(L,rnum), rnum being lua_gettop(L)
PopResults(stack) == <<>>
Take(values) == LET stack == L.stack \o values
                IN  /\ status' = Result(stack)
                    /\ L' = [L EXCEPT !.stack = PopResults(stack)]
                    /\ Go("end")

Returned == {<<>>, <<200>>, <<404>>, <<0, 404>>}
Return == /\ At("run")
          /\ \E values \in Returned : Take(values)
          /\ UNCHANGED <<req, apr, data_sent, cwd, wire, served>>
\* lua_pcall fails: the message is shown (show_exception) and popped.
Raise == /\ At("run")
         /\ Put
         /\ Take(<<>>)
         /\ UNCHANGED <<req, apr, cwd, served>>

\* luaL_lsp_chdir_restore; the header of a page that has written nothing.
Restored_OnlyOK == IF status = OK THEN L.lsp_cwd ELSE cwd
Restored == IF L.lsp_cwd # NoDir THEN L.lsp_cwd ELSE cwd
End == /\ At("end")
       /\ cwd' = Restored
       /\ wire' = ErrorPage(status, IF status = OK /\ ~data_sent THEN Header(wire) ELSE wire)
       /\ Go("idle")
       /\ UNCHANGED <<req, L, apr, data_sent, status, served>>

Handler == \/ Refuse \/ HeadOnly \/ Admit \/ ReadBody \/ SetArgs \/ ChdirToFile
           \/ SessionInit \/ Load \/ Echo \/ Return \/ Raise \/ End
Next == lsp_init \/ lsp_done \/ Arrive \/ Handler

Spec == Init /\ [][Next]_vars
--------------------------------------------------------------------------------
(***************************************************************************)
(* Properties.                                                             *)
(***************************************************************************)
Tags == {Partial} \cup 0..MaxReq
Dirs == {Root} \cup {s.dir : s \in Shapes}
Statuses == {Under, OK, 400, 403, 404, 408, 411, 413, 500}
States == [live : {TRUE}, args : Tags, args_post : Tags, uri : Tags, env_args : Tags,
           content : Tags, session : Tags, lsp_cwd : Dirs \cup {NoDir},
           stack : Seq({Lib} \cup Nat)]

\* The variables stay in their ranges; a status is one that Apache knows,
\* whatever lies on the Lua stack when the script has run.
TypeOK ==
    /\ pc \in {"down", "idle", "called", "body", "args", "chdir", "session", "load", "run", "end"}
    /\ req.id \in 0..MaxReq
    /\ L = NoState \/ L \in States
    /\ apr \in 0..MaxReq /\ data_sent \in BOOLEAN
    /\ cwd \in Dirs
    /\ wire \in [headers : Nat, bare : BOOLEAN]
    /\ status \in Statuses
    /\ served \in 0..MaxReq

Running == At("run")

\* Whatever a script writes, returns or raises, its answer begins with a header.
\* While the script runs there is at most one, and the whole answer has exactly
\* one, be it the module's or that of Apache's error page; except that of a page
\* which has written something and then returns a status of its own: Apache
\* sends its error page, header and all, after what the page has written.
OneHeader ==
    /\ ~wire.bare
    /\ pc \notin {"idle", "down"} => wire.headers <= 1
    /\ At("idle") /\ status # Under => wire.headers = IF data_sent /\ status # OK THEN 2 ELSE 1

\* What a script writes to, and every value the handler promises it, is of the
\* request being served, whatever the child has served before.
OwnRequest ==
    Running => /\ apr = Me /\ L.session = Me
               /\ L.args = Me /\ L.uri = Me
               /\ req.query => L.env_args = Me

\* A script gets the whole body of its request, where its type sends it.
OwnBody ==
    Running => /\ req.post = "xform" => L.args_post = Me
               /\ req.post = "raw"   => L.content = Me

\* Whatever path the handler leaves by, the process is back where it was.
BackInRoot == At("idle") => cwd = Root

\* The Lua stack does not grow with the requests of a child.
StackBounded == L # NoState /\ ~At("end") => L.stack \in {<<>>, NewState.stack}

\* The arguments of a posted form are the script's args_post (an integrator is
\* to fill env by "luaL_lsp_setargs_post", llsplib.h:31).
FormArgs == Running /\ req.post = "form" => L.args_post = Me

\* The HTTP code that a script returns ("lsp code may return HTTP code as
\* return value!", llsplib.h:35) is the status of the answer: no header with
\* another status has been sent before the one of the error page.
StatusCounts == At("idle") /\ status \notin {Under, OK} => wire.headers = 1
===============================================================================
