---------------------------- MODULE Apache2Handler ----------------------------
(***************************************************************************)
(* src/mod_apache2/mod_luasp.cpp: lsp::handler serves the requests of the  *)
(* keep-alive connections of one Apache process.  A connection keeps one   *)
(* Lua state (LUABAG) from its first page to its close, so globals, env    *)
(* and the Lua stack outlive a request; the working directory belongs to   *)
(* the process, and so does the io context in a build without THREAD_SAFE. *)
(*                                                                         *)
(* A value is the number of the request it comes from.  What is a string   *)
(* in the code (a query string, a body, a session id) is that number.      *)
(* Apache itself is external: connections open, requests arrive one at a   *)
(* time on each.  A build with THREAD_SAFE (make apache) serves several     *)
(* connections of a process at once, one without (make apache-prefork)     *)
(* serves one after the other.                                             *)
(***************************************************************************)
EXTENDS Integers, Sequences, FiniteSets

CONSTANTS Conns,       \* connections of the process
          Shapes,      \* requests a client may send, but for their numbers
          Root,        \* the directory the server runs in
          MaxReq,      \* requests served in a behaviour
          Builds,      \* builds: whether THREAD_SAFE is defined
          InitScript   \* LSPInitScript is configured

None    == 0           \* no value: NULL, nil or stdout
NoDir   == ""          \* lsp_cwd is not in the registry
Partial == -1          \* a body cut short by the client
Gone    == "gone"      \* a directory removed since Apache found the page
Lib     == -2          \* a library table or metatable
NoCall  == -3          \* no host function has been called

OK == 0
DECLINED == -1

ASSUME ShapesAssumption ==
    /\ \A s \in Shapes : /\ s.post \in {"no", "form", "raw"}
                         /\ s.query \in BOOLEAN
    /\ MaxReq \in Nat /\ Builds \subseteq BOOLEAN /\ InitScript \in BOOLEAN
    /\ Root # NoDir

VARIABLES
    threaded, \* the build
    open,     \* connections the process holds
    pc,       \* where the handler of a connection is
    req,      \* request_rec* r
    bag,      \* the connection's LUABAG, or NoBag
    lio,      \* llsplib::lio.lctx of a build without THREAD_SAFE
    cwd,      \* working directory of the process
    called,   \* context of the last call of a host function, per connection
    status,   \* what the handler will return
    served    \* requests so far

vars == <<threaded, open, pc, req, bag, lio, cwd, called, status, served>>

NoBag == [live |-> FALSE]
NoReq == [id |-> None]

\* A new Lua state.  The luaopen_ functions of luamysql, luacurl, luajson and
\* luamcache are called from C, so the tables they return stay on the stack.
LeftByLibs == 3 + 2 + 1 + 2
NewBag == [live |-> TRUE, io |-> None, args |-> None, args_post |-> None,
           uri |-> None, env_args |-> None, content |-> None, session |-> None,
           lsp_cwd |-> NoDir, stack |-> [i \in 1..LeftByLibs |-> Lib]]

Me(c)  == req[c].id
\* luaL_lsp_get_io_ctx
Ctx(c) == IF threaded THEN bag[c].io ELSE lio
CallHost(c) == called' = [called EXCEPT ![c] = Ctx(c)]
SetBag(c, b) == bag' = [bag EXCEPT ![c] = b]
At(c, l)  == pc[c] = l
Go(c, l)  == pc' = [pc EXCEPT ![c] = l]

Init == /\ threaded \in Builds
        /\ open = {}
        /\ pc = [c \in Conns |-> "idle"]
        /\ req = [c \in Conns |-> NoReq]
        /\ bag = [c \in Conns |-> NoBag]
        /\ lio = None /\ cwd = Root
        /\ called = [c \in Conns |-> NoCall]
        /\ status = [c \in Conns |-> OK]
        /\ served = 0

(***************************************************************************)
(* Apache: connections and requests (external).                            *)
(***************************************************************************)
Connect(c) == /\ c \notin open
              /\ threaded \/ open = {}
              /\ open' = open \cup {c}
              /\ UNCHANGED <<threaded, pc, req, bag, lio, cwd, called, status, served>>

Arrive(c) == /\ c \in open /\ At(c, "idle") /\ served < MaxReq
             /\ served' = served + 1
             /\ \E s \in Shapes :
                  req' = [req EXCEPT ![c] = [id |-> served', post |-> s.post,
                                             query |-> s.query, dir |-> s.dir]]
             /\ called' = [called EXCEPT ![c] = NoCall]
             /\ status' = [status EXCEPT ![c] = OK]
             /\ Go(c, "guard")
             /\ UNCHANGED <<threaded, open, bag, lio, cwd>>

\* The client goes away: the pool's cleanup closes the Lua state.
luabag_cleanup(c) == SetBag(c, NoBag)
Disconnect(c) == /\ c \in open /\ At(c, "idle")
                 /\ luabag_cleanup(c)
                 /\ open' = open \ {c}
                 /\ UNCHANGED <<threaded, pc, req, lio, cwd, called, status, served>>

(***************************************************************************)
(* lsp::handler, up to the point where the script is loaded.               *)
(***************************************************************************)
Reply(c, s) == /\ Go(c, "idle")
               /\ status' = [status EXCEPT ![c] = s]

\* Another handler's file, no file name, no file, not a regular one, HEAD.
Refuse(c) == /\ At(c, "guard")
             /\ \E s \in {DECLINED, 500, 404, 403, OK} : Reply(c, s)
             /\ UNCHANGED <<threaded, open, req, bag, lio, cwd, called, served>>
Admit(c) == /\ At(c, "guard")
            /\ Go(c, IF bag[c].live THEN "io" ELSE "open")
            /\ UNCHANGED <<threaded, open, req, bag, lio, cwd, called, status, served>>

\* The init script runs before luaL_lsp_set_io, with log already registered.
NewContext == IF threaded THEN None ELSE lio
OpenBag(c) == /\ At(c, "open")
              /\ SetBag(c, NewBag)
              /\ called' = [called EXCEPT ![c] = IF InitScript THEN NewContext ELSE @]
              /\ Go(c, "io")
              /\ UNCHANGED <<threaded, open, req, lio, cwd, status, served>>

luaL_lsp_set_io(c) == IF threaded
                      THEN SetBag(c, [bag[c] EXCEPT !.io = Me(c)]) /\ lio' = lio
                      ELSE lio' = Me(c) /\ bag' = bag
SetIo(c) == /\ At(c, "io")
            /\ luaL_lsp_set_io(c)
            /\ Go(c, IF req[c].post = "no" THEN "args" ELSE "body")
            /\ UNCHANGED <<threaded, open, req, cwd, called, status, served>>

\* read_request_data: the body goes to args_post or to env.content, also when
\* the client sent less than it announced.
StoreBody(b, form, what) == IF form THEN [b EXCEPT !.args_post = what]
                                    ELSE [b EXCEPT !.content = what]
ShortBody_Ignored(c) == /\ SetBag(c, StoreBody(bag[c], req[c].post = "form", Partial))
                        /\ Go(c, "args")
                        /\ UNCHANGED status
ShortBody(c) == /\ SetBag(c, StoreBody(bag[c], req[c].post = "form", Partial))
                /\ Reply(c, 408)
ReadBody(c) == /\ At(c, "body")
               /\ \/ \* 411, 400 or what ap_setup_client_block says
                     /\ \E s \in {411, 400, 413} : Reply(c, s)
                     /\ UNCHANGED bag
                  \/ ShortBody(c)
                  \/ /\ SetBag(c, StoreBody(bag[c], req[c].post = "form", Me(c)))
                     /\ Go(c, "args")
                     /\ UNCHANGED status
               /\ UNCHANGED <<threaded, open, req, lio, cwd, called, served>>

\* luaL_lsp_setargs replaces args; luaL_lsp_setfield skips what is NULL, as
\* r->args is for a request without a query string.
FillEnv_SkipsArgs(b, r) == [b EXCEPT !.args = IF r.query THEN r.id ELSE @,
                                     !.uri = r.id,
                                     !.env_args = IF r.query THEN r.id ELSE @]
FillEnv(b, r) == [b EXCEPT !.args = r.id,
                           !.uri = r.id,
                           !.env_args = IF r.query THEN r.id ELSE @]
SetArgs(c) == /\ At(c, "args")
              /\ SetBag(c, FillEnv(bag[c], req[c]))
              /\ Go(c, "getcwd")
              /\ UNCHANGED <<threaded, open, req, lio, cwd, called, status, served>>

\* luaL_lsp_chdir_to_file, in its two system calls.  A page of the root
\* directory gives chdir("") and a vanished directory an error: no effect.
GetCwd(c) == /\ At(c, "getcwd")
             /\ SetBag(c, [bag[c] EXCEPT !.lsp_cwd = cwd])
             /\ Go(c, "chdir")
             /\ UNCHANGED <<threaded, open, req, lio, cwd, called, status, served>>
ChDir(c) == /\ At(c, "chdir")
            /\ \/ /\ cwd' = IF req[c].dir = "/" THEN cwd ELSE req[c].dir
                  /\ UNCHANGED req
               \/ /\ req' = [req EXCEPT ![c].dir = Gone]
                  /\ UNCHANGED cwd
            /\ Go(c, "session")
            /\ UNCHANGED <<threaded, open, bag, lio, called, status, served>>

\* luaL_lsp_session_init: get_in_header finds the cookie in, or set_out_header
\* adds a new one to, the request that is the io context.
SessionInit(c) == /\ At(c, "session")
                  /\ CallHost(c)
                  /\ SetBag(c, [bag[c] EXCEPT !.session = Ctx(c)])
                  /\ Go(c, "load")
                  /\ UNCHANGED <<threaded, open, req, lio, cwd, status, served>>

(***************************************************************************)
(* lsp::handler: load, run, restore.                                       *)
(***************************************************************************)
Load(c) == /\ At(c, "load")
           /\ \/ req[c].dir # Gone /\ Go(c, "run") /\ UNCHANGED status
              \/ Go(c, "restore") /\ status' = [status EXCEPT ![c] = 500]
           /\ UNCHANGED <<threaded, open, req, bag, lio, cwd, called, served>>

\* The running script calls echo, content_type, set_out_header or log.
HostCall(c) == /\ At(c, "run")
               /\ CallHost(c)
               /\ UNCHANGED <<threaded, open, pc, req, bag, lio, cwd, status, served>>

\* lua_tointeger of the value on top of the stack.
ToInteger(v) == IF v = Lib THEN 0 ELSE v
Result(stack) == IF stack = <<>> \/ ToInteger(stack[Len(stack)]) \in {0, 200}
                 THEN OK ELSE ToInteger(stack[Len(stack)])
PopResults_OnlyTop(stack) == IF stack = <<>> THEN stack ELSE SubSeq(stack, 1, Len(stack) - 1)
\* lua_pop(L,rnum), rnum being lua_gettop(L)
PopResults(stack) == <<>>

\* An error message is logged, perhaps shown, and popped: nothing returned.
Returned == {<<>>, <<200>>, <<404>>, <<0, 404>>}
EndRun(c) == /\ At(c, "run")
             /\ \E values \in Returned :
                  LET stack == bag[c].stack \o values
                  IN  /\ status' = [status EXCEPT ![c] = Result(stack)]
                      /\ SetBag(c, [bag[c] EXCEPT !.stack = PopResults(stack)])
             /\ Go(c, "restore")
             /\ UNCHANGED <<threaded, open, req, lio, cwd, called, served>>

\* luaL_lsp_chdir_restore, then return.
Restored_OnlyOK(c) == IF bag[c].lsp_cwd # NoDir /\ status[c] # 500 THEN bag[c].lsp_cwd ELSE cwd
Restored(c) == IF bag[c].lsp_cwd # NoDir THEN bag[c].lsp_cwd ELSE cwd
Restore(c) == /\ At(c, "restore")
              /\ cwd' = Restored(c)
              /\ Go(c, "idle")
              /\ UNCHANGED <<threaded, open, req, bag, lio, called, status, served>>

Handler(c) == \/ Refuse(c) \/ Admit(c) \/ OpenBag(c) \/ SetIo(c) \/ ReadBody(c)
              \/ SetArgs(c) \/ GetCwd(c) \/ ChDir(c) \/ SessionInit(c)
              \/ Load(c) \/ HostCall(c) \/ EndRun(c) \/ Restore(c)
Next == \E c \in Conns : Connect(c) \/ Arrive(c) \/ Disconnect(c) \/ Handler(c)

Spec == Init /\ [][Next]_vars
--------------------------------------------------------------------------------
(***************************************************************************)
(* Properties.                                                             *)
(***************************************************************************)
Ids == 0..MaxReq
Body == {Partial} \cup Ids
Dirs == {Root} \cup {s.dir : s \in Shapes}
Statuses == {DECLINED, OK, 400, 403, 404, 408, 411, 413, 500}
Labels == {"idle", "guard", "open", "io", "body", "args", "getcwd", "chdir",
           "session", "load", "run", "restore"}
Bags == [live : {TRUE}, io : Ids, args : Ids, args_post : Body, uri : Ids,
         env_args : Ids, content : Body, session : Ids,
         lsp_cwd : Dirs \cup {NoDir}, stack : Seq({Lib} \cup Nat)]

\* The variables stay in their ranges; a status is one that Apache knows,
\* whatever lies on the Lua stack when the script has run.
TypeOK ==
    /\ threaded \in Builds
    /\ open \subseteq Conns
    /\ \A c \in Conns :
         /\ pc[c] \in Labels
         /\ req[c].id \in 0..MaxReq
         /\ bag[c] = NoBag \/ bag[c] \in Bags
         /\ called[c] \in {NoCall} \cup 0..MaxReq
         /\ status[c] \in Statuses
    /\ lio \in 0..MaxReq
    /\ cwd \in Dirs
    /\ served \in 0..MaxReq

Running(c) == At(c, "run")

\* What a script writes to, and every value the handler promises it, is of the
\* request being served, however many requests the connection has served.
OwnRequest ==
    \A c \in Conns : Running(c) =>
        LET b == bag[c]
        IN  /\ Ctx(c) = Me(c) /\ b.session = Me(c)
            /\ b.args = Me(c) /\ b.uri = Me(c)
            /\ req[c].query => b.env_args = Me(c)

\* A script of a POST request gets that request's whole body.
OwnBody ==
    \A c \in Conns : Running(c) =>
        /\ req[c].post = "form" => bag[c].args_post = Me(c)
        /\ req[c].post = "raw"  => bag[c].content = Me(c)

\* A script runs in its page's directory (dotmpl and io.open take relative
\* names), unless the page is in the server's own and as long as requests do
\* not overlap.
OwnDirectory(c) == cwd = IF req[c].dir = "/" THEN Root ELSE req[c].dir
InOwnDirectory == threaded \/ \A c \in Conns : Running(c) => OwnDirectory(c)

\* So it should be with threads, too, but the directory is the process's.
ThreadInOwnDirectory == \A c \in Conns : Running(c) => OwnDirectory(c)

\* Whatever path the handler leaves by, the process is back where it was.
BackInRoot == threaded \/ ((\A c \in Conns : At(c, "idle")) => cwd = Root)

\* A host function gets the request being served as its context, and not a
\* request that is over or no request at all: an integrator is to "call first:
\* luaL_lsp_set_io" (llsplib.h:26).  It does not hold where an init script calls
\* log, which is registered before the script runs and the context is set.
LiveContext == \A c \in Conns : ~At(c, "idle") => called[c] \in {NoCall, Me(c)}

\* The Lua stack does not grow with the requests of a connection: what the
\* libraries leave is there until the first script ends and gone for ever.
StackBounded ==
    \A c \in Conns : bag[c].live /\ ~At(c, "restore") =>
        bag[c].stack \in {<<>>, NewBag.stack}
===============================================================================
