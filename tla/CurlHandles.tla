------------------------------ MODULE CurlHandles ------------------------------
(***************************************************************************)
(* src/luacurl/luacurl.cpp: handles of several Lua states over what        *)
(* belongs to the process: the initialisation of libcurl, the log file,    *)
(* and the proxy, user and timeout of handles that are opened later.       *)
(*                                                                         *)
(* The Apache modules open the library for each Lua state they make and,   *)
(* before they close a state, call luaclose_luacurl; lua_close then        *)
(* collects the state's handles.  States of several threads may be open    *)
(* at once, and nothing locks what they share: whoever closes the log      *)
(* tests fp, closes the file and clears fp in three steps.  libcurl is     *)
(* external; curl_global_init and cleanup count.                           *)
(***************************************************************************)
EXTENDS Integers, FiniteSets, CHeap

CONSTANTS Luas,      \* Lua states
          Handles,   \* LCURL and its easy handle
          Lists,     \* curl_slist
          Files,     \* log files
          None,
          MaxSends   \* sends of a handle

\* What is assumed of the constants
CurlAssumption ==
    /\ Handles \cap Lists = {} /\ Handles \cap Files = {} /\ Lists \cap Files = {}
    /\ None \notin Luas \cup Handles \cup Lists \cup Files
    /\ IsFiniteSet(Luas) /\ MaxSends \in Nat

VARIABLES heap,    \* libcurl's objects, FILEs, and None: NULL, which is never live
          inits,   \* how often libcurl is initialised
          lua,     \* where a Lua state is: "none", "script", in log_file or luaclose_luacurl
                   \* ("fclose", "clear", "fopen", "cleanup"), "closing" or "closed"
          fp,      \* the process's log file, or None
          tested,  \* what a state that closes the log has found in fp, and does next
          user,    \* userpwd (proxy, timeout): the state that has set it, or None
          handle,  \* LCURL
          \* History: one state read fp while another was replacing it
          raced,
          \* History: files that were closed while a handle wrote to them
          cut,
          \* History: lists that curl_slist_append failed to extend
          dropped

log  == <<fp, tested, raced, cut>>
vars == <<heap, inits, lua, log, user, handle, dropped>>

\* log and user are what open has copied to the easy handle; sent counts sends,
\* and status is the number of the send whose answer's status it is, or 0.
NoHandle == [state |-> "none", of |-> None, curl |-> FALSE, hdrs |-> None,
             log |-> None, user |-> None, sent |-> 0, status |-> 0]
NotTested == [fp |-> None, next |-> "script"]

Init == /\ heap = [x \in Handles \cup Lists \cup Files \cup {None} |-> "none"]
        /\ inits = 0 /\ fp = None /\ user = None
        /\ lua = [s \in Luas |-> "none"]
        /\ tested = [s \in Luas |-> NotTested]
        /\ handle = [h \in Handles |-> NoHandle]
        /\ raced = FALSE /\ cut = {} /\ dropped = {}

At(s, l)   == lua[s] = l
Go(s, l)   == lua' = [lua EXCEPT ![s] = l]
Mine(s, h) == At(s, "script") /\ handle[h].of = s /\ handle[h].state = "object"

(***************************************************************************)
(* The process and its Lua states.                                         *)
(***************************************************************************)
\* curl_global_init: every luaopen counts.
Initialised_Once == 1
Initialised == inits + 1
luaopen(s) == /\ At(s, "none")
              /\ inits' = Initialised
              /\ Go(s, "script")
              /\ UNCHANGED <<heap, log, user, handle, dropped>>
\* States that are between their test of fp and their assignment to it
Replacing == {s \in Luas : lua[s] \in {"fclose", "clear", "fopen"}}
Reads(s)  == raced' = (raced \/ Replacing \ {s} # {})
\* if(fp), at the head of log_file and of luaclose_luacurl
TestLog(s, next) == /\ At(s, "script")
                    /\ IF fp = None THEN Go(s, next) /\ UNCHANGED tested
                       ELSE Go(s, "fclose") /\ tested' = [tested EXCEPT ![s] = [fp |-> fp, next |-> next]]
                    /\ Reads(s)
                    /\ UNCHANGED <<heap, inits, fp, cut, user, handle, dropped>>
log_file(s) == TestLog(s, "fopen")
luaclose(s) == TestLog(s, "cleanup")
\* Handles that write to f
Writers(f) == {h \in Handles : handle[h].curl /\ handle[h].log = f}
\* What the test has found, or what another thread has made of it since: NULL, too
fclose(s) == /\ At(s, "fclose")
             /\ \E f \in {tested[s].fp, fp} :
                  /\ heap' = Released(heap, {f})
                  /\ cut' = IF Writers(f) # {} THEN cut \cup {f} ELSE cut
             /\ Go(s, "clear")
             /\ UNCHANGED <<inits, fp, tested, raced, user, handle, dropped>>
Cleared == None
clear(s) == /\ At(s, "clear")
            /\ fp' = Cleared
            /\ Go(s, tested[s].next)
            /\ tested' = [tested EXCEPT ![s] = NotTested]
            /\ UNCHANGED <<heap, inits, raced, cut, user, handle, dropped>>
\* A bad argument leaves fp as it is; fopen may fail.
fopen(s) == /\ At(s, "fopen")
            /\ \/ fp' \in {fp, None} /\ UNCHANGED heap
               \/ \E f \in Files : /\ heap[f] = "none"
                                   /\ fp' = f /\ heap' = Allocated(heap, {f})
            /\ Go(s, "script")
            /\ UNCHANGED <<inits, tested, raced, cut, user, handle, dropped>>
\* curl_global_cleanup
cleanup(s) == /\ At(s, "cleanup")
              /\ inits' = inits - 1
              /\ Go(s, "closing")
              /\ UNCHANGED <<heap, log, user, handle, dropped>>
\* userpwd, and in the same way proxy and timeout
userpwd(s) == /\ At(s, "script") /\ user' = s
              /\ UNCHANGED <<heap, inits, lua, log, handle, dropped>>

(***************************************************************************)
(* Handles.                                                                *)
(***************************************************************************)
open(s, h) == /\ At(s, "script") /\ handle[h].state = "none" /\ heap[h] = "none"
              /\ LET object == [NoHandle EXCEPT !.state = "object", !.of = s]
                 IN  \/ \* curl_easy_init fails: an error, and an object without a handle
                        /\ handle' = [handle EXCEPT ![h] = object]
                        /\ UNCHANGED <<heap, raced>>
                     \/ /\ handle' = [handle EXCEPT ![h] = [object EXCEPT !.curl = TRUE, !.log = fp, !.user = user]]
                        /\ heap' = Allocated(heap, {h})
                        /\ Reads(s)
              /\ UNCHANGED <<inits, lua, fp, tested, cut, user, dropped>>
FileOf(f) == {f} \ {None}
Easy(h) == IF handle[h].curl THEN {h} \cup FileOf(handle[h].log) ELSE {}
List(h) == {handle[h].hdrs} \ {None}
\* curl_easy_cleanup still writes to the log, then curl_slist_free_all.
Cleaned(hs) == LET easy == {h \in hs : handle[h].curl}
                   lists == UNION {List(h) : h \in hs}
               IN  Released(Used(heap, UNION {Easy(h) : h \in hs}), easy \cup lists)
Closed_KeepsList(h, state) == [handle[h] EXCEPT !.curl = FALSE, !.log = None, !.state = state]
Closed(h, state) == [handle[h] EXCEPT !.curl = FALSE, !.hdrs = None, !.log = None, !.state = state]
\* close, and __gc, after which the object is gone
close(s, h, state) == /\ Mine(s, h)
                      /\ heap' = Cleaned({h})
                      /\ handle' = [handle EXCEPT ![h] = Closed(h, state)]
                      /\ UNCHANGED <<inits, lua, log, user, dropped>>
\* lua_close collects what is left of the state.
lua_close(s) == /\ At(s, "closing")
                /\ LET left == {h \in Handles : handle[h].of = s /\ handle[h].state = "object"}
                   IN  /\ heap' = Cleaned(left)
                       /\ handle' = [h \in Handles |-> IF h \in left THEN Closed(h, "gone") ELSE handle[h]]
                /\ Go(s, "closed")
                /\ UNCHANGED <<inits, log, user, dropped>>
\* curl_slist_append makes the list with its first header.  It may fail, and what
\* it returns then, NULL, takes the place of the list.
set_request_header(s, h) ==
    /\ Mine(s, h)
    /\ \/ /\ handle[h].hdrs = None
          /\ \E l \in Lists : /\ heap[l] = "none"
                              /\ heap' = Allocated(heap, {l})
                              /\ handle' = [handle EXCEPT ![h].hdrs = l]
          /\ UNCHANGED dropped
       \/ handle[h].hdrs # None /\ heap' = Used(heap, List(h)) /\ UNCHANGED <<handle, dropped>>
       \/ /\ handle' = [handle EXCEPT ![h].hdrs = None]
          /\ dropped' = dropped \cup List(h)
          /\ UNCHANGED heap
    /\ UNCHANGED <<inits, lua, log, user>>
\* escape, of a handle
escape(s, h) == /\ Mine(s, h)
                /\ heap' = Used(heap, IF handle[h].curl THEN {h} ELSE {})
                /\ UNCHANGED <<inits, lua, log, user, handle, dropped>>
\* The status before the answer has come
Reset_Not(status) == status
Reset(status) == 0
\* A send that fails, as all do of a closed handle, returns nothing.  One with a bad
\* argument raises before the status is reset, and sends nothing: a stutter.
send(s, h) ==
    /\ Mine(s, h) /\ handle[h].sent < MaxSends
    /\ heap' = IF handle[h].curl THEN Used(heap, Easy(h) \cup List(h)) ELSE heap
    /\ \E ok \in {handle[h].curl, FALSE} :
         handle' = [handle EXCEPT ![h].sent = @ + 1,
                                  ![h].status = IF ok THEN handle[h].sent + 1 ELSE Reset(@)]
    /\ UNCHANGED <<inits, lua, log, user, dropped>>

Script(s, h) == open(s, h) \/ close(s, h, "object") \/ close(s, h, "gone")
                \/ set_request_header(s, h) \/ escape(s, h) \/ send(s, h)
Log(s) == luaclose(s) \/ log_file(s) \/ fclose(s) \/ clear(s) \/ fopen(s)
Next == \/ \E s \in Luas : luaopen(s) \/ Log(s) \/ cleanup(s) \/ userpwd(s) \/ lua_close(s)
        \/ \E s \in Luas, h \in Handles : Script(s, h)
Spec == Init /\ [][Next]_vars
--------------------------------------------------------------------------------
(***************************************************************************)
(* Properties.                                                             *)
(***************************************************************************)
\* Easy handles and header lists are freed once, never used afterwards, and none is
\* lost, whoever closes first: a script, the collector, lua_close or another state's
\* luaclose_luacurl; but for a list that curl_slist_append has dropped.
ObjectsSafe == /\ \A h \in Handles : /\ heap[h] # "abused"
                                     /\ heap[h] = "live" => handle[h].curl
               /\ \A l \in Lists : /\ heap[l] # "abused"
                                   /\ heap[l] = "live" => l \in dropped \/ \E h \in Handles : l \in List(h)

\* There are two ways, and no third, for a log file to be spoiled: it is closed while
\* a handle that is open writes to it, by whatever Lua state; or one thread tests fp or
\* takes it for a handle while another is closing the file and replacing fp.
CurlSafe == /\ ObjectsSafe
            /\ \/ raced
               \/ /\ heap[None] # "abused"
                  /\ \A f \in Files : /\ heap[f] = "abused" => f \in cut
                                      /\ heap[f] = "live" => fp = f

\* The log is never closed twice, lost, or written to when it is closed.  Not so if
\* either happens.
LogSafe == /\ heap[None] # "abused"
           /\ \A f \in Files : heap[f] # "abused" /\ (heap[f] = "live" => fp = f)

\* libcurl stays initialised for every handle that a script may still use: a state
\* that closes takes back its own initialisation only, although luaclose_luacurl
\* knows no state.
Scripting == {"script", "fclose", "clear", "fopen"}
InitialisedForScripts ==
    \A h \in Handles : handle[h].curl /\ lua[handle[h].of] \in Scripting => inits > 0

\* And for those that lua_close collects.  It is not: cleanup comes before.
InitialisedForAll == \A h \in Handles : handle[h].curl => inits > 0

\* status() is that of the handle's last send, never an earlier one's after a send
\* that has failed.
StatusIsLast == \A h \in Handles : handle[h].status \in {0, handle[h].sent}

\* A handle has the user (proxy, timeout) that its own Lua state has set, or none.
\* Not so when states share the process, or follow one another.
OwnSettings == \A h \in Handles : handle[h].user \in {None, handle[h].of}
================================================================================
