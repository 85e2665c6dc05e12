--------------------------------- MODULE MCPages -------------------------------
(***************************************************************************)
(* What llsplib.cpp does for the pages that run: their output, and an      *)
(* instance of the cache of compiled pages.  They share no state: each     *)
(* behaviour is of the one that part names, and leaves the other as it is. *)
(***************************************************************************)
EXTENDS PageOutput

CONSTANTS Procs, UseCache, Quiet, MaxVersion, MaxTime,  \* ScriptCache
          Parts                                         \* those that move

VARIABLES part,
          use_cache, source, cache, latest, clock, at, mtime1, mtime2, chunk, tmp, first, ran,
          undone

Cache == INSTANCE ScriptCache WITH pc <- at

ASSUME PartsAssumption == Cache!CacheAssumption /\ Parts \subseteq {"output", "cache"}

cacheVars == <<use_cache, source, cache, latest, clock, at, mtime1, mtime2, chunk, tmp, first, ran,
               undone>>
allVars   == <<part, vars, cacheVars>>

Outputs  == part = "output" /\ Next /\ UNCHANGED <<part, cacheVars>>
Executes == part = "cache" /\ Cache!Next /\ UNCHANGED <<part, vars>>
PagesInit == part \in Parts /\ Init /\ Cache!Init
\* As in PageOutput, a call that writes is sequential code that nobody stops.
PagesSpec == PagesInit /\ [][Outputs \/ Executes]_allVars /\ WF_allVars(Outputs)
--------------------------------------------------------------------------------
\* Whatever fails or dies while the compiled file is built, a reader finds a
\* whole one or none (luaL_do_lsp_file, llsplib.cpp:483).
NeverTorn == Cache!NeverTorn
\* A call executes the page as it was when the call began, or a later version, unless
\* an older compiled file has replaced a newer one since (luaL_do_lsp_file).
Fresh == Cache!Fresh
\* A compiled file of an older version is older than the page, in whatever order the
\* processes that compile rename: the next call builds it again (llsplib.cpp:475,490).
StaleIsOlder == Cache!StaleIsOlder
--------------------------------------------------------------------------------
\* For TLC: a call with up to two arguments, alone or before one that shows whether
\* output goes on.  Three bytes are written in up to three parts, so that a first,
\* a middle and a last one exist.
MCArgs  == {0, 3, NoString}
MCCalls == [fn : {"echo", "print"}, args : {<<>>} \cup {<<a>> : a \in MCArgs} \cup {<<a, b>> : a, b \in MCArgs}]
MCLast  == [fn : {"echo", "print"}, args : {<<1>>}]
MCPagesToWrite == {<<>>} \cup {<<a>> : a \in MCCalls} \cup {<<a, b>> : a \in MCCalls, b \in MCLast}
NoPages == {<<>>}
================================================================================
