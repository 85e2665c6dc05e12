------------------------------ MODULE ScriptCache ------------------------------
(***************************************************************************)
(* src/llsplib.cpp, luaL_do_lsp_file: processes execute a page that is     *)
(* edited meanwhile.  use_cache, a constant of the build, selects whether   *)
(* the page is compiled at every call (0), its compiled file is used if    *)
(* there is one (1), or that is rebuilt when it is older than the page (2).*)
(* Every system call is a step of its own, and a process may die between   *)
(* any two.  A page's content is the number of its version: it is read and *)
(* replaced at one moment, so an edit that another process reads half done *)
(* is not there.  The editor and the clock, whose unit is the second of    *)
(* st_mtime, are external.                                                 *)
(***************************************************************************)
EXTENDS Integers, FiniteSets

CONSTANTS Procs,      \* processes that execute the page
          UseCache,   \* builds: values of use_cache
          Quiet,      \* with a cache, the page is not edited between being
                      \* read and its compiled file being written, nor in the
                      \* second of that, and it is never deleted
          MaxVersion, \* versions of the page
          MaxTime     \* seconds

CacheAssumption == /\ UseCache \subseteq 0..2
                   /\ Quiet \in BOOLEAN
                   /\ MaxVersion \in Nat \ {0}
                   /\ MaxTime \in Nat \ {0}

VARIABLES
    use_cache,
    source,   \* filename: its version and st_mtime, both 0 when it is deleted
    cache,    \* cachefile, likewise, and whether it is whole
    latest,   \* the last version written
    clock,
    pc,
    mtime1, mtime2,  \* what the two lstat calls of a process found
    chunk,    \* the version of the function on top of the Lua stack
    tmp,      \* /tmp/lsp_cache.XXXXXX of a process
    first,    \* the version on disk when the call began
    ran,      \* the last version a process executed
    undone    \* since then a compiled file has replaced a newer one

disk  == <<use_cache, source, cache, latest, clock>>
local == <<pc, mtime1, mtime2, chunk, tmp, first, ran, undone>>
vars  == <<use_cache, source, cache, latest, clock, pc, mtime1, mtime2, chunk, tmp, first, ran,
           undone>>

File(v, t, w) == [ver |-> v, mtime |-> t, whole |-> w]
NoFile == File(0, 0, TRUE)

Init == /\ use_cache \in UseCache
        /\ source = File(1, 1, TRUE) /\ latest = 1 /\ clock = 1
        \* no compiled file, or one made before
        /\ cache \in {NoFile, File(1, 1, TRUE)}
        /\ pc = [p \in Procs |-> "idle"]
        /\ mtime1 = [p \in Procs |-> 0] /\ mtime2 = [p \in Procs |-> 0]
        /\ chunk = [p \in Procs |-> 0]
        /\ tmp = [p \in Procs |-> NoFile]
        /\ first = [p \in Procs |-> 0] /\ ran = [p \in Procs |-> 0]
        /\ undone = [p \in Procs |-> FALSE]

(***************************************************************************)
(* The world around (external).                                            *)
(***************************************************************************)
MayEdit == Quiet /\ use_cache # 0 =>
              /\ clock > cache.mtime
              /\ \A p \in Procs : /\ pc[p] \notin {"mkstemp", "dump"}
                                  /\ pc[p] = "rename" => clock > tmp[p].mtime

Tick == clock < MaxTime /\ clock' = clock + 1 /\ UNCHANGED <<use_cache, source, cache, latest, local>>
Edit == /\ MayEdit /\ latest < MaxVersion
        /\ latest' = latest + 1
        /\ source' = File(latest', clock, TRUE)
        /\ UNCHANGED <<use_cache, cache, clock, local>>
Delete == /\ ~(Quiet /\ use_cache # 0) /\ source # NoFile
          /\ source' = NoFile
          /\ UNCHANGED <<use_cache, cache, latest, clock, local>>
\* The process dies; its temporary file stays behind.
Crash(p) == /\ pc[p] # "idle"
            /\ pc' = [pc EXCEPT ![p] = "idle"]
            /\ UNCHANGED <<disk, mtime1, mtime2, chunk, tmp, first, ran, undone>>

(***************************************************************************)
(* luaL_do_lsp_file.                                                       *)
(***************************************************************************)
At(p, l) == pc[p] = l
Go(p, l) == pc' = [pc EXCEPT ![p] = l]

FirstStep == IF use_cache = 0 THEN "load" ELSE "lstat1"
Call(p) == /\ At(p, "idle")
           /\ first' = [first EXCEPT ![p] = source.ver]
           /\ ran' = [ran EXCEPT ![p] = 0]
           /\ undone' = [undone EXCEPT ![p] = FALSE]
           /\ Go(p, FirstStep)
           /\ UNCHANGED <<disk, mtime1, mtime2, chunk, tmp>>
\* A file that lstat does not find leaves the time at 0.
MTime(f) == IF f = NoFile THEN 0 ELSE f.mtime
Lstat1(p) == /\ At(p, "lstat1")
             /\ mtime1' = [mtime1 EXCEPT ![p] = MTime(source)]
             /\ Go(p, "lstat2")
             /\ UNCHANGED <<disk, mtime2, chunk, tmp, first, ran, undone>>
Lstat2(p) == /\ At(p, "lstat2")
             /\ mtime2' = [mtime2 EXCEPT ![p] = MTime(cache)]
             /\ Go(p, "choose")
             /\ UNCHANGED <<disk, mtime1, chunk, tmp, first, ran, undone>>

MustCompile_IfNone(m1, m2) == m2 = 0
MustCompile(m1, m2) == IF use_cache = 1 THEN m2 = 0 ELSE m2 = 0 \/ m2 < m1
Choose(p) == /\ At(p, "choose")
             /\ Go(p, IF MustCompile(mtime1[p], mtime2[p]) THEN "load" ELSE "loadfile")
             /\ UNCHANGED <<disk, mtime1, mtime2, chunk, tmp, first, ran, undone>>

\* luaL_load_lsp_file: no page, or one that does not compile, ends the call.
Load(p) == /\ At(p, "load")
           /\ \/ /\ source # NoFile
                 /\ chunk' = [chunk EXCEPT ![p] = source.ver]
                 /\ Go(p, IF use_cache = 2 THEN "mkstemp" ELSE "run")
              \/ Go(p, "idle") /\ UNCHANGED chunk
           /\ UNCHANGED <<disk, mtime1, mtime2, tmp, first, ran, undone>>
MkStemp(p) == /\ At(p, "mkstemp")
              /\ \E l \in {"dump", "run"} : Go(p, l)
              /\ UNCHANGED <<disk, mtime1, mtime2, chunk, tmp, first, ran, undone>>
\* lua_dump through lsp_writer, which stops at a short write.
AfterDump_Unchecked(whole) == "rename"
AfterDump(whole) == IF whole THEN "rename" ELSE "run"
Dump(p) == /\ At(p, "dump")
           /\ \E whole \in BOOLEAN :
                /\ tmp' = [tmp EXCEPT ![p] = File(chunk[p], clock, whole)]
                /\ Go(p, AfterDump(whole))
           /\ UNCHANGED <<disk, mtime1, mtime2, chunk, first, ran, undone>>
\* rename keeps the time the file was written; when /tmp is another file
\* system it fails, which the code does not look at.
Replaced_Copy(p, ok) == IF ok THEN File(tmp[p].ver, clock, tmp[p].whole) ELSE cache
Replaced(p, ok) == IF ok THEN tmp[p] ELSE cache
Rename(p) == /\ At(p, "rename")
             /\ \E ok \in BOOLEAN : cache' = Replaced(p, ok)
             /\ Go(p, "run")
             /\ undone' = IF cache'.ver < cache.ver THEN [q \in Procs |-> TRUE] ELSE undone
             /\ UNCHANGED <<use_cache, source, latest, clock, mtime1, mtime2, chunk, tmp, first, ran>>
\* luaL_loadfile(cachefile)
LoadFile(p) == /\ At(p, "loadfile")
               /\ IF cache.whole THEN chunk' = [chunk EXCEPT ![p] = cache.ver] /\ Go(p, "run")
                                 ELSE Go(p, "idle") /\ UNCHANGED chunk
               /\ UNCHANGED <<disk, mtime1, mtime2, tmp, first, ran, undone>>
Run(p) == /\ At(p, "run")
          /\ ran' = [ran EXCEPT ![p] = chunk[p]]
          /\ Go(p, "idle")
          /\ UNCHANGED <<disk, mtime1, mtime2, chunk, tmp, first, undone>>

Step(p) == \/ Call(p) \/ Lstat1(p) \/ Lstat2(p) \/ Choose(p) \/ Load(p)
           \/ MkStemp(p) \/ Dump(p) \/ Rename(p) \/ LoadFile(p) \/ Run(p)
Next == Tick \/ Edit \/ Delete \/ \E p \in Procs : Step(p) \/ Crash(p)
Spec == Init /\ [][Next]_vars
--------------------------------------------------------------------------------
(***************************************************************************)
(* Properties.                                                             *)
(***************************************************************************)
FileType == [ver : 0..MaxVersion, mtime : 0..MaxTime, whole : BOOLEAN]

\* The variables stay in their ranges, and versions are numbered in order.
TypeOK ==
    /\ use_cache \in UseCache
    /\ source \in FileType /\ cache \in FileType
    /\ latest \in 1..MaxVersion /\ clock \in 1..MaxTime
    /\ source.ver \in {0, latest}
    /\ \A p \in Procs :
         /\ mtime1[p] \in 0..MaxTime /\ mtime2[p] \in 0..MaxTime
         /\ chunk[p] \in 0..MaxVersion /\ tmp[p] \in FileType
         /\ first[p] \in 0..MaxVersion /\ ran[p] \in 0..MaxVersion /\ undone[p] \in BOOLEAN

\* Whatever fails or dies while the compiled file is built, a reader finds a
\* whole one or none (llsplib.cpp:483 writes elsewhere and renames).
NeverTorn == cache.whole

\* A call executes the page as it was when the call began, or a later version,
\* unless the build promises no more than "use cache file if exist" (1), or a
\* process that compiled an older version has renamed it over a newer one since.
Fresh == use_cache # 1 => \A p \in Procs : ran[p] # 0 => ran[p] >= first[p] \/ undone[p]

\* When that happens, as processes that compile at once rename in any order, it does
\* not last: a compiled file of an older version is older than the page, and the next
\* call builds it again (llsplib.cpp:475,490).
StaleIsOlder == use_cache = 2 /\ cache.ver # source.ver => cache.mtime < source.mtime
================================================================================
