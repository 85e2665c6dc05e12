------------------------------- MODULE MCHandles -------------------------------
(***************************************************************************)
(* The Oracle binding, and instances of the MySQL and cURL bindings, which *)
(* also hand out objects of C libraries, and of the memcached binding.     *)
(* They share no state: each behaviour uses the one that library names,    *)
(* and leaves the others as they are, so that the state spaces add up.     *)
(***************************************************************************)
EXTENDS OraStatement

CONSTANTS Conns, Results,                                   \* MysqlResult
          Luas, Handles, Lists, Files, MaxSends,            \* CurlHandles
          Words, SetKeys, Keys, Values, MaxCalls,           \* Memcache
          Libraries                                         \* those that are used

VARIABLES library,
          myheap, conn, res, myiter,
          cuheap, inits, lua, fp, tested, user, handle, raced, cut, dropped,
          mcfp, pc, call, length, got, outcome, alive, sent, recv, awaits, store, may

Mysql  == INSTANCE MysqlResult WITH heap <- myheap, iter <- myiter, NoConn <- None
Curl   == INSTANCE CurlHandles WITH heap <- cuheap
Mcache == INSTANCE Memcache WITH fp <- mcfp

ASSUME HandlesAssumption == /\ Mysql!MysqlAssumption /\ Curl!CurlAssumption /\ OraAssumption
                            /\ Mcache!KeysAssumption
                            /\ Libraries \subseteq {"mysql", "curl", "oracle", "memcached"}

mysql   == <<myheap, conn, res, myiter>>
curl    == <<cuheap, inits, lua, fp, tested, user, handle, raced, cut, dropped>>
mcache  == <<mcfp, pc, call, length, got, outcome, alive, sent, recv, awaits, store, may>>
allVars == <<library, mysql, curl, mcache, vars>>

UsesMysql  == library = "mysql" /\ Mysql!Next /\ UNCHANGED <<library, curl, mcache, vars>>
UsesCurl   == library = "curl" /\ Curl!Next /\ UNCHANGED <<library, mysql, mcache, vars>>
UsesOra    == library = "oracle" /\ Next /\ UNCHANGED <<library, mysql, curl, mcache>>
UsesMcache == library = "memcached" /\ Mcache!Next /\ UNCHANGED <<library, mysql, curl, vars>>
HandlesInit == /\ library \in Libraries
               /\ Mysql!Init /\ Curl!Init /\ Mcache!Init /\ Init
HandlesNext == UsesMysql \/ UsesCurl \/ UsesOra \/ UsesMcache
HandlesSpec == HandlesInit /\ [][HandlesNext]_allVars
--------------------------------------------------------------------------------
\* MySQL objects are freed once and not used afterwards (lua_mysql_close,
\* lua_mysql_result_close, __gc).
MysqlSafe == Mysql!MysqlSafe
\* Loops over a MySQL result get its rows in order (lua_mysql_result_rows).
MysqlRows == Mysql!MysqlRows
\* libcurl's objects are freed once and not used afterwards, and so is the log but
\* for two causes (lua_curl_close, luaclose_luacurl).
CurlSafe == Curl!CurlSafe
\* libcurl stays initialised for the handles of scripts (luaclose_luacurl).
InitialisedForScripts == Curl!InitialisedForScripts
\* A status is that of the last send (lua_curl_send, lua_curl_status).
StatusIsLast == Curl!StatusIsLast
\* Between calls a connection to memcached that is open carries nothing
\* (lua_mcache_set, lua_mcache_get, lua_mcache_del).
InStep == Mcache!InStep
\* What get returns is whole, and was not replaced or deleted before (lua_mcache_get).
Current == Mcache!Current
\* No call to memcached fails for what another one left behind (lua_mcache_set).
NoFalseAlarm == Mcache!NoFalseAlarm
--------------------------------------------------------------------------------
\* For TLC: keys of one word, and also of both.
OneWord  == {<<w>> : w \in Words}
TwoWords == OneWord \cup {<<"a", "b">>}
================================================================================
