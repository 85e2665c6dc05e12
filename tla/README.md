# luasp in TLA+

luasp executes Lua Server Pages: `.lsp` files of text with Lua in tags, served by
Apache modules, with libraries for the scripts (MySQL, cURL, JSON, memcached,
Oracle, signed links) and a C++ wrapper of the Lua stack. This directory holds
TLA+ models of it, the configurations that check them with TLC, and proofs for
TLAPS.

## The system

| part | source | its state | its operations |
|---|---|---|---|
| template reader | `llsplib.cpp` 29-422 | file, reader's state, line, buffer | `luaL_load_lsp_file`, `lsp_reader` called by `lua_load` |
| compiled page cache | `llsplib.cpp` 424-503 | two files and their times, temporary files | `luaL_do_lsp_file` (`dofile` of a page), in any number of processes |
| page output | `llsplib.cpp` 93-150, 506-639 | the io interface (`lsp_io`) | `echo`, `print`, `write`, `dotmpl` |
| request environment | `llspaux.cpp` | `args`, `env`, the saved directory | `luaL_lsp_setargs`, `setfield`, `chdir_to_file`, `chdir_restore`, `session_init` |
| Apache 2 module | `mod_apache2/mod_luasp.cpp` | a Lua state per connection, the io context, the process's directory | `handler`, `read_request_data`, `luabag_cleanup`, host functions |
| Apache 1.3 module | `mod_apache1_3/mod_luasp.cpp` | one Lua state per process, `apr`, `data_sent` | the same, and headers before the body |
| C++ wrapper | `luawrapper/` | the Lua stack, `vm.mutex`, a `bind`'s counters | `lookup`, `<<`, `invoke`, `m_invoke`, `>>`, `end` |
| JSON | `luajson/` | state stack, array counters, token start; Lua stack | `decode`, `encode` |
| MySQL | `luamysql/` | connection, result, cursor | `open`, `query`, `fetch`, `close`, collection |
| cURL | `luacurl/` | handles; proxy, log file and timeout of the process | `open`, `set...`, `perform`, `close`, `luaclose_luacurl` |
| memcached | `luamemcache/` | socket, replies under way | `open`, `get`, `set`, `del`, `close` |
| Oracle | `luaora/` | session, statement, bound parameters, row | `open`, `query`, `execute`, `fetch`, `commit`, `rollback` |
| signed links | `luamoz/` | none | `md5_hex`, `moz_calc_pass`, `moz_validate_pass` |

The reader is called by the handlers for the page of a request and by the cache
for pages that pages include. Handlers own the Lua state that all libraries work
on and set the io context that output and the host functions (`log`,
`set_out_header`, ...) use. What is hard to test is where state outlives a call:
a Lua state outlives a request, the directory and (without `THREAD_SAFE`) the io
context belong to the process, compiled pages to all processes, and a userdata
outlives what it points to; and where state is cut in the middle of an operation:
the reader's chunks, a body that ends early, a process that dies before `rename`,
a call of OCI that fails after a row was freed.

What makes each part correct, and where it is stated:

| part | correct when |
|---|---|
| template reader | Lua is given the page's translation, whatever the chunks (`ImplementsTemplate`), within the buffer (`BufferInBounds`), with the file's line numbers, and only whole pages are accepted |
| compiled page cache | nobody finds half a file (`NeverTorn`) or an older page than it began with, unless an older result was renamed over a newer (`Fresh`), and that does not last (`StaleIsOlder`) |
| page output | the client gets the page's text in order and nothing twice, and nothing is left out unless a write failed (`ImplementsStream`); the loops over `lwrite` end (`CallsEnd`) |
| request environment | `args` are the text's pairs (`ArgsOfPairs`), the session is the cookie's (`SessionOfCookie`) |
| Apache modules | a script sees and answers its own request (`OwnRequest`, `OwnBody`), in its own directory (`InOwnDirectory`), and leaves nothing (`BackInRoot`, `StackBounded`); its answer begins with a header and has one only, but where a page that has written ends with an error (`OneHeader`) |
| C++ wrapper | one holder of the mutex (`OneHolder`), which leaves the stack as it was (`OwnValues`) and reads its own results (`FetchesResults`) |
| JSON | `decode` accepts the grammar (`Decodes`), fills the right table (`InOneTable`) and inverts `encode`, of what can be written, as long as that has room (`RoundTrip`); both end (`CallsEnd`) |
| memcached | a call reads its own reply (`InStep`, `NoFalseAlarm`), a get whole and current values (`Current`) |
| MySQL | objects are freed once, not used afterwards, not lost (`MysqlSafe`); a loop gets its rows from the first to the last (`MysqlRows`) |
| cURL | the same, but for two ways to spoil a log (`CurlSafe`); libcurl stays initialised for the handles a script may use (`InitialisedForScripts`); `status` is the last send's (`StatusIsLast`) |
| Oracle | the same, and for OCI as well, which keeps addresses, but for two causes (`OraSafe`, `OraRows`); a bound variable's number is that of its buffer (`BindsInPlace`) |

## Modules

| module | models | checked by |
|---|---|---|
| `LspReader` | `luaL_load_lsp_file`, `lsp_reader` | `MCLspReader`, `LspReader.cfg`; `LspReader_proofs` |
| `LspTemplate` | what the reader promises | as a property of `LspReader.cfg`; `LspReader_proofs` |
| `ScriptCache` | `luaL_do_lsp_file` | `MCPages`, `ScriptCache.cfg`, `ScriptCacheBusy.cfg`; `Pages_proofs` |
| `PageOutput` | `lua_echo`, `lua_print` over `lwrite` and `lputc` | `MCPages`, `PageOutput.cfg`; `Pages_proofs` |
| `OutStream` | what a page's output promises | as a property of `PageOutput.cfg`; `Pages_proofs` |
| `Apache2Handler` | `lsp::handler` of Apache 2, with what it calls of `llspaux.cpp` | `MCApache2Handler`, `Apache2*.cfg`; `Apache2Handler_proofs` |
| `Apache1Handler` | `lsp::handler` of Apache 1.3 | `MCApache1Handler`, `Apache1*.cfg`; `Apache1Handler_proofs` |
| `LspParams` | `args`, `urldecode`, `luaL_lsp_session_init` | `MCLspParams`, `LspParams*.cfg`; `LspParams_proofs` |
| `LuaBind` | `lua::bind` | `LuaBind*.cfg`; `LuaBind_proofs` |
| `JsonParser` | `lua_json_parse` | `MCJsonParser`, `Json*.cfg`; `JsonParser_proofs` |
| `JsonGrammar` | what `json.decode` promises | by `Decodes` of `JsonParser` |
| `JsonEncoder` | `lua_json_encode`, over the Lua stack and `luaL_Buffer` | `MCJsonParser`, which gives its text to `JsonParser` |
| `Memcache` | the calls of `luamcache.cpp` over one connection | `MCHandles`, `Bindings.cfg`, `MemcacheSpace.cfg`; `Handles_proofs` |
| `CHeap` | objects that C libraries hand out by pointer | by the next three |
| `MysqlResult` | `luamysql.cpp` | `MCHandles`, `Bindings.cfg`; `Handles_proofs` |
| `CurlHandles` | `luacurl.cpp` | `MCHandles`, `Bindings.cfg`, `Curl*.cfg`; `Handles_proofs` |
| `OraStatement` | `luaora.cpp`, but for its environment | `MCHandles`, `Bindings.cfg`, `Ora*.cfg`; `Handles_proofs` |

Definitions named like another one with an underscore and a word after it
(`Held_OneMark`) are that definition with a mistake in it. No specification uses
them; they show that a property notices the mistake.

Each `.cfg` that PROJECT.json does not list among its runs shows a deviation of the
code that is described, but not asserted as a finding, in "What the code does
otherwise" below; each of them ends with a counterexample.

### LspReader and LspTemplate

One action per case of the reader's `switch`, one for the exit of its loop
(`ChunkFull`), two for the end of the file, and four for what surrounds it
(`Open`, `Call`, `ParserError`, `Accept`). `Call` is `lua_load` asking for more:
it separates chunks, so that a chunk may end in every state. The variables are
the members of `lsp_State`; instead of the bytes of the buffer there are `out`,
every item written since the page was opened, `given`, how many of them have been
returned, and `buf_offset`, which is exact because every item has a width.
Characters are classes: one name for each character the reader compares, `ctl`
for the bytes it replaces and `x` for all others (`"` and NUL, which are escaped
like `'`, are represented by it). `fgetc` and `ungetc` are external and are
reflected in `pos`; an `ungetc` never gives back a newline, so `line` needs no
correction, and `LineIsFileLine` says that it indeed gets none.

Lua's parser is external. It may reject a page as soon as it has been given code
of the page; text alone always parses.

`LspTemplate` gives the translation of a page with no states: where text and tags end,
what each of them becomes, and, as a recursive function, what follows
(`Translations[i]` is what the page gives from character `i` on). It repeats one habit of the
reader that one may call a quirk: `<`s are read in pairs, so `<<?` opens no tag,
and neither does the second `<` of any pair. The refinement says that what has
been delivered is always a prefix of the translation, that delivery goes on
until the translation is complete, and that success or failure is what the page
deserves.

`LspReader.cfg` enumerates every concatenation of up to four of twelve fragments
(nine characters, `<?`, `<?=`, `?>`): 22,621 pages or less, once equal ones are
counted once. A tag with body, its closing and what follows it fits in four
fragments; the buffer of 2 + 8 bytes fills after one or two characters, so that
every state is interrupted by the end of a chunk. Fairness: the load is one
sequential call, so it is not stopped between steps (`WF_vars(Next)`);
`Terminates` depends on nothing else.

### Apache2Handler

A value is the number of the request it comes from; a script that finds another
number than its request's sees another request's data. Steps are the points
between which another thread, or another request of the connection, makes a
difference: the guards, the creation of the Lua state, `luaL_lsp_set_io`, the
body, `args` and `env`, `getcwd`, `chdir`, the session, loading, host calls of the
running script, its end and `chdir_restore`. Of the Lua state the model keeps the
fields the handler writes and the stack. What the script returns is one of
nothing, 200, 404 and a pair. Libraries opened from C leave eight values on the
stack, which the first script's end pops.

`threaded` says whether the build has `THREAD_SAFE`; `Init` chooses it from
`Builds`. With it, the io context is in the registry of each Lua state and two
connections are served at once; without it, the context is a global and one
connection is served after the other. Both builds are in `Apache2.cfg`, which
has two connections, five shapes of request (each kind of body, with and without
a query string, pages in two directories and in the root) and three requests.
Two requests are enough for one to see what another left; the third lets a
connection close in between, or three overlap in two connections.

The server may idle, so deadlock is not checked. No liveness is claimed: scripts
may run for ever.

### Apache1Handler

The same guards, body, arguments and directory, but one request at a time, one Lua
state for all of a child's clients, and headers that the module itself has to
send: before the first byte a script writes (`Put`, which is `ap_def_puts`,
`ap_def_putc` and `ap_def_write`) or at the end of a page that wrote nothing.
`wire` is what the client got: how many headers, and whether a byte came before
the first. Apache answers a status that is not OK with its own error page, header and
all, whatever the module has sent (`ErrorPage`): a page that has written and then
returns 404 is answered with two headers, and `OneHeader` excepts it.
A request is one step per part, since nothing else runs in the child;
`lsp_init` and `lsp_done` may come between any two requests. `Apache1.cfg` has
sixteen shapes of request and three requests.

### LspParams

One action per iteration of each loop, with the code's own positions. A text is a
sequence of classes: the characters the code compares, `h` for a hexadecimal
digit, `hi` for one that is negative as a `char`, `nul`, and others by letter. The
index of `hex[]` is a `char`, so `hi` reads before the array and the model lets it
be a digit or not. The names and values of `ArgsOfPairs` are cut out of the text
by a definition that knows no loop; of several `=` in a pair, the last one
counts, as in the code. What the decoder makes of a malformed `%` is left open
there. A session is the value of the first cookie of the right name, as much as
fits `tmp`; `SizeofTmp` is 5 instead of 256, so that headers of six characters
are cut at every place. Whether `luamoz` is there to make a new session is a
choice. `LspParams.cfg` enumerates 10 fragments in up to four places, with and
without a pair before them, and every header of up to six of five characters:
the four offsets of the scanner go through every change of one pair to the next.

### ScriptCache

Each system call of `luaL_do_lsp_file` is a step, and the process may die between
any two. Contents are version numbers. `Init` chooses `use_cache` of the build.
`Quiet` restricts the editor where there is a cache: no edit between the reading of
the page and the writing of what was compiled of it, nor in the second of that, and no
deletion. Edits between writing and `rename` are there, and so are two compilations of
different versions whose results are renamed in either order: the older may come to lie
over the newer. `undone` notes that this has happened since a call began, which
`Fresh` excepts; `StaleIsOlder` says that it is repaired, as `rename` keeps the time of
writing and the next call finds the file older than the page. Without `Quiet`, both are
violated. With `use_cache` 0 (as shipped)
`Fresh` holds without any restriction; with 1 the compiled file is used however old
it is, and `Fresh` says nothing. A compilation or a dump may fail, and so
may `mkstemp` and `rename`. With two processes, two versions and three seconds
there are an edit before, between and after two compilations. A page is read at one
moment; that an edit in place is read half done is not in the model. `MCPages` instantiates it next to
`PageOutput`; what pages have in the cache and what they write share no state, so each
behaviour is of one of both, which `part` names.

### LuaBind

The stack holds who pushed a value and what kind it is. Binds are created and
destroyed like automatic objects. `Disciplined` callers use a bind in the order
look up, push, call, fetch, end, as `test.cpp` and the examples do; a bind created
while another one is in its transaction refuses. A Lua error outside of `lua_pcall`
ends the process (`panicked`). `LuaBind.cfg` nests three binds over a stack of five
values.

### JsonParser, JsonGrammar and JsonEncoder

`JsonParser` has one action per case of the parser's `switch`, over one character
at a time, with the state stack, the array counters, the start of the token and
the Lua stack. A number is made of the digits 0 and 1, `T` and `N` stand for `true` and
`null` as one character each. A number has less than `NumberSize` characters, the
buffer of `push_number`, or is refused (64 in the source, 3 in the run); the grammar
has the same limit, as one of luajson and not of JSON. The end of the text is the NUL that every Lua string
has, and the parser counts it among the blanks. Of a `\u` escape the model keeps how
many digits there are from the first that is not 0, which decides how many bytes
the character has: `lead2`, `lead3` and `cont` are those bytes. Lua tables are
functions; `RawSet` removes a key for nil, as Lua does. The cell past the end of `key`
is the index itself, so that a deep array may reset it.

`JsonGrammar` decodes a text recursively and shares nothing with the parser's
states: a value's text is read at its place, and what follows it to the end of its
brackets by a recursive function of the position (`Reading`). `Decodes` compares both: what
comes out, and what is refused. It is stated of all texts; `Plain` ones are those on which
the parser reads what the grammar says: no quotation mark follows an escaped backslash
(`SlashEnd`), every `\u` has its four digits (`WholeCodes`), and at most one array is at
the top (`OneArray`).

`JsonEncoder` walks the arguments as the code does: one action for the loop over
the arguments, one for a value, two for what `lua_next` finds (`Visit`, `EndTable`) and
one for what it does not take for a key (`BadKey`). Key, value and what a full
`luaL_Buffer` leaves behind lie on one stack, and the code finds its key and its
value by counting from the top. `calls` are the recursive calls of
`lua_json_encode_value`, with the index of the table that each was given.

An encoded number keeps `NumberDigits` digits, as `lua_tolstring` writes `%.14g`, and
an escaped character of four bytes becomes `?` (`Packed`). Neither can be decoded to
what it was: `RoundTrip` is about the numbers and characters for which this does not
happen.

`MCJsonParser` composes them: a behaviour of `CodecSpec` decodes a text, or encodes
arguments and decodes the result. The texts are all sequences of up to four of
fifteen tokens (twelve characters, a name with its colon, a string of an escaped
quotation mark, a `\u` escape), tables in tables, lists, and strings of up to four
characters and escapes in a row. The arguments are
strings of up to three characters with every escape among them, characters of
two and three bytes, one of four if it is not escaped, numbers, arrays and objects, two deep, and lists of two. The
buffer has room for 10 characters or for 100. The second is never full; the first
fills in the middle of tables and of lists, and is not smaller because the walk
then stays finite: what lies on top after a flush is a string of ten characters,
which is nobody's key. `no_unicode_escape` is 0 or 1. Together
there are 56,123 initial states. `MaxDepth` is 8, which no text reaches.

`Odd` names what `JsonParser.cfg` leaves out, as it does not hold there: see `JsonOdd.cfg`
below. Fairness: each call is sequential code that nobody stops
(`WF` of the whole next-state relation); `CallsEnd` depends on nothing else.

### PageOutput and OutStream

A page is the list of the calls it makes; a page it includes writes at its place
in that list. An argument is its length, or has no text. The io interface is
external, of two kinds: Apache's writes everything or fails for good (with -1, when
some of the text may have gone), `fwrite` returns how much it wrote and may write
again afterwards. `Advanced` is the addition of the code, in a `size_t` of
`SizeMod` values: with -1 the loop goes one byte back, and why this is harmless is
not to be seen in the loop but in the host, which fails for good.
`OutStream` knows neither calls nor offsets: a prefix of what is left goes out,
more may be lost only by a failure. `PageOutput.cfg` writes texts of three bytes in
any parts, one or two arguments, and a second call that shows whether the output
goes on. `SizeMod` is 8, so that -1 is 7, beyond every text, as 2^64 - 1 is; it is the
wrap that counts, not the number.

### MysqlResult, CurlHandles, OraStatement and MCHandles

Three libraries hand out pointers of C libraries in userdata. `CHeap` says what
becomes of an object: an object that is freed or used when it is not live is
`abused` and stays so. Each action lists, in the order of the code, what it
allocates, uses and frees, error paths included; a userdata is closed by the script
or collected, whichever comes first, and a closure keeps what its upvalues keep, no more.
A C library may fail in every call.

- `MysqlResult`: connections, results with a cursor, iterators of `rows()`. A result
  does not keep its connection, which is right only because `mysql_store_result`
  copies the rows (`Needs`).
- `CurlHandles`: handles of several Lua states, which the Apache modules open and close
  in any order, against what belongs to the process: how often libcurl is
  initialised, the log file, the user (proxy, timeout) for handles to come. `lua_close`
  collects handles after `luaclose_luacurl` has taken back the state's
  initialisation: `InitialisedForScripts` speaks of the handles a script may still use.
  Nothing locks the log: `log_file` and `luaclose_luacurl` test `fp`, close the file and
  clear `fp` in three steps, and other threads come between. `raced` notes that one has read
  `fp` there, `cut` the logs that were closed while a handle wrote to them, and
  `dropped` the lists that `curl_slist_append` lost. `CurlSafe` says that nothing else
  spoils a log, and nothing at all a handle or a list.
- `OraStatement`: sessions, statements with row and bound variables, iterators. `oci`
  is what OCI keeps of a statement: where rows are written to, where bound variables lie,
  its cursor. `stmt` is what the binding keeps, and the two differ after an error: of
  `execute`, or of the definition of a column (`Defined`), which `oci_define_row` does not
  report, and which leaves OCI with the address of the row before. `stale` are rows
  that OCI thus keeps and that may be freed, `orphaned` sessions that were closed before
  a statement of theirs; `OraSafe` excepts both, and nothing else.

In `MysqlRows` and `OraRows` an iterator is `alone` until another iterator, `table` or
`execute` moves its cursor; `given` counts the rows while it is.

`MCHandles` holds these three and `Memcache`; `library` chooses the one that a
behaviour uses, so that the state spaces add up instead of being multiplied, and
the constant `Libraries` says between which. `Bindings.cfg` has all four:
one connection with two results and two iterators; two Lua states with one
handle, one header list and one log file; one session with one statement, three
buffers, one name and two binds. Two of what may be confused are there, and one of
what is only ever one's own: states share the log, not handles, and statements share
nothing but the session, which each of them only uses. A third Lua state, a second statement or a
second name meet nobody they did not meet before; for memcached, see below. Together
1.1 million states, less than a minute.

### Memcache

A request is written and replies are read line by line; each line carries the
number of the call it belongs to, which the code does not see and the properties
use. The value of a reply comes in two pieces, so that `fread` may return short
and the connection may break between them. A refusal (`ERROR`, `SERVER_ERROR`)
leaves the connection open, a broken one is closed by the call that notices. The
server is external: it may refuse, be slow, and forget; when the connection
breaks, a part of what it sent is lost, and so is all it had not read, which is
what closing a TCP connection with unread data does. `may` are the values a get
may return: what was set last, and what sets that failed may have left.
`Bindings.cfg` has two words, keys of one word for set and also of two for get and
del, two values and five calls: a set, a set or del that fails, and gets around
them.

## What the runs show

| run | question |
|---|---|
| `reader` | is every page given to Lua as its translation, whatever the chunks? |
| `apache2` | do requests of a connection, or of two, keep apart, in either build? |
| `apache2_init` | has an init script that logs the context of a request? (No.) |
| `apache1` | do requests of a child keep apart, and has every answer one header, if its page does not fail after it has written? |
| `params` | are `args` the pairs of the text, and is the session the cookie's? |
| `cache` | is the compiled page whole, and current or soon repaired, when edits are quiet? |
| `cache_busy` | and when they are not? (No.) |
| `bind` | do nested binds that are used in order keep the stack? |
| `json` | is decoding what the grammar says, and the inverse of encoding what can be written and has room? |
| `json_long` | is it also when encoding has no room? (No.) |
| `output` | does the client get the page's text once and in order, however writes are cut up or fail? |
| `bindings` | are the objects of the C libraries freed once and not used afterwards, but for the causes named, and do loops get their rows; does every call to memcached get its own reply, and a whole, current value? |

Most modules' `TypeOK` is no property of a run: where there are proofs it is
proved, as part of the inductive invariant.

Findings, which quote what the repository says otherwise:

- `use_cache` 2 keeps serving an old page when it is edited in the second, or
  during the time, in which its previous version is compiled
  (`ScriptCacheBusy.cfg`).
- The host is asked to call `luaL_lsp_set_io` first (llsplib.h:26), but mod_apache2 runs
  the init script before: one that calls `log` has no request for its context, or in
  a build without `THREAD_SAFE` the last one of the process, which is over
  (`Apache2InitScript.cfg`).
- A table whose encoding is longer than `LUAL_BUFFERSIZE` is not encoded: when
  the buffer is full, `luaL_addchar` leaves the text on the Lua stack, on top of the key and
  the value that `lua_next` and `lua_json_encode_value` expect there
  (`JsonLong.cfg`, luajson.cpp:273). Lists of scalars are not affected.

### What the code does otherwise

No line of the repository says that the following should not be; a reader of the
code may still want to know. One configuration shows each.

| configuration | property | what happens |
|---|---|---|
| `Apache2ThreadedCwd.cfg` | `ThreadInOwnDirectory` | the directory is the process's, so with threads a script may run in another page's |
| `Apache1Status.cfg` | `StatusCounts` | a page that has written something and returns 404 has sent a header with 200, and Apache sends its error page with another after it |
| `Apache1Form.cfg` | `FormArgs` | the type a form is compared with is misspelt, so that a browser's form never becomes `args_post` |
| `LuaBindReuse.cfg` | `OnlyOnePerVm` | a bind that is used after its `end` changes the stack under another one |
| `JsonDeep.cfg` | `DepthChecked` | the depth check lets the index reach the size of the arrays |
| `JsonDeep.cfg`, other constants | `FitsLuaStack` | `decode` pushes more than the slots Lua promises, and never asks for more |
| `JsonOdd.cfg`, "slash" | `Decodes`, `RoundTrip` | of a string that ends with a backslash, the parser takes the second backslash and the quotation mark for an escape |
| `JsonOdd.cfg`, "keys" | `RoundTrip` | a quotation mark in a key is not escaped |
| `JsonOdd.cfg`, "bytes" | `RoundTrip` | with `no_unicode_escape` 0, a string that is not UTF-8 is cut, or becomes another one |
| `JsonOdd.cfg`, "wide" | `RoundTrip` | with `no_unicode_escape` 0, a character of four bytes becomes `?` |
| `JsonOdd.cfg`, "digits" | `RoundTrip` | a number of more than 14 digits loses those beyond |
| `JsonOdd.cfg`, "inf" | `RoundTrip` | a number that is not finite is written as a word, which no JSON has |
| `JsonOdd.cfg`, "arrays" | `Decodes` | a second array at the top of a text is numbered from where the first one ended, as `[` resets the counter of the level below |
| `JsonOdd.cfg`, "short" | `Decodes` | `\u` wants three characters (`l-i>3`), so that one of less than four digits is accepted |
| `LspParamsStray.cfg` | `StaysInValue` | a `%` at the end of a value is decoded with characters of the next pair |
| `MemcacheSpace.cfg` | `InStep` | a set whose key has a space is two commands, and the second's reply stays; so it does after a key of more than 250 bytes |
| `CurlLog.cfg` | `LogSafe` | the log is closed while handles that are open write to it |
| `CurlThreads.cfg` | `LogSafe` | two threads close the log, one after the other, as nothing locks it |
| `CurlShared.cfg` | `OwnSettings` | user, proxy and timeout outlive the Lua state that has set them |
| `CurlShared.cfg`, with this property | `InitialisedForAll` | `lua_close` collects handles after `curl_global_cleanup` |
| `OraOrphan.cfg` | `SessionsSafe` | a statement is used after its session was closed or collected |
| `OraStale.cfg` | `RowsSafe` | a column that could not be defined anew is fetched into the row that `execute` has freed |
| `OraQueryCommits.cfg` | `PendingUntilEnd` | `query` of a change commits what `execute` has left pending in the session |

Some more are in the models, as the code has them, and no property is about them:
the result of `rename` is ignored (with `/tmp` on another file system a page is compiled
at every call); an error of `mysql_store_result` looks like a query without
result; an error of `OCIStmtFetch` looks like the end of the rows; a bind that
failed still takes a number; a header list is lost when `curl_slist_append` fails.

`reset_key` of the JSON parser is declared to return a `bool` and returns nothing. That
is undefined in C++ where the value is used, or as of optimizing compilers at the
end of the function; the model takes it to return, as builds of its time do.

## Proofs

`LspReader_proofs` proves six theorems of `Spec`, for every set of pages and
every size of the buffer; assumed are only `FilesAssumption` and
`BufferAssumption` (at least eight bytes of reserve; the source has 64).

The safety properties are not inductive. `IInv` adds: `LastFits`, which says for every
state of the reader what the last written item is (in `st_echo_chars2` a text
character, in `st_stmt12` code, ...), without which `Echo3` could close an echo
that was never opened; `Room`, which bounds the offset by `MaxBufLen + 8` between
steps: a character read below `MaxBufLen` writes at most nine bytes; and `Stage`,
which ties `pc`, `st` and `status` together. Every case of the switch is an
`Edge`, a step between two states that writes at most three items; `EdgeStep`
proves once that an edge preserves the invariant, and what remains for each case
is to show which edge it is. `LineIsFileLine` follows from the cardinality of the
newlines read (`LineStep`).

That the reader implements `LspTemplate` (`ReaderImplementsTemplate`) rests on a
second invariant. `Rest(f, s, i)` is what a reader in state `s` still owes when it
is about to read character `i`: in `st_echo_chars1` the translation from `i` on, in
`st_echo_chars3`, which holds a `<` back, that of the text from `i - 1` on, within a tag
the rest of its body and what follows the tag, and so on for every state. `Owes` says that
what is written, followed by what is owed, is the page's translation, and that
the page's tags are closed if those in the rest are. `Context` is what a state knows of the characters before:
one that holds a `?` back has just read it. A case of the switch keeps `Owes` if it
`Writes` the difference between what is owed before and after it, and there is one lemma for each kind of
state that says it does. The lemmas beneath compare the two ways of finding a tag:
the reader sees a character and the one before, the template an odd number of
`<`s before a `?` (`Opens`). A step that writes, and the end of the file, are stutters of the template; a chunk
that is given is its `Deliver`, the return its `Take` or `Fail`. That Lua
rejects no page of text alone is carried over by what kinds of items were given.

The translation is a recursive function, and the function's equation has to be
proved: `TranslationsUnfold` shows, by induction on the length of the page's rest,
that a function exists which satisfies it. The library's induction takes an
operator, which the provers do not instantiate; induction over a set (every subset of
the numbers that holds 0 and successors is all of them) does the same with
first-order means, and so does `SetInduction` of `LspParams_proofs`.

`Pages_proofs` is about both parts of `MCPages`, which never move in the same behaviour. Of
`ScriptCache` it proves `TypeOK` and all properties of the `cache` run for any number of
processes, versions and seconds. `NeverTorn` needs `Whole`: a process that is about to
rename has a temporary file that is whole, because `lua_dump` failed otherwise.
`Fresh` and `StaleIsOlder` hold under `Quiet`, by three invariants that rest on
each other: `CacheCompiled` (nobody writes anything but the latest version, though
one that was written may wait for its rename), `CacheInTime` (a compiled file, renamed or
not, that is not older than the page is one of the latest version) and `CacheExecuted` (what a
process has chosen is not older than what it found, or `undone`).

`Apache2Handler_proofs` proves `TypeOK`, all properties of the `apache2` run, and that the process
comes home to its own directory, for any number of
connections, requests, shapes and either build. `IInv` is the conjunction of `Typed`, `OneAtATime` (without
`THREAD_SAFE` at most one connection is open), `Filled`, `Placed`, `Stacked` and
`Answered`. The main one is `Filled`: at each label, what the handler has filled in so
far is the request's own. In a build without `THREAD_SAFE` the io context is one for
all connections, and that it is still the request's own needs `OneAtATime`; so does
`Placed`, which says where the process is at each label. `Answered` needs
`ResultIsStatus`: the value on top of the stack is the script's or a library's,
and a library's is no number.

`Apache1Handler_proofs` proves `TypeOK`, all properties of the `apache1` run, and that the Lua stack stays
bounded, for any number of
requests and any shapes of requests. Its `IInv` has the same parts, without
`OneAtATime`, as a child serves one request, and with `Headed`: while a request is
served, `data_sent` says whether this request's client has got the header. The flag
outlives the request, so that `OneHeader` is not inductive: it needs that the flag is
reset before anything is written, and that every end of a request sends what has not
been sent, itself or by Apache's error page.

`LuaBind_proofs` proves `TypeOK` and all properties of the `bind` run for any number of binds and
any size of the stack, for `Disciplined` callers; and `OnlyOnePerVm`, which callers
of another kind violate. `Held` says that at most one bind is in its transaction,
that `vm.mutex` is 1 exactly then, and that every bind created after it refuses: the
destructor of a younger bind therefore leaves mutex and stack alone. `OnStack` says
what lies on the stack in each phase: a bind in `lookup` or `push` has at least the
value it looked up under its arguments, which is why `invoke` never takes the host's
value for its function; after the call, its topmost `rets` values are results.
Every operation of the holder is shown to be `Works`, and `Works` to keep `IInv`.

`Handles_proofs` is about the four libraries of `MCHandles`. Each is proved about by
itself, as an instance; `HandlesImplies` carries its invariant over to `HandlesSpec`,
where at most one library moves. Of the constants they assume only `MysqlAssumption`,
`CurlAssumption`, `OraAssumption` and, with `HandlesAssumption`, that bounds are
numbers and keys are sequences of words: identifiers are different, and Lua states are
finitely many.

- MySQL, both properties, for any number of connections, results, iterators and rows.
  `MysqlHeapInv` says that the library's objects are live exactly when
  the binding's say so; `MysqlRowsInv` that an iterator is of one result, which was
  stored before, and that its count is the cursor.
- cURL, the three properties, for any number of Lua states, handles, lists and files, with no
  assumption on scripts or threads. The invariant of handles and lists (`CurlHeapInv`) says
  that no two handles have one header list, and that what is live is held. That of the log
  (`CurlLogInv`) lasts until a state reads `fp` while another is replacing it: until then
  at most one replaces it, whose test still tells the truth, and a log that handles
  write to is live or has been `cut`. For `InitialisedForScripts`, the count of initialisations is the
  number of states that have not yet taken theirs back, which steps change by one
  element of a finite set; a state whose script runs is one of them.
- Oracle, the three properties, for any number of sessions, statements, iterators,
  buffers, rows and binds, with no assumption on scripts. The heart of the invariant of `OraSafe` is
  that if the binding has a row then OCI writes to that very buffer or to a `stale` one. After a
  failed `execute` OCI still has an address that was freed, but the binding has no
  row, and every fetch asks for one. A statement's session is open or `orphaned`. For order, the invariant says where an iterator
  stands, and that an index that was returned is that of the buffer under which OCI
  knows the name.
- memcached, `TypeOK` and the three properties, for any words, keys, values
  and number of calls, if the keys given to `set` are one word (`PlainKeys`);
  `MemcacheSpace.cfg` shows `InStep` violated by a key with a space. `InStep` alone says nothing about
  the middle of a call. The invariant says what is on the wire at each label: `McAsked`, what
  the server has not read yet, and that no reply comes before its request; `McInOrder`,
  that the lines that have come are a reply's in its order, and the next is one the
  call may read there (`McFirst`); `McOwn`, that all of them are the call's;
  `McFresh` and `McSettled`, that every value on its way is one the script may expect,
  also when the server forgets it in the meantime. A call thus returns only when
  nothing is left, or closes the connection.

`LspParams_proofs` proves the three properties of the `params` run for any texts, any
Cookie header, any cookie's name and any size of `tmp`. `ArgsInv` says what the four offsets mean: since
`offset1` there was no `&`, `offset2` is behind the last `=` since then if there was one
(`InPiece`, `InValue`), and the table is that of the pairs before `offset1` (`Holds`).
While `urldecode` runs, what it has written followed by what the reference decodes from
its position on is the whole value (`Remaining`), unless a malformed `%` leaves that
open. `CookieInv` says that no
piece before the one that is looked at is the session's. The proof found
an assumption too weak that TLC had no reason to meet: with a `tmp` of
`Len(CookieName) + 2` bytes there is no room for a value, and a session of no character
is taken for none. `TextAssumption` now wants one more; the source has 256 bytes, and
the name is what the host configures (`LSPUserSession`).

Of `PageOutput`, `Pages_proofs` proves that it implements `OutStream` (`OutputImplementsStream`)
for any pages, either host and any range of `size_t` that is larger than every text
(`PagesAssumption`). The text of a page is a recursive function, which is unfolded as the template's is
(`FromUnfolds`); from it follows what a call owes from an argument on (`AfterIs`). A step `Sends` a prefix of the text it
is about, and loses more of it only by a failure. That what is left afterwards is what the loop
goes on with needs `Offset`: Apache writes a text at once or not at all, so -1
always finds the offset at 0 and takes it to the end of `size_t`, beyond
every text. With an offset in the middle, it would move back, and the last byte
would be written twice.

`JsonParser_proofs` proves `TypeOK` and `InOneTable` for any texts and any depth, also when
the depth check fails and the parser goes on at level 1. `InOneTable` speaks of the topmost
level, but closing a level uncovers the one below. `Fits` says for every level where its table lies on the
Lua stack (`h` is the height below it, which no variable of the parser holds and the invariant
quantifies), that a level which waits has a state that knows it waits, and that what
lies above it begins where its table and key end.

It also proves `Decodes` (`DecodesPlain`), for any text that is `Plain` and as long as the
depth check holds; both are needed, as `JsonOdd.cfg` and `JsonDeep.cfg` show. The
invariant, `Tracks`, says of each moment what is still to come. Every level has an outcome:
what its table comes to by the grammar, and where it ends, if the level above gives
what that one is to (`Up`), and the last one by its state and the place in the text
(`Cur`). What was read before and the outcome of the first level together are what
the grammar reads from the start (`Whole`), so that a step has to leave the outcomes as they
were: each action is shown to (`ObjectTracks` and so on), or to refuse a text that has none
(`Refuses`). The four parts of that:

- Reading goes forward only (`Moves`), which makes `Reading` and `Values` functions of
  the text, unfolded as the template's are (`ReadingUnfolds`, `ValuesUnfold`).
- The grammar reads what is in brackets from the end, where the last value of a key counts and
  nil drops out afterwards; the parser sets one key after the other. `Close` is
  what a table comes to with the rest of its brackets, and setting a key moves it from the
  rest into the table (`OverSet`, `CloseSet`).
- A string that the parser unescapes is the one the grammar spells, as both agree at
  each character where the parser looks (`StringsAgree`). A backslash there opens an escape
  (`OpensIs`), and whole codes keep the parser from looking into one. Where the string ends, the
  parser asks only for the character before, and the grammar whether that is escaped: the
  same, unless a backslash that is escaped comes before a quotation mark (`ShutIs`).
- The counter of the array at the top is not 0 again when the next one begins.
  Where an array ends does not depend on its numbers (`ElementsEnd`), so that only a text
  of several arrays is decoded otherwise, which `Plain` excludes (`SecondArray`, `Keyed`).

Which texts the depth check is enough for is a theorem too: `Shallow` ones, in which at most
`MaxDepth - 2` brackets open (`ShallowIsChecked`), as a level belongs to a bracket but the last one
(`Deep`). One bracket more, all of them arrays in one another, reaches the level without a
cell. `DecodesShallow` puts both together and assumes nothing of the run.

Only model-checked:

- `Terminates` and `CallsEnd`, which are liveness;
- `RoundTrip`, which compares the decoder with the encoder. What any plain text is decoded to is
  `Decodes`; that the grammar reads the arguments in the encoder's text is not proved.

`Decodes` does not hold of texts that are not `Plain`: each of the three parts is needed,
as `JsonOdd.cfg` shows with "slash", "short" and "arrays".

## Not modelled, and the plan

Not modelled of a part that is otherwise: the environment and the error handle of
`luaora.cpp`, which are variables of the process. Every `luaopen_luaora` makes new
ones and forgets the old, and `luaclose_luaora` frees the last ones when the process
exits. `OraStatement` takes them to be there as long as anything else is; what a
failed `luaopen_luaora` does to other Lua states (no environment, so that opening
and preparing fail) is among the failures that OCI's calls may have anyhow. A host
that calls `luaclose_luaora` while a Lua state still has sessions is not covered; there
is none in the repository.

Not modelled at all: `luamoz` (hashes of strings and the time, no state that outlives a call),
the vendored MD5, packaging and examples.

What is left, in this order:

1. Proofs: `RoundTrip`, by what the grammar reads in the encoder's text.
2. The environment of `luaora.cpp` over several Lua states and a host that closes it,
   as `CurlHandles` has it for libcurl.
3. The Apache handlers composed with `CurlHandles`: connections that close while
   others serve are in both, with nothing shared between the models.
