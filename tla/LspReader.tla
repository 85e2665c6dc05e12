------------------------------- MODULE LspReader -------------------------------
(***************************************************************************)
(* src/llsplib.cpp, luaL_load_lsp_file: a .lsp page is read one character  *)
(* at a time by lsp_reader, which turns it into Lua source in a fixed      *)
(* buffer; lua_load calls the reader whenever its parser wants more text.  *)
(*                                                                         *)
(*     text        becomes   echo('text')                                  *)
(*     <?code?>    becomes   code and one blank                            *)
(*     <?=expr?>   becomes   echo(expr)                                    *)
(*     <?#note?>   becomes   nothing                                       *)
(*                                                                         *)
(* The end of line that follows a tag is cut.  The Lua text is a sequence  *)
(* of items (a marker the reader writes, or one character of the page);    *)
(* the buffer is its numeric offset, with the bytes every item takes.      *)
(* Lua's parser is external: it may stop with an error once it has been    *)
(* given code of the page, and otherwise asks for the next chunk.          *)
(***************************************************************************)
EXTENDS Integers, Sequences, FiniteSets

CONSTANTS Files,       \* the pages: sequences of Chars
          MaxBufLen,   \* max_buf_len, 960 in the source
          BufReserve   \* buf_reserve, 64 in the source

\* One name per class of characters the reader tells apart; "ctl" stands for
\* the bytes chtype maps to 0xff, "x" for every other plain byte.
Chars   == {"<", "?", ">", "=", "#", "LF", "CR", "'", "ctl", "x"}
Escaped == {"LF", "CR", "'"}

ASSUME FilesAssumption  == Files \subseteq Seq(Chars)
ASSUME BufferAssumption == /\ MaxBufLen \in Nat \ {0}
                           /\ BufReserve \in Nat
                           /\ BufReserve >= 8

VARIABLES
    file,        \* the page on disk
    pos,         \* characters fgetc has consumed
    fp,          \* lsp_State.fp
    st,          \* lsp_State.st
    line,        \* lsp_State.line
    out,         \* every item put into buf since open, chunk after chunk
    given,       \* how many of them the reader has returned to lua_load
    buf_offset,  \* lsp_State.buf_offset
    pc,          \* where luaL_load_lsp_file is
    status       \* what it returns

vars == <<file, pos, fp, st, line, out, given, buf_offset, pc, status>>

EchoStates    == {"echo1", "echo2", "echo3", "echo4"}
StmtStates    == {"stmt1", "stmt2", "stmt3", "stmt12", "stmt13"}
CommentStates == {"comment1", "comment2"}
CrStates      == {"cr1", "cr2"}
States == {"unknown"} \cup EchoStates \cup StmtStates \cup CommentStates \cup CrStates

(***************************************************************************)
(* What the reader writes.                                                 *)
(***************************************************************************)
Kinds == {"beg", "end", "sbeg", "send", "sep", "text", "esc", "code", "expr"}
Items == [k : Kinds, c : Chars \cup {"", "."}]

Mark(k) == [k |-> k, c |-> ""]
Beg     == Mark("beg")    \* add_beg_echo    echo('
End     == Mark("end")    \* add_end_echo    ') and a blank
SBeg    == Mark("sbeg")   \* add_beg_s_echo  echo(
SEnd    == Mark("send")   \* add_end_s_echo  ) and a blank
Sep     == Mark("sep")    \* the blank after a statement

\* add_char: a plain byte as it is, a control byte as '.', the others escaped.
AddChar(ch) == IF ch = "ctl"          THEN [k |-> "text", c |-> "."]
               ELSE IF ch \in Escaped THEN [k |-> "esc",  c |-> ch]
               ELSE                        [k |-> "text", c |-> ch]
Code(ch) == [k |-> "code", c |-> ch]
Expr(ch) == [k |-> "expr", c |-> ch]

Width(it) == CASE it.k = "beg"            -> 6
               [] it.k = "sbeg"           -> 5
               [] it.k = "end"            -> 3
               [] it.k \in {"send", "esc"} -> 2
               [] OTHER                   -> 1

\* Bytes of at most three items, the most one character can produce.
Bytes(items) == LET w(i) == IF i <= Len(items) THEN Width(items[i]) ELSE 0
                IN  w(1) + w(2) + w(3)

Put(items) == /\ out' = out \o items
              /\ buf_offset' = buf_offset + Bytes(items)

(***************************************************************************)
(* luaL_load_lsp_file: open, lua_load, close.                              *)
(***************************************************************************)
Init == /\ file \in Files
        /\ pos = 0 /\ fp = "closed" /\ st = "unknown" /\ line = 0
        /\ out = <<>> /\ given = 0 /\ buf_offset = 0
        /\ pc = "start" /\ status = "none"

Open == /\ pc = "start"
        /\ st' = "echo1" /\ line' = 1
        /\ \/ fp' = "open"   /\ pc' = "parse" /\ status' = status
           \/ fp' = "closed" /\ pc' = "done"  /\ status' = "ERRERR"
        /\ UNCHANGED <<file, pos, out, given, buf_offset>>

\* lua_load wants more text and calls lsp_reader.
Call == /\ pc = "parse"
        /\ pc' = "read"
        /\ UNCHANGED <<file, pos, fp, st, line, out, given, buf_offset, status>>

Return_OpenOnError(s) ==
    /\ pc' = "done" /\ status' = s /\ fp' = IF s = "OK" THEN "closed" ELSE fp
    /\ UNCHANGED <<file, pos, st, line, out, given, buf_offset>>
Return(s) == /\ pc' = "done" /\ status' = s /\ fp' = "closed"
             /\ UNCHANGED <<file, pos, st, line, out, given, buf_offset>>

\* Lua's own parser rejects the code of the page.
ParserError == /\ pc \in {"parse", "ended"}
               /\ \E i \in 1..given : out[i].k \in {"code", "expr", "send"}
               /\ Return("ERRSYNTAX")

Accept == pc = "ended" /\ Return("OK")

(***************************************************************************)
(* lsp_reader: one action for the loop's exit, one for the end of the file *)
(* and one for every case of its switch.                                   *)
(***************************************************************************)
HasRoom_Exactly == buf_offset <= MaxBufLen
HasRoom == buf_offset < MaxBufLen
Ch      == file[pos + 1]

\* return buf: an empty chunk tells lua_load that the source has ended.
GiveChunk(size) == /\ pc' = IF size = 0 THEN "ended" ELSE "parse"
                   /\ buf_offset' = 0

ChunkFull == /\ pc = "read" /\ ~HasRoom
             /\ GiveChunk(buf_offset)
             /\ given' = Len(out)
             /\ UNCHANGED <<file, pos, fp, st, line, out, status>>

AtEof == pc = "read" /\ HasRoom /\ pos = Len(file)

\* States in which the file may end: not in a tag nor right after a '<'.
Closable == {"unknown", "echo1", "echo2"} \cup CrStates
EofItems == IF st = "echo2" THEN <<End>> ELSE <<>>

Eof == /\ AtEof /\ st \in Closable
       /\ out' = out \o EofItems
       /\ given' = Len(out')
       /\ GiveChunk(buf_offset + Bytes(EofItems))
       /\ st' = "unknown"
       /\ UNCHANGED <<file, pos, fp, line, status>>

\* luaL_lsp_error: lua_error out of the reader, which ends lua_load with LUA_ERRRUN.
SyntaxError == AtEof /\ st \notin Closable /\ Return("ERRRUN")

Reading(s) == pc = "read" /\ HasRoom /\ pos < Len(file) /\ st = s

Getc_NoLineAfterTag == /\ pos'  = pos + 1
                       /\ line' = IF Ch = "LF" /\ st # "cr2" THEN line + 1 ELSE line
Getc == /\ pos'  = pos + 1
        /\ line' = IF Ch = "LF" THEN line + 1 ELSE line
Goto(s, items) == /\ Getc /\ Put(items) /\ st' = s
                  /\ UNCHANGED <<file, fp, given, pc, status>>
\* ungetc of a character that is not a newline.
Unget_Again(s) == /\ st' = st
                  /\ UNCHANGED <<file, pos, fp, line, out, given, buf_offset, pc, status>>
Unget(s) == /\ st' = s
            /\ UNCHANGED <<file, pos, fp, line, out, given, buf_offset, pc, status>>

Echo1 == /\ Reading("echo1")
         /\ IF Ch = "<" THEN Goto("echo4", <<>>)
                        ELSE Goto("echo2", <<Beg, AddChar(Ch)>>)
Echo2 == /\ Reading("echo2")
         /\ IF Ch = "<" THEN Goto("echo3", <<>>)
                        ELSE Goto("echo2", <<AddChar(Ch)>>)
Echo3 == /\ Reading("echo3")
         /\ IF Ch = "?" THEN Goto("stmt1", <<End>>)
                        ELSE Goto("echo2", <<AddChar("<"), AddChar(Ch)>>)
Echo4 == /\ Reading("echo4")
         /\ IF Ch = "?" THEN Goto("stmt1", <<>>)
                        ELSE Goto("echo2", <<Beg, AddChar("<"), AddChar(Ch)>>)
Stmt1 == /\ Reading("stmt1")
         /\ CASE Ch = "=" -> Goto("stmt2", <<SBeg>>)
              [] Ch = "#" -> Goto("comment1", <<>>)
              [] OTHER    -> Goto("stmt12", <<Code(Ch)>>)

\* A definition named after another one, with an underscore and a word, is that
\* definition with a mistake the properties notice; the model never uses it.

\* st_stmt2 and st_stmt12 copy a tag's body; st_stmt3 and st_stmt13 hold
\* back a '?' until the next character says whether it closes the tag.
Body(copying, holding, copied) ==
    /\ Reading(copying)
    /\ IF Ch = "?" THEN Goto(holding, <<>>) ELSE Goto(copying, <<copied>>)
Held_OneMark(copying, holding, mark, copied, closing) ==
    /\ Reading(holding)
    /\ CASE Ch = ">" -> Goto("cr1", <<closing>>)
         [] Ch = "?" -> Goto(holding, <<>>)
         [] OTHER    -> Goto(copying, <<mark, copied>>)
Held(copying, holding, mark, copied, closing) ==
    /\ Reading(holding)
    /\ CASE Ch = ">" -> Goto("cr1", <<closing>>)
         [] Ch = "?" -> Goto(holding, <<mark>>)
         [] OTHER    -> Goto(copying, <<mark, copied>>)

Stmt2  == Body("stmt2", "stmt3", Expr(Ch))
Stmt3  == Held("stmt2", "stmt3", Expr("?"), Expr(Ch), SEnd)
Stmt12 == Body("stmt12", "stmt13", Code(Ch))
Stmt13 == Held("stmt12", "stmt13", Code("?"), Code(Ch), Sep)

Comment1 == /\ Reading("comment1")
            /\ Goto(IF Ch = "?" THEN "comment2" ELSE "comment1", <<>>)
Comment2 == /\ Reading("comment2")
            /\ Goto(CASE Ch = ">" -> "cr1"
                      [] Ch = "?" -> "comment2"
                      [] OTHER    -> "comment1", <<>>)
Cr1 == /\ Reading("cr1")
       /\ CASE Ch = "CR" -> Goto("cr2", <<>>)
            [] Ch = "LF" -> Goto("echo1", <<>>)
            [] OTHER     -> Unget("echo1")
Cr2 == /\ Reading("cr2")
       /\ IF Ch = "LF" THEN Goto("echo1", <<>>) ELSE Unget("echo1")

Switch == \/ Echo1 \/ Echo2 \/ Echo3 \/ Echo4
          \/ Stmt1 \/ Stmt2 \/ Stmt3 \/ Stmt12 \/ Stmt13
          \/ Comment1 \/ Comment2 \/ Cr1 \/ Cr2
Reader == ChunkFull \/ Eof \/ SyntaxError \/ Switch
Load   == Open \/ Call \/ ParserError \/ Accept

Next == Load \/ Reader
Spec == Init /\ [][Next]_vars
\* One sequential call: it goes on until luaL_load_lsp_file has returned.
FairSpec == Spec /\ WF_vars(Next)

--------------------------------------------------------------------------------
(***************************************************************************)
(* Properties.                                                             *)
(***************************************************************************)

\* The variables stay in their ranges.
TypeOK ==
    /\ file \in Seq(Chars)
    /\ pos \in 0..Len(file)
    /\ fp \in {"open", "closed"}
    /\ st \in States
    /\ line \in Nat
    /\ out \in Seq(Items)
    /\ given \in 0..Len(out)
    /\ buf_offset \in Nat
    /\ pc \in {"start", "parse", "read", "ended", "done"}
    /\ status \in {"none", "OK", "ERRSYNTAX", "ERRRUN", "ERRERR"}

\* The loop tests the offset before a character and not between the writes
\* that character causes (llsplib.cpp:230): buf never overruns all the same.
BufferInBounds == buf_offset <= MaxBufLen + BufReserve

\* What may follow what in the Lua text, so that text is always quoted and
\* code never is, across chunks and tags: an echo is opened once, closed once
\* and never empty.
Starters  == {"beg", "sbeg", "code"}
TextKinds == {"text", "esc"}
Follows(a, b) ==
    \/ a \in {"end", "send", "sep"}        /\ b \in Starters
    \/ a = "beg"                           /\ b \in TextKinds
    \/ a \in TextKinds                     /\ b \in TextKinds \cup {"end"}
    \/ a \in {"sbeg", "expr"}              /\ b \in {"expr", "send"}
    \/ a = "code"                          /\ b \in {"code", "sep"}
WellFormed == /\ Len(out) > 0 => out[1].k \in Starters
              /\ \A i \in 1..(Len(out) - 1) : Follows(out[i].k, out[i + 1].k)

\* Between two tags and at the end, whatever was opened has been closed.
AtBoundary == Len(out) = 0 \/ out[Len(out)].k \in {"end", "send", "sep"}
\* A page that lua_load takes whole is a whole Lua text of well-formed echos.
QuotesBalance == WellFormed /\ (pc = "ended" => AtBoundary)

\* The line put into an error message (llsplib.cpp:411) is that of the last
\* character read, ungetc and cut newlines notwithstanding.
Newlines(n) == {i \in 1..n : file[i] = "LF"}
LineIsFileLine == pc # "start" => line = 1 + Cardinality(Newlines(pos))

\* lua_load sees the end of its source, and accepts, only at the end of the
\* page, with every item it was owed; a file is never left open.
WholePage == /\ pc = "ended" \/ status = "OK" => pos = Len(file) /\ given = Len(out)
             /\ pc = "done" => fp = "closed"

\* Every step delivers a piece of the page's translation, ends the load with
\* a verdict the page justifies, or is invisible to lua_load's caller.
Template == INSTANCE LspTemplate WITH page <- file,
                                      delivered <- SubSeq(out, 1, given),
                                      verdict <- status
ImplementsTemplate == Template!Spec

\* The characters given back by ungetc do not make the reader loop for ever.
Terminates == <>(pc = "done")
================================================================================
