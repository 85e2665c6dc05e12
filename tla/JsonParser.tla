------------------------------- MODULE JsonParser -------------------------------
(***************************************************************************)
(* src/luajson/luajson_parser.cpp: json.decode.  The parser reads a text   *)
(* character by character.  It keeps a stack of states, an array counter   *)
(* for every level of it, the place where a token began, and the values    *)
(* themselves on the Lua stack.                                            *)
(*                                                                         *)
(* A number is made of the digit "1", "T" and "N" are the words true and   *)
(* null, "sp" is the blank, "dq" the quotation mark, "bs" the backslash,   *)
(* "lead2", "lead3" and "lead4" begin characters of two, three and four    *)
(* bytes, which "cont" goes on; "ctl" stands for a byte below blank, and   *)
(* "NUL" for the byte 0, which ends every Lua string in memory.            *)
(***************************************************************************)
EXTENDS Integers, Sequences, FiniteSets

CONSTANTS Texts,        \* texts to decode: sequences of Chars
          MaxDepth,     \* max_stack_depth, 64 in the source
          NumberSize,   \* the buffer of push_number, 64 in the source
          LUA_MINSTACK  \* the slots Lua gives a C function, 20

Blanks == {"sp", "NUL"}                \* cht_spc
Dm1    == {"[", "{"}
Dm2    == {",", "]", "}"}
Num    == {"0", "1"}
Lit    == {"T", "N", "u"}
Oth    == {":", "dq", "bs", "lead2", "lead3", "lead4", "cont", "?"}
Chars  == {"sp"} \cup Dm1 \cup Dm2 \cup Num \cup Lit \cup Oth

ASSUME TextsAssumption == Texts \subseteq Seq(Chars)
ASSUME DepthAssumption == MaxDepth \in Nat \ {0, 1}
ASSUME NumberAssumption == NumberSize \in Nat

VARIABLES
    text,
    i,        \* the character to be read, from 1
    index,    \* json_st.index
    st,       \* json_st.st, and the cell past its end
    key,      \* json_st.key, likewise
    ptr,      \* json_tok.ptr, 0 for none
    lua,      \* what the call has pushed on the Lua stack
    status    \* "run", then "ok" or "error"

vars == <<text, i, index, st, key, ptr, lua, status>>

States == {"value", "object", "object_key", "object_value", "object_value_2",
           "array", "array_value", "string", "number", "literal", "delim"}

(***************************************************************************)
(* Lua values.  A table is a function from its keys; a key is a number in  *)
(* a table that '[' made, and a string in one that '{' made.               *)
(***************************************************************************)
Scalar(kind, s) == [t |-> kind, s |-> s, m |-> <<>>]
Nil      == Scalar("nil", <<>>)
NewTable(kind) == [t |-> kind, s |-> <<>>, m |-> <<>>]
KeyOfIndex(n)  == [n |-> n, s |-> <<>>]
KeyOfString(v) == [n |-> 0, s |-> v.s]
\* lua_rawset and lua_rawseti: a nil removes the key.
RawSet(t, k, v) ==
    [t EXCEPT !.m = IF v = Nil THEN [x \in DOMAIN @ \ {k} |-> @[x]]
                    ELSE [x \in DOMAIN @ \cup {k} |-> IF x = k THEN v ELSE @[x]]]

Top(n) == lua[Len(lua) + 1 - n]
Popped_TooFew(n) == SubSeq(lua, 1, Len(lua) + 1 - n)
Popped(n) == SubSeq(lua, 1, Len(lua) - n)

Init == /\ text \in Texts
        /\ i = 1 /\ index = 0
        /\ st = [d \in 0..MaxDepth |-> "value"]
        /\ key = [d \in 0..MaxDepth |-> 0]
        /\ ptr = 0 /\ lua = <<>> /\ status = "run"

(***************************************************************************)
(* The parts of a step.                                                    *)
(***************************************************************************)
Char(n) == IF n \in DOMAIN text THEN text[n] ELSE "NUL"
Ch == Char(i)
In(s) == status = "run" /\ i <= Len(text) + 1 /\ st[index] = s

Read   == i' = i + 1       \* ++i of the loop
Reread == i' = i           \* i-- before it
Error == status' = "error" /\ UNCHANGED <<text, i, index, st, key, ptr, lua>>

\* json_st::set
Set(s) == st' = [st EXCEPT ![index] = s] /\ index' = index
\* json_st::push, after a set
SetAndPush(s, pushed) == /\ index < MaxDepth
                         /\ index' = index + 1
                         /\ st' = [st EXCEPT ![index] = s, ![index + 1] = pushed]
\* json_st::pop
Pop_Nothing(n) == index' = index /\ st' = st
Pop(n) == index' = index - n /\ st' = st

\* st_value becomes the state of the value; at the top it stays below it.
Enter(s) == IF index > 0 THEN Set(s) ELSE SetAndPush("value", s)
\* The value is complete.
Leave == IF index > 1 THEN Pop(1) ELSE Set("delim")

(***************************************************************************)
(* lua_json_parse: the cases of its switch.                                *)
(***************************************************************************)
SkipsBlanks == {"value", "object", "object_key", "object_value", "object_value_2",
                "array", "array_value"}
Blank == /\ \E s \in SkipsBlanks : In(s)
         /\ Ch \in Blanks
         /\ Read
         /\ UNCHANGED <<text, index, st, key, ptr, lua, status>>

\* reset_key() writes key[index] before the new level is pushed at the top.
ResetKey_Never == key' = key
ResetKey == key' = [key EXCEPT ![index] = 0]
BeginArray == /\ In("value") /\ Ch = "["
              /\ lua' = Append(lua, NewTable("array"))
              \* past the end of key lies index itself: the reset may clear it,
              \* and the parser goes on as if it were at the top
              /\ \/ ResetKey /\ Enter("array")
                 \/ /\ index = MaxDepth
                    /\ key' = key
                    /\ index' = 1 /\ st' = [st EXCEPT ![1] = "array"]
              /\ Read
              /\ UNCHANGED <<text, ptr, status>>
BeginObject == /\ In("value") /\ Ch = "{"
               /\ lua' = Append(lua, NewTable("object"))
               /\ Enter("object") /\ Read
               /\ UNCHANGED <<text, key, ptr, status>>
BeginToken == /\ In("value")
              /\ \/ Ch = "dq"    /\ ptr' = i + 1 /\ Enter("string")
                 \/ Ch \in Num   /\ ptr' = i     /\ Enter("number")
                 \/ Ch \in Lit   /\ ptr' = i     /\ Enter("literal")
              /\ Read
              /\ UNCHANGED <<text, key, lua, status>>
NoValue == In("value") /\ Ch \in Dm2 \cup (Oth \ {"dq"}) /\ Error

Token == IF ptr = 0 THEN <<>> ELSE SubSeq(text, ptr, i - 1)
PushValue(v) == /\ lua' = IF ptr = 0 THEN lua ELSE Append(lua, v)
                /\ ptr' = 0
                /\ Leave
                /\ UNCHANGED <<text, key, status>>

\* luaL_pack_unicode_to_utf8: sscanf reads what is hexadecimal of four characters.
Code(four) ==
    LET skipped == {n \in DOMAIN four : \A k \in 1..n : four[k] = "sp"}
        digits == {n \in DOMAIN four \ skipped : \A k \in 1..n : four[k] \in Num \/ k \in skipped}
        width  == Cardinality({n \in digits : \E k \in 1..n : four[k] = "1"})
    IN  CASE width = 0        -> <<"NUL">>
          [] width \in {1, 2} -> <<"ctl">>
          [] width = 3        -> <<"lead2", "cont">>
          [] width = 4        -> <<"lead3", "cont", "cont">>
\* luaL_addjson_unesc_lstring of the token that began at ptr: every backslash takes
\* the character after it; \" and \\ stand for their second, \u for the character
\* of the next four if l - i > 3, and an escape of another of these characters for
\* nothing.  T and N are words, so no text has one escaped.
Escaped(c, four, enough) == CASE c \in {"dq", "bs"}    -> [adds |-> <<c>>, skips |-> 2]
                              [] c = "u" /\ enough     -> [adds |-> Code(four), skips |-> 6]
                              [] OTHER                 -> [adds |-> <<>>, skips |-> 2]
Enough(left) == left > 3
Unescaped(end) ==
    LET From[n \in ptr..(end + 5)] ==
            IF n >= end THEN <<>>
            ELSE IF text[n] # "bs" THEN <<text[n]>> \o From[n + 1]
            ELSE LET e == Escaped(Char(n + 1), [k \in 1..4 |-> Char(n + 1 + k)], Enough(end - n - 1))
                 IN  e.adds \o From[n + e.skips]
    IN  From[ptr]

String == /\ In("string")
          /\ \/ \* an escaped quotation mark
                /\ Ch = "bs" /\ Char(i + 1) = "dq"
                /\ i' = i + 2
                /\ UNCHANGED <<text, index, st, key, ptr, lua, status>>
             \/ /\ Ch # "dq" /\ ~(Ch = "bs" /\ Char(i + 1) = "dq")
                /\ Read
                /\ UNCHANGED <<text, index, st, key, ptr, lua, status>>
             \/ /\ Ch = "dq"
                /\ PushValue(Scalar("string", IF ptr = 0 THEN <<>> ELSE Unescaped(i)))
                /\ Read

EndsToken(c) == c \in Blanks \cup Dm2
\* Numbers and words have the same shape: all up to a blank or delimiter.
Word(state, legal, value) ==
    /\ In(state)
    /\ \/ /\ ~EndsToken(Ch)
          /\ Read
          /\ UNCHANGED <<text, index, st, key, ptr, lua, status>>
       \/ /\ EndsToken(Ch) /\ legal
          /\ PushValue(value)
          /\ Reread
       \/ EndsToken(Ch) /\ ~legal /\ Error
\* push_number takes what fits its buffer, with a 0 after it.
Number  == Word("number", Len(Token) < NumberSize /\ \A n \in DOMAIN Token : Token[n] \in Num,
                Scalar("number", Token))
Literal == Word("literal", Token \in {<<"T">>, <<"N">>},
                IF Token = <<"N">> THEN Nil ELSE Scalar("true", <<>>))

\* After a value at the top.
Delim == /\ In("delim")
         /\ \/ Ch = "," /\ Pop(1) /\ Read /\ UNCHANGED status
            \/ Ch \in {"]", "}", "NUL"} /\ Pop(1) /\ Reread /\ UNCHANGED status
            \/ Ch = "sp" /\ Read /\ UNCHANGED <<index, st, status>>
            \/ Ch \notin Dm2 \cup Blanks /\ status' = "error" /\ UNCHANGED <<i, index, st>>
         /\ UNCHANGED <<text, key, ptr, lua>>

Object == /\ In("object") /\ Ch \notin Blanks
          /\ \/ /\ Ch = "dq" /\ SetAndPush("object_key", "string")
                /\ ptr' = i + 1 /\ Read
                /\ UNCHANGED <<text, key, lua, status>>
             \/ Ch = "dq" /\ index = MaxDepth /\ Error
             \/ /\ Ch = "}" /\ Leave /\ Read
                /\ UNCHANGED <<text, key, ptr, lua, status>>
             \/ Ch \notin {"dq", "}"} /\ Error

ObjectKey == /\ In("object_key") /\ Ch \notin Blanks
             /\ \/ /\ Ch = ":" /\ Set("object_value") /\ Read
                   /\ UNCHANGED <<text, key, ptr, lua, status>>
                \/ Ch # ":" /\ Error

\* A value inside of a table gets a level of its own, and is read there.
BeginsValue(c) == c \in Dm1 \cup Num \cup Lit \cup {"dq"}
Element(after) == \/ /\ SetAndPush(after, "value") /\ Reread
                     /\ UNCHANGED <<text, key, ptr, lua, status>>
                  \/ index = MaxDepth /\ Error

ObjectValue == /\ In("object_value") /\ Ch \notin Blanks
               /\ \/ BeginsValue(Ch) /\ Element("object_value_2")
                  \/ ~BeginsValue(Ch) /\ Error

ObjectValue2 == /\ In("object_value_2") /\ Ch \notin Blanks
                /\ \/ /\ \/ Ch = "}" /\ Leave
                         \/ Ch = "," /\ Set("object")
                      /\ lua' = Append(Popped(3), RawSet(Top(3), KeyOfString(Top(2)), Top(1)))
                      /\ Read
                      /\ UNCHANGED <<text, key, ptr, status>>
                   \/ Ch \notin {"}", ","} /\ Error

Array == /\ In("array") /\ Ch \notin Blanks
         /\ \/ /\ Ch = "]" /\ Leave /\ Read
               /\ UNCHANGED <<text, key, ptr, lua, status>>
            \/ BeginsValue(Ch) /\ Element("array_value")
            \/ Ch # "]" /\ ~BeginsValue(Ch) /\ Error

NextKey(n) == n + 1
ArrayValue == /\ In("array_value") /\ Ch \notin Blanks
              /\ \/ /\ \/ Ch = "]" /\ Leave
                       \/ Ch = "," /\ Set("array")
                    /\ key' = [key EXCEPT ![index] = NextKey(@)]
                    /\ lua' = Append(Popped(2),
                                     RawSet(Top(2), KeyOfIndex(NextKey(key[index])), Top(1)))
                    /\ Read
                    /\ UNCHANGED <<text, ptr, status>>
                 \/ Ch \notin {"]", ","} /\ Error

\* The loop has read the NUL: only between values may a text end.
EndStates == {"value"}
Finish == /\ status = "run" /\ i > Len(text) + 1
          /\ status' = IF st[index] \in EndStates THEN "ok" ELSE "error"
          /\ UNCHANGED <<text, i, index, st, key, ptr, lua>>

Next == \/ Blank \/ BeginArray \/ BeginObject \/ BeginToken \/ NoValue
        \/ String \/ Number \/ Literal \/ Delim
        \/ Object \/ ObjectKey \/ ObjectValue \/ ObjectValue2
        \/ Array \/ ArrayValue \/ Finish
Spec == Init /\ [][Next]_vars
--------------------------------------------------------------------------------
(***************************************************************************)
(* Properties.                                                             *)
(***************************************************************************)

\* The variables stay in their ranges.
TypeOK ==
    /\ text \in Seq(Chars)
    /\ i \in 1..(Len(text) + 2)
    /\ index \in 0..MaxDepth
    /\ st \in [0..MaxDepth -> States]
    /\ key \in [0..MaxDepth -> Nat]
    /\ ptr \in 0..(Len(text) + 1)
    /\ \A n \in DOMAIN lua : lua[n].t \in {"nil", "true", "number", "string", "array", "object"}
    /\ status \in {"run", "ok", "error"}

\* json_st::push is to refuse a level that has no cell ("stack overflow",
\* luajson_parser.cpp:93).
DepthChecked == index < MaxDepth

\* What the call pushes fits the slots Lua promises, as nobody asks for more by
\* lua_checkstack.
FitsLuaStack == Len(lua) <= LUA_MINSTACK

\* State stack and Lua stack go together however tables nest: what lua_rawset
\* and lua_rawseti find under a value is the table that the state says is
\* being filled, and under it nothing is lost.
Holds(n, kind) == n <= Len(lua) /\ Top(n).t = kind
InOneTable ==
    status = "run" =>
        CASE st[index] = "array"                        -> Holds(1, "array")
          [] st[index] = "array_value"                  -> Holds(2, "array")
          [] st[index] = "object"                       -> Holds(1, "object")
          [] st[index] \in {"object_key", "object_value"} -> Holds(1, "string") /\ Holds(2, "object")
          [] st[index] = "object_value_2"               -> Holds(2, "string") /\ Holds(3, "object")
          [] st[index] = "delim"                        -> index = 1 /\ Len(lua) > 0
          [] st[index] \in {"string", "number", "literal"} -> ptr \in 1..i
          [] st[index] = "value"                        -> TRUE

Grammar == INSTANCE JsonGrammar
\* What decode does not read as JSON's grammar says (luajson_parser.cpp): a quotation
\* mark after a backslash does not end a string, whether or not that is the second of
\* two; \u takes the four bytes after it whatever they are; and the numbering of an
\* array at the top of a text goes on in the next one.
SlashEnd(t) == \E n \in 2..Len(t) : /\ t[n] = "dq" /\ t[n - 1] = "bs"
                                    /\ ~Grammar!Opens(t, 1, n - 1)
WholeCodes(t) == \A n \in 1..(Len(t) - 1) :
                    Grammar!Opens(t, 1, n) /\ t[n + 1] = "u" =>
                        n + 5 <= Len(t) /\ \A d \in 2..5 : t[n + d] \in Grammar!Hex
OneArray(t) == LET values == Grammar!Decoded(t).values
               IN  \A m, n \in DOMAIN values : values[m].t = "array" /\ values[n].t = "array" => m = n
Plain(t) == ~SlashEnd(t) /\ WholeCodes(t) /\ OneArray(t)

\* A text is decoded to its values, and refused exactly if it has none
\* (lua_json_parse).
Decodes == /\ status = "ok"    => Grammar!Decoded(text) = [ok |-> TRUE, values |-> lua]
           /\ status = "error" => ~Grammar!Decoded(text).ok
================================================================================
