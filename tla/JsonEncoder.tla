------------------------------- MODULE JsonEncoder -------------------------------
(***************************************************************************)
(* src/luajson/luajson.cpp: json.encode, over the values and characters of *)
(* JsonParser.  It walks the arguments with lua_next, and writes to a      *)
(* luaL_Buffer.                                                            *)
(*                                                                         *)
(* Lua's library is external.  A luaL_Buffer that is full leaves its text  *)
(* on the Lua stack, where lua_next has its key and its value.  (It may    *)
(* join what it left before with lua_concat, which changes how many slots  *)
(* the text takes, but not who is on top; here the pieces stay apart.)     *)
(* lua_next takes its key from the top, visits an array in order and any   *)
(* other table in an order of its own, and fails for what is no key.       *)
(***************************************************************************)
EXTENDS Integers, Sequences, SequencesExt

CONSTANTS Arguments,    \* sequences of values to encode
          BufferSizes,  \* LUAL_BUFFERSIZE, by the C library's BUFSIZ
          NumberDigits  \* those that LUAI_NUMFFORMAT writes, "%.14g"

VARIABLES
    size,               \* LUAL_BUFFERSIZE
    no_unicode_escape,  \* what json.no_unicode_escape has set, 1 from the start
    args,               \* the arguments
    arg,                \* the one that is encoded
    index,              \* where lua_json_encode_value is to look for its value, or 0
    stack,              \* the Lua stack, with the arguments
    buf, lvl,           \* luaL_Buffer: its text, and how many pieces it has left
    calls,              \* the tables that are walked, the innermost last
    result,
    status              \* "run", then "ok" or "error"

vars == <<size, no_unicode_escape, args, arg, index, stack, buf, lvl, calls, result, status>>

Init == /\ size \in BufferSizes /\ no_unicode_escape \in {0, 1}
        /\ args \in Arguments /\ arg = 1 /\ index = 0
        /\ stack = args /\ buf = <<>> /\ lvl = 0
        /\ calls = <<>> /\ result = <<>> /\ status = "run"

(***************************************************************************)
(* The Lua stack and luaL_Buffer (external).                               *)
(***************************************************************************)
Value(kind, s) == [t |-> kind, s |-> s, m |-> <<>>]
\* A key that is on the stack; the digits of an index are never written.
OfKey(k) == IF k.n = 0 THEN Value("string", k.s) ELSE Value("number", [d \in 1..k.n |-> "#"])

L == [stack |-> stack, buf |-> buf, lvl |-> lvl]
Pushed(s, v) == [s EXCEPT !.stack = Append(@, v)]
Dropped(s)   == [s EXCEPT !.stack = Front(@)]
Slot(s, x) == IF x > 0 THEN x ELSE Len(s.stack) + 1 + x
At(s, x)   == s.stack[Slot(s, x)]
Type(s, x) == At(s, x).t
\* lua_tolstring makes a string of a number where it lies, with no more digits than
\* the format has.
Digits(s) == [k \in DOMAIN s |-> IF k > NumberDigits THEN "0" ELSE s[k]]
Stringed(s, x) == IF Type(s, x) # "number" THEN s
                  ELSE [s EXCEPT !.stack[Slot(s, x)] = Value("string", Digits(@.s))]

\* luaL_addchar and luaL_addlstring: a full buffer is left on the stack when there is
\* another character for it.
Add(s, text) ==
    LET all   == s.buf \o text
        full  == IF all = <<>> THEN 0 ELSE (Len(all) - 1) \div size
        piece == [n \in 1..full |-> Value("string", SubSeq(all, (n - 1) * size + 1, n * size))]
    IN  [stack |-> s.stack \o piece, buf |-> SubSeq(all, full * size + 1, Len(all)), lvl |-> s.lvl + full]

Orders(t) == {o \in [1..Cardinality(DOMAIN t.m) -> DOMAIN t.m] :
                \A a, b \in DOMAIN o :
                   a < b => o[a] # o[b] /\ (t.t = "array" => o[a].n < o[b].n)}
\* The places of the table's order after that of a key, of which nil is the first
Following(order, key) == IF key.t = "nil" THEN {1}
                         ELSE {n + 1 : n \in {k \in DOMAIN order : OfKey(order[k]) = key}}

(***************************************************************************)
(* luaL_addjsonlstring.                                                    *)
(***************************************************************************)
\* utf8_tab: what is escaped, and how many bytes follow the first of a character
Escape(c) == IF c \in {"dq", "bs"} THEN <<"bs", c>> ELSE <<c>>
Follow(c) == CASE c = "lead2" -> 1 [] c = "lead3" -> 2 [] c = "lead4" -> 3 [] OTHER -> 0
\* luaL_pack_utf8_to_unicode knows characters of two and three bytes.
Packed(c) == IF c = "lead4" THEN <<"?">>
             ELSE <<"bs", "u", IF c = "lead2" THEN "0" ELSE "1", "1", "1", "1">>

JsonString(p) ==
    LET high(k) == no_unicode_escape = 0 /\ p[k] \in {"lead2", "lead3", "lead4", "cont"}
        From[k \in 1..(Len(p) + 1)] ==
            IF k > Len(p) THEN <<>>
            ELSE IF ~high(k) THEN Escape(p[k]) \o From[k + 1]
            ELSE IF p[k] = "cont" \/ k + Follow(p[k]) > Len(p) THEN <<>>  \* the rest is left out
            ELSE Packed(p[k]) \o From[k + Follow(p[k]) + 1]
    IN  From[1]

(***************************************************************************)
(* lua_json_encode_value.                                                  *)
(***************************************************************************)
Tables == {"array", "object"}
Walked(fr, ind, order) == Append(fr, [ind |-> ind, order |-> order, is_array |-> FALSE, i |-> 0])

\* An index below 0 is looked up again after the quotation mark.
EncodeScalar(s, x) ==
    CASE Type(s, x) = "number" -> LET q == Stringed(s, x) IN Add(q, At(q, x).s)
      [] Type(s, x) = "true"   -> Add(s, <<"T">>)
      [] Type(s, x) = "string" -> LET q == Add(s, <<"dq">>)
                                  IN  Add(q, JsonString(At(q, x).s) \o <<"dq">>)
      [] OTHER                 -> Add(s, <<"N">>)

Become(s) == stack' = s.stack /\ buf' = s.buf /\ lvl' = s.lvl
\* The value is written: back to the loop over the arguments, or over a table, which
\* pops what it takes for the value.
AfterValue_Keeps(s) == s
AfterValue(s) == Dropped(s)
Return(s, fr) == /\ IF fr = <<>> THEN Become(s) /\ calls' = fr /\ arg' = arg + 1
                    ELSE /\ Become(AfterValue(s))
                         /\ calls' = [fr EXCEPT ![Len(fr)].i = @ + 1]
                         /\ UNCHANGED arg
                 /\ index' = 0

fixed == <<size, no_unicode_escape, args>>

\* The loop of lua_json_encode over its arguments.
Argument == /\ status = "run" /\ calls = <<>> /\ index = 0 /\ arg <= Len(args)
            /\ Become(IF arg > 1 THEN Add(L, <<",">>) ELSE L)
            /\ index' = arg
            /\ UNCHANGED <<fixed, arg, calls, result, status>>

EncodeValue == /\ status = "run" /\ index # 0
               /\ \/ /\ Type(L, index) \notin Tables
                     /\ \E s \in {EncodeScalar(L, index)} : Return(s, calls)
                  \/ /\ Type(L, index) \in Tables
                     /\ \E order \in Orders(At(L, index)) : calls' = Walked(calls, Slot(L, index), order)
                     /\ Become(Pushed(L, Value("nil", <<>>)))
                     /\ index' = 0 /\ UNCHANGED arg
               /\ UNCHANGED <<fixed, result, status>>

\* lua_next(L, ind), and the body of its loop up to the value: the bracket, and in
\* an object the name, unless what lies below the value is no string.
Walk == Last(calls)
Places == Following(Walk.order, At(L, -1))
Found(k) == Pushed(Pushed(Dropped(L), OfKey(k)), stack[Walk.ind].m[k])
IsArray(s) == IF Walk.i = 0 THEN Type(s, -2) = "number" ELSE Walk.is_array
Opened(s) == IF Walk.i > 0 THEN s ELSE Add(s, <<IF IsArray(s) THEN "[" ELSE "{">>)
Comma(s)  == IF Walk.i > 0 THEN Add(s, <<",">>) ELSE s
Named(s)  == LET q == Add(s, <<"dq">>) IN Add(Stringed(q, -2), At(q, -2).s \o <<"dq", ":">>)
Visit == /\ status = "run" /\ calls # <<>> /\ index = 0
         /\ \E n \in Places \cap DOMAIN Walk.order :
              \E found \in {Found(Walk.order[n])} : \E opened \in {Opened(found)} :
                LET fr == [calls EXCEPT ![Len(calls)].is_array = IsArray(found)]
                    written == IF IsArray(found) THEN Comma(opened) ELSE Named(Comma(opened))
                IN  IF IsArray(found) \/ Type(opened, -2) = "string"
                    THEN Become(written) /\ calls' = fr /\ index' = -1 /\ UNCHANGED arg
                    ELSE Return(opened, fr)
         /\ UNCHANGED <<fixed, result, status>>
EndTable == /\ status = "run" /\ calls # <<>> /\ index = 0
            /\ Len(Walk.order) + 1 \in Places
            /\ Return(Add(Dropped(L), <<IF Walk.i = 0 THEN "N" ELSE IF Walk.is_array THEN "]" ELSE "}">>),
                      Front(calls))
            /\ UNCHANGED <<fixed, result, status>>
\* "invalid key to 'next'"
BadKey == /\ status = "run" /\ calls # <<>> /\ index = 0
          /\ Places = {}
          /\ status' = "error"
          /\ UNCHANGED <<fixed, arg, index, stack, buf, lvl, calls, result>>

\* luaL_pushresult
Pieces == SubSeq(stack, Len(stack) + 1 - lvl, Len(stack))
PushResult == /\ status = "run" /\ calls = <<>> /\ index = 0 /\ arg > Len(args)
              /\ LET Joined[n \in 0..lvl] == IF n = 0 THEN <<>> ELSE Joined[n - 1] \o Pieces[n].s
                 IN  result' = Joined[lvl] \o buf
              /\ status' = IF \E n \in DOMAIN Pieces : Pieces[n].t \notin {"string", "number"}
                           THEN "error" ELSE "ok"
              /\ UNCHANGED <<fixed, arg, index, stack, buf, lvl, calls>>

Next == Argument \/ EncodeValue \/ Visit \/ EndTable \/ BadKey \/ PushResult
Spec == Init /\ [][Next]_vars
================================================================================
