------------------------------ MODULE MCJsonParser ------------------------------
(***************************************************************************)
(* json.decode of texts: all short ones, and longer ones of whole values;  *)
(* and json.encode of values, whose text is then decoded.                  *)
(***************************************************************************)
EXTENDS JsonParser

CONSTANTS MaxTokens,     \* tokens in a text
          BufferSizes,   \* LUAL_BUFFERSIZE
          NumberDigits,  \* of a number that is encoded
          Odd            \* which of these are there, too: "arrays", several arrays at the
                         \* top of a text; "short", \u with less than four digits; strings
                         \* that end with a "slash", are no UTF-8 ("bytes"), or have a
                         \* character of four bytes that is escaped ("wide"); "keys" with
                         \* a quotation mark; numbers of more "digits" than are written, or
                         \* not finite ("inf"), which are written as a word

VARIABLES source,        \* "text" to decode, or what the "encoder" makes
          size, no_unicode_escape, args, arg, eindex, stack, buf, lvl, calls, result, estatus

Tokens == {<<c>> : c \in {"sp", ":", "dq", "bs", "1", "T", "N"} \cup Dm1 \cup Dm2}
          \cup {<<"dq", "1", "dq", ":">>, <<"dq", "bs", "dq", "dq">>, <<"bs", "u", "1", "1", "1", "1">>}
          \cup {<<"bs", "u">> : o \in Odd \cap {"short"}}
RECURSIVE TextsOf(_, _)
TextsOf(tokens, n) ==
    IF n = 0 THEN {<<>>}
    ELSE LET shorter == TextsOf(tokens, n - 1)
         IN  shorter \cup {t \o k : t \in shorter, k \in tokens}

\* Values inside of one another.
Scalars == {<<"1">>, <<"dq", "1", "dq">>, <<"N">>}
In2(a, b) == {<<"[">> \o a \o <<"," >> \o b \o <<"]">>,
              <<"{", "dq", "1", "dq", ":">> \o a \o <<",", "dq", "dq", ":">> \o b \o <<"}">>}
Nested1 == UNION {In2(a, b) : a \in Scalars, b \in Scalars} \cup {<<"[", "]">>, <<"{", "}">>}
Nested2 == UNION {In2(a, b) : a \in Nested1, b \in Nested1 \cup Scalars}
Lists   == {a \o <<",">> \o b : a \in Nested1, b \in Nested1 \cup Scalars}

\* One string, with escapes in a row.
InString == {<<c>> : c \in {"1", "u", "dq", "bs"}} \cup {<<"bs", "u", "1", "1", "1", "1">>}
Quoted   == {<<"dq">> \o t \o <<"dq">> : t \in TextsOf(InString, 4)}

EscapedWord(t) == \E n \in 1..(Len(t) - 1) : t[n] = "bs" /\ t[n + 1] \in {"T", "N"}
MCTexts == {t \in TextsOf(Tokens, MaxTokens) \cup Nested1 \cup Nested2 \cup Lists \cup Quoted :
              /\ ~EscapedWord(t)
              /\ "slash" \in Odd \/ ~SlashEnd(t)
              /\ "short" \in Odd \/ WholeCodes(t)
              /\ "arrays" \in Odd \/ OneArray(t)}

\* Values that the encoder gets: strings, numbers, lists of them and tables that
\* have something in them.  An empty one is encoded as null, which is no table
\* when it is decoded; so is nil, which ends an array.
Wide == <<"lead4", "cont", "cont", "cont">>
Utf8 == {<<"lead2", "cont">>, <<"1", "lead3", "cont", "cont">>, Wide}
Strings(n) == {s \in UNION {[1..k -> {"1", "dq", "bs"}] : k \in 0..n} :
                 "slash" \in Odd \/ s = <<>> \/ s[Len(s)] # "bs"}
Leaves(n) == {Scalar("string", s) : s \in Strings(n)}
             \cup {Scalar("number", <<"1", "1">>), Scalar("true", <<>>)}
Others == {Scalar("string", s) : s \in Utf8 \cup {<<"lead2", "1", "dq">> : o \in Odd \cap {"bytes"}}}
          \cup {Scalar("number", <<"1", "1", "1">>) : o \in Odd \cap {"digits"}}
          \cup {Scalar("number", <<"u">>) : o \in Odd \cap {"inf"}}
Keys == {KeyOfString(Scalar("string", s)) :
           s \in {<<>>, <<"1">>} \cup {<<"dq">> : o \in Odd \cap {"keys"}}}
ArrayOf(q) == [t |-> "array", s |-> <<>>, m |-> [k \in {KeyOfIndex(n) : n \in DOMAIN q} |-> q[k.n]]]
Tables(values) == {ArrayOf(q) : q \in {<<v>> : v \in values} \cup {<<v, w>> : v, w \in values}}
                  \cup {[t |-> "object", s |-> <<>>, m |-> m] :
                          m \in UNION {[ks -> values] : ks \in SUBSET Keys \ {{}}}}
Values == Leaves(3) \cup Others \cup Tables(Leaves(1))
          \cup Tables(Tables({Scalar("string", <<"dq">>)}) \cup Leaves(0))
MCArguments == {<<>>} \cup {<<v>> : v \in Values} \cup {<<v, w>> : v, w \in Leaves(1) \cup Others \cup {Nil}}
               \cup {<<v, w>> : v \in Others, w \in Tables(Leaves(0))}

Encoder == INSTANCE JsonEncoder WITH Arguments <- MCArguments, status <- estatus, index <- eindex
encoder == <<size, no_unicode_escape, args, arg, eindex, stack, buf, lvl, calls, result, estatus>>

CodecInit == /\ source \in {"text", "encoder"}
             /\ IF source = "text"
                THEN args = <<>> /\ no_unicode_escape = 1 /\ size = CHOOSE b \in BufferSizes : TRUE
                ELSE text = <<>>
             /\ Init /\ Encoder!Init
             /\ "wide" \in Odd \/ no_unicode_escape = 1 \/ \A n \in DOMAIN args : args[n].s # Wide
Encodes == /\ source = "encoder" /\ Encoder!Next
           /\ text' = IF estatus' = "ok" THEN result' ELSE text
           /\ UNCHANGED <<source, i, index, st, key, ptr, lua, status>>
Decoding == /\ (source = "text" \/ estatus = "ok")
            /\ Next /\ UNCHANGED <<source, encoder>>
CodecNext == Encodes \/ Decoding
\* Both are sequential calls that nobody stops.
CodecSpec == CodecInit /\ [][CodecNext]_<<source, encoder, vars>> /\ WF_<<source, encoder, vars>>(CodecNext)
--------------------------------------------------------------------------------
\* What encode makes of some arguments, decode makes those arguments of, escaped or
\* not: as long as they fit the buffer of luaL_addchar, and lists without tables
\* always (lua_json_encode_value).  The arguments are those that Odd leaves: finite
\* numbers of no more digits than are written, and strings of UTF-8 that end with no
\* backslash and, if they are escaped, have no character of four bytes.
HasTable == \E n \in DOMAIN args : args[n].t \in {"array", "object"}
InOrder == source = "encoder" => /\ estatus # "error"
                                 /\ status # "run" => status = "ok" /\ lua = args
RoundTrip == (lvl > 0 /\ HasTable) \/ InOrder

\* What encode makes of any arguments, decode makes those arguments of (README:3).
RoundTripOfAll == InOrder

\* Neither call goes on for ever, though characters are read again and lua_next is
\* called with what is on top of the stack.
CallsEnd == <>(status # "run" \/ estatus = "error")
================================================================================
