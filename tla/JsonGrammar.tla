------------------------------- MODULE JsonGrammar -------------------------------
(***************************************************************************)
(* What json.decode promises: a text is a list of values, decoded          *)
(* recursively.  The grammar is JSON's with what luajson allows besides:   *)
(* any number of values, a comma before a closing bracket or the end; and  *)
(* a number is no longer than what luajson reads ("invalid number length").*)
(***************************************************************************)
EXTENDS Integers, Sequences, FiniteSetsExt

CONSTANT NumberSize  \* a number has less than this many characters

Value(kind, s) == [t |-> kind, s |-> s, m |-> <<>>]
Nil == Value("nil", <<>>)
Table(kind, m) == [t |-> kind, s |-> <<>>, m |-> m]
Index(n) == [n |-> n, s |-> <<>>]
Name(s)  == [n |-> 0, s |-> s]

At(f, i, c) == i <= Len(f) /\ f[i] = c
\* The first character from i on that is in a set, or the end.
FirstIn(f, i, S) == LET found == {j \in i..Len(f) : f[j] \in S}
                    IN  IF found = {} THEN Len(f) + 1 ELSE Min(found)
NotBlank(f, i) == LET found == {j \in i..Len(f) : f[j] # "sp"}
                  IN  IF found = {} THEN Len(f) + 1 ELSE Min(found)

\* A backslash opens an escape unless it is the second of one: of those in a row,
\* from k on, every other one.
Opens(f, i, j) == \E k \in i..j : /\ \A l \in k..j : f[l] = "bs"
                                  /\ k = i \/ f[k - 1] # "bs"
                                  /\ (j - k) % 2 = 0
ClosingQuote(f, i) == LET found == {j \in i..Len(f) : f[j] = "dq" /\ ~Opens(f, i, j - 1)}
                      IN  IF found = {} THEN Len(f) + 1 ELSE Min(found)
Hex == {"0", "1"}
\* \u and four hexadecimal digits, for a character of UTF-8 by its first digit that is not 0
OpensCode(f, i, j, k) == Opens(f, i, k) /\ k < j /\ f[k + 1] = "u"
IsCode(f, j, k) == k + 5 <= j /\ \A d \in 2..5 : f[k + d] \in Hex
Utf8(h) == CASE h[1] = "1" -> <<"lead3", "cont", "cont">>
             [] h[1] = "0" /\ h[2] = "1" -> <<"lead2", "cont">>
             [] h[1] = "0" /\ h[2] = "0" /\ (h[3] = "1" \/ h[4] = "1") -> <<"ctl">>
             [] OTHER -> <<"NUL">>
StringLegal(f, i, j) == \A k \in i..j : OpensCode(f, i, j, k) => IsCode(f, j, k)
\* What the character at k is good for, and all from i to j
Part(f, i, j, k) ==
    IF OpensCode(f, i, j, k) THEN Utf8(SubSeq(f, k + 2, k + 5))
    ELSE IF Opens(f, i, k) \/ \E d \in 1..5 : k - d >= i /\ OpensCode(f, i, j, k - d) THEN <<>>
    ELSE IF Opens(f, i, k - 1) /\ f[k] \notin {"dq", "bs"} THEN <<>>
    ELSE <<f[k]>>
StringOf(f, i, j) == LET from[k \in i..(j + 1)] == IF k > j THEN <<>> ELSE Part(f, i, j, k) \o from[k + 1]
                     IN  from[i]

No == [ok |-> FALSE, v |-> Nil, next |-> 0]
Yes(v, next) == [ok |-> TRUE, v |-> v, next |-> next]

IsNumber(word) == /\ word # <<>> /\ Len(word) < NumberSize
                  /\ \A k \in DOMAIN word : word[k] \in Hex
WordAt(f, i) ==
    LET next == FirstIn(f, i, {"sp", ",", "]", "}"})
        word == SubSeq(f, i, next - 1)
    IN  CASE word = <<"T">> -> Yes(Value("true", <<>>), next)
          [] word = <<"N">> -> Yes(Nil, next)
          [] IsNumber(word) -> Yes(Value("number", word), next)
          [] OTHER -> No

StringAt(f, i) == LET j == ClosingQuote(f, i + 1)
                  IN  IF j > Len(f) \/ ~StringLegal(f, i + 1, j - 1) THEN No
                      ELSE Yes(Value("string", StringOf(f, i + 1, j - 1)), j + 1)

(***************************************************************************)
(* Tables.  What is in brackets is read as a function from keys to the     *)
(* last value of each; a key whose last value is nil is not in the table.  *)
(* read gives that for the elements of an array from a position on, when   *)
(* the first of them is number n, and for the members of an object.        *)
(***************************************************************************)
Entry(k, v, later) == [x \in DOMAIN later \cup {k} |-> IF x \in DOMAIN later THEN later[x] ELSE v]
NotNil(m) == [x \in {k \in DOMAIN m : m[k] # Nil} |-> m[x]]
TableOf(kind, r) == IF r.ok THEN Yes(Table(kind, NotNil(r.v)), r.next) ELSE No

ValueAt(f, read, i) == CASE At(f, i, "[")  -> TableOf("array", read[<<"elements", i + 1, 1>>])
                         [] At(f, i, "{")  -> TableOf("object", read[<<"members", i + 1, 0>>])
                         [] At(f, i, "dq") -> StringAt(f, i)
                         [] OTHER          -> WordAt(f, i)

\* What follows a value inside of brackets: their end, or a comma.
Follows(f, e, close) == e.ok /\ LET j == NotBlank(f, e.next)
                                IN  At(f, j, close) \/ At(f, j, ",")
Skip(f, next) == LET j == NotBlank(f, next) IN IF At(f, j, ",") THEN j + 1 ELSE j
\* A value with its key, and what the rest of the brackets adds
With(k, e, later) == IF later.ok THEN Yes(Entry(k, e.v, later.v), later.next) ELSE No
Element(f, read, n, e) == IF Follows(f, e, "]")
                          THEN With(Index(n), e, read[<<"elements", Skip(f, e.next), n + 1>>]) ELSE No
Member(f, read, s, e) == IF Follows(f, e, "}")
                         THEN With(Name(s), e, read[<<"members", Skip(f, e.next), 0>>]) ELSE No
Named(f, read, k) == LET c == NotBlank(f, k.next)
                     IN  IF k.ok /\ At(f, c, ":")
                         THEN Member(f, read, k.v.s, ValueAt(f, read, NotBlank(f, c + 1))) ELSE No

Elements(f, read, i, n) == LET j == NotBlank(f, i)
                           IN  IF At(f, j, "]") THEN Yes(<<>>, j + 1)
                               ELSE Element(f, read, n, ValueAt(f, read, j))
Members(f, read, i) == LET j == NotBlank(f, i)
                       IN  CASE At(f, j, "}")  -> Yes(<<>>, j + 1)
                             [] At(f, j, "dq") -> Named(f, read, StringAt(f, j))
                             [] OTHER          -> No
Reading(f) == LET read[x \in {"elements", "members"} \X (1..(Len(f) + 1)) \X Nat] ==
                      IF x[1] = "elements" THEN Elements(f, read, x[2], x[3]) ELSE Members(f, read, x[2])
              IN  read

\* The values of a text from each position on, or ok FALSE.
Values(f) == LET read == Reading(f)
                 from[i \in 1..(Len(f) + 2)] ==
                     LET j == NotBlank(f, i)
                         e == ValueAt(f, read, j)
                         k == NotBlank(f, e.next)
                     IN  IF j > Len(f) THEN [ok |-> TRUE, values |-> <<>>]
                         ELSE IF e.ok /\ (k > Len(f) \/ At(f, k, ",")) /\ from[k + 1].ok
                         THEN [ok |-> TRUE, values |-> <<e.v>> \o from[k + 1].values]
                         ELSE [ok |-> FALSE, values |-> <<>>]
             IN  from
Decoded(f) == Values(f)[1]
================================================================================
