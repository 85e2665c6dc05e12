------------------------------ MODULE MCLspParams ------------------------------
\* Texts for TLC: every concatenation of up to four fragments, and such a one
\* after a first pair; headers of up to six characters.
EXTENDS LspParams

Fragments == {<<"a", "=">>, <<"b">>, <<"=">>, <<"&">>, <<"+">>, <<"%">>, <<"h">>,
              <<"hi">>, <<"nul">>, <<"%", "h", "h">>}
Upto2 == {f \o g : f, g \in Fragments \cup {<<>>}}
Upto4 == {t \o u : t, u \in Upto2}
AllTexts == Upto4 \cup {<<"a", "=", "b">> \o t : t \in Upto4}
AllCookies == UNION {[1..n -> {"s", "=", ";", " ", "x"}] : n \in 0..6}
TheCookie == <<"s">>
================================================================================
