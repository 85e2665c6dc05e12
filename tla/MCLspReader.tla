------------------------------ MODULE MCLspReader ------------------------------
\* Pages made of a few fragments.
EXTENDS LspReader

CONSTANT MaxFragments   \* fragments in a page

Fragments == {<<c>> : c \in Chars \ {"="}}
             \cup {<<"<", "?">>, <<"?", ">">>, <<"<", "?", "=">>}
RECURSIVE Pages(_)
Pages(n) == IF n = 0 THEN {<<>>}
            ELSE {p \o f : p \in Pages(n - 1), f \in Fragments} \cup Pages(n - 1)
MCFiles == Pages(MaxFragments)
================================================================================
