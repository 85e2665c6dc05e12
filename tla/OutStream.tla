------------------------------- MODULE OutStream -------------------------------
(***************************************************************************)
(* What a page's output promises: the client gets the text of the page's   *)
(* calls in order, nothing twice, and nothing is left out before something *)
(* has failed.  An error of the script ends the output where it is.        *)
(***************************************************************************)
EXTENDS Integers, Sequences

CONSTANT Texts      \* what pages may write, each a sequence of bytes

VARIABLES left,     \* what the page has still to write
          out,      \* what the client gets
          failed,   \* some write has failed, if only in part
          raised    \* the script has ended with an error

vars == <<left, out, failed, raised>>

Init == left \in Texts /\ out = <<>> /\ failed = FALSE /\ raised = FALSE

\* The first k bytes are sent; those up to m are lost, which takes a failure.
Send == /\ \E m \in 0..Len(left) : \E k \in 0..m :
             /\ out' = out \o SubSeq(left, 1, k)
             /\ left' = SubSeq(left, m + 1, Len(left))
             /\ k < m => failed'
        /\ failed => failed'
        /\ UNCHANGED raised
Raise == /\ ~raised /\ raised' = TRUE /\ left' = <<>>
         /\ UNCHANGED <<out, failed>>

Next == Send \/ Raise
Spec == Init /\ [][Next]_vars
================================================================================
