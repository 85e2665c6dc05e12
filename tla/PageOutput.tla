------------------------------- MODULE PageOutput ------------------------------
(***************************************************************************)
(* echo (write) and print of src/llsplib.cpp: each argument is written by  *)
(* a loop over lwrite of the io interface, which may write a part, nothing *)
(* or fail with -1; separators go through lputc, whose result nobody looks *)
(* at.                                                                     *)
(*                                                                         *)
(* The interface belongs to the host (external).  Apache's ap_rwrite       *)
(* writes everything or returns -1, and after that fails for good; fwrite  *)
(* returns how much it wrote, and after a short write either goes on or    *)
(* writes nothing any more.                                                *)
(*                                                                         *)
(* A page is the sequence of the calls it makes, those of the pages that   *)
(* it includes among them (lua_include runs them at their place).          *)
(***************************************************************************)
EXTENDS Integers, Sequences

CONSTANTS Pages,     \* sequences of calls [fn, args]
          Hosts,     \* subset of {"apache", "stdio"}
          NoString,  \* an argument that has no text
          SizeMod    \* 2^w, the range of size_t

\* An argument is the length of its text, or NoString.
Lengths == 0..(SizeMod - 2)
ASSUME PagesAssumption ==
    /\ SizeMod \in Nat /\ SizeMod > 2
    /\ Hosts \subseteq {"apache", "stdio"}
    /\ \A p \in Pages : p \in Seq([fn : {"echo", "print"}, args : Seq(Lengths \cup {NoString})])

VARIABLES page,    \* the page
          host,    \* whose io interface it is
          c, i,    \* the call and its argument
          ll,      \* how much of the argument has been written
          pc,      \* "arg", "write", "sep", "done" or "error"
          out,     \* the bytes the client gets
          io       \* "good", "short" after a write that failed in part, "broken" for good

vars == <<page, host, c, i, ll, pc, out, io>>

args == page[c].args
\* lua_tolstring: what is neither string nor number has no text.
length == IF args[i] = NoString THEN 0 ELSE args[i]

\* Bytes are known by their place in the page: call, argument and position, 0 for
\* what follows the argument.
Bytes(p, d, j) == [k \in 1..(IF p[d].args[j] = NoString THEN 0 ELSE p[d].args[j]) |-> <<d, j, k>>]
Separator(p, d, j) == IF j < Len(p[d].args) THEN <<<<d, j, 0>>>> ELSE <<>>
NewLine(p, d) == IF p[d].fn = "print" THEN <<<<d, 0, 0>>>> ELSE <<>>

Init == /\ page \in Pages /\ host \in Hosts
        /\ c = 1 /\ i = 1 /\ ll = 0
        /\ pc = IF page = <<>> THEN "done" ELSE "arg"
        /\ out = <<>> /\ io = "good"

(***************************************************************************)
(* The io interface (external).                                            *)
(***************************************************************************)
MinusOne == SizeMod - 1
\* k bytes of the text go out, and what the host is like afterwards
Goes(text, k, state) == out' = out \o SubSeq(text, 1, k) /\ io' = state

\* lwrite(text) returns n.
Lwrite(text, n) ==
    \/ /\ io # "broken" /\ n = Len(text)
       /\ Goes(text, n, io)
    \/ /\ host = "apache" /\ n = MinusOne
       /\ \E k \in 0..(IF io = "broken" THEN 0 ELSE Len(text)) : Goes(text, k, "broken")
    \/ /\ host = "stdio" /\ n < Len(text) /\ (io = "broken" => n = 0)
       /\ \E state \in {"short", "broken"} : (io = "broken" => state = io) /\ Goes(text, n, state)
\* lputc of a text of one byte, or of none where the code does not call it
Lputc(text) ==
    \/ (text = <<>> \/ io # "broken") /\ Goes(text, Len(text), io)
    \/ text # <<>> /\ Goes(text, 0, IF io = "broken" \/ host = "apache" THEN "broken" ELSE "short")

(***************************************************************************)
(* lua_echo and lua_print.                                                 *)
(***************************************************************************)
\* print converts by tostring, which must give a string.
Convert == /\ pc = "arg" /\ i <= Len(args)
           /\ ~(page[c].fn = "print" /\ args[i] = NoString)
           /\ ll' = 0 /\ pc' = "write"
           /\ UNCHANGED <<page, host, c, i, out, io>>
NotAString == /\ pc = "arg" /\ i <= Len(args)
              /\ page[c].fn = "print" /\ args[i] = NoString
              /\ pc' = "error"
              /\ UNCHANGED <<page, host, c, i, ll, out, io>>
\* The addition is one of size_t: with -1 the offset moves back.
Advanced_Restart(n) == n
Advanced(n) == (ll + n) % SizeMod
Gives_up_Never(n) == FALSE
Gives_up(n) == n = 0
Write == /\ pc = "write" /\ ll < length
         /\ \E n \in 0..MinusOne :
              /\ Lwrite(SubSeq(Bytes(page, c, i), ll + 1, length), n)
              /\ ll' = IF Gives_up(n) THEN ll ELSE Advanced(n)
              /\ pc' = IF Gives_up(n) THEN "sep" ELSE "write"
         /\ UNCHANGED <<page, host, c, i>>
Written == /\ pc = "write" /\ ll >= length
           /\ pc' = "sep"
           /\ UNCHANGED <<page, host, c, i, ll, out, io>>
PutSeparator == /\ pc = "sep"
                /\ Lputc(Separator(page, c, i))
                /\ i' = i + 1 /\ pc' = "arg"
                /\ UNCHANGED <<page, host, c, ll>>
Return == /\ pc = "arg" /\ i > Len(args)
          /\ Lputc(NewLine(page, c))
          /\ IF c = Len(page) THEN pc' = "done" /\ UNCHANGED <<c, i>>
                              ELSE pc' = "arg" /\ c' = c + 1 /\ i' = 1
          /\ UNCHANGED <<page, host, ll>>

Next == Convert \/ NotAString \/ Write \/ Written \/ PutSeparator \/ Return
\* A call is sequential code that nobody stops.
Spec == Init /\ [][Next]_vars /\ WF_vars(Next)
--------------------------------------------------------------------------------
(***************************************************************************)
(* Properties.                                                             *)
(***************************************************************************)
\* What a sequence of texts gives from each of them on
From(texts) == LET from[j \in 1..(Len(texts) + 1)] ==
                     IF j > Len(texts) THEN <<>> ELSE texts[j] \o from[j + 1]
               IN  from
\* The text of a call from each argument on, and of a page from each call on
CallText(p, d) == From([j \in 1..(Len(p[d].args) + 1) |->
                          IF j > Len(p[d].args) THEN NewLine(p, d)
                                                ELSE Bytes(p, d, j) \o Separator(p, d, j)])
PageText(p) == From([d \in 1..Len(p) |-> CallText(p, d)[1]])
Left == LET after(j) == CallText(page, c)[j] \o PageText(page)[c + 1]
        IN  CASE pc \in {"done", "error"} -> <<>>
              [] pc = "arg"   -> after(i)
              [] pc = "write" -> SubSeq(Bytes(page, c, i), ll + 1, length) \o (Separator(page, c, i) \o after(i + 1))
              [] pc = "sep"   -> Separator(page, c, i) \o after(i + 1)

Stream == INSTANCE OutStream WITH left <- Left, failed <- (io # "good"), raised <- (pc = "error"),
                                  Texts <- {PageText(p)[1] : p \in Pages}
\* The client gets the page's text in order and nothing of it twice, however
\* lwrite cuts it up and wherever it fails: the offset of the loop, which -1
\* moves back, never lets it write again what has been sent.  Nothing is left
\* out unless a write has failed.
ImplementsStream == Stream!Spec

\* Every call ends, also when lwrite writes nothing or fails for good: the loop
\* over an unsigned offset comes to an end.
CallsEnd == <>(pc \in {"done", "error"})
================================================================================
