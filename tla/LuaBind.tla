-------------------------------- MODULE LuaBind --------------------------------
(***************************************************************************)
(* src/luawrapper: lua::bind, a C++ object that walks tables, pushes       *)
(* arguments, calls a function and fetches its results on the stack of the *)
(* virtual machine.  "Lua transaction class (only one per vm instance)":   *)
(* vm.mutex makes every bind that is created while another one is in its   *)
(* transaction, say in a C function that one calls, ignore what it is told.*)
(* Binds are automatic objects: the last created is destroyed first.       *)
(***************************************************************************)
EXTENDS Integers, Sequences, FiniteSets

CONSTANTS Binds,        \* the binds of a behaviour
          MaxStack,     \* bound on the Lua stack
          Disciplined   \* callers look up, push, invoke once, fetch and end, in
                        \* this order, as test.cpp and the examples do

ASSUME BindAssumption == MaxStack \in Nat \ {0} /\ Disciplined \in BOOLEAN

VARIABLES
    mutex,     \* vm.mutex
    stack,     \* values on the Lua stack: whose they are and what they are
    bind,      \* the binds
    scope,     \* binds that are alive, the youngest last
    panicked   \* lua_atpanic: an error outside of lua_pcall ends the process

vars == <<mutex, stack, bind, scope, panicked>>

GLOBALS == 0   \* LUA_GLOBALSINDEX
Value(b, what) == [by |-> b, is |-> what]
Host == "host"
\* What was on the stack before: a C function's argument, say a callback.
Base == <<Value(Host, "fn")>>
Top  == Len(stack)
Live(b) == \E i \in DOMAIN scope : scope[i] = b

Unborn == [refuse |-> FALSE, st_top |-> 0, args |-> 0, rets |-> 0,
           cur |-> GLOBALS, phase |-> "none"]

Init == /\ mutex = 0 /\ stack = Base /\ scope = <<>> /\ panicked = FALSE
        /\ bind = [b \in Binds |-> Unborn]

\* The order in which a disciplined caller uses a bind.
Phases == <<"new", "lookup", "push", "fetch", "ended">>
Rank(ph) == CHOOSE i \in DOMAIN Phases : Phases[i] = ph
Use(b, ph) == /\ ~panicked /\ Live(b)
              /\ Disciplined => /\ Rank(bind[b].phase) <= Rank(ph)
                                /\ bind[b].phase # "ended"
                                /\ ph = "push" => bind[b].phase # "new"
Set(b, r) == bind' = [bind EXCEPT ![b] = r]

\* bind::bind
Construct_NoRefusal(b) == mutex' = 1 /\ Set(b, [Unborn EXCEPT !.st_top = Top, !.phase = "new"])
Construct(b) == /\ mutex' = 1
                /\ Set(b, [Unborn EXCEPT !.refuse = (mutex # 0), !.st_top = Top,
                                         !.phase = "new"])
New(b) == /\ ~panicked /\ bind[b].phase = "none"
          /\ Construct(b)
          /\ scope' = Append(scope, b)
          /\ UNCHANGED <<stack, panicked>>

\* A refused bind ignores what it is told.
Ignored(b, ph) == /\ Use(b, ph) /\ bind[b].refuse
                  /\ Set(b, [bind[b] EXCEPT !.phase = ph])
                  /\ UNCHANGED <<mutex, stack, scope, panicked>>

\* bind::lookup: a nil is left alone; anything but a table, a value that has
\* been popped included, is a Lua error in no lua_pcall.
IsAt(i) == IF i = GLOBALS THEN "tab" ELSE IF i <= Top THEN stack[i].is ELSE "none"
lookup(b) ==
    /\ Use(b, "lookup") /\ ~bind[b].refuse
    /\ CASE IsAt(bind[b].cur) = "nil" -> UNCHANGED <<stack, bind, panicked>>
         [] IsAt(bind[b].cur) = "tab" ->
              /\ Top < MaxStack
              /\ \E what \in {"tab", "fn", "nil"} : stack' = Append(stack, Value(b, what))
              /\ Set(b, [bind[b] EXCEPT !.cur = Top + 1, !.phase = "lookup"])
              /\ UNCHANGED panicked
         [] OTHER -> panicked' = TRUE /\ UNCHANGED <<stack, bind>>
    /\ UNCHANGED <<mutex, scope>>

\* bind::operator<<
push(b) == /\ Use(b, "push") /\ ~bind[b].refuse /\ Top < MaxStack
           /\ stack' = Append(stack, Value(b, "arg"))
           /\ Set(b, [bind[b] EXCEPT !.args = @ + 1, !.phase = "push"])
           /\ UNCHANGED <<mutex, scope, panicked>>

\* bind::invoke and bind::m_invoke, which passes the table under the function
\* as first argument.  After an error the message has been popped.
Function(b) == Top - bind[b].args
IsFunction(b) == Function(b) \in 1..Top /\ stack[Function(b)].is = "fn"
IsMethod(b) == IsFunction(b) /\ Function(b) > 1 /\ stack[Function(b) - 1].is = "tab"
RetValues_WithFunction(before, after, args) == after + args + 2 - before
RetValues(before, after, args) == after + args + 1 - before
Call(b, args) ==
    LET below == SubSeq(stack, 1, Function(b) - 1)
        n     == Top + (args - bind[b].args)    \* size() when lua_pcall is called
        r     == [bind[b] EXCEPT !.args = args, !.phase = "fetch"]
    IN  \/ \E k \in 0..2 :
             /\ Len(below) + k <= MaxStack
             /\ stack' = below \o [i \in 1..k |-> Value(b, "ret")]
             /\ Set(b, [r EXCEPT !.rets = RetValues(n, Len(below) + k, args)])
        \/ stack' = below /\ Set(b, r)          \* throw_lua_exception
invoke(b) == /\ Use(b, "push") /\ ~bind[b].refuse
             /\ IF IsFunction(b) THEN Call(b, bind[b].args)
                                 ELSE UNCHANGED <<stack, bind>>
             /\ UNCHANGED <<mutex, scope, panicked>>
m_invoke(b) == /\ Use(b, "push") /\ ~bind[b].refuse
               /\ IF IsMethod(b) THEN Call(b, bind[b].args + 1)
                                 ELSE UNCHANGED <<stack, bind>>
               /\ UNCHANGED <<mutex, scope, panicked>>

\* bind::operator>>: reads the value at -retvals_number, or a default.
fetch(b) == /\ Use(b, "fetch") /\ ~bind[b].refuse
            /\ Set(b, [bind[b] EXCEPT !.rets = IF @ < 1 THEN @ ELSE @ - 1, !.phase = "fetch"])
            /\ UNCHANGED <<mutex, stack, scope, panicked>>

\* bind::end, also from the destructor.
Freed_Results(b) == IF Top > bind[b].st_top THEN SubSeq(stack, 1, Top - bind[b].rets) ELSE stack
Freed(b) == IF Top > bind[b].st_top THEN SubSeq(stack, 1, bind[b].st_top) ELSE stack
Ended(b, ph) ==
    IF ~bind[b].refuse /\ mutex # 0
    THEN /\ stack' = Freed(b)
         /\ mutex' = 0
         /\ Set(b, [bind[b] EXCEPT !.args = 0, !.rets = 0, !.cur = GLOBALS, !.phase = ph])
    ELSE /\ Set(b, [bind[b] EXCEPT !.phase = ph])
         /\ UNCHANGED <<stack, mutex>>
end(b) == Use(b, "ended") /\ Ended(b, "ended") /\ UNCHANGED <<scope, panicked>>
Destroy(b) == /\ ~panicked /\ scope # <<>> /\ scope[Len(scope)] = b
              /\ Ended(b, "dead")
              /\ scope' = SubSeq(scope, 1, Len(scope) - 1)
              /\ UNCHANGED panicked

Next == \E b \in Binds : \/ New(b) \/ lookup(b) \/ push(b) \/ invoke(b) \/ m_invoke(b)
                         \/ fetch(b) \/ end(b) \/ Destroy(b)
                         \/ \E ph \in {"lookup", "push", "fetch"} : Ignored(b, ph)
Spec == Init /\ [][Next]_vars
--------------------------------------------------------------------------------
(***************************************************************************)
(* Properties.                                                             *)
(***************************************************************************)
ValueType == [by : Binds \cup {Host}, is : {"tab", "fn", "nil", "arg", "ret"}]

\* The variables stay in their ranges.
TypeOK ==
    /\ mutex \in {0, 1}
    /\ stack \in Seq(ValueType) /\ Top <= MaxStack
    /\ panicked \in BOOLEAN
    /\ \A b \in Binds : /\ bind[b].refuse \in BOOLEAN
                        /\ bind[b].st_top \in 0..MaxStack
                        /\ bind[b].args \in 0..(MaxStack + 1)
                        /\ bind[b].rets \in 0..2
                        /\ bind[b].cur \in 0..MaxStack

InTransaction(b) == Live(b) /\ ~bind[b].refuse /\ bind[b].phase # "ended"

\* The mutex is taken exactly while some bind is in its transaction, however
\* binds nest and wherever exceptions are thrown, and only one is at a time.
OneHolder == mutex = Cardinality({b \in Binds : InTransaction(b)})

\* A bind has only its own values above the height it found, and between
\* transactions the stack is as the host left it.
OwnValues ==
    /\ \A b \in Binds : InTransaction(b) =>
         /\ bind[b].st_top <= Top
         /\ \A i \in (bind[b].st_top + 1)..Top : stack[i].by = b
    /\ mutex = 0 => stack = Base

\* What operator>> reads next is a result of the function that was called.
FetchesResults ==
    \A b \in Binds : InTransaction(b) /\ bind[b].rets > 0 =>
        LET i == Top + 1 - bind[b].rets
        IN  i \in 1..Top /\ stack[i] = Value(b, "ret")

\* "only one per vm instance" (luawrapper.h:273): while a bind is in its
\* transaction no other one changes the stack.
OnlyOnePerVm ==
    [][\A b \in Binds : InTransaction(b) /\ InTransaction(b)' =>
         \A i \in 1..Len(stack') : stack'[i].by \in {b, Host} \/ i <= Len(stack)]_vars
================================================================================
