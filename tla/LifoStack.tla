----------------------------- MODULE LifoStack -----------------------------
(***************************************************************************)
(* What the stack API of learn_c_the_hard_way/stack.c promises its caller: *)
(* a LIFO sequence of string values.  Pop and peek of an empty stack, and  *)
(* a push the allocator cannot serve, end the process (`die`).  `out` is   *)
(* the last thing a call reported.  LinkedStack is checked to implement    *)
(* this module.                                                            *)
(***************************************************************************)
EXTENDS Sequences

CONSTANTS
  Values,     \* the strings pushed
  NoStack,    \* model value: Stack_create has not run
  NoOutput    \* model value: nothing reported yet

VARIABLES stack, out, alive

vars == <<stack, out, alive>>

Create ==
  /\ alive /\ stack = NoStack
  /\ stack' = <<>>
  /\ UNCHANGED <<out, alive>>

Push(v) ==
  /\ alive /\ stack # NoStack
  /\ stack' = <<v>> \o stack
  /\ UNCHANGED <<out, alive>>

Pop ==
  /\ alive /\ stack # NoStack /\ stack # <<>>
  /\ out' = [popped |-> Head(stack)]
  /\ stack' = Tail(stack)
  /\ UNCHANGED alive

Peek ==
  /\ alive /\ stack # NoStack /\ stack # <<>>
  /\ out' = [peeked |-> Head(stack)]
  /\ UNCHANGED <<stack, alive>>

IsEmpty ==
  /\ alive /\ stack # NoStack
  /\ out' = [empty |-> stack = <<>>]
  /\ UNCHANGED <<stack, alive>>

\* Pop or peek of an empty stack ends the process.
MisuseDies ==
  /\ alive /\ stack = <<>>
  /\ alive' = FALSE
  /\ UNCHANGED <<stack, out>>

\* Create or push failing to allocate ends the process, stack untouched.
AllocDies ==
  /\ alive
  /\ alive' = FALSE
  /\ UNCHANGED <<stack, out>>

Init ==
  /\ stack = NoStack
  /\ out = NoOutput
  /\ alive = TRUE

Next ==
  \/ Create \/ Pop \/ Peek \/ IsEmpty \/ MisuseDies \/ AllocDies
  \/ \E v \in Values : Push(v)

Spec == Init /\ [][Next]_vars
=============================================================================
