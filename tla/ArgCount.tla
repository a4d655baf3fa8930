------------------------------ MODULE ArgCount ------------------------------
(***************************************************************************)
(* learn_c_the_hard_way/ex08.c: main() answers by the number of arguments: *)
(* none, one, two or three (which it prints, one per step of its loop), or *)
(* too many.  An argument is a small int standing for its text.           *)
(***************************************************************************)
EXTENDS Integers, Sequences

VARIABLES
  argv,      \* argv[1 .. argc - 1]
  i,         \* the loop's i, from 1
  printed,   \* the answer, then the arguments printed
  pc

vars == <<argv, i, printed, pc>>

\* Up to five arguments, each one of two words.
Inputs == UNION {[1 .. n -> {1, 2}] : n \in 0 .. 5}

argc == Len(argv) + 1

Init ==
  /\ argv \in Inputs
  /\ i = 0
  /\ printed = <<>>
  /\ pc = "branch"

\* num_args = argc - 1 and the if-else chain on it.
Branch ==
  /\ pc = "branch"
  /\ LET num_args == argc - 1
     IN CASE num_args = 0 -> printed' = <<"none">> /\ pc' = "done"
          [] num_args = 1 -> printed' = <<"one">> /\ pc' = "done"
          [] num_args > 1 /\ num_args < 4 ->
               printed' = <<"args">> /\ pc' = "loop"
          [] OTHER -> printed' = <<"too many">> /\ pc' = "done"
  /\ i' = 1
  /\ UNCHANGED argv

\* for (i = 1; i < argc; i++) printf("%s ", argv[i]);
PrintArg ==
  /\ pc = "loop" /\ i < argc
  /\ printed' = Append(printed, argv[i])
  /\ i' = i + 1
  /\ UNCHANGED <<argv, pc>>

\* The loop ends; main prints the newline and returns 0.
LoopDone ==
  /\ pc = "loop" /\ i >= argc
  /\ pc' = "done"
  /\ UNCHANGED <<argv, i, printed>>

Next == Branch \/ PrintArg \/ LoopDone

Spec == Init /\ [][Next]_vars
=============================================================================
