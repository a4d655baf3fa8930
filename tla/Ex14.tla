-------------------------------- MODULE Ex14 --------------------------------
(***************************************************************************)
(* learn_c_the_hard_way/ex14.c: print_arguments calls print_letters on     *)
(* every element of argv, the program name included; print_letters prints  *)
(* each character that can_print_it accepts, then a newline.  Characters   *)
(* are their codes; one step per iteration of either loop.  main() calls   *)
(* no setlocale, so the <ctype.h> tests are those of the "C" locale.       *)
(***************************************************************************)
EXTENDS Integers, Sequences

CONSTANTS
  Argvs       \* the argument vectors main() may be given

VARIABLES
  argv,
  a,          \* print_arguments' index into argv
  k,          \* print_letters' index into argv[a]
  printed,    \* the lines printed: the last one is being written
  pc

vars == <<argv, a, k, printed, pc>>

\* isalpha(ch) || isblank(ch) in the "C" locale.
can_print_it(ch) ==
  \/ ch \in 65 .. 90 \/ ch \in 97 .. 122
  \/ ch \in {32, 9}

\* Mutant: print_arguments' loop starting at i = 1, skipping the name.
Init_from_1 ==
  /\ argv \in Argvs
  /\ a = 1
  /\ k = 0
  /\ printed = <<>>
  /\ pc = "args"

\* main() calls print_arguments(argc, argv): its loop starts at i = 0.
Init ==
  /\ argv \in Argvs
  /\ a = 0
  /\ k = 0
  /\ printed = <<>>
  /\ pc = "args"

\* for (i = 0; i < argc; i++): call print_letters(argv[i]).
print_arguments ==
  /\ pc = "args" /\ a < Len(argv)
  /\ k' = 0
  /\ printed' = Append(printed, <<>>)
  /\ pc' = "letters"
  /\ UNCHANGED <<argv, a>>

\* The loop ends; main returns 0.
Return ==
  /\ pc = "args" /\ a >= Len(argv)
  /\ pc' = "exit0"
  /\ UNCHANGED <<argv, a, k, printed>>

\* arg[i] != '\0': print the character if can_print_it.
print_letters ==
  /\ pc = "letters" /\ k < Len(argv[a + 1])
  /\ LET ch == argv[a + 1][k + 1]
     IN printed' = IF can_print_it(ch)
                   THEN [printed EXCEPT ![Len(printed)] = Append(@, ch)]
                   ELSE printed
  /\ k' = k + 1
  /\ UNCHANGED <<argv, a, pc>>

\* arg[i] == '\0': print the newline and return to print_arguments.
EndLine ==
  /\ pc = "letters" /\ k >= Len(argv[a + 1])
  /\ a' = a + 1
  /\ pc' = "args"
  /\ UNCHANGED <<argv, k, printed>>

Next == print_arguments \/ Return \/ print_letters \/ EndLine

Spec == Init /\ [][Next]_vars
-----------------------------------------------------------------------------
\* Reference: the letters and the two blank characters, listed.
Letters == {c \in 0 .. 127 : c \in 65 .. 90 \/ c \in 97 .. 122}
Blanks == {32, 9}

\* Between calls of print_letters, one line has been printed per element
\* of argv so far, the program name first, and each holds exactly the
\* letters and blanks of its argument, in order: no digit, punctuation or
\* line break gets through, and nothing is dropped.
LinesAreLettersOfArgs ==
  pc \in {"args", "exit0"} =>
    /\ Len(printed) = a
    /\ \A n \in 1 .. a :
         printed[n] = SelectSeq(argv[n], LAMBDA c : c \in Letters \cup Blanks)
=============================================================================
