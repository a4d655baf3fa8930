------------------------------- MODULE Ex16_2 -------------------------------
(***************************************************************************)
(* learn_c_the_hard_way/ex16_2.c: create_person builds a struct Person on  *)
(* the stack with a strdup'd copy of the name and returns it by value;     *)
(* main creates joe and frank, prints both, changes some fields of each    *)
(* and prints them again.  A name is a model value; strdup returns its     *)
(* copy or NULL.  main's statements are numbered 1 .. 8 in `pc`.           *)
(***************************************************************************)
EXTENDS Integers, Sequences

CONSTANTS
  JoeName, FrankName,   \* model values: the two literals
  NULL,                 \* model value: the null pointer
  NullText              \* model value: what printf prints for a NULL %s

VARIABLES
  joe, frank,           \* main's two structs
  printed,              \* the persons print_person printed, in order
  pc,                   \* the next statement of main; 9 once it returns
  status,               \* "running", "exit0", or "fault"
  copies                \* the strdup'd names allocated and never freed

vars == <<joe, frank, printed, pc, status, copies>>

\* create_person(name, ...): strdup the name, copy the ints, return the
\* struct; strdup's result is not checked.
create_person(name, age, height, weight) ==
  {[name |-> n, age |-> age, height |-> height, weight |-> weight] :
     n \in {name, NULL}}

\* What print_person prints for its argument.  A NULL name passed to %s is
\* undefined: glibc prints "(null)", other C libraries crash (PrintPerson).
print_person(who) ==
  IF who.name # NULL THEN who ELSE [who EXCEPT !.name = NullText]

\* Before line 40 the two structs hold no person yet.
Init ==
  /\ joe = [name |-> NULL, age |-> 0, height |-> 0, weight |-> 0]
  /\ frank = joe
  /\ printed = <<>>
  /\ pc = 1
  /\ status = "running"
  /\ copies = {}

\* Lines 40-41: joe and frank from create_person.
Create ==
  /\ \/ pc = 1 /\ joe' \in create_person(JoeName, 32, 64, 140)
                /\ copies' = copies \cup ({joe'.name} \ {NULL})
                /\ UNCHANGED frank
     \/ pc = 2 /\ frank' \in create_person(FrankName, 20, 72, 180)
                /\ copies' = copies \cup ({frank'.name} \ {NULL})
                /\ UNCHANGED joe
  /\ pc' = pc + 1
  /\ UNCHANGED <<printed, status>>

\* Lines 44, 47, 53 and 56: print_person of a copy of joe or frank.
PrintPerson ==
  /\ pc \in {3, 4, 6, 8} /\ status = "running"
  /\ LET who == IF pc \in {3, 6} THEN joe ELSE frank
     IN \/ /\ printed' = Append(printed, print_person(who))
           /\ pc' = pc + 1
           /\ status' = IF pc = 8 THEN "exit0" ELSE status
        \/ /\ who.name = NULL
           /\ status' = "fault"
           /\ UNCHANGED <<printed, pc>>
  /\ UNCHANGED <<joe, frank, copies>>

\* Lines 50-52: joe ages 20 years.
AgeJoe ==
  /\ pc = 5
  /\ joe' = [joe EXCEPT !.age = @ + 20, !.height = @ - 2, !.weight = @ + 40]
  /\ pc' = 6
  /\ UNCHANGED <<frank, printed, status, copies>>

\* Lines 54-55: frank ages 20 years.
AgeFrank ==
  /\ pc = 7
  /\ frank' = [frank EXCEPT !.age = @ + 20, !.weight = @ + 20]
  /\ pc' = 8
  /\ UNCHANGED <<joe, printed, status, copies>>

Next == Create \/ PrintPerson \/ AgeJoe \/ AgeFrank

Spec == Init /\ [][Next]_vars
-----------------------------------------------------------------------------
\* The comment of create_person: the struct owns a copy of the name.  So
\* every name print_person prints is one of the two names main passed in:
\* no person is ever printed without its name.
PrintsNamesGiven ==
  \A k \in DOMAIN printed : printed[k].name \in {JoeName, FrankName}
=============================================================================
