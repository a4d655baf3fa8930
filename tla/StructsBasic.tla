---------------------------- MODULE StructsBasic ----------------------------
(***************************************************************************)
(* modern_c/structs.c: basic(), pointer_fields() and array_of_structs(),   *)
(* the functions main() has commented out, each modelled as main would run *)
(* it with its call restored (pointers, create_list and print_list are     *)
(* module StructsList).  Each function is straight-line and one step.  A   *)
(* name is a record of the literal and its length, because what matters   *)
(* of it is whether it fits the bytes it is copied into; gpa is in tenths. *)
(* A write past the end of its block is undefined; it is recorded in       *)
(* `overrun`.  A store through a NULL from an unchecked malloc faults.     *)
(***************************************************************************)
EXTENDS Integers, Sequences, TLC

CONSTANTS NULL

VARIABLES
  fn,        \* the function main() runs
  out,       \* what it printed, as a record of the printed values
  overrun,   \* some write went past the end of its block
  status     \* "running", "exit0", "exit1" or "fault"

vars == <<fn, out, overrun, status>>

Name(text, n) == [text |-> text, len |-> n]
KwameSalter  == Name("Kwame Salter", 12)
FrancesAllen == Name("Frances Allen", 13)
Kwame        == Name("Kwame", 5)
Zhichen      == Name("Zhichen", 7)
Vic          == Name("Vic", 3)
John         == Name("John", 4)
Dave         == Name("Dave", 4)
Smith        == Name("Smith", 5)

NAME_SIZE == 64   \* char name[64] of struct studentT

\* strcpy of a name into `size` bytes runs past them when the name and its
\* NUL do not fit.
Overruns(nm, size) == nm.len + 1 > size

Init ==
  /\ fn \in {"basic", "pointer_fields", "array_of_structs"}
  /\ out = <<>>
  /\ overrun = FALSE
  /\ status = "running"
-----------------------------------------------------------------------------
\* checkID(s, min_age): `s` is a by-value parameter, checkID's own copy.
\* Under min_age, ret = 0 and the copy's age is raised; it prints the copy
\* and returns ret.
checkID(s, min_age) ==
  IF s.age < min_age THEN [ret |-> 0, s |-> [s EXCEPT !.age = min_age + 1]]
                     ELSE [ret |-> 1, s |-> s]

\* change_name(old, new): return on a NULL; else strcpy(old, new).  `old`
\* is the array student2.name, never NULL.
change_name(s, new) == IF new = NULL THEN s ELSE [s EXCEPT !.name = new]

\* basic(): fill student1, print it, copy it to student2, rename and
\* advance student2, print it, checkID(student1, 28), print whether
\* student1 can vote, change_name(student2.name, "Kwame"), print it.
Basic ==
  /\ fn = "basic" /\ status = "running"
  /\ LET s1  == [name |-> KwameSalter, age |-> 18 + 2, gpa |-> 35,
                 grad_yr |-> 2020]
         s2  == [s1 EXCEPT !.name = FrancesAllen, !.grad_yr = s1.grad_yr + 1]
         chk == checkID(s1, 28)
         s2b == change_name(s2, Kwame)
     IN /\ out' = [first |-> s1, second |-> s2, inside |-> chk.s,
                   can_vote |-> chk.ret, voter |-> s1, renamed |-> s2b.name]
        /\ overrun' = \E nm \in {KwameSalter, FrancesAllen, Kwame} :
                        Overruns(nm, NAME_SIZE)
  /\ status' = "exit0"
  /\ UNCHANGED fn

\* Mutant: p1.name allocated without room for the NUL of "Zhichen".
P1_NAME_SIZE_short == 7

\* p1.name = malloc(sizeof(char) * 8).
P1_NAME_SIZE == 8

\* p2->name = malloc(sizeof(char) * 4).
P2_NAME_SIZE == 4

\* pointer_fields(): no malloc is checked.  p1.name gets "Zhichen" and p1
\* is printed; p2 and p2->name are allocated, p2->name gets "Vic", p2 is
\* printed; all three are freed.  A NULL faults at the first store
\* through it: the strcpy into p1.name, the store of p2->name, or the
\* strcpy into p2->name after p1 was printed.
PointerFields ==
  /\ fn = "pointer_fields" /\ status = "running"
  /\ LET p1 == [name |-> Zhichen, age |-> 22]
         p2 == [name |-> Vic, age |-> 19]
     IN \/ /\ out' = [persons |-> <<p1, p2>>]
           /\ overrun' = (Overruns(Zhichen, P1_NAME_SIZE)
                          \/ Overruns(Vic, P2_NAME_SIZE))
           /\ status' = "exit0"
        \/ /\ out' = [persons |-> <<>>]
           /\ overrun' = FALSE
           /\ status' = "fault"
        \/ /\ out' = [persons |-> <<p1>>]
           /\ overrun' = Overruns(Zhichen, P1_NAME_SIZE)
           /\ status' = "fault"
  /\ UNCHANGED fn

\* create_student(s, name, age, gpa, grad_yr): strcpy the name, set the
\* rest.
create_student(name, age, gpa, grad_yr) ==
  [name |-> name, age |-> age, gpa |-> gpa, grad_yr |-> grad_yr]

\* update_ages(classroom, size): classroom[i].age += 1 for i in 0 .. size-1.
update_ages(c, size) ==
  [j \in DOMAIN c |-> IF j < size THEN [c[j] EXCEPT !.age = @ + 1] ELSE c[j]]

\* array_of_structs(): classroom2 = malloc of 3 students (exit 1 on NULL),
\* three create_student calls, update_ages(classroom2, 3), print the three,
\* free.
ArrayOfStructs ==
  /\ fn = "array_of_structs" /\ status = "running"
  /\ \/ /\ out' = [created |-> <<>>, printed |-> <<>>]
        /\ overrun' = FALSE
        /\ status' = "exit1"
     \/ LET c == (0 :> create_student(John, 20, 35, 2020))
                   @@ (1 :> create_student(Dave, 20, 35, 2020))
                   @@ (2 :> create_student(Smith, 20, 35, 2020))
        IN /\ out' = [created |-> c, printed |-> update_ages(c, 3)]
           /\ overrun' = \E nm \in {John, Dave, Smith} : Overruns(nm, NAME_SIZE)
           /\ status' = "exit0"
  /\ UNCHANGED fn

Next == Basic \/ PointerFields \/ ArrayOfStructs

Spec == Init /\ [][Next]_vars
-----------------------------------------------------------------------------
\* No strcpy of a name runs past the bytes it is copied into: the 64 bytes
\* of studentT.name, and the 8 and 4 bytes pointer_fields mallocs for
\* "Zhichen" and "Vic", each exactly the name and its NUL.
NamesFitTheirBlocks == ~overrun
=============================================================================
