-------------------------------- MODULE Ex10 --------------------------------
(***************************************************************************)
(* learn_c_the_hard_way/ex10.c: given exactly one argument, walk its       *)
(* characters, fold upper case to lower case, and for each print whether   *)
(* it is a vowel; 'y' counts only from index 3 on.  Characters are their   *)
(* codes (`char` is signed), an argument is the sequence of codes before   *)
(* its NUL, and argv is a sequence whose first element is the program      *)
(* name.  One step per iteration of the for loop.                          *)
(***************************************************************************)
EXTENDS Integers, Sequences

CONSTANTS
  Argvs       \* the argument vectors main() may be given

VARIABLES
  argv,
  i,          \* the loop index into argv[1]
  printed,    \* the reports printed, in order
  pc

vars == <<argv, i, printed, pc>>

\* Mutant: the fold without its upper bound ('Z').
Lower_unbounded(c) == IF c >= 65 THEN c - 65 + 97 ELSE c

\* The folding of lines 15-17: 'A' .. 'Z' to 'a' .. 'z'.
Lower(c) == IF c >= 65 /\ c <= 90 THEN c - 65 + 97 ELSE c

\* Mutant: the 'a' case without its break, falling through to 'e'.
Report_fallthrough(at, letter) ==
  CASE letter = 97  -> << [at |-> at, vowel |-> "A"], [at |-> at, vowel |-> "E"] >>
    [] letter = 101 -> << [at |-> at, vowel |-> "E"] >>
    [] letter = 105 -> << [at |-> at, vowel |-> "I"] >>
    [] letter = 111 -> << [at |-> at, vowel |-> "O"] >>
    [] letter = 117 -> << [at |-> at, vowel |-> "U"] >>
    [] letter = 121 -> IF at > 2 THEN << [at |-> at, vowel |-> "Y"] >> ELSE << >>
    [] OTHER        -> << [at |-> at, not |-> letter] >>

\* What the switch prints for `letter` at index `at`.
Report(at, letter) ==
  CASE letter = 97  -> << [at |-> at, vowel |-> "A"] >>
    [] letter = 101 -> << [at |-> at, vowel |-> "E"] >>
    [] letter = 105 -> << [at |-> at, vowel |-> "I"] >>
    [] letter = 111 -> << [at |-> at, vowel |-> "O"] >>
    [] letter = 117 -> << [at |-> at, vowel |-> "U"] >>
    [] letter = 121 -> IF at > 2 THEN << [at |-> at, vowel |-> "Y"] >> ELSE << >>
    [] OTHER        -> << [at |-> at, not |-> letter] >>

Init ==
  /\ argv \in Argvs
  /\ i = 0
  /\ printed = <<>>
  /\ pc = "start"

\* argc != 2: print the error and return 1.
WrongArgc ==
  /\ pc = "start" /\ Len(argv) # 2
  /\ pc' = "exit1"
  /\ UNCHANGED <<argv, i, printed>>

\* s = argv[1]; i = 0.
Start ==
  /\ pc = "start" /\ Len(argv) = 2
  /\ pc' = "loop"
  /\ UNCHANGED <<argv, i, printed>>

\* s[i] != '\0': fold the letter, print its report, i++.
Step ==
  /\ pc = "loop" /\ i < Len(argv[2])
  /\ printed' = printed \o Report(i, Lower(argv[2][i + 1]))
  /\ i' = i + 1
  /\ UNCHANGED <<argv, pc>>

\* s[i] == '\0': return 0.
Done ==
  /\ pc = "loop" /\ i = Len(argv[2])
  /\ pc' = "exit0"
  /\ UNCHANGED <<argv, i, printed>>

Next == WrongArgc \/ Start \/ Step \/ Done

Spec == Init /\ [][Next]_vars
-----------------------------------------------------------------------------
TypeOK ==
  /\ i \in Nat
  /\ \A k \in DOMAIN printed :
       printed[k] \in [at : Nat, vowel : {"A", "E", "I", "O", "U", "Y"}]
                        \cup [at : Nat, not : -128 .. 127]
  /\ pc \in {"start", "loop", "exit0", "exit1"}

\* Reference: the vowels of either case, by name, as a table of codes.
VowelOf == [A |-> {65, 97}, E |-> {69, 101}, I |-> {73, 105},
            O |-> {79, 111}, U |-> {85, 117}, Y |-> {89, 121}]

\* Upper-case letters, as the reference of what folds.
Upper == {65, 66, 67, 68, 69, 70, 71, 72, 73, 74, 75, 76, 77, 78, 79, 80,
          81, 82, 83, 84, 85, 86, 87, 88, 89, 90}

\* The report of position k of argument s, by the reference tables.
Expected(s, k) ==
  IF \E v \in DOMAIN VowelOf : s[k + 1] \in VowelOf[v]
  THEN LET v == CHOOSE w \in DOMAIN VowelOf : s[k + 1] \in VowelOf[w]
       IN IF v = "Y" /\ k <= 2 THEN {} ELSE {[at |-> k, vowel |-> v]}
  ELSE {[at |-> k, not |-> IF s[k + 1] \in Upper THEN s[k + 1] + 32
                                                 ELSE s[k + 1]]}

\* The reports so far are, in order, exactly those of the first i
\* characters of the argument: one per character, none for a 'y' or 'Y'
\* before index 3, vowels named whatever their case, other letters printed
\* folded to lower case.  When main returns 0 they cover the argument.
ReportsMatchArgument ==
  pc \in {"loop", "exit0"} =>
    /\ \A k \in DOMAIN printed : \A m \in DOMAIN printed :
         k < m => printed[k].at < printed[m].at
    /\ {printed[k] : k \in DOMAIN printed}
         = UNION {Expected(argv[2], k) : k \in 0 .. i - 1}
=============================================================================
