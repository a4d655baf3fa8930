---------------------------- MODULE PointerArith ----------------------------
(***************************************************************************)
(* advanced_c_features.c: main() runs pointer_arithmetic(), which fills    *)
(* letters and numbers through pointers it advances, prints both arrays by *)
(* index and by pointer, then fills matrix[N][M] through one int pointer   *)
(* walking from &matrix[0][0] and prints it by [i][j].  switch_example(),  *)
(* whose call main has commented out, is modelled as main would run it     *)
(* with the call restored, from a number scanf read or from a failed       *)
(* scanf.  A loop that fills memory is one step per iteration; a loop that *)
(* only prints is one step.  An element not yet written is Junk.           *)
(***************************************************************************)
EXTENDS Integers, Sequences

VARIABLES
  fn,        \* "pointer_arithmetic" or "switch_example"
  letters,   \* char letters[N], as codes
  numbers,   \* int numbers[N]
  matrix,    \* int matrix[N][M], as its N * M ints from &matrix[0][0]
  i,         \* the fill loop's counter, also the pointer's offset
  out,       \* what was printed, as a record per listing
  pc

vars == <<fn, letters, numbers, matrix, i, out, pc>>

N == 10
M == 20
Junk == -1
A == 97     \* 'a'

\* The numbers switch_example can hold after scanf: those around 6 .. 9; an
\* uninitialized num, when scanf read nothing, is any int, here Junk or one
\* of the others.
SwitchInputs == {5, 6, 7, 8, 9, 10, Junk}

Init ==
  /\ fn \in {"pointer_arithmetic", "switch_example"}
  /\ letters = [n \in 0 .. N - 1 |-> Junk]
  /\ numbers = [n \in 0 .. N - 1 |-> Junk]
  /\ matrix = [n \in 0 .. N * M - 1 |-> Junk]
  /\ i = 0
  /\ out = <<>>
  /\ pc = IF fn = "pointer_arithmetic" THEN "fill" ELSE "switch"

\* *cptr = 'a' + i; *iptr = i * 3; cptr++; iptr++;
Fill ==
  /\ pc = "fill" /\ i < N
  /\ letters' = [letters EXCEPT ![i] = A + i]
  /\ numbers' = [numbers EXCEPT ![i] = i * 3]
  /\ i' = i + 1
  /\ UNCHANGED <<fn, matrix, out, pc>>

\* The two listings, by letters[i] and by *cptr with cptr from letters:
\* both read the elements 0 .. N - 1 in order.  Then iptr = &matrix[0][0].
PrintArrays ==
  /\ pc = "fill" /\ i >= N
  /\ out' = <<[indexed |-> <<letters, numbers>>],
              [walked |-> <<letters, numbers>>]>>
  /\ i' = 0
  /\ pc' = "matrix"
  /\ UNCHANGED <<fn, letters, numbers, matrix>>

\* for (i = 0; i < N * M; i++): the cells the walking pointer fills.
MatrixCells == N * M

\* *iptr = i; iptr++: the int i past &matrix[0][0].
FillMatrix ==
  /\ pc = "matrix" /\ i < MatrixCells
  /\ matrix' = [matrix EXCEPT ![i] = i]
  /\ i' = i + 1
  /\ UNCHANGED <<fn, letters, numbers, out, pc>>

\* Print matrix[i][j] row by row, the int i * M + j past &matrix[0][0];
\* pointer_arithmetic and main return.
PrintMatrix ==
  /\ pc = "matrix" /\ i >= MatrixCells
  /\ out' = Append(out, [rows |-> [r \in 0 .. N - 1 |->
                                     [c \in 0 .. M - 1 |-> matrix[r * M + c]]]])
  /\ pc' = "done"
  /\ UNCHANGED <<fn, letters, numbers, matrix, i>>

\* switch_example: new_num from num by the switch's four cases; any other
\* number prints a complaint and leaves new_num 0; then both are printed.
SwitchExample ==
  /\ pc = "switch"
  /\ \E num \in SwitchInputs :
       LET new == CASE num = 6 -> num + 1
                    [] num = 7 -> num
                    [] num = 8 -> num - 1
                    [] num = 9 -> num + 2
                    [] OTHER   -> 0
       IN out' = <<[num |-> num, new_num |-> new,
                    complained |-> num \notin 6 .. 9]>>
  /\ pc' = "done"
  /\ UNCHANGED <<fn, letters, numbers, matrix, i>>

Next == Fill \/ PrintArrays \/ FillMatrix \/ PrintMatrix \/ SwitchExample

Spec == Init /\ [][Next]_vars
=============================================================================
