----------------------------- MODULE Functions2 -----------------------------
(***************************************************************************)
(* modern_c/functions2.c: read two ints with scanf, compute the larger     *)
(* with max(), print it, then print_table(x, larger) prints i * i for i    *)
(* from x up to larger.  `int` is INT_BITS wide.  A scanf that fails to    *)
(* convert leaves its variable indeterminate, so x and y are any int.      *)
(* The table loop is one iteration per step.                               *)
(***************************************************************************)
EXTENDS Integers, Sequences

CONSTANTS
  INT_BITS,   \* width of `int`
  ROW_CAP     \* bound on the row count; the table of a looping program
              \* has unboundedly many rows

VARIABLES
  x, y,       \* main's inputs
  larger,     \* main's `larger`
  i,          \* print_table's loop counter
  last,       \* the last square print_table printed
  rows,       \* how many it printed, counted up to ROW_CAP
  pc

vars == <<x, y, larger, i, last, rows, pc>>

IntMin == -(2 ^ (INT_BITS - 1))
IntMax == 2 ^ (INT_BITS - 1) - 1
CInt == IntMin .. IntMax

\* Two's-complement reduction into CInt.
Wrap(n) == ((n - IntMin) % (2 ^ INT_BITS)) + IntMin

\* Mutant: max returning the smaller value.
max_min(a, b) == IF a > b THEN b ELSE a

\* max(x, y).
max(a, b) == IF a > b THEN a ELSE b

\* i * i handed to printf as an int: the product wraps on overflow.
Square(n) == Wrap(n * n)

\* The values i++ can leave.  Past IntMax the overflow is undefined: the
\* counter wraps, or the compiler, assuming no overflow, widens it so the
\* loop test sees IntMax + 1.
Incr(n) == IF n + 1 \in CInt THEN {n + 1} ELSE {Wrap(n + 1), n + 1}

Init ==
  /\ x \in CInt
  /\ y \in CInt
  /\ larger = 0
  /\ i = 0
  /\ last = 0
  /\ rows = 0
  /\ pc = "main"

\* larger = max(x, y); print it; enter print_table(x, larger): i = start.
Main ==
  /\ pc = "main"
  /\ larger' = max(x, y)
  /\ i' = x
  /\ pc' = "table"
  /\ UNCHANGED <<x, y, last, rows>>

\* Mutant: the table loop without i++.
TableRow_no_inc ==
  /\ pc = "table" /\ i <= larger
  /\ last' = Square(i)
  /\ rows' = IF rows < ROW_CAP THEN rows + 1 ELSE rows
  /\ UNCHANGED <<i, x, y, larger, pc>>

\* One iteration of for (i = start; i <= stop; i++): print i * i.
TableRow ==
  /\ pc = "table" /\ i <= larger
  /\ last' = Square(i)
  /\ rows' = IF rows < ROW_CAP THEN rows + 1 ELSE rows
  /\ i' \in Incr(i)
  /\ UNCHANGED <<x, y, larger, pc>>

\* i > stop: print the newline, return, and main returns 0.
TableEnd ==
  /\ pc = "table" /\ i > larger
  /\ pc' = "done"
  /\ UNCHANGED <<x, y, larger, i, last, rows>>

Next == Main \/ TableRow \/ TableEnd

Spec == Init /\ [][Next]_vars /\ WF_vars(Next)
-----------------------------------------------------------------------------
\* The table print_table prints covers x up to the larger of the two
\* inputs: when main returns, and the larger is below INT_MAX so i++
\* cannot overflow, the loop stopped just past max(x, y) and printed one
\* row per integer from x to there, so at least one.
TableCoversXToLarger ==
  LET top == IF x > y THEN x ELSE y
  IN pc = "done" /\ top < IntMax =>
       /\ i = top + 1
       /\ rows = top - x + 1

\* When the larger input is below INT_MAX, the table loop ends and main
\* returns.
TableEndsBelowIntMax ==
  (pc = "table" /\ larger < IntMax) ~> (pc = "done")

\* main() always returns: print_table's loop ends for every input.
Terminates == <>(pc = "done")
=============================================================================
