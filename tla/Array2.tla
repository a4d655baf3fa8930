------------------------------- MODULE Array2 -------------------------------
(***************************************************************************)
(* modern_c/array2.c: main() negates the literal array data into           *)
(* opposite, then prints each array and the minimum() of it.  One step per *)
(* iteration of main's loop and of minimum's loop; a printArray call is    *)
(* one step, printing the array's contents.                                *)
(***************************************************************************)
EXTENDS Integers, Sequences

VARIABLES
  opposite,   \* main's opposite[N], the elements the loop has written
  i,          \* the index of the loop running
  arr,        \* the array minimum() is scanning: "data" or "opposite"
  low,        \* minimum's low
  printed,    \* printArray's contents and the minima, in order
  pc

vars == <<opposite, i, arr, low, printed, pc>>

N == 10
data == <<5, 8, 9, 1, 10, 12, 4, 3, 7, 13>>

\* a[k] of the C array a, indexed from 0.
At(a, k) == a[k + 1]

Array(name) == IF name = "data" THEN data ELSE opposite

Init ==
  /\ opposite = <<>>   \* indeterminate until written, and never read before
  /\ i = 0
  /\ arr = "none"
  /\ low = 0
  /\ printed = <<>>
  /\ pc = "negate"

\* for (i = 0; i < N; i++) opposite[i] = -(data[i]);
Negate ==
  /\ pc = "negate" /\ i < N
  /\ opposite' = Append(opposite, -At(data, i))   \* opposite[i], as i = Len
  /\ i' = i + 1
  /\ UNCHANGED <<arr, low, printed, pc>>

\* The loop ends: printArray(data, N), then minimum(data, N) starts with
\* low = a[0] and i = 1.
PrintData ==
  /\ pc = "negate" /\ i >= N
  /\ printed' = Append(printed, [contents |-> data])
  /\ arr' = "data" /\ low' = At(data, 0) /\ i' = 1
  /\ pc' = "min"
  /\ UNCHANGED opposite

\* Mutant: minimum's loop stopping one element early.
MinLoops_short(k, size) == k < size - 1

\* minimum's loop test: i < size.
MinLoops(k, size) == k < size

\* if (a[i] < low) low = a[i];
MinStep ==
  /\ pc = "min" /\ MinLoops(i, N)
  /\ low' = IF At(Array(arr), i) < low THEN At(Array(arr), i) ELSE low
  /\ i' = i + 1
  /\ UNCHANGED <<opposite, arr, printed, pc>>

\* minimum returns low and main prints it.  After data's minimum main
\* calls printArray(opposite, N) and minimum(opposite, N); after
\* opposite's it returns 0.
MinReturn ==
  /\ pc = "min" /\ ~MinLoops(i, N)
  /\ IF arr = "data"
     THEN /\ printed' = printed \o <<[min |-> low], [contents |-> opposite]>>
          /\ arr' = "opposite" /\ low' = At(opposite, 0) /\ i' = 1
          /\ UNCHANGED pc
     ELSE /\ printed' = Append(printed, [min |-> low])
          /\ pc' = "done"
          /\ UNCHANGED <<arr, low, i>>
  /\ UNCHANGED opposite

Next == Negate \/ PrintData \/ MinStep \/ MinReturn

Spec == Init /\ [][Next]_vars
-----------------------------------------------------------------------------
\* Each minimum main prints is an element of the array printed just before
\* it, and no element of that array is smaller: minimum's scan from a[1]
\* to a[size - 1] misses neither end, so the 1 in the middle of data and
\* the -13 at the end of opposite are both found.
MinimumIsLeast ==
  \A k \in DOMAIN printed :
    "min" \in DOMAIN printed[k] =>
      LET a == printed[k - 1].contents
      IN /\ \E m \in DOMAIN a : a[m] = printed[k].min
         /\ \A m \in DOMAIN a : printed[k].min <= a[m]
=============================================================================
