---------------------------- MODULE CallbackSort ----------------------------
(***************************************************************************)
(* learn_c_the_hard_way/ex18.c: main() parses its arguments into an int    *)
(* array and calls test_sorting four times, with bubble_sort and           *)
(* insertion_sort each given sorted_order and then reverse_order through   *)
(* function pointers.  Each sort mallocs a copy, sorts it with the         *)
(* comparator, and test_sorting prints and frees it.                      *)
(*                                                                         *)
(* The process is modelled one loop iteration per step.  C arrays are      *)
(* functions with domain 0 .. count-1.  `int` is INT_BITS wide: the        *)
(* comparators' `a - b` leaves the type for operands of opposite sign near *)
(* the ends of the range, which is undefined behaviour in C.               *)
(***************************************************************************)
EXTENDS Integers, FiniteSets, Sequences, SequencesExt

CONSTANTS
  INT_BITS,   \* width of `int`
  Inputs      \* the argument lists main() may be given, as int sequences

VARIABLES
  numbers,    \* main's `numbers`, indexed from 0
  call,       \* which of the four test_sorting calls of main() is running
  target,     \* the sort's malloc'd copy, <<>> when there is none
  i, j, key,  \* the sort's loop variables
  pc,         \* where the process is
  printed     \* the lines test_sorting printed, in order

vars == <<numbers, call, target, i, j, key, pc, printed>>

IntMin == -(2 ^ (INT_BITS - 1))
IntMax == 2 ^ (INT_BITS - 1) - 1
CInt == IntMin .. IntMax

\* Two's-complement reduction of an integer into CInt.
Wrap(x) == ((x - IntMin) % (2 ^ INT_BITS)) + IntMin

\* The values `a - b` can take in the build.  In range it is exact.  Out of
\* range the overflow is undefined: the compiled subtraction wraps, or, once
\* the comparator is inlined into the `> 0` test, the test sees the exact
\* difference.
Sub(a, b) == IF a - b \in CInt THEN {a - b} ELSE {Wrap(a - b), a - b}

sorted_order(a, b) == Sub(a, b)

reverse_order(a, b) == Sub(b, a)

Compare(cmp, a, b) ==
  IF cmp = "sorted_order" THEN sorted_order(a, b) ELSE reverse_order(a, b)

\* The four calls of main(), in order.
Tests == << [sort |-> "bubble_sort",    cmp |-> "sorted_order"],
            [sort |-> "bubble_sort",    cmp |-> "reverse_order"],
            [sort |-> "insertion_sort", cmp |-> "sorted_order"],
            [sort |-> "insertion_sort", cmp |-> "reverse_order"] >>

count == Cardinality(DOMAIN numbers)
Idx == 0 .. count - 1
Cmp == Tests[call].cmp

\* Mutant: the print loop stops one short (i < count - 1).
PrintedLine_short(t, n) == [k \in 1 .. n - 1 |-> t[k - 1]]

\* target[0 .. n-1] as the line test_sorting prints.
PrintedLine(t, n) == [k \in 1 .. n |-> t[k - 1]]

\* Mutant: the swap without `tmp` (target[j] = target[j + 1] first).
Swap_no_tmp(t, a, b) == [t EXCEPT ![a] = t[b], ![b] = t[b]]

\* The swap through `tmp` of bubble_sort.
Swap(t, a, b) == [t EXCEPT ![a] = t[b], ![b] = t[a]]

\* Mutant: the while loop stops at j > 0 and never compares target[0].
WhileCond_j_gt_0 == IF j > 0 THEN {r > 0 : r \in Compare(Cmp, target[j], key)}
                             ELSE {FALSE}

\* The results `cmp(target[j], key) > 0` can have, and FALSE once j < 0:
\* `&&` does not call cmp then.
WhileCond == IF j >= 0 THEN {r > 0 : r \in Compare(Cmp, target[j], key)}
                       ELSE {FALSE}

Init ==
  /\ \E a \in Inputs : numbers = [k \in 0 .. Len(a) - 1 |-> a[k + 1]]
  /\ call = 1
  /\ target = <<>>
  /\ i = 0 /\ j = 0 /\ key = 0
  /\ pc = "copy"
  /\ printed = <<>>

(***************************************************************************)
(* bubble_sort and insertion_sort: malloc, memcpy, then the loops.  A      *)
(* failed malloc dies, exiting with status 1.                              *)
(***************************************************************************)
BubbleCopy ==
  /\ pc = "copy" /\ Tests[call].sort = "bubble_sort"
  /\ target' = numbers
  /\ i' = 0
  /\ pc' = "b_outer"
  /\ UNCHANGED <<numbers, call, j, key, printed>>

InsertionCopy ==
  /\ pc = "copy" /\ Tests[call].sort = "insertion_sort"
  /\ target' = numbers
  /\ i' = 1
  /\ pc' = "i_outer"
  /\ UNCHANGED <<numbers, call, j, key, printed>>

\* die(): print the message, exit(1).
die == pc' = "died"

AllocFail ==
  /\ pc = "copy"
  /\ die
  /\ UNCHANGED <<numbers, call, target, i, j, key, printed>>

\* for (i = 0; i < count; i++): entering a pass.
BubbleOuter ==
  /\ pc = "b_outer" /\ i < count
  /\ j' = 0
  /\ pc' = "b_inner"
  /\ UNCHANGED <<numbers, call, target, i, key, printed>>

BubbleReturn ==
  /\ pc = "b_outer" /\ i >= count
  /\ pc' = "print"
  /\ UNCHANGED <<numbers, call, target, i, j, key, printed>>

\* One iteration of for (j = 0; j < count - 1; j++).
BubbleInner ==
  /\ pc = "b_inner" /\ j < count - 1
  /\ \E r \in Compare(Cmp, target[j], target[j + 1]) :
       target' = IF r > 0 THEN Swap(target, j, j + 1) ELSE target
  /\ j' = j + 1
  /\ UNCHANGED <<numbers, call, i, key, pc, printed>>

\* Mutant: the outer for loop loses its i++.
BubbleNextPass_no_inc ==
  /\ pc = "b_inner" /\ j >= count - 1
  /\ pc' = "b_outer"
  /\ UNCHANGED <<numbers, call, target, i, j, key, printed>>

BubbleNextPass ==
  /\ pc = "b_inner" /\ j >= count - 1
  /\ i' = i + 1
  /\ pc' = "b_outer"
  /\ UNCHANGED <<numbers, call, target, j, key, printed>>

\* for (i = 1; i < n; i++) { key = target[i]; j = i - 1; ...
InsOuter ==
  /\ pc = "i_outer" /\ i < count
  /\ key' = target[i]
  /\ j' = i - 1
  /\ pc' = "i_while"
  /\ UNCHANGED <<numbers, call, target, i, printed>>

InsReturn ==
  /\ pc = "i_outer" /\ i >= count
  /\ pc' = "print"
  /\ UNCHANGED <<numbers, call, target, i, j, key, printed>>

\* One test of the while condition: shift target[j] up, or drop key into
\* target[j + 1] and end the iteration of the for loop.
InsWhile ==
  /\ pc = "i_while"
  /\ \E go \in WhileCond :
       IF go THEN /\ target' = [target EXCEPT ![j + 1] = target[j]]
                  /\ j' = j - 1
                  /\ UNCHANGED <<i, pc>>
             ELSE /\ target' = [target EXCEPT ![j + 1] = key]
                  /\ i' = i + 1
                  /\ pc' = "i_outer"
                  /\ UNCHANGED j
  /\ UNCHANGED <<numbers, call, key, printed>>

\* The rest of test_sorting: print the result and free it.  After the
\* fourth call main() frees numbers and returns 0.
PrintSorted ==
  /\ pc = "print"
  /\ printed' = Append(printed, PrintedLine(target, count))
  /\ target' = <<>>
  /\ call' = IF call < Len(Tests) THEN call + 1 ELSE call
  /\ pc' = IF call < Len(Tests) THEN "copy" ELSE "done"
  /\ UNCHANGED <<numbers, i, j, key>>

Next ==
  \/ BubbleCopy \/ InsertionCopy \/ AllocFail
  \/ BubbleOuter \/ BubbleReturn \/ BubbleInner \/ BubbleNextPass
  \/ InsOuter \/ InsReturn \/ InsWhile
  \/ PrintSorted

\* One thread running until exit: weak fairness on its steps.
Spec == Init /\ [][Next]_vars /\ WF_vars(Next)

-----------------------------------------------------------------------------
(***************************************************************************)
(* Properties.                                                             *)
(***************************************************************************)
AsSeq(f) == [k \in 1 .. Cardinality(DOMAIN f) |-> f[k - 1]]

TypeOK ==
  /\ numbers \in [Idx -> CInt]
  /\ call \in 1 .. Len(Tests)
  /\ target \in {<<>>} \cup [Idx -> CInt]
  /\ pc \in {"copy", "b_outer", "b_inner", "i_outer", "i_while", "print",
             "done", "died"}
  /\ \A k \in DOMAIN printed : printed[k] \in [1 .. count -> CInt]

\* Every line test_sorting prints holds exactly the input numbers, each as
\* often as it was given, whatever the comparator answers.
PrintedIsPermutation ==
  \A k \in DOMAIN printed : ToBag(printed[k]) = ToBag(AsSeq(numbers))

\* Every line test_sorting prints is in the order its comparator names:
\* ascending for sorted_order, descending for reverse_order.
PrintedIsOrdered ==
  \A k \in DOMAIN printed :
    IF Tests[k].cmp = "sorted_order" THEN IsSorted(printed[k], <=)
                                     ELSE IsSorted(printed[k], >=)

\* When no two input numbers are far enough apart for `a - b` to leave
\* int, every printed line is in its comparator's order.
OrderedUnlessOverflow ==
  (\A a, b \in Range(numbers) : a - b \in CInt) => PrintedIsOrdered

\* The process always exits: each sort's loops end whatever the comparator
\* returns, and main() reaches its return or a die().
Terminates == <>(pc \in {"done", "died"})
=============================================================================
