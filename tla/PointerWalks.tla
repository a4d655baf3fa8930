---------------------------- MODULE PointerWalks ----------------------------
(***************************************************************************)
(* ex15.c: main() passes ages, names and count = 5 to print1 .. print6,    *)
(* each of which walks the two arrays and prints one line per person:      *)
(* print1 and print3 by index, print2 by *(p + i), print4 by moving both   *)
(* pointers forward, print5 by moving them backward from the last element  *)
(* until the age pointer is back at ages, print6 with the element's offset *)
(* from the array (the %p of ages + i).  One step per loop iteration; the  *)
(* "-----" closing a function is the step that leaves its loop.  A read    *)
(* outside an array is undefined; it yields PastEnd.                       *)
(***************************************************************************)
EXTENDS Integers, Sequences, SequencesExt

VARIABLES
  f,        \* the print function running, 1 .. 6, or 7 once main returns
  k,        \* its index, or its pointers' offset from ages and names
  listing   \* listing[n]: the lines print<n> has printed

vars == <<f, k, listing>>

ages  == <<23, 43, 12, 89, 2>>
names == <<"Alan", "Frank", "Mary", "John", "Lisa">>
count == Len(ages)          \* sizeof(ages) / sizeof(int)
PastEnd == -2

\* *(a + n) of the C array a, indexed from 0.
Elem(a, n) == IF n \in 0 .. Len(a) - 1 THEN a[n + 1] ELSE PastEnd

Line(n) == <<Elem(names, n), Elem(ages, n)>>

\* Mutant: print5's pointers starting at &ages[count], one past the end.
Start5_past_end(c) == c

\* print5: cur_age = &ages[count - 1], cur_name = &names[count - 1].
Start5(c) == c - 1

Forward == {1, 2, 3, 4, 6}

\* The offset each print function starts from.
Start(n) == IF n = 5 THEN Start5(count) ELSE 0

Init ==
  /\ f = 1
  /\ k = 0
  /\ listing = [n \in 1 .. 6 |-> <<>>]

\* One iteration of a forward loop (i < count, or cur_age - ages < count in
\* print4): print the person at k; print6 adds the age's offset.
ForwardStep ==
  /\ f \in Forward /\ k < count
  /\ listing' = [listing EXCEPT ![f] =
                   Append(@, IF f = 6 THEN Line(k) \o <<k>> ELSE Line(k))]
  /\ k' = k + 1
  /\ UNCHANGED f

\* The forward loop ends: print "-----" and return; main calls the next.
ForwardDone ==
  /\ f \in Forward /\ k >= count
  /\ f' = f + 1
  /\ k' = Start(f + 1)
  /\ UNCHANGED listing

\* print5's while (1): print the person at the pointers; break when
\* cur_age == ages (and print "-----"), else move both back one.
BackwardStep ==
  /\ f = 5
  /\ listing' = [listing EXCEPT ![5] = Append(@, Line(k))]
  /\ IF k = 0 THEN f' = 6 /\ k' = Start(6)
              ELSE k' = k - 1 /\ UNCHANGED f

Next == ForwardStep \/ ForwardDone \/ BackwardStep

Spec == Init /\ [][Next]_vars
-----------------------------------------------------------------------------
\* Every way of walking the arrays prints the same five people, each with
\* their own age: print2 .. print4 exactly print1's lines, print5 the same
\* lines in reverse (its walk starts on the last element, not past it, and
\* stops on the first), and print6 print1's lines each with its offset.
WalksAgree ==
  f = 7 =>
    /\ listing[1] = [n \in 1 .. count |-> Line(n - 1)]
    /\ \A n \in 2 .. 4 : listing[n] = listing[1]
    /\ listing[5] = Reverse(listing[1])
    /\ listing[6] = [n \in 1 .. count |-> listing[1][n] \o <<n - 1>>]
=============================================================================
