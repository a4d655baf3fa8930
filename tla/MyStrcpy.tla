------------------------------ MODULE MyStrcpy ------------------------------
(***************************************************************************)
(* modern_c/my_strcpy.c: main() copies the literal "hello\0" into the      *)
(* stack array dest[10] with my_strcpy, which copies up to the first NUL   *)
(* and then writes one, and prints dest with %s.  One step per iteration   *)
(* of my_strcpy's loop.  dest starts indeterminate: all 0 or all Junk, as  *)
(* in module StringsDemo.  A write past the end of dest is recorded in     *)
(* `overrun` and dropped.                                                  *)
(***************************************************************************)
EXTENDS Integers, Sequences

VARIABLES
  dest,      \* main's char dest[10], as codes
  i,         \* my_strcpy's i
  printed,   \* what printf("dest: %s\n") printed
  overrun,
  pc

vars == <<dest, i, printed, overrun, pc>>

DEST_SIZE == 10
Junk == -1
PastEnd == -2

\* The literal "hello\0": its five letters, the explicit NUL and the
\* literal's own.
src == <<104, 101, 108, 108, 111, 0, 0>>

\* src[k] of the C array, indexed from 0.
At(a, k) == a[k + 1]

\* What %s prints from dest: the bytes before its first NUL, or all of them
\* and then what lies past the end.
Text(b) ==
  IF \E k \in DOMAIN b : b[k] = 0
  THEN LET n == CHOOSE k \in DOMAIN b : b[k] = 0 /\ \A m \in 0 .. k - 1 : b[m] # 0
       IN [k \in 1 .. n |-> b[k - 1]]
  ELSE [k \in 1 .. DEST_SIZE |-> b[k - 1]] \o <<PastEnd>>

\* dest[k] = c, recorded as an overrun when k is outside dest.
Put(b, k, c) == IF k < DEST_SIZE THEN [b EXCEPT ![k] = c] ELSE b

Init ==
  /\ dest \in {[k \in 0 .. DEST_SIZE - 1 |-> 0],
               [k \in 0 .. DEST_SIZE - 1 |-> Junk]}
  /\ i = 0
  /\ printed = <<>>
  /\ overrun = FALSE
  /\ pc = "copy"

\* for (i = 0; src[i] != '\0'; i++) dest[i] = src[i];
CopyChar ==
  /\ pc = "copy" /\ At(src, i) # 0
  /\ dest' = Put(dest, i, At(src, i))
  /\ overrun' = (overrun \/ i >= DEST_SIZE)
  /\ i' = i + 1
  /\ UNCHANGED <<printed, pc>>

\* Mutant: the loop's end without the terminating store.
Terminate_dropped(b, k) == b

\* dest[i] = '\0';
Terminate(b, k) == Put(b, k, 0)

\* The loop ends at src's NUL: terminate dest; my_strcpy returns and main
\* prints dest.
Finish ==
  /\ pc = "copy" /\ At(src, i) = 0
  /\ dest' = Terminate(dest, i)
  /\ overrun' = (overrun \/ i >= DEST_SIZE)
  /\ printed' = Text(Terminate(dest, i))
  /\ pc' = "done"
  /\ UNCHANGED i

Next == CopyChar \/ Finish

Spec == Init /\ [][Next]_vars
-----------------------------------------------------------------------------
\* my_strcpy leaves a terminated copy within dest's ten bytes: main prints
\* exactly "hello", whatever dest held before, and nothing is written past
\* dest, although my_strcpy is never told dest's size.
CopyIsSource ==
  pc = "done" =>
    /\ ~overrun
    /\ printed = SubSeq(src, 1, 5)
=============================================================================
