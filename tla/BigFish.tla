------------------------------ MODULE BigFish ------------------------------
(***************************************************************************)
(* modern_c/bigfish.c: main() mallocs two int arrays of N, fills and      *)
(* prints them, then writes bigfish[0 .. 12], three ints past its end,    *)
(* prints both again and frees both.  The writes past the end are          *)
(* undefined behaviour: where they land is the allocator's layout, so the *)
(* layout is a choice among those real allocators produce.  Memory is a   *)
(* function from int-sized cells to values, bigfish at cell 0.  Each      *)
(* iteration of a loop that writes is one step; print_array is one step.  *)
(***************************************************************************)
EXTENDS Integers, Sequences

VARIABLES
  mem,       \* the heap cells around the two blocks
  layout,    \* where littlefish lies and which cells hold its header
  i,         \* main's i
  printed,   \* the arrays print_array printed, in order
  pc,
  status     \* "running", "exit0", "exit1" or "abort"

vars == <<mem, layout, i, printed, pc, status>>

N == 10
Junk == -1
Header == -2     \* the allocator's size field of littlefish's block

\* The second loop's bound: i < 13 writes three ints past bigfish's end.
OVERFLOW == 13

(***************************************************************************)
(* Two 40-byte mallocs in a fresh heap.  glibc on x86-64 puts littlefish   *)
(* 48 bytes after bigfish, its 8-byte size field in cells 10 and 11;      *)
(* glibc on i386 the same distance, the size field in cell 11 (cell 10 is *)
(* prev_size, usable by bigfish); a size-class allocator gives bigfish a   *)
(* 48-byte slot with no header after it; or littlefish lies elsewhere and  *)
(* the overflow lands in memory nobody prints.                            *)
(***************************************************************************)
Layouts ==
  {[lf |-> 12, hdr |-> {10, 11}], [lf |-> 12, hdr |-> {11}],
   [lf |-> 12, hdr |-> {}], [lf |-> 20, hdr |-> {}]}

Cells == 0 .. 29

\* print_array(p, N, name): the N ints from cell b.
Block(b) == [k \in 0 .. N - 1 |-> mem[b + k]]

Init ==
  /\ layout \in Layouts
  /\ mem = [c \in Cells |-> IF c \in layout.hdr THEN Header ELSE Junk]
  /\ i = 0
  /\ printed = <<>>
  /\ pc = "malloc"
  /\ status = "running"

\* The two mallocs; either returning NULL prints an error and exits 1.
Malloc ==
  /\ pc = "malloc"
  /\ \/ status' = "exit1" /\ pc' = "done"
     \/ pc' = "fill" /\ UNCHANGED status
  /\ UNCHANGED <<mem, layout, i, printed>>

\* bigfish[i] = N + i; littlefish[i] = i;
Fill ==
  /\ pc = "fill" /\ i < N
  /\ mem' = [mem EXCEPT ![i] = N + i, ![layout.lf + i] = i]
  /\ i' = i + 1
  /\ UNCHANGED <<layout, printed, pc, status>>

\* The loop ends; print both arrays.
PrintBefore ==
  /\ pc = "fill" /\ i >= N
  /\ printed' = <<Block(0), Block(layout.lf)>>
  /\ i' = 0
  /\ pc' = "overflow"
  /\ UNCHANGED <<mem, layout, status>>

\* bigfish[i] = 66 + i, for i up to 12: the cell i past bigfish's start.
Overflow ==
  /\ pc = "overflow" /\ i < OVERFLOW
  /\ mem' = [mem EXCEPT ![i] = 66 + i]
  /\ i' = i + 1
  /\ UNCHANGED <<layout, printed, pc, status>>

\* The loop ends; print both arrays again.
PrintAfter ==
  /\ pc = "overflow" /\ i >= OVERFLOW
  /\ printed' = printed \o <<Block(0), Block(layout.lf)>>
  /\ pc' = "free"
  /\ UNCHANGED <<mem, layout, i, status>>

\* free(bigfish); free(littlefish): the second aborts when littlefish's
\* size field no longer holds its size; otherwise main returns 0.
Free ==
  /\ pc = "free"
  /\ status' = IF \E c \in layout.hdr : mem[c] # Header THEN "abort" ELSE "exit0"
  /\ pc' = "done"
  /\ UNCHANGED <<mem, layout, i, printed>>

Next == Malloc \/ Fill \/ PrintBefore \/ Overflow \/ PrintAfter \/ Free

Spec == Init /\ [][Next]_vars
=============================================================================
