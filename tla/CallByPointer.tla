---------------------------- MODULE CallByPointer ----------------------------
(***************************************************************************)
(* Five small programs of modern_c about pointers and parameters, one per  *)
(* behaviour: pointers.c (stores through aliased pointers, change_value),  *)
(* swap.c, scope.c (max, and change of the global g_x), array.c (an array  *)
(* parameter is a pointer to the caller's array) and malloc.c.  A scalar   *)
(* variable is a cell of mem, named by a string, and a pointer is the name *)
(* of the cell it points to.  Each call of main that changes or prints     *)
(* memory is one step.  An uninitialized int is Junk.                      *)
(***************************************************************************)
EXTENDS Integers, Sequences

VARIABLES
  fn,        \* the program running
  mem,       \* its scalar variables: name -> int
  arr,       \* its array: array.c's a[4], or malloc.c's heap block
  printed,   \* the values it printed, in order
  pc,
  status     \* "running", "exit0", "exit1" or "fault"

vars == <<fn, mem, arr, printed, pc, status>>

Junk == -1

\* scope.c's scanf("%d", &x): a number smaller, equal or larger than g_x's
\* 10; when scanf reads nothing, x stays uninitialized, here Junk.
ScanfInputs == {5, 10, 15, Junk}

\* *p and *p = v.
Read(m, p) == m[p]
Write(m, p, v) == [m EXCEPT ![p] = v]

\* change_value(input): val = *input; *input = 100 below 100, else val * 2;
\* returns val.
change_value(m, p) ==
  LET val == Read(m, p)
  IN [mem |-> Write(m, p, IF val < 100 THEN 100 ELSE val * 2), ret |-> val]

\* Mutant: swap without its tmp, *x = *y; *y = *x.
swap_no_tmp(m, x, y) ==
  LET m1 == Write(m, x, Read(m, y)) IN Write(m1, y, Read(m1, x))

\* swap(x, y): tmp = *x; *x = *y; *y = tmp.
swap(m, x, y) ==
  LET tmp == Read(m, x)
      m1  == Write(m, x, Read(m, y))
  IN Write(m1, y, tmp)

\* scope.c's max(n1, n2) and change(amt) on the global g_x.
max(n1, n2) == IF n1 > n2 THEN n1 ELSE n2
change(m, amt) == [mem |-> Write(m, "g_x", Read(m, "g_x") + amt),
                   ret |-> Read(m, "g_x")]

\* array.c's update_array(arr, size): arr[3] = 8 when size > 3.
update_array(a, size) == IF size > 3 THEN [a EXCEPT ![3] = 8] ELSE a

\* malloc.c's init_array(arr, size): arr[i] = i.
init_array(a, size) ==
  [k \in DOMAIN a |-> IF k < size THEN k ELSE a[k]]

Init ==
  /\ fn \in {"pointers", "swap", "scope", "array", "malloc"}
  /\ mem = [v \in {} |-> 0]
  /\ arr = <<>>
  /\ printed = <<>>
  /\ pc = 1
  /\ status = "running"

\* pointers.c, lines 6-21: x = 8; ptr2 = &x; *ptr2 = 10; y = *ptr2 + 3;
\* ptr1 = ptr2; *ptr1 = 100; ptr1 = &y; *ptr1 = 80.  Each print is the
\* value its line claims and the value it prints.
Aliases ==
  /\ fn = "pointers" /\ pc = 1
  /\ LET ptr2 == "x"
         m1 == Write([x |-> 8, y |-> Junk, x2 |-> Junk], ptr2, 10)
         m2 == Write(m1, "y", Read(m1, ptr2) + 3)
         ptr1 == ptr2
         m3 == Write(m2, ptr1, 100)
         ptr1b == "y"
         m4 == Write(m3, ptr1b, 80)
     IN /\ mem' = m4
        /\ printed' = <<[claim |-> 10, value |-> m1.x],
                        [claim |-> 13, value |-> m2.y],
                        [claim |-> 100, value |-> m3.x],
                        [claim |-> 80, value |-> m4.y]>>
  /\ pc' = 2
  /\ UNCHANGED <<fn, arr, status>>

\* pointers.c: x2 = 30, then x2 = 130; y2 = change_value(&x2); print both.
ChangeValue ==
  /\ fn = "pointers" /\ pc \in {2, 3}
  /\ LET r == change_value(Write(mem, "x2", IF pc = 2 THEN 30 ELSE 130), "x2")
     IN /\ mem' = r.mem
        /\ printed' = Append(printed, [x2 |-> r.mem.x2, y2 |-> r.ret])
  /\ pc' = pc + 1
  /\ status' = IF pc = 3 THEN "exit0" ELSE status
  /\ UNCHANGED <<fn, arr>>

\* swap.c: x = 10; y = 20; print; swap(&x, &y); print; return 0.
Swap ==
  /\ fn = "swap" /\ pc = 1
  /\ LET m == [x |-> 10, y |-> 20]
     IN /\ mem' = swap(m, "x", "y")
        /\ printed' = <<<<m.x, m.y>>, <<swap(m, "x", "y").x, swap(m, "x", "y").y>>>>
  /\ pc' = 2
  /\ status' = "exit0"
  /\ UNCHANGED <<fn, arr>>

\* scope.c: scanf x; g_x = 10; result = max(g_x, x); print;
\* result = change(10); print result and g_x; return 0.
Scope ==
  /\ fn = "scope" /\ pc = 1
  /\ \E x \in ScanfInputs :
       LET m == [x |-> x, g_x |-> 10]
           c == change(m, 10)
       IN /\ mem' = c.mem
          /\ printed' = <<[result |-> max(m.g_x, x), g_x |-> m.g_x, x |-> x],
                          [result |-> c.ret, g_x |-> c.mem.g_x]>>
  /\ pc' = 2
  /\ status' = "exit0"
  /\ UNCHANGED <<fn, arr>>

\* array.c: a = {1, 2, 3, 4}; print_array; update_array(a, 4); print_array.
ArrayParam ==
  /\ fn = "array" /\ pc = 1
  /\ LET a == [k \in 0 .. 3 |-> k + 1]
     IN /\ arr' = update_array(a, 4)
        /\ printed' = <<a, update_array(a, 4)>>
  /\ pc' = 2
  /\ status' = "exit0"
  /\ UNCHANGED <<fn, mem>>

\* malloc.c, lines 14-23: p = malloc(sizeof(int)); *p = 6 if p is not NULL;
\* print *p, which faults when p is NULL; free(p).
MallocOne ==
  /\ fn = "malloc" /\ pc = 1
  /\ \/ /\ status' = "fault"          \* malloc returned NULL
        /\ pc' = 0
        /\ UNCHANGED printed
     \/ /\ printed' = <<6>>
        /\ pc' = 2
        /\ UNCHANGED status
  /\ UNCHANGED <<fn, mem, arr>>

\* malloc.c, lines 25-44: arr = malloc of 20 ints, exit(1) on NULL;
\* init_array(arr, 20); print arr[3]; c_arr = malloc(10), exit(1) on NULL;
\* main returns 0.
MallocArray ==
  /\ fn = "malloc" /\ pc = 2
  /\ \/ /\ status' = "exit1"
        /\ UNCHANGED <<arr, printed>>
     \/ LET a == init_array([k \in 0 .. 19 |-> Junk], 20)
        IN /\ arr' = a
           /\ printed' = Append(printed, a[3])
           /\ status' \in {"exit1", "exit0"}   \* c_arr's malloc
  /\ pc' = 3
  /\ UNCHANGED <<fn, mem>>

Next == Aliases \/ ChangeValue \/ Swap \/ Scope \/ ArrayParam \/ MallocOne
          \/ MallocArray

Spec == Init /\ [][Next]_vars
-----------------------------------------------------------------------------
\* A write through a pointer reaches the variable pointed to and nothing
\* else: every "should be" line of pointers.c prints the value it claims,
\* change_value returns the old x2 while x2 holds the new one, swap
\* exchanges x and y, and update_array's store shows in main's array.
WritesReachCaller ==
  status = "exit0" =>
    CASE fn = "pointers" ->
           /\ \A k \in 1 .. 4 : printed[k].claim = printed[k].value
           /\ printed[5] = [x2 |-> 100, y2 |-> 30]
           /\ printed[6] = [x2 |-> 260, y2 |-> 130]
      [] fn = "swap" -> printed[2] = <<printed[1][2], printed[1][1]>>
      [] fn = "array" -> printed[2] = [printed[1] EXCEPT ![3] = 8]
      [] OTHER -> TRUE
=============================================================================
