---------------------------- MODULE StructsList ----------------------------
(***************************************************************************)
(* modern_c/structs.c as its main() runs it: pointers(), which mallocs a  *)
(* struct studentT, sets two of its four fields, prints all four and frees *)
(* it; then create_list(), which builds a three-node list by prepending,   *)
(* and print_list().  `heap` maps each allocated address to its block.  A  *)
(* field malloc left unwritten holds Garbage; reading one is undefined.    *)
(* The other functions of the file are not called by main().               *)
(***************************************************************************)
EXTENDS Integers, Sequences, Functions, TLC

CONSTANTS
  Addrs,      \* the heap addresses malloc can return
  NULL,       \* model value: the null pointer
  Garbage     \* model value: an indeterminate field

VARIABLES
  pc,         \* where main() is
  heap,       \* allocated address -> block
  head,       \* create_list's `head`
  i,          \* create_list's loop counter
  printed,    \* what has been printed, in order
  status      \* how the process ended, or "running"

vars == <<pc, heap, head, i, printed, status>>

Free == Addrs \ DOMAIN heap

\* A block of malloc: every field indeterminate.
Fresh(fields) == [f \in fields |-> Garbage]

StudentFields == {"name", "age", "gpa", "grad_yr"}

\* struct node, as malloc'd and then written.
Node(d, n) == [data |-> d, next |-> n]

\* What print_student reads and prints: every field of the student.
print_student(st) == [student |-> st]

\* The data fields along `next` from p, as print_list prints them.
RECURSIVE ListFrom(_)
ListFrom(p) == IF p = NULL THEN <<>> ELSE <<heap[p].data>> \o ListFrom(heap[p].next)

\* exit(1) after a failed malloc.
MallocFailed ==
  /\ pc \in {"pointers", "create_list", "loop"}
  /\ pc' = "exited"
  /\ status' = "exit1"
  /\ UNCHANGED <<heap, head, i, printed>>

Init ==
  /\ pc = "pointers"
  /\ heap = <<>>
  /\ head = NULL
  /\ i = 0
  /\ printed = <<>>
  /\ status = "running"

\* malloc; sptr->gpa = 3.5; sptr->grad_yr = 2021; print_student; free.
\* print_student reads name and age, which nothing wrote: `%s` on the
\* indeterminate name prints whatever it finds or runs off the block.
pointers ==
  /\ pc = "pointers"
  /\ \E a \in Free :
       LET st == [Fresh(StudentFields) EXCEPT !.gpa = "3.5", !.grad_yr = 2021]
       IN \/ /\ printed' = Append(printed, print_student(st))
             /\ pc' = "create_list"
             /\ UNCHANGED status
          \/ /\ pc' = "exited"
             /\ status' = "fault"
             /\ UNCHANGED printed
  /\ UNCHANGED <<heap, head, i>>

\* Mutant: create_list without `head->next = NULL`.
create_list_no_null ==
  /\ pc = "create_list"
  /\ \E a \in Free : /\ heap' = heap @@ (a :> Node(10, Garbage))
                     /\ head' = a
  /\ i' = 0
  /\ pc' = "loop"
  /\ UNCHANGED <<printed, status>>

\* head = malloc(...); head->data = 10; head->next = NULL.
create_list ==
  /\ pc = "create_list"
  /\ \E a \in Free : /\ heap' = heap @@ (a :> Node(10, NULL))
                     /\ head' = a
  /\ i' = 0
  /\ pc' = "loop"
  /\ UNCHANGED <<printed, status>>

\* Mutant: the loop body without `temp->next = head`.
loop_no_link ==
  /\ pc = "loop" /\ i < 2
  /\ \E t \in Free : /\ heap' = heap @@ (t :> Node(i, NULL))
                     /\ head' = t
  /\ i' = i + 1
  /\ UNCHANGED <<pc, printed, status>>

\* One iteration: temp = malloc(...); temp->data = i; temp->next = head;
\* head = temp.
loop ==
  /\ pc = "loop" /\ i < 2
  /\ \E t \in Free : /\ heap' = heap @@ (t :> Node(i, head))
                     /\ head' = t
  /\ i' = i + 1
  /\ UNCHANGED <<pc, printed, status>>

\* The loop ends, create_list returns head, print_list walks it, and
\* main() returns 0 without freeing the list.
print_list ==
  /\ pc = "loop" /\ i >= 2
  /\ printed' = Append(printed, [list |-> ListFrom(head)])
  /\ pc' = "exited"
  /\ status' = "exit0"
  /\ UNCHANGED <<heap, head, i>>

Next ==
  \/ pointers \/ create_list \/ loop \/ print_list \/ MallocFailed

Spec == Init /\ [][Next]_vars
-----------------------------------------------------------------------------
(***************************************************************************)
(* Properties.                                                             *)
(***************************************************************************)
TypeOK ==
  /\ pc \in {"pointers", "create_list", "loop", "exited"}
  /\ DOMAIN heap \subseteq Addrs
  /\ \A a \in DOMAIN heap : heap[a] \in [data : Int,
                                          next : Addrs \cup {NULL}]
  /\ head \in Addrs \cup {NULL}
  /\ i \in 0 .. 2
  /\ status \in {"running", "exit0", "exit1", "fault"}

\* The addresses on the list from head, following next.
RECURSIVE NodesFrom(_)
NodesFrom(p) == IF p = NULL THEN {} ELSE {p} \cup NodesFrom(heap[p].next)

\* While create_list runs, the list from head holds 10 and then each value
\* of the loop counter so far, newest first: i - 1, ..., 0, 10.  And the
\* heap holds exactly the list: pointers() freed its student, and no node
\* was lost.  So print_list, after the last iteration, prints 1 0 10.
ListBuiltByPrepending ==
  pc = "loop" =>
    /\ ListFrom(head) = [k \in 1 .. i |-> i - k] \o <<10>>
    /\ DOMAIN heap = NodesFrom(head)

\* What print_student prints was written first: no field of the student is
\* indeterminate when printed.
PrintsOnlyWrittenFields ==
  \A k \in DOMAIN printed :
    "student" \in DOMAIN printed[k] =>
      \A f \in StudentFields : printed[k].student[f] # Garbage
=============================================================================
