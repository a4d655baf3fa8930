---------------------------- MODULE LinkedStack ----------------------------
(***************************************************************************)
(* learn_c_the_hard_way/stack.c: a stack of strings as a singly linked     *)
(* list on the heap.  `heap` maps each allocated address to its block: the *)
(* `struct Stack` ([head]), a `struct Element` ([value, next]) or the      *)
(* malloc'd copy of a string ([text]).  malloc hands out a free address    *)
(* of Addrs or returns NULL, which every caller turns into die().  Each    *)
(* API call is one step: the program is single-threaded.  Its main() is    *)
(* one fixed sequence of these calls; the model lets the caller make any.  *)
(***************************************************************************)
EXTENDS Integers, FiniteSets, Sequences, Functions, TLC

CONSTANTS
  Values,     \* the strings pushed
  Addrs,      \* the heap addresses malloc can return
  NULL,       \* model value: the null pointer
  Garbage,    \* model value: an indeterminate field of a fresh block
  NoStack,    \* model value: Stack_create has not returned
  NoOutput    \* model value: nothing reported yet

VARIABLES
  s,          \* main's `struct Stack *s`
  heap,       \* allocated address -> block
  out,        \* what the last call reported
  alive       \* FALSE once the process has called die()

vars == <<s, heap, out, alive>>

Free == Addrs \ DOMAIN heap

\* The heap with addresses `gone` freed and the others kept.
Release(h, gone) == Restrict(h, DOMAIN h \ gone)

Top == heap[s].head

Text(e) == heap[heap[e].value].text

Init ==
  /\ s = NoStack
  /\ heap = <<>>
  /\ out = NoOutput
  /\ alive = TRUE

\* Mutant: Stack_create without `s->head = NULL`.
Stack_create_no_init ==
  /\ alive /\ s = NoStack
  /\ \E a \in Free : /\ heap' = a :> [head |-> Garbage]
                     /\ s' = a
  /\ UNCHANGED <<out, alive>>

Stack_create ==
  /\ alive /\ s = NoStack
  /\ \E a \in Free : /\ heap' = a :> [head |-> NULL]
                     /\ s' = a
  /\ UNCHANGED <<out, alive>>

\* Mutant: Stack_push without `element->next = s->head`.
Stack_push_no_link(v) ==
  /\ alive /\ s # NoStack
  /\ \E e, c \in Free :
       /\ e # c
       /\ heap' = [heap EXCEPT ![s] = [head |-> e]]
                    @@ (e :> [value |-> c, next |-> NULL]) @@ (c :> [text |-> v])
  /\ UNCHANGED <<s, out, alive>>

\* malloc the element, malloc and strcpy the copy, link it in as head.
Stack_push(v) ==
  /\ alive /\ s # NoStack
  /\ \E e, c \in Free :
       /\ e # c
       /\ heap' = [heap EXCEPT ![s] = [head |-> e]]
                    @@ (e :> [value |-> c, next |-> Top]) @@ (c :> [text |-> v])
  /\ UNCHANGED <<s, out, alive>>

\* A malloc of Stack_create or Stack_push returns NULL: die().  When the
\* second malloc of a push fails, the element block is already allocated.
AllocFail ==
  /\ alive
  /\ \/ UNCHANGED heap
     \/ s # NoStack /\ \E e \in Free : heap' = heap @@ (e :> [value |-> Garbage,
                                                              next |-> Garbage])
  /\ alive' = FALSE
  /\ UNCHANGED <<s, out>>

\* Mutant: Stack_pop without `free(orig_head->value)`.
Stack_pop_keep_value ==
  /\ alive /\ s # NoStack /\ Top # NULL
  /\ out' = [popped |-> Text(Top)]
  /\ heap' = [Release(heap, {Top}) EXCEPT ![s] = [head |-> heap[Top].next]]
  /\ UNCHANGED <<s, alive>>

\* Print the head's value, unlink the head, free its copy and the element.
Stack_pop ==
  /\ alive /\ s # NoStack /\ Top # NULL
  /\ out' = [popped |-> Text(Top)]
  /\ heap' = [Release(heap, {Top, heap[Top].value})
                EXCEPT ![s] = [head |-> heap[Top].next]]
  /\ UNCHANGED <<s, alive>>

Stack_is_empty ==
  /\ alive /\ s # NoStack
  /\ out' = [empty |-> Top = NULL]
  /\ UNCHANGED <<s, heap, alive>>

\* Stack_is_empty is false, and main prints the head's value.
Stack_peek ==
  /\ alive /\ s # NoStack /\ Top # NULL
  /\ out' = [peeked |-> Text(Top)]
  /\ UNCHANGED <<s, heap, alive>>

\* Stack_pop or Stack_peek on an empty stack: die().
EmptyDies ==
  /\ alive /\ s # NoStack /\ Top = NULL
  /\ alive' = FALSE
  /\ UNCHANGED <<s, heap, out>>

Next ==
  \/ Stack_create \/ AllocFail \/ Stack_pop \/ Stack_is_empty
  \/ Stack_peek \/ EmptyDies
  \/ \E v \in Values : Stack_push(v)

Spec == Init /\ [][Next]_vars
-----------------------------------------------------------------------------
(***************************************************************************)
(* Properties.                                                             *)
(***************************************************************************)
Blocks ==
  [head : Addrs \cup {NULL}]
    \cup [value : Addrs, next : Addrs \cup {NULL}]
    \cup [text : Values]

TypeOK ==
  /\ s \in Addrs \cup {NoStack}
  /\ alive => heap \in [DOMAIN heap -> Blocks]
  /\ DOMAIN heap \subseteq Addrs
  /\ alive \in BOOLEAN

\* The elements met walking `next` from p, stopping at NULL, at an address
\* that is not an allocated element, or at one already met.
RECURSIVE Walk(_, _)
Walk(p, seen) ==
  IF p \in DOMAIN heap /\ p \notin seen /\ "next" \in DOMAIN heap[p]
  THEN Walk(heap[p].next, seen \cup {p})
  ELSE [seen |-> seen, stop |-> p]

Chain == Walk(Top, {})

\* The values from the head down, as a sequence.
RECURSIVE ValuesFrom(_)
ValuesFrom(p) == IF p = NULL THEN <<>> ELSE <<Text(p)>> \o ValuesFrom(heap[p].next)

\* While the process runs, the heap holds exactly the Stack, the elements
\* reachable from its head and one private string copy per element: the
\* list ends in NULL, no element or copy is shared, and nothing pop freed
\* is still linked.  So pop never frees a block twice or reads a freed one,
\* and no push or pop leaks.
HeapExact ==
  alive /\ s # NoStack =>
    LET elems == Chain.seen
        copies == {heap[e].value : e \in elems}
    IN /\ Chain.stop = NULL
       /\ \A e \in elems : heap[e].value \in DOMAIN heap
                           /\ "text" \in DOMAIN heap[heap[e].value]
       /\ \A e1, e2 \in elems : e1 # e2 => heap[e1].value # heap[e2].value
       /\ DOMAIN heap = {s} \cup elems \cup copies

\* The linked list implements the LIFO stack: pushes and pops through the
\* list, and what pop, peek and is_empty report, are those of a sequence.
AbsStack ==
  INSTANCE LifoStack WITH
    stack <- IF s = NoStack THEN NoStack ELSE ValuesFrom(Top)

LifoStackSpec == AbsStack!Spec
=============================================================================
