---------------------------- MODULE AddressStore ----------------------------
(***************************************************************************)
(* What the address database of learn_c_the_hard_way/ex17.c promises to   *)
(* its user, one command at a time: a fixed table of MAX_ROWS slots, each  *)
(* empty or holding a (name, email) pair truncated to MAX_DATA - 1 bytes.  *)
(* `store` is the durable table (NoStore while no loadable image exists)   *)
(* and `out` what the last read-only command reported, tagged with the   *)
(* command (get, find, list).  A command that     *)
(* fails changes nothing.  AddressDB is checked to implement this module.  *)
(***************************************************************************)
EXTENDS Integers, Sequences, SequencesExt

CONSTANTS
  MAX_ROWS,     \* number of slots of the table
  MAX_DATA,     \* width of the name and email fields, terminator included
  Names,        \* name arguments of `set`
  Emails,       \* email arguments of `set`
  FindNames,    \* name arguments of `find`
  Empty,        \* model value: an unoccupied slot
  NoStore,      \* model value: no loadable image on disk
  NotSet,       \* model value: get of an empty slot
  NotFound,     \* model value: find without a match
  NoOutput      \* model value: nothing printed yet

VARIABLES store, out

vars == <<store, out>>

Rows == 0 .. MAX_ROWS - 1

\* The bounded-text policy: keep the first MAX_DATA - 1 bytes.
Bounded(s) == SubSeq(s, 1, IF Len(s) < MAX_DATA THEN Len(s) ELSE MAX_DATA - 1)

Entry(i) == [id |-> i, name |-> store[i].name, email |-> store[i].email]

Occupied == {i \in Rows : store[i] # Empty}

Init ==
  /\ store = NoStore
  /\ out = NoOutput

Create ==
  /\ store' = [i \in Rows |-> Empty]
  /\ UNCHANGED out

Set(i, n, e) ==
  /\ store # NoStore
  /\ store[i] = Empty
  /\ store' = [store EXCEPT ![i] = [name |-> Bounded(n), email |-> Bounded(e)]]
  /\ UNCHANGED out

Delete(i) ==
  /\ store # NoStore
  /\ store' = [store EXCEPT ![i] = Empty]
  /\ UNCHANGED out

Get(i) ==
  /\ store # NoStore
  /\ out' = [get |-> IF store[i] = Empty THEN NotSet ELSE Entry(i)]
  /\ UNCHANGED store

\* The lowest occupied slot whose name equals n.
Find(n) ==
  /\ store # NoStore
  /\ LET hits == {i \in Occupied : store[i].name = n}
     IN out' = [find |-> IF hits = {} THEN NotFound ELSE Min(hits)]
  /\ UNCHANGED store

List ==
  /\ store # NoStore
  /\ LET ids == SetToSortSeq(Occupied, <)
     IN out' = [list |-> [k \in 1 .. Len(ids) |-> Entry(ids[k])]]
  /\ UNCHANGED store

Next ==
  \/ Create
  \/ List
  \/ \E i \in Rows :
       \/ Get(i)
       \/ Delete(i)
       \/ \E n \in Names, e \in Emails : Set(i, n, e)
  \/ \E n \in FindNames : Find(n)

Spec == Init /\ [][Next]_vars
=============================================================================
