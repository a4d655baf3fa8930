---------------------------- MODULE AddressDBPair ----------------------------
(***************************************************************************)
(* Two invocations of learn_c_the_hard_way/ex17.c running at the same time *)
(* against one database file.  Each is a copy of AddressDB's process with *)
(* its own pc, command line and conn->db; they share only `disk`.  Nothing *)
(* in Database_open, Database_write or Database_close locks the file, so  *)
(* their steps interleave freely: one may fopen and fread the file while   *)
(* the other's fwrite has handed only a prefix of its image to the kernel. *)
(* Each process runs one invocation.                                       *)
(***************************************************************************)
EXTENDS Integers, Sequences, SequencesExt

CONSTANTS
  MAX_ROWS, MAX_DATA, Chars, Names, Emails, FindNames, Ids, Faults,
  NoFile, Uninit, Garbage, NotSet, NotFound, NoOutput, Empty, NoStore

VARIABLES
  disk,
  pc1, cmd1, mem1, out1, status1, before1, sent1,
  pc2, cmd2, mem2, out2, status2, before2, sent2,
  started   \* the processes that have begun their invocation

P1 == INSTANCE AddressDB WITH pc <- pc1, cmd <- cmd1, mem <- mem1, out <- out1,
                              status <- status1, before <- before1, sent <- sent1
P2 == INSTANCE AddressDB WITH pc <- pc2, cmd <- cmd2, mem <- mem2, out <- out2,
                              status <- status2, before <- before2, sent <- sent2

v1 == <<pc1, cmd1, mem1, out1, status1, before1, sent1>>
v2 == <<pc2, cmd2, mem2, out2, status2, before2, sent2>>
vars == <<disk, v1, v2, started>>

\* The file as the two find it: absent, freshly created, or with row 0 set.
InitialFiles ==
  {NoFile, P1!Image(P1!Database_create)}
    \cup {P1!Image(P1!Database_set(P1!Database_create, 0, n, e)) : n \in Names, e \in Emails}

Init ==
  /\ P1!ProcInit /\ P2!ProcInit
  /\ disk \in InitialFiles
  /\ started = {}

\* A step of one process; its Open only once.
Step1 ==
  /\ pc1 = "idle" => 1 \notin started
  /\ P1!Next
  /\ started' = started \cup {1}
  /\ UNCHANGED v2

Step2 ==
  /\ pc2 = "idle" => 2 \notin started
  /\ P2!Next
  /\ started' = started \cup {2}
  /\ UNCHANGED v1

Next == Step1 \/ Step2

Spec == Init /\ [][Next]_vars
-----------------------------------------------------------------------------
=============================================================================
