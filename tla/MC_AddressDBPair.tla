-------------------------- MODULE MC_AddressDBPair --------------------------
(***************************************************************************)
(* Arguments for two concurrent invocations: a short name and an email   *)
(* that fills its field, ids inside the table.                             *)
(***************************************************************************)
EXTENDS AddressDBPair

MCNames == {<<1>>}
MCEmails == {<<2, 2>>}
MCIds == 0 .. MAX_ROWS - 1
=============================================================================
