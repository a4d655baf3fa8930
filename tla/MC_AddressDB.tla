---------------------------- MODULE MC_AddressDB ----------------------------
(***************************************************************************)
(* Argument sets for checking AddressDB: bytes 1 and 2 stand for two       *)
(* characters; <<1, 1>> and <<2, 2>> are longer than MAX_DATA - 1 = 1 and  *)
(* get truncated; Ids may hold atoi results outside the table.              *)
(***************************************************************************)
EXTENDS AddressDB

MCNames == {<<1>>, <<2>>, <<1, 1>>}
MCEmails == {<<2, 2>>}
\* find arguments the program can be given, the empty string left out
MCFindNames == {<<1>>, <<2>>, <<1, 1>>}
MCFindNamesWithEmpty == MCFindNames \cup {<<>>}
MCIds == 0 .. MAX_ROWS - 1
MCIdsWide == -1 .. MAX_ROWS
=============================================================================
