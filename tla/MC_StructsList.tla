--------------------------- MODULE MC_StructsList ---------------------------
EXTENDS StructsList

\* The student block, the three nodes and one spare address.
MCAddrs == 1 .. 5
=============================================================================
