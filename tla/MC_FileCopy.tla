----------------------------- MODULE MC_FileCopy -----------------------------
EXTENDS FileCopy

CONSTANTS c1, c2

\* Files of up to four characters: more than one buffer's worth.
MCContents == UNION {[1 .. n -> {c1, c2}] : n \in 0 .. 4}
=============================================================================
