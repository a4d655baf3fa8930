--------------------------- MODULE MC_CallbackSort ---------------------------
(* Argument lists for CallbackSort: every list of 1 to MaxLen values drawn *)
(* from a small set (argc < 2 dies before sorting).                        *)
EXTENDS CallbackSort

\* The ends of the 3-bit int range, and values near zero whose differences
\* fit.
MCEdgeVals == {-4, -1, 0, 3}

MCArgs(vals, n) == UNION {[1 .. m -> vals] : m \in 1 .. n}

MCInputsEdge == MCArgs(MCEdgeVals, 3)
=============================================================================
