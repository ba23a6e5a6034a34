----------------------------- MODULE MCEdgeSync -----------------------------
(* Two threads sync one site in batches of two; four calls, four events.   *)
EXTENDS EdgeSync, TLC

CONSTANTS c1, c2, e1, e2, e3, e4

MCClient == {c1, c2}
MCEvent == {e1, e2, e3, e4}
MCSymmetry == Permutations(MCEvent) \cup Permutations(MCClient)
=============================================================================
