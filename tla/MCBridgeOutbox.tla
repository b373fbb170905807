--------------------------- MODULE MCBridgeOutbox ---------------------------
(* Two lines, two calls at a time, two attempts, two faults. *)
EXTENDS BridgeOutbox, TLC

CONSTANTS k1, k2

MCLines == {1, 2}
MCTasks == {k1, k2}
Symmetry == Permutations(MCTasks)
=============================================================================
