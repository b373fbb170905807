---------------------------- MODULE MCBroadcast -----------------------------
(* An audience of two, two workers. *)
EXTENDS Broadcast

CONSTANTS p1, p2, w1, w2

MCRecipients == {p1, p2}
MCWorkers == {w1, w2}
=============================================================================
