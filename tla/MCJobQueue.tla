----------------------------- MODULE MCJobQueue -----------------------------
(* Two workers over two rows, one of them of a kind this build cannot run. *)
EXTENDS JobQueue, TLC

CONSTANTS j1, j2, w1, w2

MCJobs == {j1, j2}
MCWorkers == {w1, w2}
MCUnhandled == {j2}
=============================================================================
