-------------------------- MODULE MCRunnerSessions --------------------------
(* One session, two turns, two requests, one permission, two faults. *)
EXTENDS RunnerSessions
=============================================================================
