---------------------------- MODULE AtLeastOnce -----------------------------
(***************************************************************************)
(* What the job queue promises the code that enqueues work and the         *)
(* handlers that do it (jobs/types.ts): a job is owed from the moment it   *)
(* is submitted until some worker reports an end to it.  It is handed out  *)
(* only while it is owed, and to a second worker only after the first one  *)
(* overstayed its lease.  A worker that overstayed may still report, and   *)
(* may make a settled job owed again.                                      *)
(***************************************************************************)
CONSTANTS Jobs, Workers

VARIABLES
  phase,   \* "absent", "owed" or "settled"
  hands,   \* hands[j]: the workers that have j in hand
  late     \* late[j]: a worker overstayed its lease on j

vars == <<phase, hands, late>>

Init ==
  /\ phase = [j \in Jobs |-> "absent"]
  /\ hands = [j \in Jobs |-> {}]
  /\ late = [j \in Jobs |-> FALSE]

Submit(j) ==
  /\ phase[j] = "absent"
  /\ phase' = [phase EXCEPT ![j] = "owed"]
  /\ UNCHANGED <<hands, late>>

Overstay(j) ==
  /\ hands[j] # {}
  /\ late' = [late EXCEPT ![j] = TRUE]
  /\ UNCHANGED <<phase, hands>>

(* A worker with empty hands is given a batch. *)
HandOut(w, S) ==
  /\ \A j \in Jobs : w \notin hands[j]
  /\ \A j \in S : phase[j] = "owed" /\ (hands[j] = {} \/ late[j])
  /\ hands' = [j \in Jobs |-> IF j \in S THEN hands[j] \cup {w} ELSE hands[j]]
  /\ UNCHANGED <<phase, late>>

(* It reports on one job of its batch: the job is settled, or owed again. *)
Report(w, j) ==
  /\ w \in hands[j]
  /\ \E p \in {"owed", "settled"} : phase' = [phase EXCEPT ![j] = p]
  /\ hands' = [hands EXCEPT ![j] = @ \ {w}]
  /\ UNCHANGED late

(* It is lost, or gives its batch up, without a word. *)
Vanish(w) ==
  /\ hands' = [j \in Jobs |-> hands[j] \ {w}]
  /\ UNCHANGED <<phase, late>>

Next ==
  \/ \E j \in Jobs : Submit(j) \/ Overstay(j)
  \/ \E w \in Workers : \/ \E S \in SUBSET Jobs : HandOut(w, S)
                        \/ \E j \in Jobs : Report(w, j)
                        \/ Vanish(w)

Spec == Init /\ [][Next]_vars
=============================================================================
