------------------------------ MODULE JobQueue ------------------------------
(***************************************************************************)
(* The commerce plane's durable job queue: the rows of `commerce_jobs`     *)
(* (migration 043), the statements of jobRepository, and the workers that  *)
(* claim leased batches of rows, run a handler on each and record what it  *)
(* said (jobs/worker.ts).                                                  *)
(*                                                                         *)
(* Every SQL statement is one action.  Between the claim and the recording *)
(* of an outcome a worker awaits the handler: a lease may run out there,   *)
(* another worker may claim the row, and the process may die.  A worker    *)
(* never learns that it lost a lease: the statements that record an        *)
(* outcome match the row by id alone.                                      *)
(*                                                                         *)
(* Time is abstract: `due` says run_after has passed, `expired` that       *)
(* locked_until has.  The rows of a batch share one locked_until; here     *)
(* they pass it one at a time, which only lets a claim fall in between.    *)
(***************************************************************************)
EXTENDS Naturals, FiniteSets

CONSTANTS Jobs,         \* the rows that may ever be enqueued
          Workers,      \* worker processes
          Unhandled,    \* the jobs whose kind this build has no handler for
          MaxAttempts,  \* max_attempts of every row (column default 5)
          BatchSize,    \* COMMERCE_WORKER_BATCH_SIZE
          NoWorker,     \* locked_by is null
          NoJob,        \* a worker between two jobs of its batch
          MaxFaults     \* bound: crashes, failed writes and overrun leases

ASSUME JobQueueAssumption ==
  /\ MaxAttempts \in Nat \ {0}
  /\ BatchSize \in Nat \ {0}
  /\ MaxFaults \in Nat
  /\ Unhandled \subseteq Jobs
  /\ NoWorker \notin Workers
  /\ NoJob \notin Jobs

VARIABLES
  (* the table *)
  status,     \* per row, "absent" until it is enqueued
  due,        \* run_after <= now()
  expired,    \* locked_until < now()
  lockedBy,   \* locked_by
  attempts,   \* claims made of the row
  (* the worker processes *)
  mode,       \* "up", "stopping" (no new pass), "down"
  held,       \* held[w][j]: job.attempts as this worker's batch read it, 0 if
              \* j is not in the batch
  current,    \* the job whose handler the worker is awaiting
  (* history *)
  settled,    \* the attempt numbers whose outcome was recorded on the row
  retried,    \* those of them that put the row back on the queue
  reclaims,   \* claims of the row that took it over from an expired lease
  overran,    \* the lease expired while a live worker still held the job
  faults

rows == <<status, due, expired, lockedBy, attempts>>
procs == <<mode, held, current>>
history == <<settled, retried, reclaims, overran, faults>>
vars == <<rows, procs, history>>

Statuses == {"absent", "queued", "running", "done", "failed", "dead"}
Terminal == {"done", "failed", "dead"}

-----------------------------------------------------------------------------
Init ==
  /\ status = [j \in Jobs |-> "absent"]
  /\ due = [j \in Jobs |-> FALSE]
  /\ expired = [j \in Jobs |-> FALSE]
  /\ lockedBy = [j \in Jobs |-> NoWorker]
  /\ attempts = [j \in Jobs |-> 0]
  /\ mode = [w \in Workers |-> "up"]
  /\ held = [w \in Workers |-> [j \in Jobs |-> 0]]
  /\ current = [w \in Workers |-> NoJob]
  /\ settled = [j \in Jobs |-> {}]
  /\ retried = [j \in Jobs |-> {}]
  /\ reclaims = [j \in Jobs |-> 0]
  /\ overran = [j \in Jobs |-> FALSE]
  /\ faults = 0

(* A new row: now, or with a run_after in the future (a scheduled send). *)
Enqueue(j) ==
  /\ status[j] = "absent"
  /\ status' = [status EXCEPT ![j] = "queued"]
  /\ \E d \in BOOLEAN : due' = [due EXCEPT ![j] = d]
  /\ UNCHANGED <<expired, lockedBy, attempts, procs, history>>

(* run_after passes. *)
BecomeDue(j) ==
  /\ status[j] = "queued" /\ ~due[j]
  /\ due' = [due EXCEPT ![j] = TRUE]
  /\ UNCHANGED <<status, expired, lockedBy, attempts, procs, history>>

Holders(j) == {w \in Workers : held[w][j] # 0}

(* A lease nobody works under runs out, or one runs out under its holder:  *)
(* a batch is run one job after another under a single lease, and a        *)
(* handler takes as long as it takes.                                      *)
LeaseExpires(j) ==
  /\ status[j] = "running" /\ ~expired[j]
  /\ Holders(j) = {}
  /\ expired' = [expired EXCEPT ![j] = TRUE]
  /\ UNCHANGED <<status, due, lockedBy, attempts, procs, history>>

LeaseOverruns(j) ==
  /\ status[j] = "running" /\ ~expired[j]
  /\ Holders(j) # {} /\ faults < MaxFaults
  /\ expired' = [expired EXCEPT ![j] = TRUE]
  /\ overran' = [overran EXCEPT ![j] = TRUE]
  /\ faults' = faults + 1
  /\ UNCHANGED <<status, due, lockedBy, attempts, procs, settled, retried, reclaims>>

-----------------------------------------------------------------------------
(* Seeded defect: only queued rows can be claimed. *)
ClaimableQueuedOnly(j) == due[j] /\ status[j] = "queued"

(* Seeded defect: a running row is claimable whatever its lease says. *)
ClaimableIgnoringLease(j) == due[j] /\ status[j] \in {"queued", "running"}

(* Seeded defect: the claim forgets to test the status. *)
ClaimableAnyStatus(j) ==
  /\ due[j]
  /\ \/ status[j] \in {"queued", "dead"}
     \/ status[j] = "running" /\ expired[j]

(* The WHERE clause of the claim.  It does not look at `attempts`. *)
Claimable(j) ==
  /\ due[j]
  /\ \/ status[j] = "queued"
     \/ status[j] = "running" /\ expired[j]

(* Seeded defect: taking over an expired lease is not counted. *)
AttemptsUncountedTakeover(S) ==
  [j \in Jobs |-> IF j \in S /\ status[j] = "queued"
                  THEN attempts[j] + 1 ELSE attempts[j]]

(* attempts = attempts + 1, for each row claimed. *)
AttemptsAfterClaim(S) ==
  [j \in Jobs |-> IF j \in S THEN attempts[j] + 1 ELSE attempts[j]]

(* One pass starts: the worker is neither draining a batch nor stopping,   *)
(* and one statement leases it up to BatchSize rows.  SKIP LOCKED steps    *)
(* over what a concurrent claim is taking, so any of the claimable rows    *)
(* may be the ones it gets.                                                *)
ClaimBatch(w, S) ==
  /\ mode[w] = "up" /\ \A j \in Jobs : held[w][j] = 0
  /\ S # {} /\ Cardinality(S) <= BatchSize
  /\ \A j \in S : Claimable(j)
  /\ status' = [j \in Jobs |-> IF j \in S THEN "running" ELSE status[j]]
  /\ lockedBy' = [j \in Jobs |-> IF j \in S THEN w ELSE lockedBy[j]]
  /\ expired' = [j \in Jobs |-> IF j \in S THEN FALSE ELSE expired[j]]
  /\ attempts' = AttemptsAfterClaim(S)
  /\ held' = [held EXCEPT ![w] = [j \in Jobs |->
                                    IF j \in S THEN attempts'[j] ELSE 0]]
  /\ reclaims' = [j \in Jobs |-> IF j \in S /\ status[j] = "running"
                                 THEN reclaims[j] + 1 ELSE reclaims[j]]
  /\ UNCHANGED <<due, mode, current, settled, retried, overran, faults>>

Claim(w) == \E S \in SUBSET Jobs : ClaimBatch(w, S)

(* The loop of runOnce takes up the next job of the batch and awaits its handler. *)
Begin(w, j) ==
  /\ mode[w] # "down" /\ current[w] = NoJob /\ held[w][j] # 0
  /\ current' = [current EXCEPT ![w] = j]
  /\ UNCHANGED <<rows, mode, held, history>>

(* Seeded defect: the comparison against the ceiling is off by one. *)
VerdictsOffByOne(w, j) ==
  IF j \in Unhandled THEN {"failed"}
  ELSE {"done", "failed", IF held[w][j] > MaxAttempts THEN "dead" ELSE "queued"}

(* What run() records for what the handler said; a handler that throws is  *)
(* a retry, and a kind without a handler is failed at once.                *)
Verdicts(w, j) ==
  IF j \in Unhandled THEN {"failed"}
  ELSE {"done", "failed", IF held[w][j] >= MaxAttempts THEN "dead" ELSE "queued"}

(* markDone, markTerminal and markForRetry: one UPDATE ... WHERE id. *)
Record(w, j) ==
  /\ mode[w] # "down" /\ current[w] = j
  /\ \E v \in Verdicts(w, j) :
       /\ status' = [status EXCEPT ![j] = v]
       /\ due' = [due EXCEPT ![j] = IF v = "queued" THEN FALSE ELSE @]
       /\ retried' = [retried EXCEPT ![j] = IF v = "queued"
                                            THEN @ \cup {held[w][j]} ELSE @]
  /\ lockedBy' = [lockedBy EXCEPT ![j] = NoWorker]
  /\ expired' = [expired EXCEPT ![j] = FALSE]
  /\ settled' = [settled EXCEPT ![j] = @ \cup {held[w][j]}]
  /\ held' = [held EXCEPT ![w][j] = 0]
  /\ current' = [current EXCEPT ![w] = NoJob]
  /\ UNCHANGED <<attempts, mode, reclaims, overran, faults>>

(* The statement that records the outcome fails: the error leaves run()    *)
(* and runOnce, tick logs it, and the rest of the batch is abandoned under *)
(* its lease.                                                              *)
RecordFails(w) ==
  /\ mode[w] # "down" /\ current[w] # NoJob /\ faults < MaxFaults
  /\ held' = [held EXCEPT ![w] = [j \in Jobs |-> 0]]
  /\ current' = [current EXCEPT ![w] = NoJob]
  /\ faults' = faults + 1
  /\ UNCHANGED <<rows, mode, settled, retried, reclaims, overran>>

-----------------------------------------------------------------------------
(* Graceful shutdown: no new pass starts, the one in flight goes on until  *)
(* the process exits; an exit or a kill loses the batch, never a row.      *)
Stop(w) ==
  /\ mode[w] = "up" /\ faults < MaxFaults
  /\ mode' = [mode EXCEPT ![w] = "stopping"]
  /\ faults' = faults + 1
  /\ UNCHANGED <<rows, held, current, settled, retried, reclaims, overran>>

Die(w) ==
  /\ mode' = [mode EXCEPT ![w] = "down"]
  /\ held' = [held EXCEPT ![w] = [j \in Jobs |-> 0]]
  /\ current' = [current EXCEPT ![w] = NoJob]
  /\ UNCHANGED <<rows, settled, retried, reclaims, overran>>

Exit(w) == mode[w] = "stopping" /\ Die(w) /\ UNCHANGED faults

Crash(w) == mode[w] = "up" /\ faults < MaxFaults /\ Die(w) /\ faults' = faults + 1

Start(w) ==
  /\ mode[w] = "down"
  /\ mode' = [mode EXCEPT ![w] = "up"]
  /\ UNCHANGED <<rows, held, current, history>>

Next ==
  \/ \E j \in Jobs : Enqueue(j) \/ BecomeDue(j) \/ LeaseExpires(j) \/ LeaseOverruns(j)
  \/ \E w \in Workers : \/ Claim(w) \/ RecordFails(w)
                        \/ Stop(w) \/ Exit(w) \/ Crash(w) \/ Start(w)
                        \/ \E j \in Jobs : Begin(w, j) \/ Record(w, j)

Spec == Init /\ [][Next]_vars

(* Time passes, a live worker's loop goes on, a dead process is started    *)
(* again.  The claim takes rows in the order of run_after, so a due row    *)
(* cannot be passed over for ever: strong fairness per row.                *)
Fairness ==
  /\ \A j \in Jobs : /\ WF_vars(BecomeDue(j))
                     /\ WF_vars(LeaseExpires(j))
                     /\ SF_vars(\E w \in Workers, S \in SUBSET Jobs :
                                  j \in S /\ ClaimBatch(w, S))
  /\ \A w \in Workers : /\ WF_vars(Exit(w)) /\ WF_vars(Start(w))
                        /\ WF_vars(\E j \in Jobs : Begin(w, j))
                        /\ WF_vars(\E j \in Jobs : Record(w, j))

FairSpec == Spec /\ Fairness

-----------------------------------------------------------------------------
TypeOK ==
  /\ status \in [Jobs -> Statuses]
  /\ due \in [Jobs -> BOOLEAN]
  /\ expired \in [Jobs -> BOOLEAN]
  /\ lockedBy \in [Jobs -> Workers \cup {NoWorker}]
  /\ attempts \in [Jobs -> Nat]
  /\ mode \in [Workers -> {"up", "stopping", "down"}]
  /\ held \in [Workers -> [Jobs -> Nat]]
  /\ current \in [Workers -> Jobs \cup {NoJob}]
  /\ settled \in [Jobs -> SUBSET Nat]
  /\ retried \in [Jobs -> SUBSET Nat]
  /\ reclaims \in [Jobs -> Nat]
  /\ overran \in [Jobs -> BOOLEAN]
  /\ faults \in Nat

(* A lease is a fencing token, whatever expires and whoever dies: no two   *)
(* workers ever work under the same attempt number of a row, an attempt    *)
(* whose outcome was recorded is not worked on again, and a row shown as   *)
(* running stands for an attempt nobody has recorded.                      *)
ClaimsAreFenced ==
  \A j \in Jobs :
    /\ \A w \in Workers : held[w][j] # 0 =>
         /\ held[w][j] <= attempts[j]
         /\ held[w][j] \notin settled[j]
         /\ \A v \in Workers \ {w} : held[v][j] # held[w][j]
    /\ status[j] = "running" => attempts[j] \notin settled[j]

(* What the attempt ceiling is worth: a row is claimed at most MaxAttempts *)
(* times, plus once for every lease that expired under it.  A handler that *)
(* fails is retried up to the ceiling and no further, even when late       *)
(* workers put a settled row back on the queue.                            *)
AttemptsAccounted == \A j \in Jobs : attempts[j] <= MaxAttempts + reclaims[j]

(* As long as no lease of a job ran out under a live worker, whoever holds *)
(* the job is the one worker the row names, under an unexpired lease: the  *)
(* queue hands it to nobody else, through crashes and lost writes.         *)
ExclusiveUnlessOverrun ==
  \A j \in Jobs, w \in Workers :
    ~overran[j] /\ held[w][j] # 0 =>
      /\ status[j] = "running" /\ ~expired[j]
      /\ lockedBy[j] = w /\ held[w][j] = attempts[j]

(* And then done, failed and dead are final. *)
FinalUnlessOverrun ==
  [][\A j \in Jobs : ~overran[j] /\ status[j] \in Terminal
                         => status'[j] = status[j]]_vars

(* Every job that is enqueued is eventually done, failed or dead, although *)
(* workers crash, writes fail and leases run out (finitely often).         *)
EveryJobSettles == \A j \in Jobs : status[j] = "queued" ~> status[j] \in Terminal

(* The queue keeps the contract its handlers are written against           *)
(* (jobs/types.ts): owed is queued or running, in hand is what a live      *)
(* worker's batch holds, and late is a lease that ran out under a worker.  *)
Phase == [j \in Jobs |-> IF status[j] = "absent" THEN "absent"
                         ELSE IF status[j] \in Terminal THEN "settled" ELSE "owed"]
Hands == [j \in Jobs |-> Holders(j)]

Contract == INSTANCE AtLeastOnce WITH phase <- Phase, hands <- Hands, late <- overran

KeepsContract == Contract!Spec
=============================================================================
