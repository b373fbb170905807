--------------------------- MODULE JobQueueProofs ---------------------------
(***************************************************************************)
(* What holds of the job queue for every number of rows, workers and       *)
(* attempts.  ClaimsAreFenced and ExclusiveUnlessOverrun are inductive     *)
(* once the history is tied to the table (Bookkeeping); AttemptsAccounted  *)
(* follows from a count of where each claim came from (ClaimsCounted).     *)
(* The queue implements AtLeastOnce: every step of it is a step of the     *)
(* contract or leaves what the contract sees alone.                        *)
(***************************************************************************)
EXTENDS JobQueue, FiniteSetTheorems, TLAPS

(* The recorded attempts are attempts that were made, those retried are    *)
(* below the ceiling, and a worker awaits only a handler of its batch.     *)
Bookkeeping ==
  /\ \A j \in Jobs : /\ \A n \in settled[j] : n <= attempts[j]
                     /\ retried[j] \subseteq settled[j]
                     /\ \A n \in retried[j] : n \in 1 .. (MaxAttempts - 1)
                     /\ IsFiniteSet(retried[j])
                     /\ status[j] = "absent" => attempts[j] = 0
  /\ \A w \in Workers : current[w] # NoJob => held[w][current[w]] # 0

(* A claim takes a row that was enqueued, retried, or left to expire.      *)
ClaimsCounted ==
  \A j \in Jobs :
    attempts[j] + (IF status[j] = "queued" THEN 1 ELSE 0)
      <= 1 + Cardinality(retried[j]) + reclaims[j]

IInv == TypeOK /\ Bookkeeping /\ ClaimsAreFenced /\ ExclusiveUnlessOverrun /\ ClaimsCounted

-----------------------------------------------------------------------------
(* Every column and every process variable keeps its type. *)
LEMMA TypeStep == TypeOK /\ [Next]_vars => TypeOK'
<1> SUFFICES ASSUME TypeOK, [Next]_vars PROVE TypeOK'
  OBVIOUS
<1> USE JobQueueAssumption DEF TypeOK
<1>1. ASSUME NEW j \in Jobs, Enqueue(j) PROVE TypeOK'
  BY <1>1 DEF Enqueue, procs, history, Statuses
<1>2. ASSUME NEW j \in Jobs, BecomeDue(j) PROVE TypeOK'
  BY <1>2 DEF BecomeDue, procs, history
<1>3. ASSUME NEW j \in Jobs, LeaseExpires(j) PROVE TypeOK'
  BY <1>3 DEF LeaseExpires, procs, history
<1>4. ASSUME NEW j \in Jobs, LeaseOverruns(j) PROVE TypeOK'
  BY <1>4 DEF LeaseOverruns, procs
<1>5. ASSUME NEW w \in Workers, Claim(w) PROVE TypeOK'
  <2> PICK S \in SUBSET Jobs : ClaimBatch(w, S)
    BY <1>5 DEF Claim
  <2>1. attempts' \in [Jobs -> Nat]
    BY DEF ClaimBatch, AttemptsAfterClaim
  <2>2. held' \in [Workers -> [Jobs -> Nat]]
    BY <2>1 DEF ClaimBatch
  <2>3. /\ status' \in [Jobs -> Statuses]
        /\ lockedBy' \in [Jobs -> Workers \cup {NoWorker}]
        /\ expired' \in [Jobs -> BOOLEAN]
    BY DEF ClaimBatch, Statuses
  <2>4. reclaims' \in [Jobs -> Nat]
    BY DEF ClaimBatch
  <2> QED BY <2>1, <2>2, <2>3, <2>4 DEF ClaimBatch
<1>6. ASSUME NEW w \in Workers, RecordFails(w) PROVE TypeOK'
  BY <1>6 DEF RecordFails, rows
<1>7. ASSUME NEW w \in Workers, Stop(w) PROVE TypeOK'
  BY <1>7 DEF Stop, rows
<1>8. ASSUME NEW w \in Workers, Exit(w) \/ Crash(w) PROVE TypeOK'
  <2>1. Die(w) /\ faults' \in Nat
    BY <1>8 DEF Exit, Crash
  <2> QED BY <2>1 DEF Die, rows
<1>9. ASSUME NEW w \in Workers, Start(w) PROVE TypeOK'
  BY <1>9 DEF Start, rows, history
<1>10. ASSUME NEW w \in Workers, NEW j \in Jobs, Begin(w, j) PROVE TypeOK'
  BY <1>10 DEF Begin, rows, history
<1>11. ASSUME NEW w \in Workers, NEW j \in Jobs, Record(w, j) PROVE TypeOK'
  <2> PICK v \in Verdicts(w, j) :
        /\ status' = [status EXCEPT ![j] = v]
        /\ due' = [due EXCEPT ![j] = IF v = "queued" THEN FALSE ELSE @]
        /\ retried' = [retried EXCEPT ![j] = IF v = "queued"
                                             THEN @ \cup {held[w][j]} ELSE @]
    BY <1>11 DEF Record
  <2>1. v \in Statuses
    BY DEF Verdicts, Statuses
  <2>2. held[w][j] \in Nat
    OBVIOUS
  <2>3. held' \in [Workers -> [Jobs -> Nat]]
    BY <1>11 DEF Record
  <2>4. settled' \in [Jobs -> SUBSET Nat] /\ retried' \in [Jobs -> SUBSET Nat]
    BY <1>11, <2>2 DEF Record
  <2> QED BY <1>11, <2>1, <2>3, <2>4 DEF Record
<1>12. CASE UNCHANGED vars
  BY <1>12 DEF vars, rows, procs, history
<1> QED BY <1>1, <1>2, <1>3, <1>4, <1>5, <1>6, <1>7, <1>8, <1>9, <1>10, <1>11, <1>12
        DEF Next

-----------------------------------------------------------------------------
(* A claim: the attempt number it takes is above every number recorded or  *)
(* held, and unless a lease overran nobody holds a claimable row.          *)
LEMMA ClaimStep ==
  ASSUME IInv, NEW w \in Workers, NEW S \in SUBSET Jobs, ClaimBatch(w, S)
  PROVE  (Bookkeeping /\ ClaimsAreFenced /\ ExclusiveUnlessOverrun)'
<1> TypeOK
  BY DEF IInv
<1>0. UNCHANGED <<settled, retried, overran, current>>
  BY DEF ClaimBatch
<1>1. ASSUME NEW k \in Jobs
      PROVE  /\ attempts[k] \in Nat
             /\ attempts'[k] = IF k \in S THEN attempts[k] + 1 ELSE attempts[k]
             /\ held'[w][k] = IF k \in S THEN attempts[k] + 1 ELSE 0
             /\ held[w][k] = 0
             /\ \A v \in Workers \ {w} : held'[v][k] = held[v][k] /\ held[v][k] \in Nat
  <2>1. attempts[k] \in Nat /\ attempts'[k] = IF k \in S THEN attempts[k] + 1 ELSE attempts[k]
    BY DEF ClaimBatch, AttemptsAfterClaim, TypeOK
  <2>2. held'[w] = [j \in Jobs |-> IF j \in S THEN attempts'[j] ELSE 0] /\ held[w][k] = 0
    BY DEF ClaimBatch, TypeOK
  <2>3. \A v \in Workers \ {w} : held'[v] = held[v] /\ held[v][k] \in Nat
    BY DEF ClaimBatch, TypeOK
  <2> QED BY <2>1, <2>2, <2>3
<1>2. ASSUME NEW k \in Jobs
      PROVE  /\ status'[k] = IF k \in S THEN "running" ELSE status[k]
             /\ lockedBy'[k] = IF k \in S THEN w ELSE lockedBy[k]
             /\ expired'[k] = IF k \in S THEN FALSE ELSE expired[k]
             /\ k \in S => \/ status[k] = "queued"
                           \/ status[k] = "running" /\ expired[k]
  BY DEF ClaimBatch, Claimable
<1>3. ASSUME NEW k \in Jobs
      PROVE  /\ \A n \in settled[k] : n \in Nat /\ n <= attempts[k]
             /\ status[k] = "running" => attempts[k] \notin settled[k]
             /\ \A v \in Workers : held[v][k] # 0 =>
                  /\ held[v][k] <= attempts[k] /\ held[v][k] \notin settled[k]
                  /\ \A u \in Workers \ {v} : held[u][k] # held[v][k]
                  /\ ~overran[k] => /\ status[k] = "running" /\ ~expired[k]
                                    /\ lockedBy[k] = v /\ held[v][k] = attempts[k]
  BY DEF IInv, Bookkeeping, ClaimsAreFenced, ExclusiveUnlessOverrun, TypeOK
<1>4. Bookkeeping'
  <2>1. ASSUME NEW k \in Jobs
        PROVE  /\ \A n \in settled[k] : n <= attempts'[k]
               /\ status'[k] = "absent" => attempts'[k] = 0
    <3>1. status[k] = "absent" => attempts[k] = 0
      BY DEF IInv, Bookkeeping
    <3>2. attempts[k] \in Nat /\ attempts'[k] \in Nat /\ attempts[k] <= attempts'[k]
      BY <1>1
    <3>3. \A n \in settled[k] : n \in Nat /\ n <= attempts[k]
      BY <1>3
    <3>5. \A n \in settled[k] : n <= attempts'[k]
      BY <3>2, <3>3
    <3>4. status'[k] = "absent" => k \notin S /\ status[k] = "absent"
      BY <1>2
    <3> QED BY <3>1, <3>4, <3>5, <1>1
  <2>2. ASSUME NEW u \in Workers, current[u] # NoJob PROVE held'[u][current[u]] # 0
    <3>1. current[u] \in Jobs /\ held[u][current[u]] # 0
      BY <2>2 DEF IInv, Bookkeeping, TypeOK
    <3> QED BY <1>1, <3>1
  <2> QED BY <1>0, <2>1, <2>2 DEF IInv, Bookkeeping
<1>5. ClaimsAreFenced'
  <2> SUFFICES ASSUME NEW k \in Jobs
               PROVE  /\ \A u \in Workers : held'[u][k] # 0 =>
                           /\ held'[u][k] <= attempts'[k]
                           /\ held'[u][k] \notin settled[k]
                           /\ \A v \in Workers \ {u} : held'[v][k] # held'[u][k]
                      /\ status'[k] = "running" => attempts'[k] \notin settled[k]
    BY <1>0 DEF ClaimsAreFenced
  <2>1. attempts[k] \in Nat /\ attempts[k] + 1 \notin settled[k]
    BY <1>1, <1>3
  <2>2. \A v \in Workers : held[v][k] # attempts[k] + 1
    BY <1>1, <1>3, <2>1
  <2>3. status'[k] = "running" => attempts'[k] \notin settled[k]
    BY <1>1, <1>2, <1>3, <2>1
  <2>4. ASSUME NEW u \in Workers, held'[u][k] # 0
        PROVE  held'[u][k] <= attempts'[k] /\ held'[u][k] \notin settled[k]
    <3>1. CASE u = w
      BY <3>1, <2>4, <1>1, <2>1
    <3>2. CASE u # w
      BY <3>2, <2>4, <1>1, <1>3, <2>1
    <3> QED BY <3>1, <3>2
  <2>5. ASSUME NEW u \in Workers, held'[u][k] # 0, NEW v \in Workers \ {u}
        PROVE  held'[v][k] # held'[u][k]
    <3>1. CASE u = w
      BY <3>1, <2>5, <1>1, <2>2
    <3>2. CASE v = w
      BY <3>2, <2>5, <1>1, <2>2
    <3>3. CASE u # w /\ v # w
      BY <3>3, <2>5, <1>1, <1>3
    <3> QED BY <3>1, <3>2, <3>3
  <2> QED BY <2>3, <2>4, <2>5
<1>6. ExclusiveUnlessOverrun'
  <2> SUFFICES ASSUME NEW k \in Jobs, NEW u \in Workers, ~overran[k], held'[u][k] # 0
               PROVE  /\ status'[k] = "running" /\ ~expired'[k]
                      /\ lockedBy'[k] = u /\ held'[u][k] = attempts'[k]
    BY <1>0 DEF ExclusiveUnlessOverrun
  <2>1. CASE u = w
    BY <2>1, <1>1, <1>2
  <2>2. CASE u # w
    <3>1. held[u][k] = held'[u][k] /\ held[u][k] # 0
      BY <2>2, <1>1
    <3>2. /\ status[k] = "running" /\ ~expired[k]
          /\ lockedBy[k] = u /\ held[u][k] = attempts[k]
      BY <3>1, <1>3
    <3>3. k \notin S
      BY <3>2, <1>2
    <3> QED BY <3>1, <3>2, <3>3, <1>1, <1>2
  <2> QED BY <2>1, <2>2
<1> QED BY <1>4, <1>5, <1>6

(* An outcome: the attempt it records was this worker's alone, so no other *)
(* worker's claim is settled by it.                                        *)
LEMMA RecordStep ==
  ASSUME IInv, NEW w \in Workers, NEW j \in Jobs, Record(w, j)
  PROVE  (Bookkeeping /\ ClaimsAreFenced /\ ExclusiveUnlessOverrun)'
<1> TypeOK
  BY DEF IInv
<1> DEFINE m == held[w][j]
<1>0. UNCHANGED <<attempts, overran>> /\ current' = [current EXCEPT ![w] = NoJob]
  BY DEF Record
<1> PICK v \in Verdicts(w, j) :
      /\ status' = [status EXCEPT ![j] = v]
      /\ retried' = [retried EXCEPT ![j] = IF v = "queued" THEN @ \cup {m} ELSE @]
  BY DEF Record
<1>1. v \in {"done", "failed", "dead", "queued"} /\ (v = "queued" => m < MaxAttempts)
  <2>1. m \in Nat
    BY DEF TypeOK
  <2> QED BY <2>1, JobQueueAssumption DEF Verdicts
<1>2. m \in Nat \ {0} /\ m <= attempts[j] /\ m \notin settled[j]
  <2>1. current[w] = j /\ j # NoJob
    BY JobQueueAssumption DEF Record
  <2> QED BY <2>1 DEF IInv, Bookkeeping, ClaimsAreFenced, TypeOK
<1>3. ASSUME NEW k \in Jobs
      PROVE  /\ settled'[k] = IF k = j THEN settled[k] \cup {m} ELSE settled[k]
             /\ retried'[k] = IF k = j /\ v = "queued" THEN retried[k] \cup {m} ELSE retried[k]
             /\ lockedBy'[k] = IF k = j THEN NoWorker ELSE lockedBy[k]
             /\ expired'[k] = IF k = j THEN FALSE ELSE expired[k]
             /\ status'[k] = IF k = j THEN v ELSE status[k]
             /\ attempts[k] \in Nat
  BY DEF Record, TypeOK
<1>4. ASSUME NEW u \in Workers, NEW k \in Jobs
      PROVE  /\ held'[u][k] = IF u = w /\ k = j THEN 0 ELSE held[u][k]
             /\ held[u][k] \in Nat
  BY DEF Record, TypeOK
<1>5. ASSUME NEW k \in Jobs
      PROVE  /\ \A n \in settled[k] : n \in Nat /\ n <= attempts[k]
             /\ retried[k] \subseteq settled[k]
             /\ \A n \in retried[k] : n \in 1 .. (MaxAttempts - 1)
             /\ IsFiniteSet(retried[k])
             /\ status[k] = "absent" => attempts[k] = 0
             /\ status[k] = "running" => attempts[k] \notin settled[k]
  BY DEF IInv, Bookkeeping, ClaimsAreFenced, TypeOK
<1>9. ASSUME NEW k \in Jobs, NEW u \in Workers, held[u][k] # 0
      PROVE  /\ held[u][k] <= attempts[k] /\ held[u][k] \notin settled[k]
             /\ \A x \in Workers \ {u} : held[x][k] # held[u][k]
             /\ ~overran[k] => /\ status[k] = "running" /\ ~expired[k]
                               /\ lockedBy[k] = u /\ held[u][k] = attempts[k]
  BY <1>9 DEF IInv, ClaimsAreFenced, ExclusiveUnlessOverrun
<1>6. Bookkeeping'
  <2>1. ASSUME NEW k \in Jobs
        PROVE  /\ \A n \in settled'[k] : n <= attempts[k]
               /\ retried'[k] \subseteq settled'[k]
               /\ status'[k] = "absent" => attempts[k] = 0
    <3>1. CASE k = j
      <4>1. settled'[j] = settled[j] \cup {m} /\ status'[j] = v
        BY <1>3
      <4>2. retried'[j] = retried[j] \/ retried'[j] = retried[j] \cup {m}
        BY <1>3
      <4>3. v # "absent"
        BY <1>1
      <4>4. (\A n \in settled[j] : n <= attempts[j]) /\ retried[j] \subseteq settled[j]
        BY <1>5
      <4> QED BY <3>1, <4>1, <4>2, <4>3, <4>4, <1>2
    <3>2. CASE k # j
      BY <3>2, <1>3, <1>5
    <3> QED BY <3>1, <3>2
  <2>2. ASSUME NEW k \in Jobs PROVE \A n \in retried'[k] : n \in 1 .. (MaxAttempts - 1)
    BY <1>1, <1>2, <1>3, <1>5, JobQueueAssumption
  <2>3. ASSUME NEW k \in Jobs PROVE IsFiniteSet(retried'[k])
    <3>1. IsFiniteSet(retried[k])
      BY <1>5
    <3>2. IsFiniteSet(retried[k] \cup {m})
      BY <3>1, FS_AddElement
    <3> QED BY <3>1, <3>2, <1>3
  <2>4. ASSUME NEW u \in Workers, current'[u] # NoJob PROVE held'[u][current'[u]] # 0
    <3>1. u # w /\ current'[u] = current[u] /\ current[u] \in Jobs
      BY <2>4, <1>0 DEF TypeOK
    <3> QED BY <2>4, <3>1, <1>4 DEF IInv, Bookkeeping
  <2> QED BY <1>0, <2>1, <2>2, <2>3, <2>4 DEF Bookkeeping
<1>7. ClaimsAreFenced'
  <2> SUFFICES ASSUME NEW k \in Jobs
               PROVE  /\ \A u \in Workers : held'[u][k] # 0 =>
                           /\ held'[u][k] <= attempts[k]
                           /\ held'[u][k] \notin settled'[k]
                           /\ \A x \in Workers \ {u} : held'[x][k] # held'[u][k]
                      /\ status'[k] = "running" => attempts[k] \notin settled'[k]
    BY <1>0 DEF ClaimsAreFenced
  <2>1. status'[k] = "running" => attempts[k] \notin settled'[k]
    <3>1. CASE k = j
      BY <3>1, <1>1, <1>3
    <3>2. CASE k # j
      BY <3>2, <1>3, <1>5
    <3> QED BY <3>1, <3>2
  <2>2. ASSUME NEW u \in Workers, held'[u][k] # 0
        PROVE  /\ held'[u][k] = held[u][k] /\ held[u][k] # 0
               /\ k = j => u # w
    BY <2>2, <1>4
  <2>3. ASSUME NEW u \in Workers, held'[u][k] # 0
        PROVE  /\ held'[u][k] <= attempts[k]
               /\ held'[u][k] \notin settled'[k]
    <3>1. /\ held'[u][k] = held[u][k] /\ held[u][k] # 0
          /\ k = j => u # w
      BY <2>2, <2>3
    <3>2. held[u][k] <= attempts[k] /\ held[u][k] \notin settled[k]
      BY <3>1, <1>9
    <3>3. k = j => held[u][k] # m
      BY <3>1, <1>2, <1>9
    <3> QED BY <3>1, <3>2, <3>3, <1>3
  <2>4. ASSUME NEW u \in Workers, held'[u][k] # 0, NEW x \in Workers \ {u}
        PROVE  held'[x][k] # held'[u][k]
    BY <2>2, <2>4, <1>4, <1>9
  <2> QED BY <2>1, <2>3, <2>4
<1>8. ExclusiveUnlessOverrun'
  <2> SUFFICES ASSUME NEW k \in Jobs, NEW u \in Workers, ~overran[k], held'[u][k] # 0
               PROVE  /\ status'[k] = "running" /\ ~expired'[k]
                      /\ lockedBy'[k] = u /\ held'[u][k] = attempts[k]
    BY <1>0 DEF ExclusiveUnlessOverrun
  <2>1. held[u][k] # 0 /\ held'[u][k] = held[u][k] /\ (k = j => u # w)
    BY <1>4
  <2>2. k # j
    <3> SUFFICES ASSUME k = j PROVE FALSE
      OBVIOUS
    <3>1. lockedBy[j] = u /\ lockedBy[j] = w
      BY <2>1, <1>2, <1>9
    <3> QED BY <3>1, <2>1
  <2>3. /\ status[k] = "running" /\ ~expired[k]
        /\ lockedBy[k] = u /\ held[u][k] = attempts[k]
    BY <2>1, <1>9
  <2> QED BY <2>1, <2>2, <2>3, <1>3
<1> QED BY <1>6, <1>7, <1>8

-----------------------------------------------------------------------------
(* Every claim is paid for by the enqueueing, by a retry under the ceiling *)
(* or by an expired lease.                                                 *)
LEMMA ClaimsCountedStep == ASSUME IInv, [Next]_vars PROVE ClaimsCounted'
<1> TypeOK
  BY DEF IInv
<1> DEFINE Queued(k) == IF status[k] = "queued" THEN 1 ELSE 0
<1>0. ASSUME NEW k \in Jobs
      PROVE  /\ attempts[k] \in Nat /\ reclaims[k] \in Nat
             /\ Cardinality(retried[k]) \in Nat
             /\ attempts[k] + Queued(k) <= 1 + Cardinality(retried[k]) + reclaims[k]
  <2>1. IsFiniteSet(retried[k])
    BY DEF IInv, Bookkeeping
  <2> QED BY <2>1, FS_CardinalityType DEF IInv, TypeOK, ClaimsCounted
<1>1. ASSUME UNCHANGED <<attempts, retried, reclaims>>,
             \A k \in Jobs : status'[k] = "queued" => status[k] = "queued"
      PROVE  ClaimsCounted'
  BY <1>0, <1>1 DEF ClaimsCounted
<1>2. ASSUME NEW j \in Jobs, Enqueue(j) PROVE ClaimsCounted'
  <2> SUFFICES ASSUME NEW k \in Jobs
               PROVE  attempts[k] + (IF status'[k] = "queued" THEN 1 ELSE 0)
                        <= 1 + Cardinality(retried[k]) + reclaims[k]
    BY <1>2 DEF Enqueue, history, ClaimsCounted
  <2>1. CASE k = j
    <3>1. attempts[k] = 0
      BY <1>2, <2>1 DEF Enqueue, IInv, Bookkeeping
    <3> QED BY <3>1, <1>0
  <2>2. CASE k # j
    BY <2>2, <1>0, <1>2 DEF Enqueue, TypeOK
  <2> QED BY <2>1, <2>2
<1>3. ASSUME NEW w \in Workers, NEW S \in SUBSET Jobs, ClaimBatch(w, S) PROVE ClaimsCounted'
  <2> SUFFICES ASSUME NEW k \in Jobs
               PROVE  attempts'[k] + (IF status'[k] = "queued" THEN 1 ELSE 0)
                        <= 1 + Cardinality(retried[k]) + reclaims'[k]
    BY <1>3 DEF ClaimBatch, ClaimsCounted
  <2>1. CASE k \notin S
    BY <2>1, <1>0, <1>3 DEF ClaimBatch, AttemptsAfterClaim
  <2>2. CASE k \in S
    <3>1. attempts'[k] = attempts[k] + 1 /\ status'[k] = "running"
      BY <2>2, <1>3 DEF ClaimBatch, AttemptsAfterClaim
    <3>2. CASE status[k] = "queued"
      <4>1. reclaims'[k] = reclaims[k]
        BY <3>2, <1>3 DEF ClaimBatch
      <4> QED BY <3>1, <3>2, <4>1, <1>0
    <3>3. CASE status[k] = "running"
      <4>1. reclaims'[k] = reclaims[k] + 1
        BY <2>2, <3>3, <1>3 DEF ClaimBatch
      <4> QED BY <3>1, <3>3, <4>1, <1>0
    <3> QED BY <2>2, <3>2, <3>3, <1>3 DEF ClaimBatch, Claimable
  <2> QED BY <2>1, <2>2
<1>4. ASSUME NEW w \in Workers, NEW j \in Jobs, Record(w, j) PROVE ClaimsCounted'
  <2> DEFINE m == held[w][j]
  <2> PICK v \in Verdicts(w, j) :
        /\ status' = [status EXCEPT ![j] = v]
        /\ retried' = [retried EXCEPT ![j] = IF v = "queued" THEN @ \cup {m} ELSE @]
    BY <1>4 DEF Record
  <2> SUFFICES ASSUME NEW k \in Jobs
               PROVE  attempts[k] + (IF status'[k] = "queued" THEN 1 ELSE 0)
                        <= 1 + Cardinality(retried'[k]) + reclaims[k]
    BY <1>4 DEF Record, ClaimsCounted
  <2>1. CASE k # j
    BY <2>1, <1>0 DEF TypeOK
  <2>2. CASE k = j /\ v # "queued"
    BY <2>2, <1>0 DEF TypeOK
  <2>3. CASE k = j /\ v = "queued"
    <3>1. m \notin retried[j] /\ IsFiniteSet(retried[j])
      <4>1. current[w] = j /\ j # NoJob
        BY <1>4, JobQueueAssumption DEF Record
      <4> QED BY <4>1 DEF IInv, Bookkeeping, ClaimsAreFenced
    <3>2. retried'[j] = retried[j] \cup {m}
      BY <2>3 DEF TypeOK
    <3>3. Cardinality(retried'[j]) = Cardinality(retried[j]) + 1
      BY <3>1, <3>2, FS_AddElement
    <3> QED BY <2>3, <3>3, <1>0
  <2> QED BY <2>1, <2>2, <2>3
<1>5. ASSUME NEW j \in Jobs, BecomeDue(j) \/ LeaseExpires(j) \/ LeaseOverruns(j)
      PROVE  ClaimsCounted'
  BY <1>1, <1>5 DEF BecomeDue, LeaseExpires, LeaseOverruns, history
<1>6. ASSUME NEW w \in Workers,
             \/ RecordFails(w) \/ Stop(w) \/ Exit(w) \/ Crash(w) \/ Start(w)
             \/ \E j \in Jobs : Begin(w, j)
      PROVE  ClaimsCounted'
  BY <1>1, <1>6 DEF RecordFails, Stop, Exit, Crash, Die, Start, Begin, rows, history
<1>7. CASE UNCHANGED vars
  BY <1>1, <1>7 DEF vars, rows, history
<1> QED BY <1>2, <1>3, <1>4, <1>5, <1>6, <1>7 DEF Next, Claim

-----------------------------------------------------------------------------
(* The recorded history stays tied to the table, and the fencing and the   *)
(* exclusivity of claims are preserved by every step.                      *)
LEMMA BookkeepingStep ==
  ASSUME IInv, [Next]_vars PROVE (Bookkeeping /\ ClaimsAreFenced /\ ExclusiveUnlessOverrun)'
<1> DEFINE Good == Bookkeeping /\ ClaimsAreFenced /\ ExclusiveUnlessOverrun
<1> USE JobQueueAssumption DEF IInv, TypeOK, Bookkeeping, ClaimsAreFenced, ExclusiveUnlessOverrun
<1>1. ASSUME NEW j \in Jobs, Enqueue(j) PROVE Good'
  BY <1>1 DEF Enqueue, procs, history, Statuses
<1>2. ASSUME NEW j \in Jobs, BecomeDue(j) PROVE Good'
  BY <1>2 DEF BecomeDue, procs, history
<1>3. ASSUME NEW j \in Jobs, LeaseExpires(j) PROVE Good'
  BY <1>3 DEF LeaseExpires, Holders, procs, history
<1>4. ASSUME NEW j \in Jobs, LeaseOverruns(j) PROVE Good'
  BY <1>4 DEF LeaseOverruns, procs
<1>5. ASSUME NEW w \in Workers, NEW S \in SUBSET Jobs, ClaimBatch(w, S) PROVE Good'
  BY <1>5, ClaimStep
<1>6. ASSUME NEW w \in Workers, RecordFails(w) PROVE Good'
  BY <1>6 DEF RecordFails, rows
<1>7. ASSUME NEW w \in Workers, Stop(w) PROVE Good'
  BY <1>7 DEF Stop, rows
<1>8. ASSUME NEW w \in Workers, Exit(w) \/ Crash(w) PROVE Good'
  <2>1. Die(w)
    BY <1>8 DEF Exit, Crash
  <2> QED BY <2>1 DEF Die, rows
<1>9. ASSUME NEW w \in Workers, Start(w) PROVE Good'
  BY <1>9 DEF Start, rows, history
<1>10. ASSUME NEW w \in Workers, NEW j \in Jobs, Begin(w, j) PROVE Good'
  BY <1>10 DEF Begin, rows, history
<1>11. ASSUME NEW w \in Workers, NEW j \in Jobs, Record(w, j) PROVE Good'
  BY <1>11, RecordStep
<1>12. CASE UNCHANGED vars
  BY <1>12 DEF vars, rows, procs, history
<1> QED BY <1>1, <1>2, <1>3, <1>4, <1>5, <1>6, <1>7, <1>8, <1>9, <1>10, <1>11, <1>12
        DEF Next, Claim

-----------------------------------------------------------------------------
LEMMA InitIInv == Init => IInv
<1> SUFFICES ASSUME Init PROVE IInv
  OBVIOUS
<1> USE JobQueueAssumption DEF Init
<1>1. TypeOK
  BY DEF TypeOK, Statuses
<1>2. Bookkeeping
  BY FS_EmptySet DEF Bookkeeping
<1>3. ClaimsAreFenced /\ ExclusiveUnlessOverrun
  BY DEF ClaimsAreFenced, ExclusiveUnlessOverrun
<1>4. ClaimsCounted
  BY FS_EmptySet DEF ClaimsCounted
<1> QED BY <1>1, <1>2, <1>3, <1>4 DEF IInv

LEMMA Inductive == Spec => []IInv
<1>1. IInv /\ [Next]_vars => IInv'
  BY TypeStep, BookkeepingStep, ClaimsCountedStep DEF IInv
<1> QED BY InitIInv, <1>1, PTL DEF Spec

(* Every variable of the queue keeps its type, in every instance. *)
THEOREM TypeCorrect == Spec => []TypeOK
<1>1. IInv => TypeOK
  BY DEF IInv
<1> QED BY Inductive, <1>1, PTL

(* The attempt number a claim takes is a fencing token, for any number of  *)
(* workers and whatever expires or crashes.                                *)
THEOREM Fencing == Spec => []ClaimsAreFenced
<1>1. IInv => ClaimsAreFenced
  BY DEF IInv
<1> QED BY Inductive, <1>1, PTL

(* A job without an overrun lease is held by one worker only. *)
THEOREM Exclusivity == Spec => []ExclusiveUnlessOverrun
<1>1. IInv => ExclusiveUnlessOverrun
  BY DEF IInv
<1> QED BY Inductive, <1>1, PTL

(* The attempt ceiling holds up to the leases that expired. *)
THEOREM AttemptCeiling == Spec => []AttemptsAccounted
<1>1. IInv => AttemptsAccounted
  <2> SUFFICES ASSUME IInv, NEW j \in Jobs
               PROVE  attempts[j] <= MaxAttempts + reclaims[j]
    BY DEF AttemptsAccounted
  <2>1. retried[j] \in SUBSET (1 .. (MaxAttempts - 1)) /\ IsFiniteSet(retried[j])
    BY DEF IInv, Bookkeeping
  <2>2. Cardinality(1 .. (MaxAttempts - 1)) = MaxAttempts - 1
    BY FS_Interval, JobQueueAssumption
  <2>3. IsFiniteSet(1 .. (MaxAttempts - 1))
    BY FS_Interval, JobQueueAssumption
  <2>4. Cardinality(retried[j]) <= MaxAttempts - 1 /\ Cardinality(retried[j]) \in Nat
    BY <2>1, <2>2, <2>3, FS_Subset, FS_CardinalityType
  <2>5. attempts[j] \in Nat /\ reclaims[j] \in Nat /\ MaxAttempts \in Nat
    BY JobQueueAssumption DEF IInv, TypeOK
  <2>6. attempts[j] <= 1 + Cardinality(retried[j]) + reclaims[j]
    BY <2>4, <2>5 DEF IInv, ClaimsCounted
  <2> QED BY <2>4, <2>5, <2>6
<1> QED BY Inductive, <1>1, PTL

(* done, failed and dead are final for a job without an overrun lease: a   *)
(* claim takes only queued and running rows, and a recorded outcome comes  *)
(* from the one worker that holds the running row.                         *)
THEOREM Finality == Spec => FinalUnlessOverrun
<1>1. ASSUME IInv, [Next]_vars
      PROVE  [\A j \in Jobs : ~overran[j] /\ status[j] \in Terminal
                               => status'[j] = status[j]]_vars
  <2> SUFFICES ASSUME Next, NEW j \in Jobs, ~overran[j], status[j] \in Terminal
               PROVE  status'[j] = status[j]
    BY <1>1 DEF vars, rows
  <2> TypeOK
    BY <1>1 DEF IInv
  <2>1. ASSUME NEW k \in Jobs, Enqueue(k) PROVE status'[j] = status[j]
    BY <2>1 DEF Enqueue, TypeOK, Terminal
  <2>2. ASSUME NEW w \in Workers, NEW S \in SUBSET Jobs, ClaimBatch(w, S)
        PROVE  status'[j] = status[j]
    <3>1. j \notin S
      BY <2>2 DEF ClaimBatch, Claimable, Terminal
    <3> QED BY <2>2, <3>1 DEF ClaimBatch
  <2>3. ASSUME NEW w \in Workers, NEW k \in Jobs, Record(w, k) PROVE status'[j] = status[j]
    <3>1. k # j
      <4> SUFFICES ASSUME k = j PROVE FALSE
        OBVIOUS
      <4>1. held[w][j] # 0
        BY <2>3, <1>1, JobQueueAssumption DEF Record, IInv, Bookkeeping
      <4> QED BY <4>1, <1>1 DEF IInv, ExclusiveUnlessOverrun, Terminal
    <3> QED BY <2>3, <3>1 DEF Record, TypeOK
  <2>4. ASSUME NEW k \in Jobs, BecomeDue(k) \/ LeaseExpires(k) \/ LeaseOverruns(k)
        PROVE  status'[j] = status[j]
    BY <2>4 DEF BecomeDue, LeaseExpires, LeaseOverruns
  <2>5. ASSUME NEW w \in Workers,
               \/ RecordFails(w) \/ Stop(w) \/ Exit(w) \/ Crash(w) \/ Start(w)
               \/ \E k \in Jobs : Begin(w, k)
        PROVE  status'[j] = status[j]
    BY <2>5 DEF RecordFails, Stop, Exit, Crash, Die, Start, Begin, rows
  <2> QED BY <2>1, <2>2, <2>3, <2>4, <2>5 DEF Next, Claim
<1> QED BY Inductive, <1>1, PTL DEF Spec, FinalUnlessOverrun

-----------------------------------------------------------------------------
(* The refinement.  The invariant is needed at the claim alone: a row that *)
(* can be claimed is in nobody's hands unless a lease overran.             *)

(* The contract's state, row by row. *)
LEMMA PhaseOf ==
  ASSUME NEW j \in Jobs, status[j] \in Statuses
  PROVE  /\ status[j] = "absent" => Phase[j] = "absent"
         /\ status[j] \in {"queued", "running"} => Phase[j] = "owed"
         /\ status[j] \in Terminal => Phase[j] = "settled"
BY DEF Phase, Terminal

LEMMA HandsOf ==
  ASSUME NEW j \in Jobs, NEW w \in Workers
  PROVE  w \in Hands[j] <=> held[w][j] # 0
BY DEF Hands, Holders

(* A step that leaves the statuses alone leaves the phases alone, and so   *)
(* for the hands.                                                          *)
LEMMA PhaseSame == UNCHANGED status => UNCHANGED Phase
BY DEF Phase

LEMMA HandsSame == UNCHANGED held => UNCHANGED Hands
BY DEF Hands, Holders

(* An empty table is an empty contract. *)
LEMMA InitRefines == Init => Contract!Init
BY DEF Init, Contract!Init, Phase, Hands, Holders

LEMMA EnqueueRefines ==
  ASSUME TypeOK, NEW j \in Jobs, Enqueue(j)
  PROVE  Contract!Submit(j)
<1>1. Phase[j] = "absent"
  BY DEF Enqueue, Phase
<1>2. Phase' = [Phase EXCEPT ![j] = "owed"]
  BY DEF Enqueue, TypeOK, Phase, Terminal
<1>3. UNCHANGED <<Hands, overran>>
  BY HandsSame DEF Enqueue, procs, history
<1> QED BY <1>1, <1>2, <1>3 DEF Contract!Submit

LEMMA OverrunRefines ==
  ASSUME TypeOK, NEW j \in Jobs, LeaseOverruns(j)
  PROVE  Contract!Overstay(j)
<1>1. Hands[j] # {}
  BY DEF LeaseOverruns, Hands
<1>2. UNCHANGED <<Phase, Hands>>
  BY PhaseSame, HandsSame DEF LeaseOverruns, procs
<1> QED BY <1>1, <1>2 DEF LeaseOverruns, Contract!Overstay

(* The one step that needs the invariant. *)
LEMMA ClaimRefines ==
  ASSUME IInv, NEW w \in Workers, NEW S \in SUBSET Jobs, ClaimBatch(w, S)
  PROVE  Contract!HandOut(w, S)
<1> USE DEF IInv, TypeOK
<1>1. \A j \in Jobs : w \notin Hands[j]
  BY HandsOf DEF ClaimBatch
<1>2. ASSUME NEW j \in S PROVE Phase[j] = "owed" /\ (Hands[j] = {} \/ overran[j])
  <2>1. status[j] \in {"queued", "running"} /\ (status[j] = "running" => expired[j])
    BY DEF ClaimBatch, Claimable
  <2>2. Phase[j] = "owed"
    BY <2>1, PhaseOf
  <2>3. ASSUME ~overran[j] PROVE Hands[j] = {}
    <3>1. \A v \in Workers : held[v][j] = 0
      BY <2>1, <2>3 DEF ExclusiveUnlessOverrun
    <3> QED BY <3>1 DEF Hands, Holders
  <2> QED BY <2>2, <2>3
<1>3. Hands' = [j \in Jobs |-> IF j \in S THEN Hands[j] \cup {w} ELSE Hands[j]]
  <2>1. ASSUME NEW j \in Jobs
        PROVE  Holders(j)' = IF j \in S THEN Holders(j) \cup {w} ELSE Holders(j)
    <3>1. \A v \in Workers \ {w} : held'[v][j] = held[v][j]
      BY DEF ClaimBatch
    <3>2. held'[w][j] = IF j \in S THEN attempts[j] + 1 ELSE 0
      BY DEF ClaimBatch, AttemptsAfterClaim
    <3>3. held[w][j] = 0 /\ attempts[j] \in Nat
      BY DEF ClaimBatch
    <3> QED BY <3>1, <3>2, <3>3 DEF Holders
  <2> QED BY <2>1 DEF Hands
<1>4. Phase' = Phase
  <2>1. ASSUME NEW j \in Jobs PROVE Phase'[j] = Phase[j]
    <3>1. CASE j \in S
      BY <3>1, <1>2 DEF ClaimBatch, Phase, Terminal
    <3>2. CASE j \notin S
      BY <3>2 DEF ClaimBatch, Phase
    <3> QED BY <3>1, <3>2
  <2> QED BY <2>1 DEF Phase
<1> QED BY <1>1, <1>2, <1>3, <1>4 DEF ClaimBatch, Contract!HandOut

(* What a worker records settles the job, or leaves it owed. *)
LEMMA RecordRefines ==
  ASSUME IInv, NEW w \in Workers, NEW j \in Jobs, Record(w, j)
  PROVE  Contract!Report(w, j)
<1> USE DEF IInv, TypeOK
<1>1. w \in Hands[j]
  <2>1. held[w][j] # 0
    BY JobQueueAssumption DEF Bookkeeping, Record
  <2> QED BY <2>1, HandsOf
<1>2. PICK v \in {"done", "failed", "dead", "queued"} : status' = [status EXCEPT ![j] = v]
  BY DEF Record, Verdicts
<1>3. \E p \in {"owed", "settled"} : Phase' = [Phase EXCEPT ![j] = p]
  <2> DEFINE p == IF v = "queued" THEN "owed" ELSE "settled"
  <2>1. Phase' = [Phase EXCEPT ![j] = p]
    BY <1>2 DEF Phase, Terminal
  <2> QED BY <2>1
<1>4. Hands' = [Hands EXCEPT ![j] = @ \ {w}]
  <2>1. ASSUME NEW k \in Jobs
        PROVE  Holders(k)' = IF k = j THEN Holders(k) \ {w} ELSE Holders(k)
    <3>1. \A v1 \in Workers : held'[v1][k] = IF v1 = w /\ k = j THEN 0 ELSE held[v1][k]
      BY DEF Record
    <3> QED BY <3>1 DEF Holders
  <2> QED BY <2>1 DEF Hands
<1>5. UNCHANGED overran
  BY DEF Record
<1> QED BY <1>1, <1>3, <1>4, <1>5 DEF Contract!Report

(* A failed write, an exit and a death empty one worker's hands. *)
LEMMA VanishRefines ==
  ASSUME TypeOK, NEW w \in Workers, RecordFails(w) \/ Exit(w) \/ Crash(w)
  PROVE  Contract!Vanish(w)
<1>1. /\ held' = [held EXCEPT ![w] = [j \in Jobs |-> 0]]
      /\ UNCHANGED <<status, overran>>
  BY DEF RecordFails, Exit, Crash, Die, rows
<1>2. ASSUME NEW j \in Jobs PROVE Holders(j)' = Holders(j) \ {w}
  BY <1>1 DEF Holders, TypeOK
<1>3. Hands' = [j \in Jobs |-> Hands[j] \ {w}]
  BY <1>2 DEF Hands
<1> QED BY <1>1, <1>3, PhaseSame DEF Contract!Vanish

LEMMA StepRefines == IInv /\ [Next]_vars => [Contract!Next]_(Contract!vars)
<1> SUFFICES ASSUME IInv, [Next]_vars PROVE [Contract!Next]_(Contract!vars)
  OBVIOUS
<1> TypeOK
  BY DEF IInv
<1>1. ASSUME NEW j \in Jobs, Enqueue(j) PROVE Contract!Next
  BY <1>1, EnqueueRefines DEF Contract!Next
<1>2. ASSUME NEW j \in Jobs, LeaseOverruns(j) PROVE Contract!Next
  BY <1>2, OverrunRefines DEF Contract!Next
<1>3. ASSUME NEW w \in Workers, Claim(w) PROVE Contract!Next
  BY <1>3, ClaimRefines DEF Claim, Contract!Next
<1>4. ASSUME NEW w \in Workers, NEW j \in Jobs, Record(w, j) PROVE Contract!Next
  BY <1>4, RecordRefines DEF Contract!Next
<1>5. ASSUME NEW w \in Workers, RecordFails(w) \/ Exit(w) \/ Crash(w) PROVE Contract!Next
  BY <1>5, VanishRefines DEF Contract!Next
<1>6. ASSUME \/ \E j \in Jobs : BecomeDue(j) \/ LeaseExpires(j)
             \/ \E w \in Workers : Stop(w) \/ Start(w) \/ \E j \in Jobs : Begin(w, j)
             \/ UNCHANGED vars
      PROVE  UNCHANGED Contract!vars
  <2>1. UNCHANGED <<status, held, overran>>
    BY <1>6 DEF BecomeDue, LeaseExpires, Stop, Start, Begin, vars, rows, procs, history
  <2> QED BY <2>1, PhaseSame, HandsSame DEF Contract!vars
<1> QED BY <1>1, <1>2, <1>3, <1>4, <1>5, <1>6 DEF Next

(* The queue keeps the contract its handlers rely on (jobs/types.ts): a    *)
(* job is handed out only while it is owed, to one worker at a time unless *)
(* a lease overran, and only a worker that has it in hand can settle it or *)
(* make it owed again.                                                     *)
THEOREM Refinement == Spec => KeepsContract
BY InitRefines, Inductive, StepRefines, PTL DEF Spec, KeepsContract, Contract!Spec
=============================================================================
