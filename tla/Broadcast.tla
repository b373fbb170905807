----------------------------- MODULE Broadcast ------------------------------
(***************************************************************************)
(* One broadcast: its row and its recipient ledger (migration 046,         *)
(* broadcastRepository), the member who creates, cancels and resumes it    *)
(* (broadcastService), and the jobs that materialize its audience and send *)
(* to it batch after batch (broadcastDispatchHandler,                      *)
(* broadcastSendHandler).                                                  *)
(*                                                                         *)
(* A handler is the list of the steps it has yet to await; each is one     *)
(* statement or one call to Meta, and one action.  What a handler asks of  *)
(* the rest of the system - account, template, headroom, standing,         *)
(* consent, quiet hours, price - may change at any moment, so an answer is *)
(* a choice made where the handler acts on it, which covers every answer   *)
(* read earlier.  The queue (JobQueue) is a number of tokens: a job whose  *)
(* handler throws or whose process dies is queued again, or lost when its  *)
(* attempts are used up; one whose lease runs out is run twice.            *)
(***************************************************************************)
EXTENDS Naturals, Sequences, FiniteSets

CONSTANTS Recipients,   \* the contacts the segment selects
          Workers,      \* job handlers running at a time
          BatchSize,    \* BATCH_SIZE (25)
          PageSize,     \* PAGE_SIZE (500)
          NoOne,
          MaxFaults,    \* bound: throws, deaths, overrun leases
          MaxResumes    \* bound: times the member resumes

ASSUME BroadcastAssumption ==
  /\ BatchSize \in Nat \ {0} /\ PageSize \in Nat \ {0}
  /\ MaxFaults \in Nat /\ MaxResumes \in Nat
  /\ IsFiniteSet(Recipients)
  /\ NoOne \notin Recipients

VARIABLES
  status,     \* commerce_broadcasts.status, "absent" until it is created
  counts,     \* its sent, failed and skipped counts
  ledger,     \* per recipient: the row's status, "absent" until inserted
  queue,      \* queued jobs by kind
  api,        \* the job a request has yet to enqueue: "none" or its kind
  job,        \* per worker: [kind, todo, batch, at]
  (* history *)
  attempts,   \* per recipient: requests made to Meta
  lateClaims, \* per worker: batches claimed after the cancel
  dirty,      \* a handler was interrupted since the counts were refreshed
  lost,       \* a job was lost: its attempts used up, or never enqueued
  faults, resumes

rows == <<status, counts, ledger>>
history == <<attempts, lateClaims, dirty, lost, faults, resumes>>
vars == <<rows, queue, api, job, history>>

Final == {"completed", "failed", "cancelled"}
Settled == {"sent", "failed", "skipped"}
Idle == [kind |-> "none", todo |-> <<>>, batch |-> {}, at |-> NoOne]
With(st) == {r \in Recipients : ledger[r] = st}
Tally == [st \in Settled |-> Cardinality(With(st))]

Init ==
  /\ status = "absent"
  /\ counts = [st \in Settled |-> 0]
  /\ ledger = [r \in Recipients |-> "absent"]
  /\ queue = [kind \in {"dispatch", "send"} |-> 0]
  /\ api = "none"
  /\ job = [w \in Workers |-> Idle]
  /\ attempts = [r \in Recipients |-> 0]
  /\ lateClaims = [w \in Workers |-> 0]
  /\ dirty = FALSE /\ lost = FALSE /\ faults = 0 /\ resumes = 0

-----------------------------------------------------------------------------
(* transition: one UPDATE ... WHERE status IN (from); returns whether it hit. *)
Move(from, to) == status' = IF status \in from THEN to ELSE status

(* The member.  create writes the row, then enqueues its dispatch; resume  *)
(* moves a paused row to running, then enqueues a send.                    *)
Create ==
  /\ status = "absent"
  /\ status' = "scheduled" /\ api' = "dispatch"
  /\ UNCHANGED <<counts, ledger, queue, job, history>>

Resume ==
  /\ status = "paused" /\ api = "none" /\ resumes < MaxResumes
  /\ status' = "running" /\ api' = "send" /\ resumes' = resumes + 1
  /\ UNCHANGED <<counts, ledger, queue, job, attempts, lateClaims, dirty, lost, faults>>

Cancel ==
  /\ status \in {"scheduled", "running", "paused"}
  /\ Move({"scheduled", "running", "paused"}, "cancelled")
  /\ UNCHANGED <<counts, ledger, queue, api, job, history>>

ApiEnqueues ==
  /\ api # "none"
  /\ queue' = [queue EXCEPT ![api] = @ + 1]
  /\ api' = "none"
  /\ UNCHANGED <<rows, job, history>>

(* The enqueue fails, or the process dies before it. *)
ApiDies ==
  /\ api # "none" /\ faults < MaxFaults
  /\ api' = "none" /\ lost' = TRUE /\ faults' = faults + 1
  /\ UNCHANGED <<rows, queue, job, attempts, lateClaims, dirty, resumes>>

-----------------------------------------------------------------------------
At(w, step) == job[w].todo # <<>> /\ Head(job[w].todo) = step

(* Seeded defect: a cancelled broadcast does not end the chain. *)
EndsChainUnlessCancelled(st) == st \in {"completed", "failed"}

(* The first thing a send job looks at. *)
EndsChain(st) == st \in Final

(* A worker takes a job and the handler reads the broadcast. *)
BeginDispatch(w) ==
  /\ job[w] = Idle /\ queue["dispatch"] > 0
  /\ queue' = [queue EXCEPT !["dispatch"] = @ - 1]
  /\ LET todo == CASE status = "scheduled" -> <<"check", "start", "page", "refresh", "enqueue">>
                   [] status = "running"   -> <<"check", "page", "refresh", "enqueue">>
                   [] OTHER                -> <<>>
     IN job' = IF todo = <<>> THEN job
               ELSE [job EXCEPT ![w] = [kind |-> "dispatch", todo |-> todo,
                                        batch |-> Recipients, at |-> NoOne]]
  /\ UNCHANGED <<rows, api, history>>

BeginSend(w) ==
  /\ job[w] = Idle /\ queue["send"] > 0
  /\ queue' = [queue EXCEPT !["send"] = @ - 1]
  /\ job' = IF EndsChain(status) THEN job
            ELSE [job EXCEPT ![w].kind = "send",
                             ![w].todo = IF status = "paused" THEN <<"unpause", "verify", "claim">>
                                                              ELSE <<"verify", "claim">>]
  /\ UNCHANGED <<rows, api, history>>

(* The rest of the handler: `todo`, with the batch it still holds. *)
Continue(w, todo) == job' = [job EXCEPT ![w].todo = todo]
End(w) == job' = [job EXCEPT ![w] = Idle]
Advance(w) == IF Len(job[w].todo) = 1 THEN End(w) ELSE Continue(w, Tail(job[w].todo))

(* Account, template, cap and standing, before the audience is built: the  *)
(* broadcast fails or is paused with no job enqueued, or goes ahead.       *)
Check(w) ==
  /\ At(w, "check")
  /\ \/ Advance(w) /\ UNCHANGED status
     \/ \E to \in {"failed", "paused"} :
          Move({"scheduled", "running"}, to) /\ End(w)
  /\ UNCHANGED <<counts, ledger, queue, api, history>>

Start(w) ==
  /\ At(w, "start")
  /\ Move({"scheduled"}, "running")
  /\ IF status = "scheduled" THEN Advance(w) ELSE End(w)
  /\ UNCHANGED <<counts, ledger, queue, api, history>>

(* Seeded defect: a second pass writes over the rows of the first. *)
InsertOver(page, st) == [r \in Recipients |-> IF r \in page THEN st[r] ELSE ledger[r]]

(* insertRecipients: ON CONFLICT DO NOTHING. *)
Insert(page, st) ==
  [r \in Recipients |-> IF r \in page /\ ledger[r] = "absent" THEN st[r] ELSE ledger[r]]

(* One page of the audience, the sendable and the blocked. *)
Page(w) ==
  /\ At(w, "page")
  /\ \E page \in SUBSET job[w].batch, st \in [Recipients -> {"pending", "skipped"}] :
       /\ page # {} /\ Cardinality(page) <= PageSize
       /\ Cardinality(page) < PageSize => page = job[w].batch
       /\ ledger' = Insert(page, st)
       /\ job' = [job EXCEPT ![w].todo = IF page = job[w].batch THEN Tail(@) ELSE @,
                             ![w].batch = @ \ page]
  /\ UNCHANGED <<status, counts, queue, api, history>>

-----------------------------------------------------------------------------
(* Seeded defect: the retry cadence un-pauses whatever it finds. *)
ResumableFromAny == {"paused", "cancelled", "completed"}

ResumableFrom == {"paused"}

(* A paused broadcast reached by a send job resumes, unless the cap or the *)
(* standing of the organization still stops it.                            *)
Unpause(w) ==
  /\ At(w, "unpause")
  /\ \/ /\ Move(ResumableFrom, "running")
        /\ IF status \in ResumableFrom THEN Advance(w) ELSE End(w)
     \/ End(w) /\ UNCHANGED status
  /\ UNCHANGED <<counts, ledger, queue, api, history>>

(* Seeded defects: a batch enqueues nothing after it; the counts of a      *)
(* paused broadcast are left as they were.                                 *)
NextBatchForgotten == <<"refresh">>
PauseUncounted == <<"pause">>

(* How a batch ends: with the next job enqueued, parked until headroom is  *)
(* granted, or until the quiet hours may be over.                          *)
NextBatch == <<"refresh", "enqueue">>
PauseForCap == <<"pause", "refresh">>
PauseForTheNight == <<"pause", "refresh", "enqueue">>

(* The channel and the template are verified again for every batch; an     *)
(* account without a currency cannot be priced.                            *)
Verify(w) ==
  /\ At(w, "verify")
  /\ Advance(w) \/ Continue(w, <<"fail">>) \/ Continue(w, PauseForCap)
  /\ UNCHANGED <<rows, queue, api, history>>

(* Seeded defect: what a dead worker left in `sending` is claimed again. *)
ClaimableAgain == With("pending") \cup With("sending")

ClaimableRows == With("pending")

(* claimPending: flip and return up to BatchSize pending rows.  The status *)
(* of the broadcast is not looked at again.                                *)
Claim(w) ==
  /\ At(w, "claim")
  /\ IF ClaimableRows = {}
     THEN /\ Continue(w, <<"complete", "refresh">>)
          /\ UNCHANGED <<ledger, lateClaims>>
     ELSE \E S \in SUBSET ClaimableRows :
            /\ S # {} /\ Cardinality(S) <= BatchSize
            /\ Cardinality(S) < BatchSize => S = ClaimableRows
            /\ ledger' = [r \in Recipients |-> IF r \in S THEN "sending" ELSE ledger[r]]
            /\ job' = [job EXCEPT ![w].todo = <<"resolve">>, ![w].batch = S]
            /\ lateClaims' = [lateClaims EXCEPT ![w] = IF status = "cancelled" THEN @ + 1 ELSE @]
  /\ UNCHANGED <<status, counts, queue, api, attempts, dirty, lost, faults, resumes>>

(* The credentials: a revoked channel gives the batch back and fails. *)
Resolve(w) ==
  /\ At(w, "resolve")
  /\ Continue(w, <<"recipient">>) \/ Continue(w, <<"release", "fail">>)
  /\ UNCHANGED <<rows, queue, api, history>>

(* The next recipient of the batch, up to the request to Meta: the consent *)
(* gate (quiet hours stop everyone, a refusal skips this one), the price   *)
(* (none skips), the reservation (none stops everyone).                    *)
Recipient(w) ==
  /\ At(w, "recipient")
  /\ IF job[w].batch = {}
     THEN Continue(w, NextBatch) /\ UNCHANGED ledger
     ELSE \/ /\ \/ Continue(w, <<"release">> \o PauseForTheNight)
                \/ Continue(w, <<"release">> \o PauseForCap)
             /\ UNCHANGED ledger
          \/ \E r \in job[w].batch :
               \/ /\ ledger' = [ledger EXCEPT ![r] = "skipped"]
                  /\ job' = [job EXCEPT ![w].batch = @ \ {r}]
               \/ /\ job' = [job EXCEPT ![w].todo = <<"send">>, ![w].batch = @ \ {r}, ![w].at = r]
                  /\ UNCHANGED ledger
  /\ UNCHANGED <<status, counts, queue, api, history>>

(* Meta accepts, refuses, or the call errs and nobody knows: then the row  *)
(* stays `sending` and the rest of the batch with it.                      *)
Send(w) ==
  /\ At(w, "send")
  /\ attempts' = [attempts EXCEPT ![job[w].at] = @ + 1]
  /\ \E answer \in {"accepted", "refused"} : Continue(w, <<answer>>)
       \/ Continue(w, <<"refresh", "retry">>)
  /\ UNCHANGED <<rows, queue, api, lateClaims, dirty, lost, faults, resumes>>

(* Seeded defect: who was refused is put back in line. *)
RowPutBack(answer) == IF answer = "accepted" THEN "sent" ELSE "pending"

RowAfter(answer) == IF answer = "accepted" THEN "sent" ELSE "failed"

(* settleRecipient: by id alone. *)
Settle(w) ==
  \E answer \in {"accepted", "refused"} :
    /\ At(w, answer)
    /\ ledger' = [ledger EXCEPT ![job[w].at] = RowAfter(answer)]
    /\ job' = [job EXCEPT ![w].todo = <<"recipient">>, ![w].at = NoOne]
    /\ UNCHANGED <<status, counts, queue, api, history>>

-----------------------------------------------------------------------------
(* releaseClaims: the rows not attempted yet, while they are `sending`. *)
Release(w) ==
  /\ At(w, "release")
  /\ ledger' = [r \in Recipients |-> IF r \in job[w].batch /\ ledger[r] = "sending"
                                     THEN "pending" ELSE ledger[r]]
  /\ Advance(w)
  /\ UNCHANGED <<status, counts, queue, api, history>>

Transition(w) ==
  /\ \/ At(w, "pause") /\ Move({"running"}, "paused")
     \/ At(w, "complete") /\ Move({"running"}, "completed")
     \/ At(w, "fail") /\ Move({"running", "paused"}, "failed")
  /\ Advance(w)
  /\ UNCHANGED <<counts, ledger, queue, api, history>>

(* refreshCounts: recomputed from the ledger. *)
Refresh(w) ==
  /\ At(w, "refresh")
  /\ counts' = Tally /\ dirty' = FALSE
  /\ Advance(w)
  /\ UNCHANGED <<status, ledger, queue, api, attempts, lateClaims, lost, faults, resumes>>

Enqueue(w) ==
  /\ At(w, "enqueue")
  /\ queue' = [queue EXCEPT !["send"] = @ + 1]
  /\ Advance(w)
  /\ UNCHANGED <<rows, api, history>>

(* The queue runs a job again, or gives it up as dead. *)
Requeue(kind) ==
  \/ queue' = [queue EXCEPT ![kind] = @ + 1] /\ UNCHANGED lost
  \/ lost' = TRUE /\ UNCHANGED queue

Retry(w) ==
  /\ At(w, "retry") /\ End(w) /\ Requeue("send")
  /\ UNCHANGED <<rows, api, attempts, lateClaims, dirty, faults, resumes>>

(* A handler throws at any await, or its process dies there: rows it had   *)
(* claimed stay `sending`.                                                 *)
Interrupt(w) ==
  /\ job[w] # Idle /\ faults < MaxFaults
  /\ End(w) /\ Requeue(job[w].kind)
  /\ dirty' = TRUE /\ faults' = faults + 1
  /\ UNCHANGED <<rows, api, attempts, lateClaims, resumes>>

(* The lease runs out while the handler goes on: the job runs twice. *)
Overrun(w) ==
  /\ job[w] # Idle /\ faults < MaxFaults
  /\ queue' = [queue EXCEPT ![job[w].kind] = @ + 1]
  /\ faults' = faults + 1
  /\ UNCHANGED <<rows, api, job, attempts, lateClaims, dirty, lost, resumes>>

Step(w) ==
  \/ BeginDispatch(w) \/ Check(w) \/ Start(w) \/ Page(w)
  \/ BeginSend(w) \/ Unpause(w) \/ Verify(w) \/ Claim(w) \/ Resolve(w)
  \/ Recipient(w) \/ Send(w) \/ Settle(w)
  \/ Release(w) \/ Transition(w) \/ Refresh(w) \/ Enqueue(w) \/ Retry(w)

Next ==
  \/ Create \/ Resume \/ Cancel \/ ApiEnqueues \/ ApiDies
  \/ \E w \in Workers : Step(w) \/ Interrupt(w) \/ Overrun(w)

Spec == Init /\ [][Next]_vars

(* Requests finish and workers go on. *)
FairSpec == Spec /\ WF_vars(ApiEnqueues) /\ \A w \in Workers : WF_vars(Step(w))

-----------------------------------------------------------------------------
Steps == {"check", "start", "page", "unpause", "verify", "claim", "resolve", "recipient", "send",
          "accepted", "refused", "release", "pause", "complete", "fail", "refresh", "enqueue", "retry"}

TypeOK ==
  /\ status \in {"absent", "scheduled", "running", "paused"} \cup Final
  /\ counts \in [Settled -> Nat]
  /\ ledger \in [Recipients -> {"absent", "pending", "sending"} \cup Settled]
  /\ queue \in [{"dispatch", "send"} -> Nat] /\ api \in {"none", "dispatch", "send"}
  /\ job \in [Workers -> [kind: {"none", "dispatch", "send"}, todo: Seq(Steps),
                       batch: SUBSET Recipients, at: Recipients \cup {NoOne}]]
  /\ attempts \in [Recipients -> Nat] /\ lateClaims \in [Workers -> Nat]
  /\ dirty \in BOOLEAN /\ lost \in BOOLEAN /\ faults \in Nat /\ resumes \in Nat

(* "Re-sending a marketing message to a member of the public is a worse    *)
(* failure than under-reporting": Meta is asked at most once to message a  *)
(* person, through dead workers, jobs run twice, resumes that start a      *)
(* second chain and batches given back.                                    *)
NobodyMessagedTwice == \A r \in Recipients : attempts[r] <= 1

(* A row that is with a handler, to be messaged, settled or given back, is *)
(* with no other, and is still `sending`: SKIP LOCKED divides the audience. *)
Holding == {"resolve", "recipient", "send", "accepted", "refused", "release"}
Sending(w) == IF job[w].todo # <<>> /\ Head(job[w].todo) \in Holding
              THEN job[w].batch \cup ({job[w].at} \ {NoOne}) ELSE {}

AudienceIsDivided ==
  \A w \in Workers :
    /\ \A r \in Sending(w) : ledger[r] = "sending"
    /\ \A v \in Workers \ {w} : Sending(v) \cap Sending(w) = {}

(* A cancel stops a worker by its next batch: it claims at most the one it *)
(* was about to claim when the member cancelled, and no job started later  *)
(* claims any.                                                             *)
CancelStopsChain == \A w \in Workers : lateClaims[w] <= 1

(* Completed, failed and cancelled are final, whatever retry, resume or    *)
(* second dispatch is still on its way.                                    *)
EndIsFinal == [][(status \in Final) => (status' = status)]_vars

(* When no handler is at work and none was interrupted since, the counts   *)
(* shown are those of the ledger, on every way out of a handler.           *)
CountsMatchLedger ==
  (\A w \in Workers : job[w] = Idle) /\ ~dirty => counts = Tally

(* A running broadcast does not run for ever: it completes, fails, pauses  *)
(* or is cancelled, unless the queue lost a job of it.                     *)
RunningEnds == status = "running" ~> status # "running" \/ lost

(* broadcastSendHandler.ts:156: "Ledger dry: everyone is sent, failed,     *)
(* skipped - or stranded in `sending` by a dead worker" when a broadcast   *)
(* is marked completed.                                                    *)
CompletedReachedEveryone ==
  status = "completed" => \A r \in Recipients : ledger[r] \in Settled \cup {"sending"}

-----------------------------------------------------------------------------
(* How far it has got with each recipient: a row `sending` is only taken   *)
(* until Meta has been asked.  It implements what Campaign promises.       *)
Progress(row, asks) ==
  CASE row = "absent"  -> "unlisted"
    [] row = "pending" -> "waiting"
    [] row = "sending" -> IF asks = 0 THEN "taken" ELSE "asked"
    [] row = "sent"    -> "reached"
    [] row = "failed"  -> "refused"
    [] row = "skipped" -> "passed"

Place == [r \in Recipients |-> Progress(ledger[r], attempts[r])]

Hands == [w \in Workers |-> Sending(w)]

Promise == INSTANCE Campaign WITH
  People <- Recipients, Batches <- {S \in SUBSET Recipients : Cardinality(S) <= BatchSize},
  phase <- status, place <- Place, asks <- attempts, hands <- Hands, late <- lateClaims

(* Whatever dies, overlaps or is resumed, the broadcast does by everyone    *)
(* what Campaign says: it asks for a person at most once, by the handler    *)
(* that holds the row, gives back only rows it asked Meta nothing for, and  *)
(* leaves alone what a lost handler had claimed.                            *)
KeepsPromise == Promise!Spec
=============================================================================
