# Stewra: TLA+ models, checks and proofs

Stewra is a TypeScript monorepo: an Express/WebSocket backend over PostgreSQL
(`src/backend`), a machine-side runner for coding agents (`src/runner`), a
WhatsApp bridge (`src/bridge`), web and mobile clients. This directory holds TLA+
models of the parts whose correctness depends on what several processes do to
shared rows in an order no test exercises. All paths below are relative to the
repository root, `src/` included; a bare file name is the one of the component
under discussion.

    tlc -workers 2 -config MCJobQueue.cfg MCJobQueue      # check a model
    tlapm JobQueueProofs.tla                              # check the proofs

Contents: 1 inventory, 2 the models, 3 what each run checks, 4 bounds,
5 fairness and deadlock, 6 what is proved, 7 disagreements with the comments,
8 what is not modelled, 9 plan.

## 1. Inventory

Every process of the backend shares one PostgreSQL database. There is no broker
and no in-process lock that spans processes: coordination is by conditional
`UPDATE`s, unique indexes, `FOR UPDATE SKIP LOCKED` and transactions, and
everything between two `await`s of one handler may be interleaved with every
other handler, in this process or another. A websocket server starts a handler
per event and awaits in it, so even the events of one socket, which arrive in
order, take effect in any order.

| Component | State | Operations | Hard behaviour | What makes it correct |
|---|---|---|---|---|
| Commerce job queue (`commerce/jobs/worker.ts`, `repositories/jobRepository.ts`) | rows of `commerce_jobs`: status, run_after, locked_until, locked_by, attempts | enqueue, claim a leased batch, run a handler, mark done / failed / dead / queued again, stop | leases that run out under a live worker, outcomes recorded by id alone, crashes, failed writes, shutdown within a batch | an attempt has one worker, the retry ceiling is accounted for, terminal states are final, every job settles |
| Broadcasts (`services/broadcastService.ts`, `jobs/broadcast*Handler.ts`, `repositories/broadcastRepository.ts`) | the broadcast row with its counts, a row per recipient | create, cancel, resume; materialize the audience; claim, send, settle and release a batch; the chain of jobs | cancel and resume against running handlers, two chains at once, unknown answers, death with a batch in hand | nobody is messaged twice, final states are final, counts are the ledger's, the chain does not stall |
| Spend caps and cost rating (`spendCapRepository.ts`, `spendCapService.ts`, `costRatingService.ts`, `messageCostBackfillHandler.ts`) | cap, monthly counters, append-only ledger, cost row per message | reserve, close, book apart, rate, re-rate, release stale holds | duplicated and late receipts, changing months, currencies and prices, the backfill against a receipt | counters equal the ledger, the cap binds, a charge is booked exactly once |
| Invoices and collection (`billingService.ts`, `paymentService.ts`, `invoiceRepository.ts`, `paymentAttemptRepository.ts`, `stripeProvider.ts`, the webhook controller) | period, invoice, numbered payment attempts | close a month, charge, attest, apply a provider event | two collectors, a throw after the money moved, an event before its reference is stored, a webhook that dies | one call per key, attempts tell the truth, a paid invoice has evidence, a closed month is billed |
| Plans and store subscriptions (`storeSubscriptionService.ts`, `storeSubscriptionRepository.ts`, `planRepository.ts`, `appleStore.ts`, `googlePlay.ts`, `storeWebhookController.ts`) | the row of a purchase, the log of deliveries, each organization's tenure of a plan | claim a purchase, take a delivery, follow a replaced token, grant and end a plan | notifications late, out of order, twice, half handled; two claims; the operator's own assignments | rows end as the store has it, one purchase is one row, the plan in force follows the row and spares the operator's |
| Dunning, rate cards (`dunningService.ts`, the rate card repository) | readings of the above and versioned tables | ask, set, load | an answer that is stale when used | answers are used only as gates |
| Commerce scheduler, inbox, consent, templates, segments, import, opt-in links, channel accounts | rows with little protocol of their own | timers, create and list, mirror | mostly I/O | - |
| Tenancy (`tenancy/`, `accountDeletionService.ts`) | the organization, members and roles, invites, deletions of accounts under way | change a role, remove, leave, invite, revoke, accept, convert to a business, delete an account | the caller's role, the member and the number of owners are each read in a statement of their own before the write | an organization keeps an owner, only owners move ownership |
| Calls (`websocket/callSignalingHandler.ts`, `callService.ts`, `callSessionRepository.ts`) | in-memory registry, ring timers, call session rows, call markers | initiate, answer, decline, end, disconnect, ring out | busy check before an await, several ways to close one call, a restart that forgets the registry | one call per conversation, a call is closed once and its row agrees, ringing stops for both |
| Runner, server side (`runnerSessionService.ts`, `runnerSessionRepository.ts`, `runnerHandler.ts`, `runnerEmitter.ts`) | session rows, what is in flight to and from the machine | start, acknowledge, prompt, decide, cancel, push, record updates and ends | statuses written out of order, an acknowledgement that times out, a machine that comes back | a recorded end stays |
| Runner, machine side (`runner/src/core/sessionManager.ts`, `stewraRunnerClient.ts`, `workspace.ts`) | live and retained sessions, worktrees, branches | start, prompt, decide, cancel, end of a turn, retain, evict, push | a session is found or not three awaits later, a cancel against a completion | a completed session can be pushed, a cancel is heard |
| WhatsApp bridge (`bridge/src/core/*`, `whatsappBridgeService.ts`, `whatsappStore.ts`, `bridgeEmitter.ts`, `bridgeHandler.ts`) | outbox rows, claimed message ids, SENDs in flight | queue, dispatch, drain at a hello, acknowledge, claim echoes | two calls on one row, an acknowledgement that never comes, an echo before it | a row says what happened, Stewra does not answer itself |
| Messaging, presence, assistant, mail/money/calendar, accounts, clients, deployment | request-at-a-time storage, third-party data, user interface | - | little concurrency | - |

How they interact: the scheduler and the API enqueue jobs; the worker runs the
handlers. A broadcast's send job asks consent, price (rate cards), headroom
(spend caps), standing (dunning over issued invoices) and the channel account,
reserves the price, calls Meta, and settles the message. Meta's receipts come
back through the webhook, are merged into the message, and trigger rating, which
closes the reservation. The month's closing asks the subscription, which an
operator or a store purchase put in force, writes the invoice, and collection
jobs charge it; the provider's events come back through its own webhook. The
stores' notifications come by another, which answers an error when its handling
fails so that the store delivers again. Calls, runner sessions and the bridge
are three protocols over websockets, each between rows in the database, memory
of the server and a peer that disconnects. A runner's relay into chat and an
assistant's turn end in the bridge's outbox.

`PROJECT.json` lists the components in full and, under `hazards`, each hard
behaviour at the line where it bites with the properties that watch it.

## 2. The models

One module per component; one action per SQL statement, transaction or external
call, because that is the grain at which PostgreSQL and `await` let processes
interleave. An in-flight handler is a *program counter*: `current`/`held` in
JobQueue, `rater[r].pc` in SpendCap, the list `todo` of steps still to be awaited
in Broadcast and Billing, `accepting` and `closing` in CallSignaling, `at` in
Tenancy and BridgeOutbox, `pc` in StoreSubscriptions. In RunnerSessions the
server's handlers have one statement each, so a bag of statements yet to be made
(`writes`) stands for them. What a handler read before an await stays in that
record and is used as it was read.

| Module | Models | State, and the code's |
|---|---|---|
| `JobQueue` | the queue and its workers | `status, due, expired, lockedBy, attempts` are the columns status, `run_after <= now()`, `locked_until < now()`, locked_by, attempts; `held[w][j]` is `job.attempts` as the worker's batch read it; `mode` is running/stopping/dead |
| `AtLeastOnce` | what the queue promises handlers and enqueuers (`jobs/types.ts`) | `phase` is absent, owed or settled; `hands[j]` the workers that have the job in hand; `late` that one overstayed its lease |
| `Broadcast` | one broadcast | `status, counts, ledger` are the broadcast row and the recipients' statuses; `queue` counts queued jobs by kind; `api` is a request between its row and its enqueue; `job[w]` is a handler with the steps it has left, the batch it holds and the recipient in hand |
| `Campaign` | what a broadcast promises its member and its audience (`broadcastService.ts`, `broadcastSendHandler.ts`) | `phase` of the campaign; `place[r]` how far it has got with a person and `asks[r]` how often he was asked for; `hands[w]` the people a worker has taken; `late[w]` batches taken since the cancel |
| `SpendCap` | one organization's spend | `limit, reserved, actual` are the cap and the period counters; `reserve, close, unreserved` are the ledger's entries per message (unique by index); `sent, billable, cost` are the message and its cost row; `rater` is a webhook or backfill item at work |
| `Billing` | one organization's month | `billable, closed, invoice, attempt` are the subscription, the period, the invoice and the attempts by key; `charge, events` the provider; `proc` a request, job or webhook |
| `StoreSubscriptions` | one purchase at the App Store or Google Play and the plans it buys | `told` is the purchase's history at the store (its reference, a token Google replaces, and its status), `recorded` the deliveries in `commerce_store_notifications`; `row` is `commerce_store_subscriptions`, `active` each organization's unended row of `commerce_subscriptions` and who began it; `proc` a request or webhook |
| `CallSignaling` | 1:1 calls | `activeCalls, ringTimeout` are the registry and its timers; `opening, accepting, closing, cleaning` the handlers; `status, markers` the row and the inline messages |
| `RunnerSessions` | one coding session on both sides of the socket | `row, dispatch, requests, writes` the server; `toRunner, toServer, ack` the socket; `live, turns, cancelling, retained, worktree, branch, ...` the session manager |
| `Tenancy` | one organization | `role, membership` are `org_members`, `invite` is `org_invites`; `request` and `deletion` are what a request or the deletion of an account has read so far |
| `BridgeOutbox` | what Stewra says in a person's WhatsApp | `status, attempts, providerId` are `whatsapp_outbound`; `task` a call that dispatches lines; `answer, orphans, sends` the SENDs at the bridge and what WhatsApp took; `claimed` the ids no turn answers |
| `*Proofs` | theorems about the module of that name; `JobQueueProofs` has the refinement of `AtLeastOnce` too, `BroadcastProofs` that of `Campaign`, and `OrganizationProofs` is about `Tenancy` and `StoreSubscriptions` | |
| `MC*` | instances for TLC | |

Variables called *history* in a module (`settled`, `reclaims`, `overran`,
`lateClaims`, `overshoot`, `prices`, `cut`, `asked`, `unheard`, `misheard`,
`left`, `died`, `dropped`, `overlapped`, `stale`, `lost`, `raced`, `crossed`,
`unclaimed`, `overtaken`, `skipped`, `collided`, `calm`, `heard`, ...) are
observers: no guard of code reads them. The counters `faults`, `events`,
`receipts`, `resumes`, `acts`, `made` only bound the exploration.

Definitions commented "Seeded defect" are not part of any specification. Each is
an alternative body for the definition after it, the way a plausible bug would
write it; substituting it makes TLC refute the property it is paired with
(`mutants` in PROJECT.json). They show that the property depends on that code.

How actions correspond to code is in `map` of PROJECT.json, definition by
definition. The main ones:

* JobQueue: `Enqueue`, `ClaimBatch` (the UPDATE ... FOR UPDATE SKIP LOCKED),
  `Begin`/`Verdicts`/`Record` (`run()` and markDone, markTerminal,
  markForRetry), `RecordFails` (the exception that leaves `runOnce`),
  `Stop`/`Exit`/`Crash`/`Start`.
* Broadcast: `Create`, `Resume`, `Cancel`, `ApiEnqueues`; `BeginDispatch`,
  `Check`, `Start`, `Page`; `BeginSend`, `Unpause`, `Verify`, `Claim`, `Resolve`,
  `Recipient`, `Send`, `Settle`, `Release`, `Transition`, `Refresh`, `Enqueue`.
* SpendCap: `Reserve`, `CloseOpen`/`CloseResult` (closeReservation), `Receipt`,
  `Rate`, `WriteDuplicate`, `ReRate`, `Reinsert`, `Settle`, `Book`,
  `FindStale`, `ReleaseStale`.
* Billing: `ReadSubscription`, `WriteInvoice`, `MarkPeriod`; `CountAttempts`,
  `CreateAttempt`, `ChargeInvoice`, `RecordOutcome`, `MarkPaid`,
  `SaveProviderRef`; `Deliver`, `FindPending`.
* StoreSubscriptions: `Claim` and `Deliver` (what the store says is read, then
  the row is looked for), `Rekey` (a replaced token), `Find`, `Insert`,
  `Update`, `MarkRevoked`; reconciling the plan is `Grant`, `Link`, `Check`,
  `End`, `Unlink`; `Record` is the delivery's row, written last; `Throw` a
  statement that fails, `Override` the operator's assignment. `Renew`, `Lapse`,
  `Refund`, `Reissue` are the customer and the store.
* CallSignaling: `Initiate`, `Open` (the row, then the registry, then the timer),
  `Answer`, `MarkAccepted`, `MarkStart`; `Decline`, `End`, `RingTimesOut`,
  `CleanUp` (a disconnect) all run `Finalize` and then `ReadRow`, `CloseRow`,
  `MarkEnd` (closeCall); `OpenFails`, `AcceptFails`, `CloseFails`, `Restart`.
* RunnerSessions: `Create`, `SendStart`, `AckArrives`, `AckTimesOut`, `Request`,
  `Relay`, `TakeEvent`, `Write` on the server; `BeginStart`, `Started`,
  `StartRefused`, `Prompted`, `AskPermission`, `Decided`, `TurnEnds`,
  `TurnSaved`, `TurnFails`, `Cancelled`, `CancelGoesOn`, `RemoveWorktree`,
  `Evict`, `Pushed` on the machine; `Connect`, `Disconnect`, `Die`. `Malformed` is
  an event its schema refuses, `WriteThrows` a handler whose statement fails
  under the guard that logs and goes on.
* Tenancy: `Begin` (the middleware read the caller's role), `FindMember`,
  `CountOwners`, `WriteMember`; `AskInvite`, `InsertInvite`, `EmailFails`,
  `RevokeInvite`, `AcceptInvite`; `FindMemberships`, `FindOthers`,
  `CountOtherOwners`, `ListSoleOrgs`, `DeleteAccount`; `ConvertToBusiness`.
* BridgeOutbox: `Enqueue`, `EnqueueText`, `OnHello` (drainOutbox); a dispatch is
  `Hand`, then `AckArrives` or `AckTimesOut`, then `ClaimOwn` (which may fail, and
  goes on all the same) and `MarkSent`, in that order; `ClipIsGone`, `MarkFails`; `HandleSend` and `HandleOrphan` at the
  bridge; `AnswersEcho` (claimInboundMessage before a turn), `Restart`.

Abstractions that matter. Time is nondeterministic (a lease may expire whenever
it is held, a month may pass, a timer may fire). The backoff lengths, dedupe
keys, texts and lines of an invoice are data no property tells apart. The gates
a broadcast asks answer anything at the moment their answer is acted on, which
includes every stale answer. Within Broadcast the queue is a count of tokens
which a throw or a death puts back or loses, and which an overrun lease
duplicates: this is what `AtLeastOnce` allows, which JobQueue is shown to
implement. Meta, the payment provider, the stores, the coding harness and
WhatsApp are environment: they accept, refuse, or are not heard from. They send
a receipt or an event once or more. Of a subscription's status a model needs
three values: entitled, not entitled, and refunded; it assumes that Play reports
a replaced or refunded token as expired when asked, as `googlePlay.ts` expects.
The three roles below admin are one. The machine's cap on retained sessions is
other sessions' doing and may evict the modelled one at any time.

## 3. Runs

Passing runs check the component; each "violation" run refutes one sentence the
repository says of itself (section 7).

| Run | Shows |
|---|---|
| `job_queue` | `ClaimsAreFenced`: no two workers act under one attempt number and a recorded attempt is never worked on again. `AttemptsAccounted`: attempts exceed the ceiling only by the number of expired leases taken over. `ExclusiveUnlessOverrun`, `FinalUnlessOverrun`: unless a lease ran out under a live worker, the holder is the one the row names and terminal states are final. `EveryJobSettles`: every queued job becomes done, failed or dead. `KeepsContract`: the queue implements `AtLeastOnce`, with owed = queued or running, in hand = held by a live worker's batch, late = `overran`. |
| `broadcast` | `NobodyMessagedTwice`; `AudienceIsDivided`: a row in a handler's hands is in nobody else's; `CancelStopsChain`: after a cancel a handler claims at most the batch it was about to; `EndIsFinal`; `CountsMatchLedger`: no way out of a handler leaves stale counts, interruptions aside; `RunningEnds`: a running broadcast completes, fails, pauses or is cancelled unless the queue lost its job. `KeepsPromise`: the broadcast implements `Campaign`, with taken = a row `sending` of which Meta was not asked, asked = one of which it was, and in hand = what a handler holds to message, settle or give back. |
| `spend_cap` | `CountersMatchLedger`; `WithinGrantedHeadroom`: held plus charged never passes the highest limit granted except by what was charged above or without a hold; `NeverBookedTwice`; `RatedIsBooked`: once its raters are through, a rated message is on the books at a price one of its receipts was rated at, prices of zero included; `EveryReceiptIsRated`. |
| `billing` | `KeysAreExclusive`: the provider is called once per key; `OutcomesAreTrue`: what is recorded agrees with the provider whichever of collector and webhook wrote last, unless the provider answered with an error to a charge it took; `PaidHasEvidence`; `SucceededIsPaid`; `ClosedIsBilled`; `ChargedIsPaid`. |
| `store_subscriptions` | `RowsAreTrue`: when every delivery is recorded, a row has the purchase's present reference and is entitled as the store has it; `OneRowPerPurchase`; `AccessFollowsRow`: a row points at a tenure exactly while it is entitled, the payer has that plan, and no plan the store began is without a paying row; `LapseSparesOperator`: a lapse ends an operator's plan only if it was given after the handler looked. |
| `call_signaling` | `ClosedOnce`: whoever ends a call, at most one end marker is written and the outcome is the one that happened; `SecondCallOnlyByRace`; `OpenRowsAreTracked`: a row still ringing or accepted belongs to a call the server can close; `RingIsSettled`: ringing stops for both parties. |
| `runner_sessions` | `OutcomeKept`: an end recorded with no other handler of the session under way stays; `CompletedIsPushable`: a completed session keeps its worktree and branch, disconnects or not; `EndIsRecorded`: a cancel that finds the session and every end the machine reports reach the row, after a disconnect and return too, unless the report itself was lost. |
| `tenancy` | `OwnerlessOnlyByRace`: the last owner is lost in two ways only; `OwnersDecide`: the owner role moves only by the decision of one who was an owner when asking, or by a deletion. |
| `bridge_outbox` | `OutboxIsTrue`: of every row, a line marked sent is out; unless a dispatch lost sight of it, a line that is out while its row is pending has a dispatch that will mark it; unless two calls held it besides, it went out once at most, and not if given up. `RecordedIsNotAnswered`: a line recorded as sent whose id could be claimed is never answered as if the person had written it. |
| `broadcast_completed`, `spend_duplicates`, `billing_double_charge` | counterexamples to the sentences of section 7 |

What a property excludes is a hazard in its own right. The names say it:

* *UnlessOverrun* (`overran`): the outcome statements match by id alone, so a
  worker that lost its lease still writes. With an overrun a done job can run
  again; the queue is at-least-once and handlers have to cope, which the
  broadcast model assumes of the queue and checks of the handler.
* `lost` in `RunningEnds`: an enqueue that never happened after the row was
  written, or a job out of attempts. Nothing in the code looks for such a
  broadcast.
* `dirty` in `CountsMatchLedger`: a handler interrupted before its refresh.
* `cut` in `RatedIsBooked`: a rater that died between the cost row and the
  ledger. The backfill looks for messages without a cost row, so this one is
  booked when another receipt of it comes, and the excuse ends there; it lasts
  where the dead rater had closed the hold in another currency, as that close
  says `settle` and later receipts take the charge for booked. `prices` are those
  its receipts were rated at: the first to close the hold decides, and at a price
  of zero it closes it at nothing.
* `left` in `SucceededIsPaid` and `ChargedIsPaid`: that very attempt's handler was
  cut short (the webhook is acknowledged first). `unheard` in `ChargedIsPaid`: the
  event arrived before the collector stored the reference it is found by.
  `misheard` in `OutcomesAreTrue` and `ChargedIsPaid`: the provider answered with
  an error to a charge it took, which is recorded as a failed one.
* `overtaken` in StoreSubscriptions: a handler acted on an earlier word of the
  store's after another had acted on a later one. Rows carry no version, so the
  older word stays until the next delivery. `skipped`: a token replaced twice is
  claimed before the first replacement is known; the link is followed one step
  only, and a second row is made. `collided`: two handlers reconcile one row at
  once; both grant, and the row may point at the tenure that was ended, which a
  later lapse ends in vain. `cut`: a statement failed in a claim, which nobody
  repeats, or after the row was written in a way that makes the repetition skip
  the plan. `overridden`: the operator decided otherwise.
* `overlapped` in `SecondCallOnlyByRace`: both calls passed the busy check before
  either was registered, as an await lies between. `lost` in CallSignaling: a
  restart forgets the registry, a failed statement leaves the row; nothing
  repairs such a row.
* `calm` in `OutcomeKept`: the statements that record a status match by id and
  device, so one that was under way when the end was recorded puts a finished row
  back to running. `raced`, `evicted`, `died` in RunnerSessions: the turn
  completed while a cancel awaited the harness (and the cancel then removes the
  completed branch), the machine's cap pushed the session out, the machine died.
  `dropped` in `EndIsRecorded`: the report of the end was on the way when the
  connection went, was refused by its schema, or was in a handler whose statement
  failed. None of these is sent again.
* `overlapped` and `stale` in `OwnerlessOnlyByRace`: two had both counted two
  owners; or a write fell on a role that had changed since it was read.
* `crossed` in `OutboxIsTrue`: two calls held the row at once (an enqueueing turn
  and a drain, or two drains). The line may go out twice, and a failure may be
  written over a success.
* `lost` in BridgeOutbox: a dispatch lost sight of a line that was out, or might
  yet be. That is so when it stops waiting for the ack; when WhatsApp took the
  line and the ack says that it failed, names no id or cannot be read; when the
  row cannot be marked as sent; and when the server restarts in between. What
  holds of such a row is that it is not marked sent unless the line is out.
* `unclaimed` in `RecordedIsNotAnswered`: the insert that claims an id failed.
  The failure is answered as a duplicate is, nobody looks at the answer, and the
  row is marked sent.

## 4. Bounds

| Model | Instance | Why it is enough |
|---|---|---|
| JobQueue | 2 rows (one of a kind without a handler), 2 workers, batches of 2, ceiling 2, 2 faults | two workers are what it takes to lose a lease to someone; a batch of two leaves a job waiting under a lease; the ceiling of 2 is passed with 2 faults |
| Broadcast | 2 recipients, pages of 1, batches of 2, 2 handlers, 1 fault, 1 resume | pages of 1 give a dispatch that is half done; a batch of 2 is split by a recipient that stops it; one resume gives two chains; the fault is a throw, a death, a lost enqueue or an overrun lease anywhere |
| SpendCap | 2 messages of one conversation, 2 currencies, 2 months, prices 0 and 1 under a limit of 1, 2 raters, 2 receipts, 2 events | two messages of price 1 do not fit the limit together; both raters on one message or on both; a price, currency or month that changes between hold and receipt, and a death. `spend_duplicates` takes prices 1 and 2, a limit of 2 and a third receipt. |
| Billing | 2 processes, attempts 1 and 2 of both kinds, 2 deliveries, 1 fault (none in `billing_double_charge`) | collector against collector, operator, webhook or closer; an attempt after a failed or forgotten one |
| StoreSubscriptions | 2 organizations, 2 handlers, a purchase that changes twice (`MaxTold` 3), 2 claims, overrides and failures together | two changes are a lapse after a replaced token, a renewal after a lapse, a refund after a renewal; two acts are two claims by different organizations, or a claim that fails, or one the operator overrides |
| CallSignaling | 1 conversation of 2, 2 calls, 1 fault | a second call against every way the first one ends; more conversations share nothing |
| RunnerSessions | 1 session, 2 turns, 2 requests, 1 permission, 2 faults (disconnects, a death, a refused event, a failed statement) | a request against a request, a turn queued behind another; sessions share only the cap that evicts |
| Tenancy | 2 users, 2 requests or deletions at a time, 2 invites, 3 memberships ever | two owners who take each other or themselves away; a third membership is someone who left and came back under an old request |
| BridgeOutbox | 2 lines, 2 calls at a time, 2 attempts, 2 sends per line, 2 faults | a drain over two lines against the turn that queued one of them; the second attempt is the last |

For what section 6 proves these sizes do not matter. MaxFaults, MaxResumes,
MaxReceipts, MaxEvents, MaxAttempts (of Billing), MaxDeliveries, Months, MaxTold,
MaxActs, MaxTurns, MaxRequests, MaxAsks, MaxAtOnce, MaxJoins, Lines and MaxSends
are bounds of the models, named as such where they are declared; MaxAttempts of
JobQueue and BridgeOutbox are the code's constants, made small. `MCSpendCap`
starts with a price in force and with the first currency or none (the currencies
are interchangeable, and a price may be withdrawn later). Symmetry sets are used
in the runs without liveness only: requests and invites in Tenancy, tasks in
BridgeOutbox, organizations and handlers in StoreSubscriptions; no definition
chooses among their members.

## 5. Fairness and deadlock

Safety needs no fairness; where a run has a liveness property it uses `FairSpec`.

* JobQueue: time passes (a delayed job becomes due, an unheld lease runs out), a
  live worker's loop goes on and a stopped process exits and is started again by
  its supervisor (weak fairness). The claim is ordered by run_after with a
  periodic tick, so a due row cannot be passed over for ever: strong fairness per
  row. No handler is assumed to succeed; `EveryJobSettles` rests on the ceiling.
* Broadcast: requests and handlers go on (weak). The member need not act, and
  faults are finite.
* SpendCap: a rater that has started goes on, and the hourly sweep keeps calling
  the backfill (weak). Receipts, operators and rate cards are not fair.
* Billing: processes go on (weak), and the provider delivers each event until one
  delivery is acknowledged, its documented behaviour (strong, as the process to
  handle it may be busy on and off). The provider need not settle a charge.
* CallSignaling: a live server resumes its handlers and fires its timers (weak
  fairness of `Open`, `RingTimesOut`, `MarkAccepted`, `MarkStart`, `ReadRow`,
  `CloseRow`, `MarkEnd`). Nobody has to answer, hang up or leave.
* RunnerSessions: events that were sent over a live connection arrive and
  handlers that were begun go on (weak fairness of `Receive`, `CancelGoesOn` and
  the statements that record an end), and a machine that lives comes back after a
  disconnect (weak fairness of `Connect`): socket.io reconnects by itself, and
  `stewraRunnerClient.ts:111` leaves it to that. The network is assumed to return
  and the device not to be revoked. Neither members nor the harness act.
* Tenancy, BridgeOutbox, StoreSubscriptions: safety only.

`CHECK_DEADLOCK FALSE` is set in every configuration because these systems come
to rest: every row settled and every bound used up is a proper final state.
Whether they rest where they should not is what the liveness properties ask.

## 6. Proofs

Each proof module proves its theorems for every value of the constants, from the
module's named ASSUME alone: any number of jobs, workers, recipients, messages,
raters, calls, users, lines, and any bound. The assumption of Broadcast includes
that the audience is finite, that of BridgeOutbox that lines and calls are, that
of SpendCap that the messages are. StoreSubscriptions assumes of the
organizations only that 0, which stands for none, is not one of them.

`OrganizationProofs` extends the two components that keep an organization's rows
and proves about each apart; so that both can be extended, the frame of
StoreSubscriptions bears names of its own (`StoreSpec`, `StoreInit`, `StoreNext`,
`storeVars`, `StoreTypeOK`).

| Module | Theorems (`Spec => []P`, or `Spec => P` for an action property) |
|---|---|
| `JobQueueProofs` | `TypeCorrect`, `Fencing` (ClaimsAreFenced), `Exclusivity` (ExclusiveUnlessOverrun), `AttemptCeiling` (AttemptsAccounted), `Finality` (FinalUnlessOverrun), `Refinement` (KeepsContract: `JobQueue` implements `AtLeastOnce`) |
| `BroadcastProofs` | `TypeCorrect`, `MessagedOnce` (NobodyMessagedTwice), `AudienceDivided` (AudienceIsDivided), `CancelStops` (CancelStopsChain), `CountsMatch` (CountsMatchLedger), `EndFinal` (EndIsFinal), `Refinement` (KeepsPromise: `Broadcast` implements `Campaign`) |
| `SpendCapProofs` | `TypeCorrect`, `LedgerMatches` (CountersMatchLedger), `HeadroomBinds` (WithinGrantedHeadroom), `BookedOnce` (NeverBookedTwice), `RatedBooked` (RatedIsBooked) |
| `BillingProofs` | `TypeCorrect`, `KeysExclusive` (KeysAreExclusive), `OutcomesTrue` (OutcomesAreTrue), `PaidOnEvidence` (PaidHasEvidence), `SucceededPays` (SucceededIsPaid), `ClosedBilled` (ClosedIsBilled) |
| `CallSignalingProofs` | `TypeCorrect`, `CallClosedOnce` (ClosedOnce), `SecondCallRaced` (SecondCallOnlyByRace), `OpenRowsTracked` (OpenRowsAreTracked) |
| `RunnerSessionsProofs` | `TypeCorrect`, `OutcomeIsKept` (OutcomeKept), `CompletedStaysPushable` (CompletedIsPushable) |
| `OrganizationProofs` | Tenancy: `TypeCorrect`, `OwnerUnlessRaced` (OwnerlessOnlyByRace), `OwnershipIsOwners` (OwnersDecide). StoreSubscriptions: `StoreTypeCorrect` (StoreTypeOK), `OnePurchaseOneRow` (OneRowPerPurchase), `RowsEndTrue` (RowsAreTrue), `AccessFollows` (AccessFollowsRow), `OperatorSpared` (LapseSparesOperator) |
| `BridgeOutboxProofs` | `TypeCorrect`, `OutboxTellsTruth` (OutboxIsTrue), `RecordedNeverAnswered` (RecordedIsNotAnswered) |

None of the properties is inductive as it stands. The strengthenings, and why
they are needed:

* JobQueue, `IInv`: `TypeOK`; `Bookkeeping`, which ties the history to the table;
  `ClaimsAreFenced` and `ExclusiveUnlessOverrun`, which need each other (a
  worker's attempt number is the row's unless somebody took the row over, and a
  take-over needs an expired lease, which exclusivity forbids without an
  overrun); and `ClaimsCounted`: every claim took a row that was newly enqueued,
  retried, or left to expire. `AttemptsAccounted` alone does not say why a
  *queued* row may be claimed once more. `Finality` follows at the only action
  that could change a terminal row, `Record`. `Refinement` maps step to step: an
  enqueue is a Submit, an overrun lease an Overstay, a claim a HandOut, an
  outcome a Report, a failed write, an exit or a death a Vanish; the claim is
  where the invariant is used, as a row whose lease expired is in nobody's hands
  unless that lease overran.
* Broadcast, `IInv`: `TypeOK`; `Orderly(w)` for every handler, which says of the
  steps left what they may be and what the batch and the recipient in hand must
  then be, and that a handler's rows are `sending`; `Divided`, that no row is in
  two handlers' charge; `Asked`, that nobody has two attempts and a recipient with
  one is never pending again; and `Counted`, that
  counts are the ledger's unless a refresh is still ahead or was interrupted.
  `Refinement` needs `Unscheduled` besides (nobody is at work before the member
  has scheduled the broadcast, so nobody is listed before). Create, resume and
  cancel and the handlers' transitions are the campaign's phases; a page is a
  List, a claim a Take, a recipient dropped a Pass, the request to Meta an Ask,
  its answer an Answer, a release a GiveBack, a death a Vanish, and every other
  step stutters. The invariant is used where the code trusts its own state: a
  claim finds its handler with empty hands and only people never asked for; the
  recipient a handler settles is one it asked for (`Awaiting`); what it gives
  back it has asked nobody of. `Campaign` says more than `MessagedOnce`: that who was
  asked is asked by the worker that took him, is settled by that worker's answer,
  and is taken up by nobody else when that worker is lost.
* SpendCap, in three layers. `Base` types the books, says that entries of one
  message fit together (`Consistent`, `Apart`) and that what a rater is about to
  do is sound (`Sound`), and has headroom; two theorems follow. `Due` adds that
  the charge of a rated message is booked or on its way in a rater's hands, cut
  ones aside (`OnItsWay`), that one message per conversation is rated
  (`OneRated`), and that a hold is settled at zero only for a message that will
  never have a price or whose charge is being booked apart (`ZeroWarranted`,
  `SettledAtZero`); `RatedBooked` follows. Between them stands the ledger: each
  counter is a sum over all messages of what the message has there (`HeldIn`,
  `ClosedIn`, `ApartIn`), and a step changes one message's part in one period.
  `SumMoves` says that the sum then moves by as much as the part. The sums are
  the library's folds, which choose an order of the elements; that any element
  may come off first (`AnyFirst`), and that a sum of natural numbers is one, are
  inductions over a finite set, carried out as a least counterexample
  (`Counting`), since an induction theorem that takes an operator cannot be used.
  With the sums known to be natural, `TypeOK` follows from `CountersMatchLedger`:
  the checks of migration 052 that no counter is negative never fire.
* Billing, `IInv`: `TypeOK`, `Warranted(p)` (what a process about to write knows,
  e.g. that it created the attempt it charges), `OneCharges` (of two processes at
  one key only one charges), `TablesAgree` (attempts against the provider's
  charges), `BeingPaid`, and the two properties that carry themselves,
  `PaidHasEvidence` and `ClosedIsBilled`.
* CallSignaling, `IInv`: `TypeOK`; `Once(c)` (at most one closer is at work on a
  call, and it is one whose marker is not written yet; registry, row and answer
  agree on how far the call is); `Checked` (the busy check saw every call of the
  conversation but those being inserted).
* RunnerSessions, `IInv`: `TypeOK`; `StartsOnce` (one START_SESSION exists, on
  the wire, at the machine, or used); `LiveFirst` and `Kept` (what is on disk at
  each point of a session's life); `EndIsLast` (after the report of the end, the
  machine says nothing more of the session but the answer to a push); `Calm`.
* Tenancy, `IInv`: `TypeOK`; `Permitted` (a request or invite that moves the
  owner role was made by an owner); `CountsFirst` (one who takes an owner away
  counted first); `AnotherOwner` (who counted leaves another owner, unless
  somebody else who counted is in the way).
* BridgeOutbox, `IInv`: `TypeOK`; `Shape` (what each point of a dispatch knows);
  `Recorded` (an id in the table was claimed, or its claim failed); `QuietRows`
  (the sends of an undisturbed row, counted along the dispatch); `Noted` (what is
  left to say of a row several calls hold: its line is out from the ack on, and
  until it is lost sight of there is a dispatch that will mark it).
* StoreSubscriptions, `StoreInv`: `StoreTypeOK`; `ToldInOrder` (the store's
  references count up, one at a time); `Knows(p)` (what a handler at each point
  has read, and which change it acts on); `RowsKnown` (no row has a reference
  later than the latest change acted on, nothing is recorded before it was acted
  on). `OneRowPerPurchase` needs `NoneBehind`: a claim between its look and its
  insert has left no row behind it, because to get past a replaced token it had
  to follow the link first. `RowsAreTrue` needs `LinksFollowed` (once a token's
  link is followed no row bears the token it replaced) and `RowsFit`, which speaks
  of the deliveries *applied* rather than recorded: a delivery is recorded only
  after the plan is reconciled, so the row is true some steps before
  `RowsAreTrue` can say so. `LapseSparesOperator` needs `TenuresApart`: tenures
  are numbered as they begin, and none that a row or a handler has in hand is the
  operator's. `AccessFollowsRow` needs `OneAtATime` and `PlanFollows`, which say
  how far the handler that reconciles a row is: granted and not linked, ended and
  not unlinked. That the last delivery leaves row and plan in agreement is the
  argument of `RowsCaughtUp`: with every change applied and none overtaken, the
  latest change is the last that was acted on, and at most one row is left, known
  by its reference.

The proofs go action by action, with a lemma for each action that disturbs more
than its own conjunct. The type invariants that have a theorem are not checked
again by TLC, except StoreSubscriptions', which has the uniqueness of references
and is a property of its own. That of SpendCap has the counters' signs.

Model-checked only: the liveness properties, `EveryJobSettles`, `RunningEnds`,
`EveryReceiptIsRated`, `ChargedIsPaid`, `RingIsSettled` and `EndIsRecorded`
(fairness and ENABLED are outside the prover's reach). Every other property of a
passing run is the statement of a theorem.

## 7. Where the code and its comments disagree

Each of these has a run whose counterexample shows it.

1. `broadcast_completed`. `broadcastSendHandler.ts:156`: a dry ledger means
   everyone is sent, failed, skipped or stranded. A broadcast paused at dispatch
   has no ledger yet, and resume enqueues a send job: it completes with nobody
   listed.
2. `spend_duplicates`. `costRatingService.ts:113-115`: a replayed webhook "cannot
   credit a period twice". A replay for a message rated at zero because its
   conversation is charged already books the full rate, if it had no reservation.
3. `billing_double_charge`. `paymentService.ts:225`: "Claiming the numbered key IS
   the right to make this charge; a racing collector loses here". A collector
   that counts after the first has claimed, and before it has been answered, gets
   the next number, and both charges may succeed.

Read while modelling, without a run of their own; where a property is named, it
states what does hold:

* `jobRepository.ts:113-114`: a job that kills its worker "still runs out of
  attempts and lands in `dead`". The claim never looks at max_attempts; only
  `run()` does, after the handler returned, so such a job is claimed for ever
  (`AttemptsAccounted`).
* `spendCapRepository.ts:259-262` says a settle in another currency "closes as a
  RELEASE", while line 274 writes the outcome asked for. A rater that dies between
  such a close and the booking leaves one that says `settle`, and
  `spendCapService.ts:171`, "Only 'already_settled' means the charge is on the
  books", then makes every later receipt skip it (`cut`).
* The same sentence with a price of zero, which migration 050 calls legal: a
  receipt rated at zero settles the hold at nothing, and the charge of another
  receipt, rated before it and settled after, is dropped (`RatedIsBooked` allows
  either price).
* `payments/types.ts:80`, "What one charge call established": `stripeProvider.ts:103`
  and `:214` turn every answer that is not 2xx, a 5xx included, into `failed`,
  and `paymentService.ts:259` records it though the charge may have been carried
  out (`misheard`). The event that follows finds no pending attempt, and the next
  attempt charges under another key.
* `runnerHandler.ts:79` takes 2000 characters of a session's error, and
  `sessionManager.ts:220` sends whatever the harness said: the report is dropped
  (`:266-271`) and the row stays open. So it does when the handler's statement
  fails, which the guard at `:174-183` only logs (`dropped`).
* `whatsappBridgeService.ts:380` claims the id "BEFORE recording anything else, so
  the echo cannot win the race". `claimInboundMessage` answers false to any error
  of its insert, the answer is not looked at, and the row is marked sent: the echo
  is then answered (`unclaimed`). An echo that comes before the ack wins in any
  case.
* `planRepository.ts:274-279` says exactly one fee is charged when a plan is
  replaced; a replacement on the first of a month, before the sweep closes the
  previous one, leaves that month free (`billingService.ts:161`).
* `organizationService.ts:31-36`: "always has at least one owner", "only an owner
  grants or removes the `owner` role". Both are checked in statements before the
  write, and two requests may pass between (`OwnerlessOnlyByRace`,
  `OwnersDecide`).
* `accountDeletionService.ts:179-187`: one who joins after `soleMemberOrgIds` ran
  loses the organization with the account that is deleted.
* `callSignalingHandler.ts:104` rejects "a second concurrent call (double-dial /
  glare)"; two that are placed at once both pass (`SecondCallOnlyByRace`). A
  call_start marker may follow the call_end one, and nothing repairs the rows a
  restart leaves open.
* `bridgeEmitter.ts:105`: after a timeout "we do NOT retry". The row stays
  pending below the ceiling and the next hello drains it again.
* `whatsappBridgeService.ts:58`: a hello before WhatsApp is open drains nothing,
  and neither does the STATE event that follows; what waited goes out at the next
  hello.
* `channelIdentityRepository.ts:204`: any error of the insert is taken for a
  duplicate, so a message that failed to be claimed is never answered.
* `sessionManager.ts:181`: a cancel while `start()` is under way finds nothing,
  though the requester was told ok; one that awaits the harness while the turn
  completes removes the branch of a session reported completed
  (`CompletedIsPushable`). The worktrees of failed sessions are not reclaimed.
* `commerceInboxRepository.ts:352`: a receipt that arrives before the provider id
  is stored matches no message and is dropped, which the SpendCap model cannot
  tell from one that was never sent.
* `storeSubscriptionRepository.ts:49-53` calls concurrent redeliveries
  idempotent. The row is; the plan is not: both grant, and the row may be left at
  the tenure the other ended (`AccessFollowsRow`, `collided`). The link of a
  replaced token is followed once only (`OneRowPerPurchase`, `skipped`).

## 8. Not modelled

In the modelled components:

* Queue: dedupe keys and backoff lengths; admin listings. Billing: amounts, lines
  and voiding of invoices, drafts of an earlier billing model, stored cards. The
  inbox beyond what a receipt touches.
* StoreSubscriptions: the proofs of origin of a delivery, plan versions, the boot
  check; deliveries for an unclaimed purchase or a foreign product, which are
  only recorded.
* Calls: the relay of offers, answers and candidates, which keeps no state, and
  pushes.
* Tenancy: resolveActingOrg, suspension, listings. An expired invite is a pending
  one that nobody accepts.
* Runner: pairing of devices, projects, the transcript and its relay into chat,
  diffs, the harness's protocol, disposal on revocation.
* Bridge: the WhatsApp link (connect, close policy, reconnect, pairing) decides
  only whether one is open; an inbound turn stops at its claim.
* Meta, Stripe, the stores, WhatsApp and the clock are environments, as the code
  sees them.

Components left out: messaging, presence, assistant, insights, memory, briefing,
mail/money/calendar synchronization, credentials, clients and deployment. These
are request-at-a-time storage, model output, third-party I/O or user interface;
there is no protocol between concurrent parts whose interleavings a model would
explore. They are also most of the repository by lines: types and configuration,
React and React Native screens, API clients, prompts. The models cover a small
share of the lines and most of the places where two processes meet over a row.
Commerce's scheduler, inbox listings, templates, segments and opt-in links are
create and list; the contact import is the one with a protocol left.

## 9. Plan

Written: the nine components of section 2, the abstract `AtLeastOnce` and
`Campaign` with their refinements, and proofs of every safety property the runs
check. What would come next, in this order:

1. Liveness of StoreSubscriptions: a store that repeats a delivery until it is
   acknowledged leaves every delivery recorded.
2. The contact import's resumption, and the bridge's WhatsApp link with its close
   policy and backoff, composed with `BridgeOutbox`.
3. A composition of `Billing` with `StoreSubscriptions`: a month is billed by the
   plan that was in force when it closed, while the store replaces it.
