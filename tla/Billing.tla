------------------------------ MODULE Billing -------------------------------
(***************************************************************************)
(* One organization's month: the jobs that close the period and issue its  *)
(* invoice (billingService, invoiceRepository, migration 054), and the     *)
(* ones that collect it - charge jobs and operators' charges, the          *)
(* operator's attestation that the money arrived otherwise, the provider's *)
(* webhooks (paymentService, paymentAttemptRepository).                    *)
(*                                                                         *)
(* A process is one request, job or webhook being handled: the list of     *)
(* the steps it has yet to await, each one statement or one call to the    *)
(* provider.  It may die, or throw, at any of them; jobs are retried, so   *)
(* any operation may begin again.  A webhook is acknowledged before it is  *)
(* applied, so one that dies is not delivered again.                       *)
(*                                                                         *)
(* Nothing voids an invoice and nothing leaves one in draft any more, so   *)
(* the invoice is absent, issued or paid.                                  *)
(***************************************************************************)
EXTENDS Naturals, Sequences, FiniteSets

CONSTANTS Procs,          \* requests, jobs and webhooks handled at a time
          NoKey, Null,
          MaxAttempts,    \* bound: numbered attempts
          MaxDeliveries,  \* bound: deliveries of one event
          MaxFaults       \* bound: deaths, throws, calls unanswered or answered with an error

ASSUME BillingAssumption ==
  /\ MaxAttempts \in Nat \ {0} /\ MaxDeliveries \in Nat \ {0} /\ MaxFaults \in Nat
  /\ Null \notin [status : {"pending", "succeeded", "failed"}, ref : BOOLEAN]

Numbers == 1 .. MaxAttempts
Keys == {"invoice", "manual"} \X Numbers   \* invoice-<id>-<n>, manual-<id>-<n>

VARIABLES
  billable,   \* the subscription in force pays this month through Stripe
  closed,     \* commerce_billing_periods.status = 'closed'
  invoice,    \* commerce_invoices.status, "none" without a row
  attempt,    \* per key: the row [status, ref] of commerce_payment_attempts
  charge,     \* the provider's intent under key <<"invoice", n>>
  events,     \* deliveries of the event that settled it
  proc,       \* [todo, key, says]
  (* history *)
  asked,      \* calls made to the provider under each key
  unheard,    \* events applied before their collector had saved the reference
  misheard,   \* charges the provider took and answered with an error
  left,       \* keys whose charge, outcome or payment a process gave up midway
  faults

rows == <<billable, closed, invoice, attempt>>
provider == <<charge, events>>
history == <<asked, unheard, misheard, left, faults>>
vars == <<rows, provider, proc, history>>

Idle == [todo |-> <<>>, key |-> NoKey, says |-> "nothing"]

Init ==
  /\ billable \in BOOLEAN /\ closed = FALSE /\ invoice = "none"
  /\ attempt = [k \in Keys |-> Null]
  /\ charge = [n \in Numbers |-> "none"]
  /\ events = [n \in Numbers |-> 0]
  /\ proc = [p \in Procs |-> Idle]
  /\ asked = [n \in Numbers |-> 0]
  /\ unheard = {} /\ misheard = {} /\ left = {} /\ faults = 0

At(p, step) == proc[p].todo # <<>> /\ Head(proc[p].todo) = step

Go(p, todo, key, says) ==
  proc' = [proc EXCEPT ![p] =
             IF todo = <<>> THEN Idle ELSE [todo |-> todo, key |-> key, says |-> says]]

Then(p, todo) == Go(p, todo, proc[p].key, proc[p].says)

-----------------------------------------------------------------------------
(* setSubscription: whatever replaces the subscription of the month began  *)
(* after its first day, and a partial month is free.                       *)
SubscriptionChanges ==
  /\ billable /\ billable' = FALSE
  /\ UNCHANGED <<closed, invoice, attempt, provider, proc, history>>

(* Seeded defect: the period is marked before its invoice is written. *)
ClosingMarkFirst(owes) == IF owes THEN <<"mark", "write">> ELSE <<"mark">>

(* closePeriod, once it knows who collects. *)
Closing(owes) == IF owes THEN <<"write", "mark">> ELSE <<"mark">>

BeginClose(p) ==
  /\ proc[p] = Idle /\ ~closed
  /\ Go(p, <<"subscription">>, NoKey, "nothing")
  /\ UNCHANGED <<rows, provider, history>>

ReadSubscription(p) ==
  /\ At(p, "subscription")
  /\ Then(p, Closing(billable))
  /\ UNCHANGED <<rows, provider, history>>

(* writeCloseOutcome: one transaction; an invoice that exists is left alone. *)
WriteInvoice(p) ==
  /\ At(p, "write")
  /\ invoice' = IF invoice = "none" THEN "issued" ELSE invoice
  /\ Then(p, Tail(proc[p].todo))
  /\ UNCHANGED <<billable, closed, attempt, provider, history>>

MarkPeriod(p) ==
  /\ At(p, "mark")
  /\ closed' = TRUE
  /\ Then(p, Tail(proc[p].todo))
  /\ UNCHANGED <<billable, invoice, attempt, provider, history>>

-----------------------------------------------------------------------------
(* chargeInvoice and markInvoicePaid read the invoice; both number their   *)
(* attempt by the attempts there are.                                      *)
Begin(p, kind) ==
  /\ proc[p] = Idle /\ invoice = "issued"
  /\ Go(p, <<"count">>, <<kind, 1>>, "nothing")
  /\ UNCHANGED <<rows, provider, history>>

Attempts == {k \in Keys : attempt[k] # Null}

(* At the bound the model follows the process no further. *)
CountAttempts(p) ==
  /\ At(p, "count")
  /\ IF Cardinality(Attempts) < MaxAttempts
     THEN Go(p, <<"create">>, <<proc[p].key[1], Cardinality(Attempts) + 1>>, "nothing")
     ELSE Then(p, <<>>)
  /\ UNCHANGED <<rows, provider, history>>

(* Seeded defect: an attempt that exists is taken over. *)
WinsAlways(k) == TRUE

(* The unique index on the key. *)
Wins(k) == attempt[k] = Null

(* Losing the key ends a charge; an attestation goes on to mark the        *)
(* invoice paid without recording anything.                                *)
CreateAttempt(p) ==
  LET k == proc[p].key IN
  /\ At(p, "create")
  /\ IF Wins(k)
     THEN /\ attempt' = [attempt EXCEPT ![k] = [status |-> "pending", ref |-> FALSE]]
          /\ IF k[1] = "invoice" THEN Then(p, <<"charge">>)
                                 ELSE Go(p, <<"record", "pay">>, k, "succeeded")
     ELSE /\ IF k[1] = "invoice" THEN Then(p, <<>>) ELSE Then(p, <<"pay">>)
          /\ UNCHANGED attempt
  /\ UNCHANGED <<billable, closed, invoice, provider, history>>

(* Seeded defect: an order the provider took is read as money it took.     *)
AnsweredAnyOrder(p, k, c) == Go(p, <<"record", "pay">>, k, "succeeded")

(* What the collector does with an intent that succeeded or is processing. *)
Answered(p, k, c) ==
  IF c = "succeeded" THEN Go(p, <<"record", "pay">>, k, "succeeded")
                     ELSE Go(p, <<"save">>, k, "nothing")

(* The provider takes the money, takes the order, or declines.  Any answer *)
(* but a success is read as a decline, the provider's own failure after it *)
(* took the charge too; or the call throws, and nobody here knows.         *)
ChargeInvoice(p) ==
  LET k == proc[p].key
      n == k[2]
  IN
  /\ At(p, "charge")
  /\ asked' = [asked EXCEPT ![n] = @ + 1]
  /\ \/ \E c \in {"succeeded", "processing"} :
          /\ charge' = [charge EXCEPT ![n] = c]
          /\ Answered(p, k, c)
          /\ UNCHANGED <<misheard, left, faults>>
     \/ /\ Go(p, <<"record">>, k, "failed")
        /\ UNCHANGED <<charge, misheard, left, faults>>
     \/ /\ faults < MaxFaults /\ faults' = faults + 1
        /\ \E c \in {"succeeded", "processing"} : charge' = [charge EXCEPT ![n] = c]
        /\ Go(p, <<"record">>, k, "failed")
        /\ misheard' = misheard \cup {n} /\ UNCHANGED left
     \/ /\ faults < MaxFaults /\ faults' = faults + 1
        /\ \E c \in {"none", "succeeded", "processing"} : charge' = [charge EXCEPT ![n] = c]
        /\ Then(p, <<>>)
        /\ left' = left \cup {k} /\ UNCHANGED misheard
  /\ UNCHANGED <<rows, events, unheard>>

(* recordOutcome: by id alone. *)
RecordOutcome(p) ==
  LET k == proc[p].key IN
  /\ At(p, "record")
  /\ attempt' = [attempt EXCEPT ![k] = [status |-> proc[p].says,
       ref |-> k[1] = "invoice" /\ (proc[p].says = "succeeded" \/ attempt[k].ref)]]
  /\ Then(p, Tail(proc[p].todo))
  /\ UNCHANGED <<billable, closed, invoice, provider, history>>

(* markPaid: issued -> paid and nothing else. *)
MarkPaid(p) ==
  /\ At(p, "pay")
  /\ invoice' = IF invoice = "issued" THEN "paid" ELSE invoice
  /\ Then(p, Tail(proc[p].todo))
  /\ UNCHANGED <<billable, closed, attempt, provider, history>>

(* Seeded defect: the reference is not stored on a pending attempt. *)
SavedRefDropped == FALSE

SavedRef == TRUE

(* saveProviderRef: "the webhook's only way back". *)
SaveProviderRef(p) ==
  /\ At(p, "save")
  /\ attempt' = [attempt EXCEPT ![proc[p].key].ref = SavedRef]
  /\ Then(p, <<>>)
  /\ UNCHANGED <<billable, closed, invoice, provider, history>>

-----------------------------------------------------------------------------
(* The provider settles what it was processing, and says so once or more. *)
ChargeSettles(n) ==
  /\ charge[n] = "processing"
  /\ \E c \in {"succeeded", "failed"} : charge' = [charge EXCEPT ![n] = c]
  /\ UNCHANGED <<rows, events, proc, history>>

Deliver(p, n) ==
  /\ proc[p] = Idle /\ charge[n] \in {"succeeded", "failed"} /\ events[n] < MaxDeliveries
  /\ events' = [events EXCEPT ![n] = @ + 1]
  /\ Go(p, <<"find">>, <<"invoice", n>>, charge[n])
  /\ UNCHANGED <<rows, charge, history>>

(* Seeded defects: a failed charge pays the invoice; a charge is recorded  *)
(* and the invoice forgotten.                                              *)
ApplyPaying(says) == <<"record", "pay">>
ApplyRecording(says) == <<"record">>

(* What applyEvent does for the pending attempt it found. *)
Apply(says) == IF says = "succeeded" THEN <<"record", "pay">> ELSE <<"record">>

FindPending(p) ==
  LET k == proc[p].key IN
  /\ At(p, "find")
  /\ IF attempt[k].status = "pending" /\ attempt[k].ref
     THEN Then(p, Apply(proc[p].says)) /\ UNCHANGED unheard
     ELSE /\ Then(p, <<>>)
          /\ unheard' = IF \E q \in Procs : At(q, "save") /\ proc[q].key = k
                        THEN unheard \cup {k[2]} ELSE unheard
  /\ UNCHANGED <<rows, provider, asked, misheard, left, faults>>

(* A process dies, or a statement of its throws. *)
Die(p) ==
  /\ proc[p] # Idle /\ faults < MaxFaults
  /\ Then(p, <<>>) /\ faults' = faults + 1
  /\ left' = IF Head(proc[p].todo) \in {"charge", "record", "pay", "save", "find"}
             THEN left \cup {proc[p].key} ELSE left
  /\ UNCHANGED <<rows, provider, asked, unheard, misheard>>

Step(p) ==
  \/ ReadSubscription(p) \/ WriteInvoice(p) \/ MarkPeriod(p)
  \/ CountAttempts(p) \/ CreateAttempt(p) \/ ChargeInvoice(p)
  \/ RecordOutcome(p) \/ MarkPaid(p) \/ SaveProviderRef(p) \/ FindPending(p)

Next ==
  \/ SubscriptionChanges
  \/ \E p \in Procs : \/ BeginClose(p) \/ Begin(p, "invoice") \/ Begin(p, "manual")
                      \/ Step(p) \/ Die(p)
                      \/ \E n \in Numbers : Deliver(p, n)
  \/ \E n \in Numbers : ChargeSettles(n)

Spec == Init /\ [][Next]_vars

(* Processes go on, and the provider delivers each event until one         *)
(* delivery is acknowledged.                                               *)
FairSpec ==
  /\ Spec
  /\ \A p \in Procs : WF_vars(Step(p))
  /\ \A n \in Numbers : SF_vars(\E p \in Procs : events[n] = 0 /\ Deliver(p, n))

-----------------------------------------------------------------------------
Says == {"nothing", "succeeded", "failed"}
Steps == {"subscription", "write", "mark", "count", "create", "charge", "record", "pay", "save", "find"}

TypeOK ==
  /\ billable \in BOOLEAN /\ closed \in BOOLEAN /\ invoice \in {"none", "issued", "paid"}
  /\ attempt \in [Keys -> [status: {"pending", "succeeded", "failed"}, ref: BOOLEAN] \cup {Null}]
  /\ charge \in [Numbers -> {"none", "processing", "succeeded", "failed"}]
  /\ events \in [Numbers -> 0 .. MaxDeliveries]
  /\ proc \in [Procs -> [todo: Seq(Steps), key: Keys \cup {NoKey}, says: Says]]
  /\ asked \in [Numbers -> Nat] /\ unheard \subseteq Numbers
  /\ misheard \subseteq Numbers /\ left \subseteq Keys /\ faults \in 0 .. MaxFaults

(* "Inserting an attempt IS acquiring the right to make that exact         *)
(* charge": the provider is never called twice under one key.              *)
KeysAreExclusive == \A n \in Numbers : asked[n] <= 1

(* The attempts tell the truth about the provider, whichever of collector  *)
(* and webhooks wrote last: what is recorded succeeded was charged, what   *)
(* is recorded failed was not - unless the provider itself answered with   *)
(* an error to a charge it took, which stripeProvider reads as a decline.  *)
OutcomesAreTrue ==
  \A n \in Numbers : attempt[<<"invoice", n>>] # Null =>
    /\ attempt[<<"invoice", n>>].status = "succeeded" => charge[n] = "succeeded"
    /\ attempt[<<"invoice", n>>].status = "failed" => charge[n] # "succeeded" \/ n \in misheard

(* An invoice is paid on evidence: a charge that succeeded and is recorded *)
(* so, or an operator's attestation.                                       *)
PaidHasEvidence ==
  invoice = "paid" => \E k \in Attempts : attempt[k].status = "succeeded" \/ k[1] = "manual"

(* An attempt recorded succeeded that nobody is handling any more has its  *)
(* invoice paid, unless a process that was handling it was cut short.      *)
SucceededIsPaid ==
  \A k \in Attempts \ left :
    attempt[k].status = "succeeded" /\ (\A p \in Procs : proc[p].key # k) => invoice = "paid"

(* A month marked closed has its invoice, if a subscription paid through   *)
(* Stripe all along - although closers die between the two and run again.  *)
ClosedIsBilled == closed /\ billable => invoice # "none"

(* A charge the provider carried out pays the invoice, unless a process    *)
(* handling that very charge was cut short, its event overtook the         *)
(* reference it is found by, or the provider called the charge an error.   *)
ChargedIsPaid ==
  \A n \in Numbers :
    charge[n] = "succeeded" ~>
      invoice = "paid" \/ <<"invoice", n>> \in left \/ n \in unheard \cup misheard

(* paymentService.ts:225: "Claiming the numbered key IS the right to make  *)
(* this charge; a racing collector loses here": an invoice is charged at   *)
(* most once.                                                              *)
ChargedOnce == Cardinality({n \in Numbers : charge[n] = "succeeded"}) <= 1
=============================================================================
