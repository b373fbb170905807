------------------------------ MODULE SpendCap ------------------------------
(***************************************************************************)
(* What an organization may spend at Meta, and what it did spend: the cap, *)
(* the monthly counters and the append-only ledger (migration 052,         *)
(* spendCapRepository), the cost rows the rater writes when a delivery     *)
(* receipt prices a message (migration 051, costRatingService), and the    *)
(* backfill that rates and releases what the webhooks left behind          *)
(* (messageCostBackfillHandler).                                           *)
(*                                                                         *)
(* A rater is one webhook delivery or one item of a backfill pass.  Each   *)
(* statement or transaction it awaits is one action, so two receipts of a  *)
(* message, a receipt and the backfill, or a rater and its own death may   *)
(* interleave anywhere.  Micros are small numbers, a month is a number;    *)
(* whether a message can be priced (category, country, card) is one input: *)
(* the rate in force, or NoRate.                                           *)
(***************************************************************************)
EXTENDS Integers, FiniteSets, FiniteSetsExt

CONSTANTS Messages,      \* outbound messages
          Currencies,    \* billing currencies
          Conversation,  \* Conversation[m]: the provider conversation of m if
                         \* it is priced per conversation, else m itself
          Rates,         \* amounts a rate card may set, in micros; zero is legal
          Limits,        \* limits an operator may grant
          Raters,        \* concurrent webhook deliveries and backfill items
          NoRate, NoCurrency, NoMessage, Null,
          Months,        \* bound: calendar months 1 .. Months
          MaxReceipts,   \* bound: receipts Meta delivers
          MaxEvents      \* bound: changes of card, currency, month, cap; deaths

ASSUME SpendCapAssumption ==
  /\ IsFiniteSet(Messages)
  /\ Rates \subseteq Nat /\ Limits \subseteq Nat
  /\ Months \in Nat \ {0} /\ MaxReceipts \in Nat /\ MaxEvents \in Nat
  /\ NoCurrency \notin Currencies /\ NoMessage \notin Messages /\ NoRate \notin Rates
  /\ Null \notin [currency : Currencies, month : 1 .. Months, amount : Rates]
  /\ Null \notin [kind : {"release", "settle"}, amount : Nat]
  /\ Null \notin [state : {"free", "unrated", "rated", "duplicate"}, amount : Nat]

VARIABLES
  (* commerce_spend_caps, commerce_spend_periods *)
  limit,        \* per currency; NoCap while no row exists
  reserved,     \* per (currency, month): held for sends without a receipt
  actual,       \* per (currency, month): charged
  (* commerce_spend_ledger: one entry of each kind per message, by index *)
  reserve,      \* [currency, month, amount] or Null
  close,        \* [kind, amount] or Null
  unreserved,   \* [currency, month, amount] or Null
  (* commerce_messages, commerce_message_costs *)
  sent,         \* the life of the message
  billable,     \* "null", "yes" or "no"
  cost,         \* [state, amount] or Null
  (* surroundings *)
  wabaCurrency, \* channel_accounts.billing_currency
  rate,         \* what the card in force says for this recipient
  month,
  (* raters *)
  rater,        \* [pc, msg, cur, amount]
  (* history *)
  overshoot,    \* per (currency, month): charged beyond what was held
  highest,      \* per currency: the highest limit ever in force
  prices,       \* per message: the prices its raters went on to settle
  cut,          \* messages whose rater died between cost row and ledger, and
                \* that no later receipt has put on the books since
  receipts, events

books == <<limit, reserved, actual, reserve, close, unreserved>>
messages == <<sent, billable, cost>>
world == <<wabaCurrency, rate, month>>
history == <<overshoot, highest, prices, cut, receipts, events>>
vars == <<books, messages, world, rater, history>>

NoCap == -1
Periods == Currencies \X (1 .. Months)
Idle == [pc |-> "idle", msg |-> NoMessage, cur |-> NoCurrency, amount |-> 0]

Init ==
  /\ limit = [c \in Currencies |-> NoCap]
  /\ reserved = [p \in Periods |-> 0] /\ actual = [p \in Periods |-> 0]
  /\ reserve = [m \in Messages |-> Null]
  /\ close = [m \in Messages |-> Null]
  /\ unreserved = [m \in Messages |-> Null]
  /\ sent = [m \in Messages |-> "new"]
  /\ billable = [m \in Messages |-> "null"]
  /\ cost = [m \in Messages |-> Null]
  /\ wabaCurrency \in Currencies \cup {NoCurrency}
  /\ rate \in Rates \cup {NoRate}
  /\ month = 1
  /\ rater = [r \in Raters |-> Idle]
  /\ overshoot = [p \in Periods |-> 0]
  /\ highest = [c \in Currencies |-> 0]
  /\ prices = [m \in Messages |-> {}]
  /\ cut = {} /\ receipts = 0 /\ events = 0

-----------------------------------------------------------------------------
(* The surroundings: an operator grants a limit (setCap), a rate card takes *)
(* effect, the account reports another billing currency, a month passes.    *)
SetCap(c, l) ==
  /\ events < MaxEvents /\ limit[c] # l
  /\ limit' = [limit EXCEPT ![c] = l]
  /\ highest' = [highest EXCEPT ![c] = IF l > @ THEN l ELSE @]
  /\ events' = events + 1
  /\ UNCHANGED <<reserved, actual, reserve, close, unreserved, messages, world,
                 rater, overshoot, prices, cut, receipts>>

WorldChanges ==
  /\ events < MaxEvents
  /\ events' = events + 1
  /\ \/ \E x \in (Rates \cup {NoRate}) \ {rate} : rate' = x /\ UNCHANGED <<wabaCurrency, month>>
     \/ \E c \in Currencies \ {wabaCurrency} : wabaCurrency' = c /\ UNCHANGED <<rate, month>>
     \/ month < Months /\ month' = month + 1 /\ UNCHANGED <<rate, wabaCurrency>>
  /\ UNCHANGED <<books, messages, rater, overshoot, highest, prices, cut, receipts>>

-----------------------------------------------------------------------------
(* Sending.  An inbox reply goes out as it is; a broadcast message holds   *)
(* its estimated price first, in one UPDATE whose WHERE clause has the limit.  *)
Reply(m) ==
  /\ sent[m] = "new"
  /\ sent' = [sent EXCEPT ![m] = "accepted"]
  /\ UNCHANGED <<books, billable, cost, world, rater, history>>

(* Seeded defect: what was already charged this month is forgotten. *)
HasRoomForHoldsOnly(p, amount) == reserved[p] + amount <= limit[p[1]]

HasRoom(p, amount) == reserved[p] + actual[p] + amount <= limit[p[1]]

Reserve(m) ==
  LET p == <<wabaCurrency, month>> IN
  /\ sent[m] = "new"
  /\ wabaCurrency # NoCurrency /\ rate # NoRate
  /\ IF HasRoom(p, rate)
     THEN /\ reserved' = [reserved EXCEPT ![p] = @ + rate]
          /\ reserve' = [reserve EXCEPT ![m] =
                 [currency |-> wabaCurrency, month |-> month, amount |-> rate]]
          /\ sent' = [sent EXCEPT ![m] = "held"]
     ELSE /\ sent' = [sent EXCEPT ![m] = "capped"]
          /\ UNCHANGED <<reserved, reserve>>
  /\ UNCHANGED <<limit, actual, close, unreserved, billable, cost, world, rater, history>>

(* Meta accepts, refuses, or is not heard from: a message of the last kind *)
(* keeps its hold and can get no receipt, as no provider id was stored.    *)
Answer(m) ==
  /\ sent[m] = "held"
  /\ \E a \in {"accepted", "refused", "unknown"} : sent' = [sent EXCEPT ![m] = a]
  /\ UNCHANGED <<books, billable, cost, world, rater, history>>

-----------------------------------------------------------------------------
(* Seeded defect: the hold is credited to the month of the receipt. *)
PeriodOfToday(m) == <<reserve[m].currency, month>>

(* "Credit the reservation's own period". *)
PeriodOf(m) == <<reserve[m].currency, reserve[m].month>>

(* What a close takes off the reserved counter. *)
Held(m, charge) == reserve[m].amount

OtherCurrency(m, kind, cur) ==
  kind = "settle" /\ cur # NoCurrency /\ cur # reserve[m].currency

Open(m) == reserve[m] # Null /\ close[m] = Null

(* closeReservation: the closing entry first (its index aborts a second    *)
(* close), then both counters, in one transaction.  A settle in another    *)
(* currency frees the hold at zero; its entry is still written as the      *)
(* outcome asked for, not as the release its comment announces.            *)
CloseOpen(m, kind, amount, cur) ==
  LET charge == IF kind = "settle" /\ ~OtherCurrency(m, kind, cur) THEN amount ELSE 0
      p == PeriodOf(m)
      over == charge - reserve[m].amount
  IN
  /\ close' = [close EXCEPT ![m] = [kind |-> kind, amount |-> charge]]
  /\ reserved' = [reserved EXCEPT ![p] = @ - Held(m, charge)]
  /\ actual' = [actual EXCEPT ![p] = @ + charge]
  /\ overshoot' = [overshoot EXCEPT ![p] = IF over > 0 THEN @ + over ELSE @]

(* What closeReservation returns. *)
CloseResult(m, kind, cur) ==
  CASE reserve[m] = Null                            -> "no_reservation"
    [] Open(m) /\ OtherCurrency(m, kind, cur)       -> "closed_currency_mismatch"
    [] Open(m) /\ ~OtherCurrency(m, kind, cur)      -> "closed"
    [] ~Open(m) /\ reserve[m] # Null /\ close[m].kind = "settle"  -> "already_settled"
    [] ~Open(m) /\ reserve[m] # Null /\ close[m].kind = "release" -> "already_released"

(* Meta refused the send: the sender gives the hold back.  It may die      *)
(* before it does.                                                         *)
ReleaseRefused(m) ==
  /\ sent[m] = "refused"
  /\ sent' = [sent EXCEPT ![m] = "failed"]
  /\ IF Open(m) THEN CloseOpen(m, "release", 0, NoCurrency)
                ELSE UNCHANGED <<close, reserved, actual, overshoot>>
  /\ UNCHANGED <<limit, reserve, unreserved, billable, cost, world, rater,
                 highest, prices, cut, receipts, events>>

-----------------------------------------------------------------------------
Busy(r, pc, m, cur, amount) ==
  rater' = [rater EXCEPT ![r] = [pc |-> pc, msg |-> m, cur |-> cur, amount |-> amount]]

(* handleReceipt: the account is read, then one UPDATE merges the receipt  *)
(* into the message.  Every later receipt (delivered, read, a redelivery)  *)
(* finds billable set and rates the message again.                         *)
Receipt(r, m) ==
  /\ rater[r] = Idle /\ sent[m] = "accepted" /\ receipts < MaxReceipts
  /\ \E b \in {"yes", "no"} :
       /\ billable[m] \in {"null", b}
       /\ billable' = [billable EXCEPT ![m] = b]
  /\ Busy(r, "rate", m, wabaCurrency, 0)
  /\ receipts' = receipts + 1
  /\ UNCHANGED <<books, sent, cost, world, overshoot, highest, prices, cut, events>>

(* Seeded defect: the backfill looks for billable messages only. *)
AwaitingRatingBillable(m) == billable[m] = "yes" /\ cost[m] = Null

(* receiptsAwaitingRating: priced by a receipt, without a cost row. *)
AwaitingRating(m) == billable[m] # "null" /\ cost[m] = Null

Backfill(r, m) ==
  /\ rater[r] = Idle /\ AwaitingRating(m)
  /\ Busy(r, "rate", m, wabaCurrency, 0)
  /\ UNCHANGED <<books, messages, world, history>>

Charged(conv) == \E m \in Messages : /\ Conversation[m] = conv /\ cost[m] # Null
                                     /\ cost[m].state = "rated"

Prices(m, price) == prices' = [prices EXCEPT ![m] = @ \cup {price}]

(* The ladder of rateMessage and its insert.  The insert targets the       *)
(* message index first: a message that has its row already is "already     *)
(* rated" and falls through to the settlement at today's rate.             *)
Rate(r) ==
  LET m == rater[r].msg
      cur == rater[r].cur
      Write(state, amount) ==
        cost' = IF cost[m] = Null
                THEN [cost EXCEPT ![m] = [state |-> state, amount |-> amount]]
                ELSE cost
  IN
  /\ rater[r].pc = "rate"
  /\ \/ /\ billable[m] = "no"
        /\ Write("free", 0) /\ Busy(r, "settle", m, cur, 0) /\ UNCHANGED prices
     \/ /\ billable[m] = "yes" /\ (cur = NoCurrency \/ rate = NoRate)
        /\ Write("unrated", 0) /\ rater' = [rater EXCEPT ![r] = Idle] /\ UNCHANGED prices
     \/ /\ billable[m] = "yes" /\ cur # NoCurrency /\ rate # NoRate
        /\ cost[m] # Null \/ ~Charged(Conversation[m])
        /\ Write("rated", rate) /\ Busy(r, "settle", m, cur, rate) /\ Prices(m, rate)
     \/ /\ billable[m] = "yes" /\ cur # NoCurrency /\ rate # NoRate
        /\ cost[m] = Null /\ Charged(Conversation[m])
        /\ Busy(r, "duplicate", m, cur, 0) /\ UNCHANGED <<cost, prices>>
  /\ UNCHANGED <<books, sent, billable, world, overshoot, highest, cut, receipts, events>>

(* The conversation is charged already: the row is written at zero. *)
WriteDuplicate(r) ==
  LET m == rater[r].msg IN
  /\ rater[r].pc = "duplicate"
  /\ cost' = IF cost[m] = Null
             THEN [cost EXCEPT ![m] = [state |-> "duplicate", amount |-> 0]]
             ELSE cost
  /\ Busy(r, "settle", m, rater[r].cur, 0)
  /\ UNCHANGED <<books, sent, billable, world, history>>

(* reRateMessage, for a row the rater could not price: deletes it when the *)
(* card can price it now, then inserts as above.                           *)
ReRate(r, m) ==
  /\ rater[r] = Idle /\ cost[m] # Null /\ cost[m].state = "unrated"
  /\ wabaCurrency # NoCurrency /\ rate # NoRate
  /\ cost' = [cost EXCEPT ![m] = Null]
  /\ Busy(r, "reinsert", m, wabaCurrency, rate)
  /\ UNCHANGED <<books, sent, billable, world, history>>

Reinsert(r) ==
  LET m == rater[r].msg IN
  /\ rater[r].pc = "reinsert"
  /\ IF cost[m] = Null /\ Charged(Conversation[m])
     THEN Busy(r, "duplicate", m, rater[r].cur, 0) /\ UNCHANGED <<cost, prices>>
     ELSE /\ cost' = IF cost[m] = Null
                     THEN [cost EXCEPT ![m] = [state |-> "rated", amount |-> rater[r].amount]]
                     ELSE cost
          /\ Busy(r, "settle", m, rater[r].cur, rater[r].amount) /\ Prices(m, rater[r].amount)
  /\ UNCHANGED <<books, sent, billable, world, overshoot, highest, cut, receipts, events>>

(* Seeded defects: which closes leave the charge to be booked apart. *)
BookAfterSettled(result) ==
  result \in {"no_reservation", "closed_currency_mismatch", "already_released", "already_settled"}
BookUnlessReleased(result) == result \in {"no_reservation", "closed_currency_mismatch"}

(* "Only 'already_settled' means the charge is on the books". *)
LeavesChargeUnbooked(result) ==
  result \in {"no_reservation", "closed_currency_mismatch", "already_released"}

(* settleFromRating, first transaction: close the reservation at the       *)
(* charge.  A message a dead rater left is settled after all, unless what  *)
(* is found is a close that already says "settle".                         *)
Settle(r) ==
  LET m == rater[r].msg
      cur == rater[r].cur
      amount == rater[r].amount
      result == CloseResult(m, "settle", cur)
      apart == LeavesChargeUnbooked(result) /\ amount > 0 /\ cur # NoCurrency
  IN
  /\ rater[r].pc = "settle"
  /\ IF Open(m) THEN CloseOpen(m, "settle", amount, cur)
                ELSE UNCHANGED <<close, reserved, actual, overshoot>>
  /\ IF apart THEN Busy(r, "book", m, cur, amount) ELSE rater' = [rater EXCEPT ![r] = Idle]
  /\ cut' = IF apart \/ result = "already_settled" THEN cut ELSE cut \ {m}
  /\ UNCHANGED <<limit, reserve, unreserved, messages, world, highest, prices, receipts, events>>

(* settleFromRating, second transaction: recordUnreservedActual, which its *)
(* own index lets in once per message.                                     *)
Book(r) ==
  LET m == rater[r].msg
      amount == rater[r].amount
      p == <<rater[r].cur, month>>
  IN
  /\ rater[r].pc = "book"
  /\ IF unreserved[m] = Null
     THEN /\ unreserved' = [unreserved EXCEPT ![m] =
                [currency |-> rater[r].cur, month |-> month, amount |-> amount]]
          /\ actual' = [actual EXCEPT ![p] = @ + amount]
          /\ overshoot' = [overshoot EXCEPT ![p] = @ + amount]
     ELSE UNCHANGED <<unreserved, actual, overshoot>>
  /\ rater' = [rater EXCEPT ![r] = Idle]
  /\ cut' = cut \ {m}
  /\ UNCHANGED <<limit, reserved, reserve, close, messages, world,
                 highest, prices, receipts, events>>

(* staleOpenReservations, then releaseStaleReservation item by item: the   *)
(* message had no receipt when the list was read.                          *)
FindStale(r, m) ==
  /\ rater[r] = Idle /\ Open(m) /\ billable[m] = "null"
  /\ sent[m] \in {"accepted", "refused", "unknown"}
  /\ Busy(r, "release", m, NoCurrency, 0)
  /\ UNCHANGED <<books, messages, world, history>>

ReleaseStale(r) ==
  LET m == rater[r].msg IN
  /\ rater[r].pc = "release"
  /\ IF Open(m) THEN CloseOpen(m, "release", 0, NoCurrency)
                ELSE UNCHANGED <<close, reserved, actual, overshoot>>
  /\ rater' = [rater EXCEPT ![r] = Idle]
  /\ UNCHANGED <<limit, reserve, unreserved, messages, world, highest, prices, cut, receipts, events>>

(* The request errs or its process dies: what it had not awaited is lost.  *)
Die(r) ==
  /\ rater[r] # Idle /\ events < MaxEvents
  /\ rater' = [rater EXCEPT ![r] = Idle]
  /\ cut' = IF rater[r].pc \in {"settle", "book"} THEN cut \cup {rater[r].msg} ELSE cut
  /\ events' = events + 1
  /\ UNCHANGED <<books, messages, world, overshoot, highest, prices, receipts>>

Step(r) == Rate(r) \/ WriteDuplicate(r) \/ Reinsert(r) \/ Settle(r) \/ Book(r) \/ ReleaseStale(r)

Next ==
  \/ \E c \in Currencies, l \in Limits : SetCap(c, l)
  \/ WorldChanges
  \/ \E m \in Messages : Reply(m) \/ Reserve(m) \/ Answer(m) \/ ReleaseRefused(m)
  \/ \E r \in Raters :
       \/ \E m \in Messages : Receipt(r, m) \/ Backfill(r, m) \/ ReRate(r, m) \/ FindStale(r, m)
       \/ Step(r) \/ Die(r)

Spec == Init /\ [][Next]_vars

(* A rater that has started goes on until it ends or dies; the hourly      *)
(* sweep keeps finding what awaits rating.                                 *)
Fairness ==
  /\ \A r \in Raters : WF_vars(Step(r))
  /\ \A m \in Messages : WF_vars(\E r \in Raters : Backfill(r, m))

FairSpec == Spec /\ Fairness

-----------------------------------------------------------------------------
TypeOK ==
  /\ limit \in [Currencies -> Nat \cup {NoCap}]
  /\ reserved \in [Periods -> Nat] /\ actual \in [Periods -> Nat]
  /\ \A m \in Messages :
       /\ reserve[m] \in [currency: Currencies, month: 1 .. Months, amount: Rates] \cup {Null}
       /\ close[m] \in [kind: {"release", "settle"}, amount: Nat] \cup {Null}
       /\ unreserved[m] \in [currency: Currencies, month: 1 .. Months, amount: Rates] \cup {Null}
       /\ cost[m] \in [state: {"free", "unrated", "rated", "duplicate"}, amount: Nat] \cup {Null}
       /\ sent[m] \in {"new", "held", "capped", "accepted", "refused", "unknown", "failed"}
       /\ billable[m] \in {"null", "yes", "no"}
       /\ prices[m] \subseteq Rates

OnBooks(m) ==
  (IF close[m] # Null /\ close[m].kind = "settle" THEN close[m].amount ELSE 0)
    + (IF unreserved[m] # Null THEN unreserved[m].amount ELSE 0)

Entered(entry, p) == entry # Null /\ entry.currency = p[1] /\ entry.month = p[2]

(* What each message holds in a month, was charged when its reservation of *)
(* that month closed, and was charged in that month without one.           *)
HeldIn(p) ==
  [m \in Messages |-> IF Entered(reserve[m], p) /\ close[m] = Null THEN reserve[m].amount ELSE 0]
ClosedIn(p) ==
  [m \in Messages |-> IF Entered(reserve[m], p) /\ close[m] # Null THEN close[m].amount ELSE 0]
ApartIn(p) ==
  [m \in Messages |-> IF Entered(unreserved[m], p) THEN unreserved[m].amount ELSE 0]

(* The counters of a month are what the ledger says, to the micro: held is *)
(* the sum of its open reservations, charged the sum of what its closed    *)
(* ones settled at and of the charges booked without one - although        *)
(* receipts land in other months and currencies, twice, and out of order.  *)
CountersMatchLedger ==
  \A p \in Periods :
    /\ reserved[p] = SumFunction(HeldIn(p))
    /\ actual[p] = SumFunction(ClosedIn(p)) + SumFunction(ApartIn(p))

(* Headroom binds: held and charged together stay within the highest limit *)
(* ever granted, but for what receipts priced above their hold and charges *)
(* that never had one.                                                     *)
WithinGrantedHeadroom ==
  \A p \in Periods : reserved[p] + actual[p] <= highest[p[1]] + overshoot[p]

(* A message's charge is not booked twice: one booked apart had no         *)
(* reservation, or its reservation closed at zero - whatever raters,       *)
(* backfill and refusals race for the close.                               *)
NeverBookedTwice ==
  \A m \in Messages :
    unreserved[m] # Null => reserve[m] = Null \/ (close[m] # Null /\ close[m].amount = 0)

(* Once its raters are through, a rated message is on the books at a price *)
(* one of its receipts was rated at: at its price, if they were all rated  *)
(* alike, and never at two.  A rater that dies between the cost row and    *)
(* the ledger is made good by the next receipt, whether the hold is open,  *)
(* released, or never was; `cut` excuses the message until then, and for   *)
(* good where the dead rater had closed the hold in another currency: that *)
(* close says "settle", and every later receipt believes it.               *)
RatedIsBooked ==
  \A m \in Messages :
    cost[m] # Null /\ cost[m].state = "rated" /\ m \notin cut
      /\ (\A r \in Raters : rater[r].msg # m)
    => OnBooks(m) \in prices[m]

(* Every message a receipt has priced gets its cost row, although raters   *)
(* die: the backfill finds it.                                             *)
EveryReceiptIsRated ==
  \A m \in Messages : billable[m] # "null" ~> cost[m] # Null

(* costRatingService.ts:113: "Idempotent (the ledger allows one closing    *)
(* entry per message), so a replayed webhook that reached the already_rated *)
(* no-op above cannot credit a period twice": a message rated at zero,     *)
(* because its conversation is charged already, adds nothing.              *)
DuplicatesAddNothing ==
  \A m \in Messages : cost[m] # Null /\ cost[m].state = "duplicate" => OnBooks(m) = 0
=============================================================================
