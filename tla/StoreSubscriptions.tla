------------------------- MODULE StoreSubscriptions -------------------------
(***************************************************************************)
(* A subscription sold by the App Store or by Google Play, and the plan it *)
(* buys: storeSubscriptionService over storeSubscriptionRepository and     *)
(* planRepository, fed by the store's notifications and by the claims of   *)
(* organizations.                                                          *)
(*                                                                         *)
(* No transaction and no lock holds the statements of a handler together:  *)
(* what the store says is read, the row is written, the plan in force is   *)
(* read and replaced, and the row is pointed at it, one await at a time.   *)
(* The delivery is recorded last, so that a handler that fails is called   *)
(* again.  The customer, the store and the platform's operator act at any  *)
(* moment.                                                                 *)
(*                                                                         *)
(* Of a status only this matters: "active" is entitled (active or in       *)
(* grace), "lapsed" is every status without money returned that is not,    *)
(* and "revoked" is a refund, which Google tells only by notification.     *)
(***************************************************************************)
EXTENDS Naturals, Sequences, FiniteSets

CONSTANTS Orgs, Handlers,
          MaxTold,  \* bound: changes of the purchase at the store
          MaxActs   \* bound: claims, plans set by the operator and failures, together

ASSUME StoreSubscriptionsAssumption ==
  /\ 0 \notin Orgs
  /\ MaxTold \in Nat \ {0} /\ MaxActs \in Nat

Statuses == {"active", "lapsed", "revoked"}

VARIABLES
  store,      \* who sold it
  told,       \* the changes of the purchase at the store: its reference and status after each
  recorded,   \* commerce_store_notifications: the changes whose delivery is recorded
  row,        \* commerce_store_subscriptions, in the order of insertion
  active,     \* commerce_subscriptions: each organization's tenure that has not ended
  tenures,    \* tenures ever begun
  proc,       \* per handler: how far it is and what it has read
  acts,
  (* history *)
  latest,     \* the latest change a handler has acted on
  overtaken,  \* one acted on an earlier change after that
  skipped,    \* one followed the link of a token whose own link nobody has followed
  collided,   \* a row was written while another handler was reconciling it
  cut,        \* a handler failed half way where repeating it, if anyone does, is in vain
  overridden  \* the operator has set a plan

storeHistory == <<latest, overtaken, skipped, collided, cut, overridden>>
environment == <<store, told>>
storeVars == <<environment, recorded, row, active, tenures, proc, acts, storeHistory>>

NoPlan == [by |-> "nobody", n |-> 0]

AtRest == [pc |-> "idle", org |-> 0, change |-> 0, ref |-> 0, status |-> "lapsed", ver |-> 0,
           row |-> 0, sub |-> 0, tenure |-> 0, seen |-> 0]

StoreInit ==
  /\ store \in {"apple", "google"}
  /\ told = <<[ref |-> 1, status |-> "active"]>>
  /\ recorded = {} /\ row = <<>>
  /\ active = [o \in Orgs |-> NoPlan] /\ tenures = 0
  /\ proc = [p \in Handlers |-> AtRest]
  /\ acts = 0
  /\ latest = 0 /\ overtaken = FALSE /\ skipped = FALSE /\ collided = FALSE
  /\ cut = FALSE /\ overridden = FALSE

Current == told[Len(told)]

(* isEntitled *)
Entitled(status) == status = "active"

-----------------------------------------------------------------------------
(* The customer and the store.                                             *)

Tell(ref, status) ==
  /\ Len(told) < MaxTold
  /\ told' = Append(told, [ref |-> ref, status |-> status])
  /\ UNCHANGED <<store, recorded, row, active, tenures, proc, acts, storeHistory>>

(* A renewal, or payment taken up again; Google's refunds are for good. *)
Renew == (Current.status = "revoked" => store = "apple") /\ Tell(Current.ref, "active")

Lapse == Current.status = "active" /\ Tell(Current.ref, "lapsed")

Refund == Current.status # "revoked" /\ Tell(Current.ref, "revoked")

(* An upgrade, a downgrade or a new subscription: Play names the token it *)
(* replaces, Apple keeps its reference for life. *)
Reissue == store = "google" /\ Tell(Current.ref + 1, "active")

Supersedes(ref) == IF ref > 1 THEN ref - 1 ELSE 0

(* The last change made under a reference. *)
LastOf(ref) ==
  CHOOSE v \in DOMAIN told :
    told[v].ref = ref /\ \A w \in DOMAIN told : told[w].ref = ref => w <= v

(* readSubscription: a token that was replaced has expired, and so has a   *)
(* refunded one, if Play answers for it at all; if not, nothing happens    *)
(* and the delivery is made again. *)
Reads(ref) ==
  IF ref # Current.ref THEN "lapsed"
  ELSE IF store = "google" /\ Current.status = "revoked" THEN "lapsed" ELSE Current.status

(* Apple's deriveStatus: the delivery carries the transaction as it was,   *)
(* and what was active then has expired if the period has ended since.     *)
Derives(v) ==
  IF told[v].status # "active" \/ v = Len(told) THEN {told[v].status}
  ELSE IF \E w \in v .. Len(told) : told[w].status = "lapsed" THEN {"lapsed"}
  ELSE {"active", "lapsed"}

(* verifyNotification *)
Carries(v) ==
  IF store = "apple" THEN Derives(v)
  ELSE IF told[v].status = "revoked" THEN {"revoked"} ELSE {Reads(told[v].ref)}

-----------------------------------------------------------------------------
(* How a handler ends.                                                     *)

IsClaim(q) == q.change = 0

(* A claim returns; a delivery is recorded, as unclaimed if it had no row  *)
(* to write, and acknowledged. *)
Through(q) == IF IsClaim(q) THEN AtRest ELSE [AtRest EXCEPT !.pc = "record", !.change = q.change]

(* Seeded defect: acknowledged first, like a payment's webhook. *)
AckFirst(q) == IF IsClaim(q) THEN recorded ELSE recorded \cup {q.change}

(* An error answers 500, and the store delivers again. *)
AfterError(q) == recorded

(* The handler acts on what it knows. *)
ActsOn(q) ==
  /\ latest' = IF q.ver > latest THEN q.ver ELSE latest
  /\ overtaken' = (overtaken \/ q.ver < latest)

Errs(p) ==
  /\ proc' = [proc EXCEPT ![p] = AtRest]
  /\ recorded' = AfterError(proc[p])

-----------------------------------------------------------------------------
(* claimPurchase and applyNotification as far as the row.                  *)

(* Seeded defect: a claim does not follow the link to the token replaced. *)
StraightToFind(q) == [q EXCEPT !.pc = IF IsClaim(q) THEN "find" ELSE "rekey"]

(* A replacement is followed back before its row is looked for. *)
FollowLink(q) ==
  [q EXCEPT !.pc = IF Supersedes(q.ref) # 0 THEN "rekey"
                   ELSE IF IsClaim(q) THEN "find" ELSE "update"]

(* An app names a reference; what the store says of it must be entitled. *)
Claim(p, o, ref) ==
  /\ proc[p] = AtRest /\ acts < MaxActs
  /\ Entitled(Reads(ref))
  /\ acts' = acts + 1
  /\ proc' = [proc EXCEPT ![p] =
       FollowLink([AtRest EXCEPT !.org = o, !.ref = ref, !.status = "active", !.ver = LastOf(ref)])]
  /\ UNCHANGED <<environment, recorded, row, active, tenures, storeHistory>>

(* verifyNotification, then notificationSeen; a recorded delivery is left  *)
(* at that.  Google's refunds need no lookup. *)
Deliver(p, v) ==
  /\ proc[p] = AtRest /\ v \in DOMAIN told \ recorded
  /\ \E s \in Carries(v) :
       LET q == [AtRest EXCEPT !.change = v, !.ref = told[v].ref, !.status = s]
       IN proc' = [proc EXCEPT ![p] =
            IF store = "apple" THEN FollowLink([q EXCEPT !.ver = v])
            ELSE IF s = "revoked" THEN [q EXCEPT !.pc = "find", !.ver = v]
            ELSE FollowLink([q EXCEPT !.ver = LastOf(q.ref)])]
  /\ UNCHANGED <<environment, recorded, row, active, tenures, acts, storeHistory>>

RowsAt(ref) == {i \in DOMAIN row : row[i].ref = ref}

(* Seeded defect: no constraint keeps references apart. *)
Untaken(ref) == FALSE

(* uq_commerce_store_subscriptions_store_ref *)
Taken(ref) == RowsAt(ref) # {}

(* rekey; an error if both references have a row. *)
Rekey(p) ==
  /\ proc[p].pc = "rekey"
  /\ LET q == proc[p]
         moved == RowsAt(Supersedes(q.ref))
     IN IF moved # {} /\ Taken(q.ref)
        THEN /\ Errs(p) /\ UNCHANGED <<row, latest, overtaken, skipped>>
        ELSE /\ row' = [i \in DOMAIN row |->
                          IF i \in moved THEN [row[i] EXCEPT !.ref = q.ref] ELSE row[i]]
             /\ proc' = [proc EXCEPT ![p].pc = IF IsClaim(q) THEN "find" ELSE "update"]
             /\ skipped' = (skipped \/ \E i \in DOMAIN row : row[i].ref < Supersedes(q.ref))
             /\ ActsOn(q)
             /\ UNCHANGED recorded
  /\ UNCHANGED <<environment, active, tenures, acts, collided, cut, overridden>>

(* findByRef: whose is it, for a claim; is it anyone's, for a refund. *)
Find(p) ==
  /\ proc[p].pc = "find"
  /\ LET q == proc[p]
         there == RowsAt(q.ref)
     IN \/ /\ there = {}
           /\ proc' = [proc EXCEPT ![p] = IF IsClaim(q) THEN [q EXCEPT !.pc = "insert"]
                                          ELSE Through(q)]
           /\ ActsOn(q)
        \/ /\ \E i \in there :
                proc' = [proc EXCEPT ![p] =
                  IF ~IsClaim(q) THEN [q EXCEPT !.pc = "mark", !.row = i]
                  ELSE IF row[i].org = q.org THEN [q EXCEPT !.pc = "update"] ELSE AtRest]
           /\ UNCHANGED <<latest, overtaken>>
  /\ UNCHANGED <<environment, recorded, row, active, tenures, acts, skipped, collided, cut,
                 overridden>>

Reconciling == {"grant", "link", "check", "end", "unlink"}

(* reconcileEntitlement begins with the row as its write returned it. *)
Reconcile(q, sub) ==
  IF Entitled(q.status) = (sub # 0) THEN Through(q)
  ELSE [q EXCEPT !.ref = 0, !.status = "lapsed", !.ver = 0, !.sub = sub,
                 !.pc = IF Entitled(q.status) THEN "grant" ELSE "check"]

(* Handler p has written row i. *)
Written(p, i) ==
  LET q == [proc[p] EXCEPT !.row = i, !.org = row'[i].org]
  IN /\ proc' = [proc EXCEPT ![p] = Reconcile(q, row'[i].sub)]
     /\ collided' = (collided \/ \E x \in Handlers \ {p} :
                                        proc[x].pc \in Reconciling /\ proc[x].row = i)
     /\ ActsOn(q)

(* insertClaim; whoever comes second is refused. *)
Insert(p) ==
  /\ proc[p].pc = "insert"
  /\ IF Taken(proc[p].ref)
     THEN Errs(p) /\ UNCHANGED <<row, latest, overtaken, collided>>
     ELSE /\ row' = Append(row, [org |-> proc[p].org, ref |-> proc[p].ref,
                                 status |-> proc[p].status, sub |-> 0])
          /\ Written(p, Len(row) + 1)
          /\ UNCHANGED recorded
  /\ UNCHANGED <<environment, active, tenures, acts, skipped, cut, overridden>>

(* updateState, by reference. *)
Update(p) ==
  /\ proc[p].pc = "update"
  /\ IF RowsAt(proc[p].ref) = {}
     THEN /\ proc' = [proc EXCEPT ![p] = Through(proc[p])]
          /\ ActsOn(proc[p])
          /\ UNCHANGED <<row, collided>>
     ELSE \E i \in RowsAt(proc[p].ref) :
            row' = [row EXCEPT ![i].status = proc[p].status] /\ Written(p, i)
  /\ UNCHANGED <<environment, recorded, active, tenures, acts, skipped, cut, overridden>>

(* markRevoked, by id. *)
MarkRevoked(p) ==
  /\ proc[p].pc = "mark"
  /\ row' = [row EXCEPT ![proc[p].row].status = "revoked"]
  /\ Written(p, proc[p].row)
  /\ UNCHANGED <<environment, recorded, active, tenures, acts, skipped, cut, overridden>>

-----------------------------------------------------------------------------
(* reconcileEntitlement.                                                   *)

(* setSubscription with the plan: whatever the organization has ends. *)
Grant(p) ==
  /\ proc[p].pc = "grant"
  /\ tenures' = tenures + 1
  /\ active' = [active EXCEPT ![proc[p].org] = [by |-> "store", n |-> tenures']]
  /\ proc' = [proc EXCEPT ![p].pc = "link", ![p].tenure = tenures']
  /\ UNCHANGED <<environment, recorded, row, acts, storeHistory>>

(* setSubscriptionId, by id. *)
Link(p) ==
  /\ proc[p].pc = "link"
  /\ row' = [row EXCEPT ![proc[p].row].sub = proc[p].tenure]
  /\ proc' = [proc EXCEPT ![p] = Through(proc[p])]
  /\ UNCHANGED <<environment, recorded, active, tenures, acts, storeHistory>>

(* Seeded defect: whatever plan the organization has is taken away. *)
AnyPlan(q) == active[q.org] # NoPlan

(* Only the tenure that this purchase began. *)
OwnTenure(q) == active[q.org].n = q.sub

(* activeSubscription *)
Check(p) ==
  /\ proc[p].pc = "check"
  /\ proc' = [proc EXCEPT ![p].pc = IF OwnTenure(proc[p]) THEN "end" ELSE "unlink",
                          ![p].seen = tenures]
  /\ UNCHANGED <<environment, recorded, row, active, tenures, acts, storeHistory>>

(* setSubscription without a plan: by organization, whatever it has now. *)
End(p) ==
  /\ proc[p].pc = "end"
  /\ active' = [active EXCEPT ![proc[p].org] = NoPlan]
  /\ proc' = [proc EXCEPT ![p].pc = "unlink"]
  /\ UNCHANGED <<environment, recorded, row, tenures, acts, storeHistory>>

(* Seeded defect: the row goes on pointing at the tenure that ended. *)
Pointed(q) == q.sub

Unpointed(q) == 0

Unlink(p) ==
  /\ proc[p].pc = "unlink"
  /\ row' = [row EXCEPT ![proc[p].row].sub = Unpointed(proc[p])]
  /\ proc' = [proc EXCEPT ![p] = Through(proc[p])]
  /\ UNCHANGED <<environment, recorded, active, tenures, acts, storeHistory>>

(* recordNotification; a conflict does nothing. *)
Record(p) ==
  /\ proc[p].pc = "record"
  /\ recorded' = recorded \cup {proc[p].change}
  /\ proc' = [proc EXCEPT ![p] = AtRest]
  /\ UNCHANGED <<environment, row, active, tenures, acts, storeHistory>>

-----------------------------------------------------------------------------
(* The store will deliver what handler p is about once more. *)
Repeated(p) ==
  LET v == proc[p].change
  IN v \notin {0} \cup recorded /\ \A x \in Handlers \ {p} : proc[x].change # v

(* A statement fails, as an assignment of a plan does that meets another's *)
(* transaction, or the process dies.  A failure is repaired if the whole   *)
(* delivery is repeated, but not between the plan and the row's link to it. *)
Throw(p) ==
  /\ proc[p].pc # "idle" /\ acts < MaxActs
  /\ acts' = acts + 1
  /\ Errs(p)
  /\ cut' = (cut \/ proc[p].pc \in {"link", "unlink"}
              \/ (proc[p].pc \in Reconciling /\ ~Repeated(p)))
  /\ UNCHANGED <<environment, row, active, tenures, latest, overtaken, skipped, collided,
                 overridden>>

(* PUT of an organization's plan by the platform's operator, or of none. *)
Override(o, given) ==
  /\ acts < MaxActs
  /\ acts' = acts + 1 /\ overridden' = TRUE
  /\ tenures' = IF given THEN tenures + 1 ELSE tenures
  /\ active' = [active EXCEPT ![o] = IF given THEN [by |-> "operator", n |-> tenures'] ELSE NoPlan]
  /\ UNCHANGED <<environment, recorded, row, proc, latest, overtaken, skipped, collided,
                 cut>>

Step(p) ==
  \/ Rekey(p) \/ Find(p) \/ Insert(p) \/ Update(p) \/ MarkRevoked(p)
  \/ Grant(p) \/ Link(p) \/ Check(p) \/ End(p) \/ Unlink(p) \/ Record(p)

StoreNext ==
  \/ Renew \/ Lapse \/ Refund \/ Reissue
  \/ \E o \in Orgs, given \in BOOLEAN : Override(o, given)
  \/ \E p \in Handlers :
       \/ \E o \in Orgs, ref \in 1 .. Current.ref : Claim(p, o, ref)
       \/ \E v \in DOMAIN told : Deliver(p, v)
       \/ Step(p)
       \/ Throw(p)

StoreSpec == StoreInit /\ [][StoreNext]_storeVars

-----------------------------------------------------------------------------
(* Types; references are unique, and a row points at a tenure that was     *)
(* begun. *)
StoreTypeOK ==
  /\ store \in {"apple", "google"}
  /\ told \in Seq([ref : Nat \ {0}, status : Statuses])
  /\ recorded \subseteq DOMAIN told
  /\ row \in Seq([org : Orgs, ref : Nat \ {0}, status : Statuses, sub : 0 .. tenures])
  /\ \A i, j \in DOMAIN row : row[i].ref = row[j].ref => i = j
  /\ active \in [Orgs -> [by : {"nobody", "store", "operator"}, n : Nat]]
  /\ tenures \in Nat
  /\ proc \in [Handlers -> [pc : {"idle", "rekey", "find", "insert", "update", "mark", "record"}
                                    \cup Reconciling,
                            org : Orgs \cup {0}, change : Nat, ref : Nat, status : Statuses,
                            ver : Nat, row : Nat, sub : Nat, tenure : Nat, seen : Nat]]
  /\ acts \in Nat
  /\ latest \in Nat
  /\ {overtaken, skipped, collided, cut, overridden} \subseteq BOOLEAN

Settled == (\A p \in Handlers : proc[p] = AtRest) /\ recorded = DOMAIN told

(* When every delivery is recorded and no handler acted on an older word   *)
(* of the store's after a newer one, a claimed purchase is known by its    *)
(* present reference and is entitled as the store has it: no delivery was  *)
(* acknowledged for nothing. *)
RowsAreTrue ==
  Settled /\ ~overtaken =>
    \A i \in DOMAIN row :
      row[i].ref = Current.ref /\ Entitled(row[i].status) = Entitled(Current.status)

(* One purchase is one organization's and one row, however many claim it   *)
(* and however often its token is replaced, unless a claim acted on a word *)
(* that was out of date or before the token it replaces was known. *)
OneRowPerPurchase == ~overtaken /\ ~skipped => Len(row) <= 1

(* When everything is settled, a row points at a tenure exactly while it   *)
(* is entitled; the customer who pays has that plan unless the operator    *)
(* decided otherwise, and a plan the store began has a paying row behind   *)
(* it.  Excused are two handlers of one row at once, failures that nobody  *)
(* repeats or repeats in vain, and words of the store out of order. *)
AccessFollowsRow ==
  Settled /\ ~collided /\ ~cut /\ ~overtaken =>
    /\ \A i \in DOMAIN row :
         /\ Entitled(row[i].status) = (row[i].sub # 0)
         /\ Entitled(row[i].status) => active[row[i].org].n = row[i].sub \/ overridden
    /\ \A o \in Orgs : active[o].by = "store" =>
         \E i \in DOMAIN row : row[i].org = o /\ row[i].sub = active[o].n

(* A lapse takes a plan the operator gave only if it was given after the   *)
(* handler had looked at which plan is in force. *)
LapseSparesOperator ==
  [][\A o \in Orgs :
       active[o].by = "operator" /\ active'[o] = NoPlan /\ acts' = acts =>
         \E p \in Handlers : proc[p].pc = "end" /\ proc[p].org = o /\ proc[p].seen < active[o].n]_storeVars
=============================================================================
