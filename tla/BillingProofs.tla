---------------------------- MODULE BillingProofs ----------------------------
(***************************************************************************)
(* What holds of a month's billing for any number of processes, attempts,  *)
(* deliveries and faults.  What a process may still do is one of a dozen   *)
(* lists of steps, and each says what the tables and the provider hold.    *)
(***************************************************************************)
EXTENDS Billing, FiniteSetTheorems, TLAPS

Collecting == {<<"count">>, <<"create">>, <<"charge">>, <<"record", "pay">>, <<"record">>,
               <<"pay">>, <<"save">>, <<"find">>}
Todos == {<<>>, <<"subscription">>, <<"write", "mark">>, <<"mark">>} \cup Collecting

ProcType == [todo : Seq(Steps), key : Keys \cup {NoKey}, says : Says]

Row == [status : {"pending", "succeeded", "failed"}, ref : BOOLEAN]

(* The provider was asked for the charge and it did not, and will not,     *)
(* come, or the provider called it an error.                               *)
Lost(n) == asked[n] # 0 /\ (charge[n] \in {"none", "failed"} \/ n \in misheard)

(* What a process is about to do is warranted. *)
Warranted(p) ==
  LET todo == proc[p].todo
      k == proc[p].key
      says == proc[p].says
  IN
  /\ todo \in Todos
  /\ todo = <<>> => proc[p] = Idle
  /\ todo = <<"mark">> /\ billable => invoice # "none"
  /\ todo \in Collecting => k \in Keys /\ invoice # "none"
  /\ todo \in {<<"charge">>, <<"record", "pay">>, <<"record">>, <<"pay">>, <<"save">>} => attempt[k] # Null
  /\ todo \in {<<"charge">>, <<"record">>, <<"save">>, <<"find">>} => k[1] = "invoice"
  /\ todo = <<"charge">> => asked[k[2]] = 0
  /\ todo = <<"record", "pay">> =>
       says = "succeeded"
         /\ (k[1] = "invoice" => charge[k[2]] = "succeeded" /\ k[2] \notin misheard)
  /\ todo = <<"save">> => asked[k[2]] # 0 /\ k[2] \notin misheard
  /\ todo = <<"record">> => says = "failed" /\ Lost(k[2])
  /\ todo = <<"pay">> => k[1] = "manual" \/ attempt[k].status = "succeeded"
  /\ todo = <<"find">> => says \in {"succeeded", "failed"} /\ says = charge[k[2]]

OneCharges ==
  \A p, q \in Procs :
    proc[p].todo = <<"charge">> /\ proc[q].todo = <<"charge">> /\ proc[p].key = proc[q].key => p = q

(* An attempt and the provider agree; a charge the provider called an      *)
(* error is not known by any reference.                                    *)
Agrees(n) ==
  LET k == <<"invoice", n>> IN
  /\ asked[n] <= 1
  /\ asked[n] # 0 => attempt[k] # Null
  /\ charge[n] # "none" \/ n \in misheard => asked[n] # 0
  /\ attempt[k] # Null =>
       /\ attempt[k].status = "succeeded" => charge[n] = "succeeded"
       /\ attempt[k].status = "failed" => Lost(n)
       /\ attempt[k].status = "succeeded" \/ attempt[k].ref => asked[n] # 0 /\ n \notin misheard

(* The attempts, the invoice and the provider agree. *)
TablesAgree ==
  /\ \A k \in Keys : attempt[k] # Null => invoice # "none"
  /\ \A n \in Numbers : Agrees(n)

(* A succeeded attempt has paid the invoice, or its process is about to. *)
BeingPaid ==
  \A k \in Attempts \ left :
    attempt[k].status = "succeeded" =>
      invoice = "paid" \/ \E p \in Procs : proc[p].todo = <<"pay">> /\ proc[p].key = k

IInv ==
  /\ TypeOK /\ (\A p \in Procs : Warranted(p)) /\ OneCharges /\ TablesAgree
  /\ BeingPaid /\ PaidHasEvidence /\ ClosedIsBilled

-----------------------------------------------------------------------------
(* The step a process is at, and what it leaves. *)
LEMMA Heads ==
  ASSUME NEW p \in Procs, proc[p].todo \in Todos
  PROVE  /\ At(p, "subscription") => proc[p].todo = <<"subscription">>
         /\ At(p, "write") => proc[p].todo = <<"write", "mark">> /\ Tail(proc[p].todo) = <<"mark">>
         /\ At(p, "mark") => proc[p].todo = <<"mark">> /\ Tail(proc[p].todo) = <<>>
         /\ At(p, "count") => proc[p].todo = <<"count">>
         /\ At(p, "create") => proc[p].todo = <<"create">>
         /\ At(p, "charge") => proc[p].todo = <<"charge">>
         /\ At(p, "record") => \/ proc[p].todo = <<"record", "pay">> /\ Tail(proc[p].todo) = <<"pay">>
                               \/ proc[p].todo = <<"record">> /\ Tail(proc[p].todo) = <<>>
         /\ At(p, "pay") => proc[p].todo = <<"pay">> /\ Tail(proc[p].todo) = <<>>
         /\ At(p, "save") => proc[p].todo = <<"save">>
         /\ At(p, "find") => proc[p].todo = <<"find">>
<1> DEFINE t == proc[p].todo
<1>0. t \in Todos /\ \A s : At(p, s) => t # <<>> /\ Head(t) = s
  BY DEF At
<1> SUFFICES \A s : t # <<>> /\ Head(t) = s =>
       /\ s = "write" => t = <<"write", "mark">> /\ Tail(t) = <<"mark">>
       /\ s = "record" => \/ t = <<"record", "pay">> /\ Tail(t) = <<"pay">>
                          \/ t = <<"record">> /\ Tail(t) = <<>>
       /\ s \notin {"write", "record"} => t = <<s>> /\ Tail(t) = <<>>
  BY <1>0
<1> HIDE DEF t
<1>1. ASSUME NEW s, t = <<s>> PROVE Head(t) = s /\ Tail(t) = <<>>
  BY <1>1
<1>2. CASE t = <<"write", "mark">>
  BY <1>2
<1>3. CASE t = <<"record", "pay">>
  BY <1>3
<1> QED BY <1>0, <1>1, <1>2, <1>3 DEF Todos, Collecting

LEMMA TodosTyped == Todos \subseteq Seq(Steps)
BY DEF Todos, Collecting, Steps

(* A process goes on to the list of steps it is given; the others stay.    *)
LEMMA Goes ==
  ASSUME TypeOK, NEW p \in Procs, NEW todo, NEW k, NEW says, Go(p, todo, k, says)
  PROVE  /\ \A q \in Procs \ {p} : proc'[q] = proc[q]
         /\ proc'[p] = IF todo = <<>> THEN Idle ELSE [todo |-> todo, key |-> k, says |-> says]
         /\ todo \in Todos /\ k \in Keys \cup {NoKey} /\ says \in Says =>
              proc' \in [Procs -> ProcType]
<1>1. proc \in [Procs -> ProcType]
  BY DEF TypeOK, ProcType
<1>2. Idle \in ProcType
  BY TodosTyped DEF Idle, ProcType, Todos, Says
<1>3. todo \in Todos /\ k \in Keys \cup {NoKey} /\ says \in Says =>
        [todo |-> todo, key |-> k, says |-> says] \in ProcType
  BY TodosTyped DEF ProcType
<1> QED BY <1>1, <1>2, <1>3 DEF Go

LEMMA Numbering == Cardinality(Attempts) \in Nat /\ 1 \in Numbers /\ Numbers \subseteq Nat
<1>1. IsFiniteSet(Numbers) /\ IsFiniteSet({"invoice", "manual"})
  <2>1. IsFiniteSet(1 .. MaxAttempts)
    BY BillingAssumption, FS_Interval
  <2>2. IsFiniteSet({} \cup {"invoice"}) /\ IsFiniteSet(({} \cup {"invoice"}) \cup {"manual"})
    BY FS_EmptySet, FS_AddElement
  <2>3. {"invoice", "manual"} = ({} \cup {"invoice"}) \cup {"manual"}
    OBVIOUS
  <2> QED BY <2>1, <2>2, <2>3 DEF Numbers
<1>2. IsFiniteSet(Keys)
  BY <1>1, FS_Product DEF Keys
<1>3. IsFiniteSet(Attempts)
  BY <1>2, FS_Subset DEF Attempts
<1> QED BY <1>3, FS_CardinalityType, BillingAssumption DEF Numbers

LEMMA KeyParts ==
  ASSUME NEW k \in Keys
  PROVE  k[1] \in {"invoice", "manual"} /\ k[2] \in Numbers /\ k = <<k[1], k[2]>>
BY DEF Keys

-----------------------------------------------------------------------------
(* What a step of p may do to what the others rely on. *)
Frame(p) ==
  /\ \A q \in Procs \ {p} : proc'[q] = proc[q]
  /\ billable' => billable
  /\ invoice # "none" => invoice' # "none"
  /\ \A k \in Keys : attempt[k] # Null =>
       /\ attempt'[k] # Null
       /\ k[1] = "invoice" /\ attempt[k].status = "succeeded" => attempt'[k].status = "succeeded"
  /\ \A n \in Numbers :
       /\ charge[n] \in {"succeeded", "failed"} => charge'[n] = charge[n]
       /\ Lost(n) => Lost(n)'
       /\ asked[n] # 0 => asked'[n] # 0 /\ (n \in misheard' => n \in misheard)
       /\ asked'[n] = asked[n] \/ (proc[p].todo = <<"charge">> /\ proc[p].key = <<"invoice", n>>)

LEMMA OthersWarranted ==
  ASSUME IInv, NEW p \in Procs, Frame(p)
  PROVE  \A q \in Procs \ {p} : Warranted(q)'
<1> SUFFICES ASSUME NEW q \in Procs \ {p} PROVE Warranted(q)'
  OBVIOUS
<1> DEFINE todo == proc[q].todo
           k == proc[q].key
<1>1. Warranted(q) /\ proc'[q] = proc[q]
  BY DEF IInv, Frame
<1>2. todo \in Collecting =>
        k \in Keys /\ k[1] \in {"invoice", "manual"} /\ k[2] \in Numbers /\ k = <<k[1], k[2]>>
  BY <1>1, KeyParts DEF Warranted
<1>3. todo = <<"charge">> => asked'[k[2]] = 0
  BY <1>1, <1>2 DEF Warranted, Frame, IInv, OneCharges, Collecting
<1>4. todo = <<"pay">> => k[1] = "manual" \/ attempt'[k].status = "succeeded"
  BY <1>1, <1>2 DEF Warranted, Frame, Collecting
<1>5. todo = <<"record", "pay">> => (k[1] = "invoice" => charge'[k[2]] = "succeeded")
  BY <1>1, <1>2 DEF Warranted, Frame, Collecting
<1>6. todo = <<"record">> => Lost(k[2])'
  BY <1>1, <1>2 DEF Warranted, Frame, Collecting
<1>7. todo = <<"find">> => proc[q].says = charge'[k[2]]
  BY <1>1, <1>2 DEF Warranted, Frame, Collecting
<1>8. todo \in {<<"charge">>, <<"record", "pay">>, <<"record">>, <<"pay">>, <<"save">>} => attempt'[k] # Null
  BY <1>1, <1>2 DEF Warranted, Frame, Collecting
<1>9. (todo = <<"mark">> /\ billable' => invoice' # "none") /\ (todo \in Collecting => invoice' # "none")
  BY <1>1 DEF Warranted, Frame
<1>10. todo = <<"record", "pay">> /\ k[1] = "invoice" => k[2] \notin misheard'
  <2>1. charge[k[2]] = "succeeded" => asked[k[2]] # 0 \/ k[2] \notin Numbers
    BY DEF IInv, TablesAgree, Agrees
  <2> QED BY <1>1, <1>2, <2>1 DEF Warranted, Frame, Collecting
<1>11. todo = <<"save">> => asked'[k[2]] # 0 /\ k[2] \notin misheard'
  BY <1>1, <1>2 DEF Warranted, Frame, Collecting
<1> QED BY <1>1, <1>3, <1>4, <1>5, <1>6, <1>7, <1>8, <1>9, <1>10, <1>11 DEF Warranted

(* The invariant after a step of p, from what concerns p and the tables. *)
LEMMA Assembled ==
  ASSUME IInv, NEW p \in Procs, Frame(p), TypeOK', Warranted(p)',
         proc'[p].todo = <<"charge">> =>
           \A q \in Procs \ {p} : ~(proc[q].todo = <<"charge">> /\ proc[q].key = proc'[p].key),
         TablesAgree', BeingPaid', PaidHasEvidence', ClosedIsBilled'
  PROVE  IInv'
<1>1. \A q \in Procs : Warranted(q)'
  BY OthersWarranted
<1>2. OneCharges'
  BY DEF IInv, OneCharges, Frame
<1> QED BY <1>1, <1>2 DEF IInv

(* A step that disturbs no payment under way and records no success. *)
LEMMA StillBeingPaid ==
  ASSUME BeingPaid, left \subseteq left', invoice = "paid" => invoice' = "paid",
         \A q \in Procs : proc[q].todo = <<"pay">> => proc'[q] = proc[q],
         \A j \in Keys : attempt'[j] # Null /\ attempt'[j].status = "succeeded" =>
                          attempt[j] # Null /\ attempt[j].status = "succeeded"
  PROVE  BeingPaid'
<1> SUFFICES ASSUME NEW j \in Keys, j \notin left', attempt'[j] # Null, attempt'[j].status = "succeeded"
             PROVE  invoice' = "paid" \/ \E p \in Procs : proc'[p].todo = <<"pay">> /\ proc'[p].key = j
  BY DEF BeingPaid, Attempts
<1>1. invoice = "paid" \/ \E p \in Procs : proc[p].todo = <<"pay">> /\ proc[p].key = j
  BY DEF BeingPaid, Attempts
<1> QED BY <1>1

(* A step that leaves the tables and the provider alone. *)
LEMMA StepAside ==
  ASSUME IInv, NEW p \in Procs, UNCHANGED <<rows, charge, asked, misheard>>,
         \A q \in Procs \ {p} : proc'[q] = proc[q],
         TypeOK', Warranted(p)', proc'[p].todo # <<"charge">>,
         left \subseteq left', proc[p].todo = <<"pay">> => proc[p].key \in left'
  PROVE  IInv'
<1> USE DEF rows
<1>1. Frame(p)
  BY DEF Frame, Lost
<1>2. TablesAgree' /\ PaidHasEvidence' /\ ClosedIsBilled'
  BY DEF IInv, TablesAgree, Agrees, PaidHasEvidence, ClosedIsBilled, Lost, Attempts
<1>3. BeingPaid'
  <2>1. ASSUME NEW q \in Procs, proc[q].todo = <<"pay">>, proc[q].key \notin left'
        PROVE  proc'[q] = proc[q]
    BY <2>1
  <2> QED BY <2>1 DEF IInv, BeingPaid, Attempts
<1> QED BY <1>1, <1>2, <1>3, Assembled

-----------------------------------------------------------------------------
(* A closer reads, writes the invoice and marks the month. *)
LEMMA CloserStep ==
  ASSUME IInv, NEW p \in Procs,
         BeginClose(p) \/ ReadSubscription(p) \/ WriteInvoice(p) \/ MarkPeriod(p)
  PROVE  IInv'
<1> USE DEF rows, provider, history
<1>0. Warranted(p) /\ TypeOK /\ proc[p].todo \in Todos
  BY DEF IInv, Warranted
<1>1. CASE BeginClose(p)
  <2>1. Go(p, <<"subscription">>, NoKey, "nothing") /\ proc[p] = Idle
    BY <1>1 DEF BeginClose
  <2>2. proc'[p] = [todo |-> <<"subscription">>, key |-> NoKey, says |-> "nothing"]
        /\ proc' \in [Procs -> ProcType] /\ \A q \in Procs \ {p} : proc'[q] = proc[q]
    BY <1>0, <2>1, Goes DEF Todos, Says
  <2>3. TypeOK'
    BY <1>0, <1>1, <2>2 DEF BeginClose, TypeOK, ProcType
  <2>4. Warranted(p)'
    BY <2>2 DEF Warranted, Todos, Collecting
  <2> QED BY <1>1, <2>1, <2>2, <2>3, <2>4, StepAside DEF BeginClose, Idle
<1>2. CASE ReadSubscription(p)
  <2>1. proc[p].todo = <<"subscription">> /\ proc[p] \in ProcType
    BY <1>0, <1>2, Heads DEF ReadSubscription, TypeOK, ProcType
  <2>2. PICK todo \in {<<"write", "mark">>, <<"mark">>} :
          Go(p, todo, proc[p].key, proc[p].says) /\ (todo = <<"mark">> => ~billable)
    BY <1>2 DEF ReadSubscription, Then, Closing
  <2>3. proc'[p] = [todo |-> todo, key |-> proc[p].key, says |-> proc[p].says]
        /\ proc' \in [Procs -> ProcType] /\ \A q \in Procs \ {p} : proc'[q] = proc[q]
    <3>1. todo # <<>> /\ todo \in Todos
      BY DEF Todos
    <3> QED BY <1>0, <2>1, <2>2, <3>1, Goes DEF ProcType
  <2>4. TypeOK'
    BY <1>0, <1>2, <2>3 DEF ReadSubscription, TypeOK, ProcType
  <2>5. Warranted(p)'
    BY <1>2, <2>2, <2>3 DEF ReadSubscription, Warranted, Todos, Collecting
  <2> QED BY <1>2, <2>1, <2>3, <2>4, <2>5, StepAside DEF ReadSubscription
<1>3. CASE WriteInvoice(p)
  <2>1. proc[p].todo = <<"write", "mark">> /\ proc[p] \in ProcType
        /\ Go(p, <<"mark">>, proc[p].key, proc[p].says)
    BY <1>0, <1>3, Heads DEF WriteInvoice, TypeOK, ProcType, Then
  <2>2. proc'[p] = [todo |-> <<"mark">>, key |-> proc[p].key, says |-> proc[p].says]
        /\ proc' \in [Procs -> ProcType] /\ \A q \in Procs \ {p} : proc'[q] = proc[q]
    <3>1. <<"mark">> \in Todos /\ <<"mark">> # <<>>
      BY DEF Todos
    <3>2. proc[p].key \in Keys \cup {NoKey} /\ proc[p].says \in Says
      BY <2>1 DEF ProcType
    <3> QED BY <1>0, <2>1, <3>1, <3>2, Goes
  <2>3. /\ invoice' # "none" /\ (invoice # "none" => invoice' = invoice)
        /\ invoice' = "paid" => invoice = "paid"
        /\ UNCHANGED <<billable, closed, attempt, charge, asked, misheard, left>>
    BY <1>0, <1>3 DEF WriteInvoice, TypeOK
  <2>4. TypeOK'
    BY <1>0, <1>3, <2>2 DEF WriteInvoice, TypeOK, ProcType
  <2>5. Warranted(p)' /\ Frame(p)
    BY <2>2, <2>3 DEF Warranted, Todos, Collecting, Frame, Lost
  <2>6. TablesAgree' /\ PaidHasEvidence' /\ ClosedIsBilled'
    BY <2>3 DEF IInv, TablesAgree, Agrees, PaidHasEvidence, ClosedIsBilled, Lost, Attempts
  <2>7. BeingPaid'
    <3>1. \A q \in Procs : proc[q].todo = <<"pay">> => proc'[q] = proc[q]
      BY <2>1, <2>2
    <3> QED BY <2>3, <3>1 DEF IInv, BeingPaid, Attempts
  <2> QED BY <2>2, <2>4, <2>5, <2>6, <2>7, Assembled
<1>4. CASE MarkPeriod(p)
  <2>1. proc[p].todo = <<"mark">> /\ Go(p, <<>>, proc[p].key, proc[p].says)
    BY <1>0, <1>4, Heads DEF MarkPeriod, Then
  <2>2. proc'[p] = Idle /\ proc' \in [Procs -> ProcType] /\ \A q \in Procs \ {p} : proc'[q] = proc[q]
    <3>1. proc[p] \in ProcType
      BY <1>0 DEF TypeOK, ProcType
    <3> QED BY <1>0, <2>1, <3>1, Goes DEF Todos, ProcType
  <2>3. UNCHANGED <<billable, invoice, attempt, charge, asked, misheard, left>>
    BY <1>4 DEF MarkPeriod
  <2>4. TypeOK'
    BY <1>0, <1>4, <2>2 DEF MarkPeriod, TypeOK, ProcType
  <2>5. Warranted(p)' /\ Frame(p)
    BY <2>2, <2>3 DEF Warranted, Todos, Collecting, Frame, Lost, Idle
  <2>6. TablesAgree' /\ PaidHasEvidence' /\ ClosedIsBilled'
    BY <1>0, <2>1, <2>3 DEF IInv, TablesAgree, Agrees, PaidHasEvidence, ClosedIsBilled, Lost, Attempts, Warranted
  <2>7. BeingPaid'
    <3>1. \A q \in Procs : proc[q].todo = <<"pay">> => proc'[q] = proc[q]
      BY <2>1, <2>2
    <3> QED BY <2>3, <3>1 DEF IInv, BeingPaid, Attempts
  <2> QED BY <2>2, <2>4, <2>5, <2>6, <2>7, Assembled DEF Idle
<1> QED BY <1>1, <1>2, <1>3, <1>4

(* A collector numbers its attempt. *)
LEMMA NumberStep ==
  ASSUME IInv, NEW p \in Procs,
         Begin(p, "invoice") \/ Begin(p, "manual") \/ CountAttempts(p)
  PROVE  IInv'
<1> USE DEF rows, provider, history
<1>0. Warranted(p) /\ TypeOK /\ proc[p].todo \in Todos
  BY DEF IInv, Warranted
<1>1. ASSUME NEW kind \in {"invoice", "manual"}, Begin(p, kind) PROVE IInv'
  <2>1. Go(p, <<"count">>, <<kind, 1>>, "nothing") /\ proc[p] = Idle /\ invoice = "issued"
        /\ <<kind, 1>> \in Keys
    BY <1>1, Numbering DEF Begin, Keys
  <2>2. proc'[p] = [todo |-> <<"count">>, key |-> <<kind, 1>>, says |-> "nothing"]
        /\ proc' \in [Procs -> ProcType] /\ \A q \in Procs \ {p} : proc'[q] = proc[q]
    BY <1>0, <2>1, Goes DEF Todos, Collecting, Says
  <2>3. TypeOK'
    BY <1>0, <1>1, <2>2 DEF Begin, TypeOK, ProcType
  <2>4. Warranted(p)'
    BY <1>1, <2>1, <2>2 DEF Warranted, Todos, Collecting, Begin
  <2> QED BY <1>1, <2>1, <2>2, <2>3, <2>4, StepAside DEF Begin, Idle
<1>2. CASE CountAttempts(p)
  <2>1. proc[p].todo = <<"count">> /\ proc[p] \in ProcType /\ proc[p].key \in Keys /\ invoice # "none"
    BY <1>0, <1>2, Heads DEF CountAttempts, TypeOK, ProcType, Warranted, Collecting
  <2>2. CASE Go(p, <<>>, proc[p].key, proc[p].says)
    <3>1. proc'[p] = Idle /\ proc' \in [Procs -> ProcType] /\ \A q \in Procs \ {p} : proc'[q] = proc[q]
      BY <1>0, <2>1, <2>2, Goes DEF Todos, ProcType
    <3>2. TypeOK' /\ Warranted(p)'
      BY <1>0, <1>2, <3>1 DEF CountAttempts, TypeOK, ProcType, Warranted, Todos, Collecting, Idle
    <3> QED BY <1>2, <2>1, <3>1, <3>2, StepAside DEF CountAttempts, Idle
  <2>3. ASSUME NEW k \in Keys, Go(p, <<"create">>, k, "nothing") PROVE IInv'
    <3>1. proc'[p] = [todo |-> <<"create">>, key |-> k, says |-> "nothing"]
          /\ proc' \in [Procs -> ProcType] /\ \A q \in Procs \ {p} : proc'[q] = proc[q]
      BY <1>0, <2>3, Goes DEF Todos, Collecting, Says
    <3>2. TypeOK'
      BY <1>0, <1>2, <3>1 DEF CountAttempts, TypeOK, ProcType
    <3>3. Warranted(p)'
      BY <1>2, <2>1, <3>1 DEF Warranted, Todos, Collecting, CountAttempts
    <3> QED BY <1>2, <2>1, <3>1, <3>2, <3>3, StepAside DEF CountAttempts
  <2>4. ASSUME Cardinality(Attempts) < MaxAttempts
        PROVE  <<proc[p].key[1], Cardinality(Attempts) + 1>> \in Keys
    BY <2>1, <2>4, Numbering, KeyParts, BillingAssumption DEF Keys, Numbers
  <2> QED BY <1>2, <2>2, <2>3, <2>4 DEF CountAttempts, Then
<1> QED BY <1>1, <1>2

(* A collector or an operator takes its key. *)
LEMMA KeyStep ==
  ASSUME IInv, NEW p \in Procs, CreateAttempt(p)
  PROVE  IInv'
<1> USE DEF rows, provider, history
<1> DEFINE k == proc[p].key
           new == [status |-> "pending", ref |-> FALSE]
<1>0. /\ Warranted(p) /\ TypeOK /\ proc[p].todo = <<"create">> /\ proc[p] \in ProcType
      /\ k \in Keys /\ invoice # "none"
      /\ UNCHANGED <<billable, closed, invoice, charge, events, asked, unheard, misheard, left, faults>>
  BY Heads DEF IInv, Warranted, CreateAttempt, TypeOK, ProcType, Collecting
<1>k. k[1] \in {"invoice", "manual"} /\ k[2] \in Numbers /\ k = <<k[1], k[2]>>
  BY <1>0, KeyParts
<1>1. CASE attempt[k] = Null
  <2>1. /\ attempt' = [attempt EXCEPT ![k] = new]
        /\ \/ k[1] = "invoice" /\ Go(p, <<"charge">>, k, proc[p].says)
           \/ k[1] = "manual" /\ Go(p, <<"record", "pay">>, k, "succeeded")
    BY <1>1, <1>k DEF CreateAttempt, Wins, Then
  <2>2. PICK todo \in {<<"charge">>, <<"record", "pay">>}, says \in Says :
          /\ Go(p, todo, k, says)
          /\ todo = <<"charge">> => k[1] = "invoice"
          /\ todo = <<"record", "pay">> => k[1] = "manual" /\ says = "succeeded"
    BY <2>1, <1>0 DEF Says, ProcType
  <2>3. proc'[p] = [todo |-> todo, key |-> k, says |-> says]
        /\ proc' \in [Procs -> ProcType] /\ \A q \in Procs \ {p} : proc'[q] = proc[q]
    <3>1. todo \in Todos /\ todo # <<>>
      BY DEF Todos, Collecting
    <3> QED BY <1>0, <2>2, <3>1, Goes
  <2>4. /\ attempt'[k] = new /\ new \in Row /\ new # Null /\ new.status = "pending" /\ ~new.ref
        /\ \A j \in Keys : j # k => attempt'[j] = attempt[j]
        /\ attempt' \in [Keys -> Row \cup {Null}]
    <3>1. new \in Row /\ new # Null /\ new.status = "pending" /\ ~new.ref
      <4>1. new \in Row /\ new.status = "pending" /\ ~new.ref
        BY DEF Row
      <4>2. Null \notin Row
        BY BillingAssumption DEF Row
      <4> QED BY <4>1, <4>2
    <3>2. attempt \in [Keys -> Row \cup {Null}]
      BY <1>0 DEF TypeOK, Row
    <3> HIDE DEF new
    <3> QED BY <2>1, <1>0, <3>1, <3>2
  <2> HIDE DEF new
  <2>5. TypeOK'
    BY <1>0, <2>3, <2>4 DEF TypeOK, ProcType, Row
  <2>6. k[1] = "invoice" => asked[k[2]] = 0
    BY <1>1, <1>k DEF IInv, TablesAgree, Agrees
  <2>7. Warranted(p)'
    BY <1>0, <2>2, <2>3, <2>4, <2>6 DEF Warranted, Todos, Collecting
  <2>8. Frame(p)
    BY <1>0, <1>1, <2>3, <2>4 DEF Frame, Lost
  <2>9. proc'[p].todo = <<"charge">> =>
          \A q \in Procs \ {p} : ~(proc[q].todo = <<"charge">> /\ proc[q].key = proc'[p].key)
    BY <1>1, <2>3 DEF IInv, Warranted
  <2>10. TablesAgree'
    <3>1. \A j \in Keys : attempt'[j] # Null => invoice' # "none"
      BY <1>0
    <3>2. ASSUME NEW n \in Numbers
          PROVE  Agrees(n)'
      <4>1. <<"invoice", n>> \in Keys
        BY DEF Keys
      <4> QED BY <1>0, <2>4, <4>1 DEF IInv, TablesAgree, Agrees, Lost
    <3> QED BY <3>1, <3>2 DEF TablesAgree, Agrees
  <2>11. BeingPaid'
    <3>1. \A q \in Procs : proc[q].todo = <<"pay">> => proc'[q] = proc[q]
      BY <1>0, <2>3
    <3>2. \A j \in Keys : attempt'[j] # Null /\ attempt'[j].status = "succeeded" =>
                           attempt[j] # Null /\ attempt[j].status = "succeeded"
      BY <2>4
    <3> QED BY <1>0, <3>1, <3>2, StillBeingPaid DEF IInv
  <2>12. PaidHasEvidence'
    BY <1>0, <1>1, <2>4 DEF IInv, PaidHasEvidence, Attempts
  <2>13. ClosedIsBilled'
    BY <1>0 DEF IInv, ClosedIsBilled
  <2> QED BY <2>13, <2>5, <2>7, <2>8, <2>9, <2>10, <2>11, <2>12, Assembled
<1>2. CASE attempt[k] # Null
  <2>1. /\ attempt' = attempt
        /\ \/ Go(p, <<>>, k, proc[p].says)
           \/ k[1] = "manual" /\ Go(p, <<"pay">>, k, proc[p].says)
    BY <1>2, <1>k DEF CreateAttempt, Wins, Then
  <2>2. CASE Go(p, <<>>, k, proc[p].says)
    <3>1. proc'[p] = Idle /\ proc' \in [Procs -> ProcType] /\ \A q \in Procs \ {p} : proc'[q] = proc[q]
      BY <1>0, <2>2, Goes DEF Todos, ProcType
    <3>2. TypeOK' /\ Warranted(p)'
      BY <1>0, <2>1, <3>1 DEF TypeOK, ProcType, Warranted, Todos, Collecting, Idle
    <3> QED BY <1>0, <2>1, <3>1, <3>2, StepAside DEF Idle
  <2>3. CASE k[1] = "manual" /\ Go(p, <<"pay">>, k, proc[p].says)
    <3>1. proc'[p] = [todo |-> <<"pay">>, key |-> k, says |-> proc[p].says]
          /\ proc' \in [Procs -> ProcType] /\ \A q \in Procs \ {p} : proc'[q] = proc[q]
      BY <1>0, <2>3, Goes DEF Todos, Collecting, ProcType
    <3>2. TypeOK'
      BY <1>0, <2>1, <3>1 DEF TypeOK, ProcType
    <3>3. Warranted(p)'
      BY <1>0, <1>2, <2>1, <2>3, <3>1 DEF Warranted, Todos, Collecting
    <3> QED BY <1>0, <2>1, <3>1, <3>2, <3>3, StepAside
  <2> QED BY <2>1, <2>2, <2>3
<1> QED BY <1>1, <1>2

(* The provider is asked for the money: once, as nobody asked under the    *)
(* key before and nobody else is about to.                                 *)
LEMMA ChargeStep ==
  ASSUME IInv, NEW p \in Procs, ChargeInvoice(p)
  PROVE  IInv'
<1> USE DEF rows, provider, history
<1> DEFINE k == proc[p].key
<1>n. PICK n \in Numbers : k \in Keys /\ k[1] = "invoice" /\ n = k[2] /\ k = <<"invoice", n>>
  <2>1. k \in Keys /\ k[1] = "invoice"
    BY Heads DEF IInv, Warranted, ChargeInvoice, Collecting
  <2> QED BY <2>1, KeyParts
<1>0. /\ Warranted(p) /\ TypeOK /\ proc[p].todo = <<"charge">> /\ proc[p] \in ProcType
      /\ asked[n] = 0 /\ attempt[k] # Null /\ invoice # "none"
      /\ UNCHANGED <<billable, closed, invoice, attempt, events, unheard>>
      /\ asked' = [asked EXCEPT ![n] = @ + 1]
  BY <1>n, Heads DEF IInv, Warranted, ChargeInvoice, TypeOK, ProcType, Collecting
<1>1. charge[n] = "none" /\ n \notin misheard /\ attempt[k].status \notin {"succeeded", "failed"}
      /\ ~attempt[k].ref
  BY <1>0, <1>n DEF IInv, TablesAgree, Agrees, Lost
<1>2. /\ asked' \in [Numbers -> Nat] /\ asked'[n] = 1
      /\ \A m \in Numbers : m # n => asked'[m] = asked[m]
  <2>1. asked \in [Numbers -> Nat]
    BY <1>0 DEF TypeOK
  <2> QED BY <2>1, <1>0, <1>n
<1>3. PICK todo \in {<<>>, <<"save">>, <<"record", "pay">>, <<"record">>}, says \in Says :
        /\ Go(p, todo, k, says)
        /\ charge' \in [Numbers -> {"none", "processing", "succeeded", "failed"}]
        /\ \A m \in Numbers : m # n => charge'[m] = charge[m]
        /\ todo = <<"record", "pay">> => says = "succeeded" /\ charge'[n] = "succeeded"
        /\ todo = <<"record">> => says = "failed" /\ (charge'[n] = "none" \/ n \in misheard')
        /\ todo \in {<<"save">>, <<"record", "pay">>} => misheard' = misheard
        /\ misheard \subseteq misheard' /\ misheard' \subseteq misheard \cup {n}
        /\ left \subseteq left' /\ left' \subseteq Keys /\ faults' \in 0 .. MaxFaults
  <2>0. charge \in [Numbers -> {"none", "processing", "succeeded", "failed"}]
        /\ misheard \subseteq Numbers /\ left \subseteq Keys
        /\ faults \in 0 .. MaxFaults /\ proc[p].says \in Says
    BY <1>0 DEF TypeOK, ProcType
  <2>1. ASSUME NEW c \in {"none", "succeeded", "processing"}, charge' = [charge EXCEPT ![n] = c]
        PROVE  /\ charge' \in [Numbers -> {"none", "processing", "succeeded", "failed"}]
               /\ charge'[n] = c
               /\ \A m \in Numbers : m # n => charge'[m] = charge[m]
    BY <2>0, <2>1, <1>n
  <2>2. CASE \E c \in {"succeeded", "processing"} :
               charge' = [charge EXCEPT ![n] = c] /\ Answered(p, k, c) /\ UNCHANGED <<misheard, left, faults>>
    <3>1. PICK c \in {"succeeded", "processing"} :
            charge' = [charge EXCEPT ![n] = c] /\ Answered(p, k, c) /\ UNCHANGED <<misheard, left, faults>>
      BY <2>2
    <3>2. CASE c = "succeeded"
      <4>1. Go(p, <<"record", "pay">>, k, "succeeded") /\ "succeeded" \in Says
        BY <3>1, <3>2 DEF Answered, Says
      <4> HIDE DEF k
      <4> QED BY <3>1, <3>2, <4>1, <2>0, <2>1
    <3>3. CASE c = "processing"
      <4>1. Go(p, <<"save">>, k, "nothing") /\ "nothing" \in Says
        BY <3>1, <3>3 DEF Answered, Says
      <4> HIDE DEF k
      <4> QED BY <3>1, <3>3, <4>1, <2>0, <2>1
    <3> QED BY <3>2, <3>3
  <2>3. CASE Go(p, <<"record">>, k, "failed") /\ UNCHANGED <<charge, misheard, left, faults>>
    <3>1. "failed" \in Says
      BY DEF Says
    <3> HIDE DEF k
    <3> QED BY <2>3, <3>1, <2>0, <1>1
  <2>4. CASE /\ faults < MaxFaults /\ faults' = faults + 1
             /\ \E c \in {"succeeded", "processing"} : charge' = [charge EXCEPT ![n] = c]
             /\ Go(p, <<"record">>, k, "failed")
             /\ misheard' = misheard \cup {n} /\ UNCHANGED left
    <3>1. "failed" \in Says /\ misheard' \subseteq misheard \cup {n}
      BY <2>4 DEF Says
    <3>2. faults' \in 0 .. MaxFaults
      BY <2>0, <2>4, BillingAssumption
    <3> HIDE DEF k
    <3> QED BY <2>4, <3>1, <3>2, <2>0, <2>1
  <2>5. CASE /\ faults < MaxFaults /\ faults' = faults + 1
             /\ \E c \in {"none", "succeeded", "processing"} : charge' = [charge EXCEPT ![n] = c]
             /\ Then(p, <<>>)
             /\ left' = left \cup {k} /\ UNCHANGED misheard
    <3>1. Go(p, <<>>, k, proc[p].says) /\ left' \subseteq Keys
      BY <2>0, <2>5, <1>n DEF Then
    <3>2. faults' \in 0 .. MaxFaults
      BY <2>0, <2>5, BillingAssumption
    <3> HIDE DEF k
    <3> QED BY <2>5, <3>1, <3>2, <2>0, <2>1
  <2> QED BY <1>n, <2>2, <2>3, <2>4, <2>5 DEF ChargeInvoice
<1>4. /\ proc'[p] = IF todo = <<>> THEN Idle ELSE [todo |-> todo, key |-> k, says |-> says]
      /\ proc' \in [Procs -> ProcType] /\ \A q \in Procs \ {p} : proc'[q] = proc[q]
  <2>1. todo \in Todos
    BY DEF Todos, Collecting
  <2> QED BY <1>0, <1>n, <1>3, <2>1, Goes
<1>5. TypeOK'
  <2>1. misheard' \subseteq Numbers
    BY <1>0, <1>3 DEF TypeOK
  <2> QED BY <2>1, <1>0, <1>2, <1>3, <1>4 DEF TypeOK, ProcType
<1>6. charge'[n] = "none" \/ n \in misheard' => Lost(n)'
  BY <1>2 DEF Lost
<1>7. Warranted(p)'
  <2>1. CASE todo = <<>>
    BY <2>1, <1>4 DEF Warranted, Todos, Collecting, Idle
  <2>2. CASE todo # <<>>
    BY <2>2, <1>n, <1>0, <1>1, <1>2, <1>3, <1>4, <1>6 DEF Warranted, Todos, Collecting
  <2> QED BY <2>1, <2>2
<1>8. Frame(p)
  <2>1. \A m \in Numbers : Lost(m) => Lost(m)'
    BY <1>0, <1>2, <1>3 DEF Lost
  <2> QED BY <1>0, <1>n, <1>1, <1>2, <1>3, <1>4, <2>1 DEF Frame
<1>9. proc'[p].todo # <<"charge">> /\ \A q \in Procs : proc[q].todo = <<"pay">> => proc'[q] = proc[q]
  BY <1>0, <1>3, <1>4 DEF Idle
<1>10. TablesAgree'
  <2>1. ASSUME NEW m \in Numbers
        PROVE  Agrees(m)'
    <3>1. CASE m = n
      BY <3>1, <1>0, <1>n, <1>1, <1>2 DEF Agrees
    <3>2. CASE m # n
      BY <3>2, <1>0, <1>2, <1>3 DEF IInv, TablesAgree, Agrees, Lost
    <3> QED BY <3>1, <3>2
  <2> QED BY <2>1, <1>0 DEF TablesAgree, Agrees, IInv
<1>11. BeingPaid' /\ PaidHasEvidence' /\ ClosedIsBilled'
  <2>1. BeingPaid'
    BY <1>0, <1>3, <1>9, StillBeingPaid DEF IInv
  <2> QED BY <2>1, <1>0 DEF IInv, PaidHasEvidence, ClosedIsBilled, Attempts
<1> QED BY <1>4, <1>5, <1>7, <1>8, <1>9, <1>10, <1>11, Assembled

(* An outcome is recorded: the provider's, so it agrees with what another  *)
(* process recorded before.                                                *)
LEMMA RecordStep ==
  ASSUME IInv, NEW p \in Procs, RecordOutcome(p)
  PROVE  IInv'
<1> USE DEF rows, provider, history
<1>k. PICK k \in Keys : k = proc[p].key
  BY Heads DEF IInv, Warranted, RecordOutcome, Collecting
<1>t. k[1] \in {"invoice", "manual"} /\ k[2] \in Numbers /\ k = <<k[1], k[2]>>
  BY KeyParts
<1>s. PICK says \in {"succeeded", "failed"} : says = proc[p].says
  BY Heads DEF IInv, Warranted, RecordOutcome
<1>0. /\ Warranted(p) /\ TypeOK /\ proc[p] \in ProcType
      /\ attempt[k] # Null /\ invoice # "none" /\ attempt \in [Keys -> Row \cup {Null}]
      /\ UNCHANGED <<billable, closed, invoice, charge, events, asked, unheard, misheard, left, faults>>
      /\ proc[p].todo # <<"charge">> /\ proc[p].todo # <<"pay">>
  <2>1. Warranted(p) /\ TypeOK /\ proc[p].todo \in {<<"record", "pay">>, <<"record">>}
    BY Heads DEF IInv, Warranted, RecordOutcome
  <2>2. proc[p] \in ProcType /\ attempt \in [Keys -> Row \cup {Null}]
    BY <2>1 DEF TypeOK, ProcType, Row
  <2>3. attempt[k] # Null /\ invoice # "none"
    BY <1>k, <2>1 DEF Warranted, Collecting
  <2>4. proc[p].todo # <<"charge">> /\ proc[p].todo # <<"pay">>
    BY <2>1
  <2> QED BY <2>1, <2>2, <2>3, <2>4 DEF RecordOutcome
<1>1. PICK todo \in {<<"pay">>, <<>>} :
        /\ Go(p, todo, k, says)
        /\ todo = <<"pay">> => says = "succeeded" /\ (k[1] = "invoice" => charge[k[2]] = "succeeded" /\ k[2] \notin misheard)
        /\ todo = <<>> => says = "failed" /\ k[1] = "invoice" /\ Lost(k[2])
  BY <1>k, <1>s, Heads DEF IInv, Warranted, RecordOutcome, Then
<1>2. /\ attempt'[k] \in Row /\ attempt'[k] # Null /\ attempt'[k].status = says
      /\ attempt'[k].ref => says = "succeeded" \/ attempt[k].ref
      /\ \A j \in Keys : j # k => attempt'[j] = attempt[j]
      /\ attempt' \in [Keys -> Row \cup {Null}]
  <2> DEFINE new == [status |-> says,
                     ref |-> k[1] = "invoice" /\ (says = "succeeded" \/ attempt[k].ref)]
  <2>1. attempt' = [attempt EXCEPT ![k] = new]
    BY <1>k, <1>s DEF RecordOutcome
  <2>2. new \in Row /\ new.status = says /\ (new.ref => says = "succeeded" \/ attempt[k].ref)
    <3>1. attempt[k].ref \in BOOLEAN
      BY <1>0 DEF Row
    <3> DEFINE ref == k[1] = "invoice" /\ (says = "succeeded" \/ attempt[k].ref)
    <3>2. ref \in BOOLEAN
      BY <3>1
    <3> HIDE DEF ref
    <3>3. /\ [status |-> says, ref |-> ref] \in Row /\ [status |-> says, ref |-> ref].status = says
          /\ [status |-> says, ref |-> ref].ref = ref
      BY <3>2 DEF Row
    <3> QED BY <3>3 DEF ref
  <2>3. Null \notin Row
    BY BillingAssumption DEF Row
  <2> HIDE DEF new
  <2> QED BY <1>0, <2>1, <2>2, <2>3
<1>3. /\ proc'[p] = IF todo = <<>> THEN Idle ELSE [todo |-> todo, key |-> k, says |-> says]
      /\ proc' \in [Procs -> ProcType] /\ \A q \in Procs \ {p} : proc'[q] = proc[q]
  <2>1. todo \in Todos /\ says \in Says
    BY DEF Todos, Collecting, Says
  <2> QED BY <1>0, <1>1, <2>1, Goes
<1>4. TypeOK'
  BY <1>0, <1>2, <1>3 DEF TypeOK, ProcType, Row
<1>5. Warranted(p)'
  <2>1. CASE todo = <<>>
    BY <2>1, <1>3 DEF Warranted, Todos, Collecting, Idle
  <2>2. CASE todo = <<"pay">>
    BY <2>2, <1>0, <1>1, <1>2, <1>3 DEF Warranted, Todos, Collecting
  <2> QED BY <2>1, <2>2
<1>a. k[1] = "invoice" => Agrees(k[2]) /\ k = <<"invoice", k[2]>>
  BY <1>t DEF IInv, TablesAgree
<1>6. \A j \in Keys : attempt[j] # Null /\ j[1] = "invoice" /\ attempt[j].status = "succeeded"
        => attempt'[j].status = "succeeded"
  <2>1. k[1] = "invoice" /\ attempt[k].status = "succeeded" => attempt'[k].status = "succeeded"
    BY <1>0, <1>a, <1>1, <1>2 DEF Agrees, Lost
  <2> QED BY <2>1, <1>2
<1>7. Frame(p)
  BY <1>0, <1>2, <1>3, <1>6 DEF Frame, Lost
<1>8. proc'[p].todo # <<"charge">> /\ \A q \in Procs : proc[q].todo = <<"pay">> => proc'[q] = proc[q]
  BY <1>0, <1>1, <1>3 DEF Idle
<1>9. TablesAgree'
  <2>1. ASSUME NEW m \in Numbers
        PROVE  Agrees(m)'
    <3>1. <<"invoice", m>> \in Keys
      BY DEF Keys
    <3>2. CASE k = <<"invoice", m>>
      <4>1. k[1] = "invoice" /\ k[2] = m /\ Agrees(m)
        BY <3>2, <1>a
      <4> QED BY <3>2, <4>1, <1>0, <1>1, <1>2 DEF Agrees, Lost
    <3>3. CASE k # <<"invoice", m>>
      BY <3>1, <3>3, <1>0, <1>2 DEF IInv, TablesAgree, Agrees, Lost
    <3> QED BY <3>2, <3>3
  <2> QED BY <2>1, <1>0 DEF TablesAgree, Agrees
<1>10. BeingPaid'
  <2>1. CASE todo = <<"pay">>
    <3>1. proc'[p].todo = <<"pay">> /\ proc'[p].key = k
      BY <2>1, <1>3
    <3>2. \A j \in Keys : j # k => attempt'[j] = attempt[j]
      BY <1>2
    <3> SUFFICES ASSUME NEW j \in Keys, j \notin left, attempt'[j] # Null, attempt'[j].status = "succeeded"
                 PROVE  invoice' = "paid" \/ \E q \in Procs : proc'[q].todo = <<"pay">> /\ proc'[q].key = j
      BY <1>0 DEF BeingPaid, Attempts
    <3>3. CASE j = k
      BY <3>1, <3>3
    <3>4. CASE j # k
      <4>1. attempt[j] # Null /\ attempt[j].status = "succeeded"
        BY <3>2, <3>4
      <4>2. invoice = "paid" \/ \E q \in Procs : proc[q].todo = <<"pay">> /\ proc[q].key = j
        BY <4>1 DEF IInv, BeingPaid, Attempts
      <4> QED BY <4>2, <1>0, <1>8
    <3> QED BY <3>3, <3>4
  <2>2. CASE todo = <<>>
    <3>1. \A j \in Keys : attempt'[j] # Null /\ attempt'[j].status = "succeeded" =>
                           attempt[j] # Null /\ attempt[j].status = "succeeded"
      BY <2>2, <1>1, <1>2
    <3> QED BY <3>1, <1>0, <1>8, StillBeingPaid DEF IInv
  <2> QED BY <2>1, <2>2
<1>11. PaidHasEvidence'
  BY <1>0, <1>t, <1>2, <1>6 DEF IInv, PaidHasEvidence, Attempts
<1>12. ClosedIsBilled'
  BY <1>0 DEF IInv, ClosedIsBilled
<1> QED BY <1>4, <1>5, <1>7, <1>8, <1>9, <1>10, <1>11, <1>12, Assembled

(* The invoice is marked paid, on a key that warrants it. *)
LEMMA PayStep ==
  ASSUME IInv, NEW p \in Procs, MarkPaid(p)
  PROVE  IInv'
<1> USE DEF rows, provider, history
<1>k. PICK k \in Keys : k = proc[p].key
  BY Heads DEF IInv, Warranted, MarkPaid, Collecting
<1>0. /\ Warranted(p) /\ TypeOK /\ proc[p] \in ProcType /\ proc[p].todo = <<"pay">>
      /\ attempt[k] # Null /\ (k[1] = "manual" \/ attempt[k].status = "succeeded")
      /\ Go(p, <<>>, k, proc[p].says)
      /\ UNCHANGED <<billable, closed, attempt, charge, events, asked, unheard, misheard, left, faults>>
  BY <1>k, Heads DEF IInv, Warranted, MarkPaid, TypeOK, ProcType, Then
<1>1. invoice' = "paid"
  BY <1>0 DEF MarkPaid, TypeOK, Warranted, Collecting
<1>2. /\ proc'[p] = Idle
      /\ proc' \in [Procs -> ProcType] /\ \A q \in Procs \ {p} : proc'[q] = proc[q]
  BY <1>0, Goes DEF Todos, ProcType
<1>3. TypeOK'
  BY <1>0, <1>1, <1>2 DEF TypeOK, ProcType
<1>4. Warranted(p)'
  BY <1>2 DEF Warranted, Todos, Collecting, Idle
<1>5. Frame(p)
  BY <1>0, <1>1, <1>2 DEF Frame, Lost
<1>6. TablesAgree' /\ BeingPaid' /\ PaidHasEvidence' /\ ClosedIsBilled'
  BY <1>0, <1>1 DEF IInv, TablesAgree, Agrees, BeingPaid, PaidHasEvidence, ClosedIsBilled, Lost, Attempts
<1> QED BY <1>2, <1>3, <1>4, <1>5, <1>6, Assembled DEF Idle

(* The provider's reference is saved on the attempt. *)
LEMMA SaveStep ==
  ASSUME IInv, NEW p \in Procs, SaveProviderRef(p)
  PROVE  IInv'
<1> USE DEF rows, provider, history
<1>k. PICK k \in Keys : k = proc[p].key
  BY Heads DEF IInv, Warranted, SaveProviderRef, Collecting
<1>0. /\ Warranted(p) /\ TypeOK /\ proc[p] \in ProcType /\ proc[p].todo = <<"save">>
      /\ attempt[k] # Null /\ invoice # "none" /\ attempt \in [Keys -> Row \cup {Null}]
      /\ k[1] = "invoice" /\ asked[k[2]] # 0 /\ k[2] \notin misheard
      /\ Go(p, <<>>, k, proc[p].says)
      /\ UNCHANGED <<billable, closed, invoice, charge, events, asked, unheard, misheard, left, faults>>
  BY <1>k, Heads DEF IInv, Warranted, SaveProviderRef, TypeOK, ProcType, Then, Collecting, Row
<1>1. /\ attempt'[k] \in Row /\ attempt'[k].status = attempt[k].status
      /\ \A j \in Keys : j # k => attempt'[j] = attempt[j]
      /\ attempt' \in [Keys -> Row \cup {Null}]
  <2>1. attempt' = [attempt EXCEPT ![k] = [attempt[k] EXCEPT !.ref = TRUE]]
    BY <1>k DEF SaveProviderRef, SavedRef
  <2>2. attempt[k] \in Row
    BY <1>0
  <2>3. [attempt[k] EXCEPT !.ref = TRUE] \in Row
        /\ [attempt[k] EXCEPT !.ref = TRUE].status = attempt[k].status
    BY <2>2 DEF Row
  <2> QED BY <1>0, <2>1, <2>3
<1>2. \A j \in Keys : /\ (attempt'[j] # Null) <=> (attempt[j] # Null)
                     /\ attempt'[j].status = attempt[j].status
  <2>1. Null \notin Row
    BY BillingAssumption DEF Row
  <2> QED BY <1>0, <1>1, <2>1
<1>3. /\ proc'[p] = Idle
      /\ proc' \in [Procs -> ProcType] /\ \A q \in Procs \ {p} : proc'[q] = proc[q]
  BY <1>0, Goes DEF Todos, ProcType
<1>4. TypeOK'
  BY <1>0, <1>1, <1>3 DEF TypeOK, ProcType, Row
<1>5. Warranted(p)'
  BY <1>3 DEF Warranted, Todos, Collecting, Idle
<1>6. Frame(p)
  BY <1>0, <1>2, <1>3 DEF Frame, Lost
<1>7. TablesAgree'
  <2>1. ASSUME NEW n \in Numbers PROVE Agrees(n)'
    <3>1. <<"invoice", n>> \in Keys /\ Agrees(n)
      BY DEF Keys, IInv, TablesAgree
    <3>2. CASE k = <<"invoice", n>>
      BY <3>1, <3>2, <1>0, <1>2 DEF Agrees, Lost
    <3>3. CASE k # <<"invoice", n>>
      BY <3>1, <3>3, <1>0, <1>1, <1>2 DEF Agrees, Lost
    <3> QED BY <3>2, <3>3
  <2> QED BY <2>1, <1>0, <1>2 DEF IInv, TablesAgree
<1>8. BeingPaid'
  <2>1. \A q \in Procs : proc[q].todo = <<"pay">> => proc'[q] = proc[q]
    BY <1>0, <1>3
  <2> QED BY <1>0, <1>2, <2>1, StillBeingPaid DEF IInv
<1>9. PaidHasEvidence' /\ ClosedIsBilled'
  BY <1>0, <1>2 DEF IInv, PaidHasEvidence, ClosedIsBilled, Attempts
<1> QED BY <1>3, <1>4, <1>5, <1>6, <1>7, <1>8, <1>9, Assembled DEF Idle

(* A webhook arrives, and looks its attempt up; a process dies. *)
LEMMA WebhookStep ==
  ASSUME IInv, NEW p \in Procs,
         (\E n \in Numbers : Deliver(p, n)) \/ FindPending(p) \/ Die(p)
  PROVE  IInv'
<1> USE DEF rows, provider, history
<1>0. Warranted(p) /\ TypeOK /\ proc[p].todo \in Todos /\ proc[p] \in ProcType
  BY DEF IInv, Warranted, TypeOK, ProcType
<1>1. ASSUME NEW n \in Numbers, Deliver(p, n) PROVE IInv'
  <2>1. /\ Go(p, <<"find">>, <<"invoice", n>>, charge[n]) /\ <<"invoice", n>> \in Keys
        /\ charge[n] \in {"succeeded", "failed"} /\ proc[p].todo = <<>>
    BY <1>1 DEF Deliver, Keys, Idle
  <2>2. invoice # "none"
    BY <2>1 DEF IInv, TablesAgree, Agrees
  <2>3. proc'[p] = [todo |-> <<"find">>, key |-> <<"invoice", n>>, says |-> charge[n]]
        /\ proc' \in [Procs -> ProcType] /\ \A q \in Procs \ {p} : proc'[q] = proc[q]
    BY <1>0, <2>1, Goes DEF Todos, Collecting, Says
  <2>4. events' \in [Numbers -> 0 .. MaxDeliveries]
    BY <1>0, <1>1, BillingAssumption DEF Deliver, TypeOK
  <2>5. TypeOK'
    BY <1>0, <1>1, <2>3, <2>4 DEF Deliver, TypeOK, ProcType
  <2>6. Warranted(p)'
    BY <1>1, <2>1, <2>2, <2>3 DEF Warranted, Todos, Collecting, Deliver
  <2> QED BY <1>1, <2>1, <2>3, <2>5, <2>6, StepAside DEF Deliver
<1>2. CASE FindPending(p)
  <2>1. PICK k \in Keys : k = proc[p].key
    BY <1>0, <1>2, Heads DEF Warranted, FindPending, Collecting
  <2>2. /\ proc[p].todo = <<"find">> /\ k[1] = "invoice" /\ invoice # "none"
        /\ proc[p].says \in {"succeeded", "failed"} /\ proc[p].says = charge[k[2]]
    BY <1>0, <1>2, <2>1, Heads DEF Warranted, FindPending, Collecting
  <2>3. k[2] \in Numbers /\ k = <<"invoice", k[2]>>
    BY <2>2, KeyParts
  <2>4. asked[k[2]] # 0 /\ attempt[k] # Null /\ (attempt[k].ref => k[2] \notin misheard)
    BY <2>2, <2>3 DEF IInv, TablesAgree, Agrees
  <2>5. PICK todo \in {<<>>, <<"record", "pay">>, <<"record">>} :
          /\ Go(p, todo, k, proc[p].says)
          /\ todo # <<>> => attempt[k].ref
          /\ todo = <<"record", "pay">> => proc[p].says = "succeeded"
          /\ todo = <<"record">> => proc[p].says = "failed"
    BY <1>2, <2>1, <2>2 DEF FindPending, Then, Apply
  <2>6. /\ proc'[p] = IF todo = <<>> THEN Idle ELSE [todo |-> todo, key |-> k, says |-> proc[p].says]
        /\ proc' \in [Procs -> ProcType] /\ \A q \in Procs \ {p} : proc'[q] = proc[q]
    <3>1. todo \in Todos
      BY DEF Todos, Collecting
    <3> QED BY <1>0, <2>5, <3>1, Goes DEF ProcType
  <2>7. unheard' \subseteq Numbers
    <3>1. unheard' \in {unheard, unheard \cup {k[2]}}
      BY <1>2, <2>1 DEF FindPending
    <3> QED BY <1>0, <2>3, <3>1 DEF TypeOK
  <2>8. TypeOK'
    BY <1>0, <1>2, <2>6, <2>7 DEF FindPending, TypeOK, ProcType
  <2>9. Warranted(p)'
    <3>1. CASE todo = <<>>
      BY <3>1, <2>6 DEF Warranted, Todos, Collecting, Idle
    <3>2. CASE todo # <<>>
      BY <3>2, <1>2, <2>2, <2>4, <2>5, <2>6 DEF Warranted, Todos, Collecting, FindPending, Lost
    <3> QED BY <3>1, <3>2
  <2>10. proc'[p].todo # <<"charge">>
    BY <2>6 DEF Idle
  <2> QED BY <1>2, <2>2, <2>6, <2>8, <2>9, <2>10, StepAside DEF FindPending
<1>3. CASE Die(p)
  <2>1. Go(p, <<>>, proc[p].key, proc[p].says)
    BY <1>3 DEF Die, Then
  <2>2. proc'[p] = Idle
        /\ proc' \in [Procs -> ProcType] /\ \A q \in Procs \ {p} : proc'[q] = proc[q]
    BY <1>0, <2>1, Goes DEF Todos, ProcType
  <2>3. faults' \in 0 .. MaxFaults
    BY <1>0, <1>3, BillingAssumption DEF Die, TypeOK
  <2>a. /\ left' \subseteq Keys /\ left \subseteq left'
        /\ proc[p].todo = <<"pay">> => proc[p].key \in left'
    <3>1. Head(proc[p].todo) \in {"charge", "record", "pay", "save", "find"} => proc[p].key \in Keys
      <4>1. proc[p].todo # <<>>
        BY <1>0, <1>3 DEF Die, Warranted
      <4> QED BY <1>0, <4>1, Heads DEF At, Warranted, Collecting
    <3>2. proc[p].todo = <<"pay">> => Head(proc[p].todo) = "pay"
      OBVIOUS
    <3> QED BY <1>0, <1>3, <3>1, <3>2 DEF Die, TypeOK
  <2>4. TypeOK'
    BY <1>0, <1>3, <2>2, <2>3, <2>a DEF Die, TypeOK, ProcType
  <2>5. Warranted(p)'
    BY <2>2 DEF Warranted, Todos, Collecting, Idle
  <2> QED BY <1>3, <2>2, <2>a, <2>4, <2>5, StepAside DEF Die, Idle
<1> QED BY <1>1, <1>2, <1>3

(* The provider settles; the subscription is replaced. *)
LEMMA OutsideStep ==
  ASSUME IInv, SubscriptionChanges \/ \E n \in Numbers : ChargeSettles(n)
  PROVE  IInv'
<1> USE DEF rows, provider, history
<1>1. CASE SubscriptionChanges
  <2>1. TypeOK' /\ \A p \in Procs : Warranted(p)'
    BY <1>1 DEF SubscriptionChanges, IInv, TypeOK, Warranted, Lost
  <2>2. OneCharges' /\ TablesAgree' /\ BeingPaid' /\ PaidHasEvidence' /\ ClosedIsBilled'
    BY <1>1 DEF SubscriptionChanges, IInv, OneCharges, TablesAgree, Agrees, BeingPaid, PaidHasEvidence,
                ClosedIsBilled, Lost, Attempts
  <2> QED BY <2>1, <2>2 DEF IInv
<1>2. ASSUME NEW n \in Numbers, ChargeSettles(n) PROVE IInv'
  <2>1. /\ charge[n] = "processing" /\ charge'[n] \in {"succeeded", "failed"}
        /\ \A m \in Numbers : m # n => charge'[m] = charge[m]
        /\ charge' \in [Numbers -> {"none", "processing", "succeeded", "failed"}]
        /\ UNCHANGED <<rows, events, proc, history>>
    BY <1>2 DEF ChargeSettles, IInv, TypeOK
  <2>2. TypeOK'
    BY <2>1 DEF IInv, TypeOK
  <2>3. \A m \in Numbers : Lost(m) => Lost(m)'
    BY <2>1 DEF Lost
  <2>4. \A m \in Numbers : charge[m] \in {"succeeded", "failed"} => charge'[m] = charge[m]
    BY <2>1
  <2>5. ASSUME NEW p \in Procs PROVE Warranted(p)'
    <3>1. Warranted(p) /\ (proc[p].todo \in Collecting => proc[p].key[2] \in Numbers)
      BY KeyParts DEF IInv, Warranted
    <3>2. proc[p].todo = <<"record", "pay">> => (proc[p].key[1] = "invoice" => charge'[proc[p].key[2]] = "succeeded")
      BY <2>4, <3>1 DEF Warranted, Collecting
    <3>3. proc[p].todo = <<"record">> => Lost(proc[p].key[2])'
      BY <2>1, <2>3, <3>1 DEF Warranted, Collecting
    <3>4. proc[p].todo = <<"find">> => proc[p].says = charge'[proc[p].key[2]]
      BY <2>4, <3>1 DEF Warranted, Collecting
    <3> QED BY <2>1, <3>1, <3>2, <3>3, <3>4 DEF Warranted
  <2>6. OneCharges' /\ BeingPaid' /\ PaidHasEvidence' /\ ClosedIsBilled'
    BY <2>1 DEF IInv, OneCharges, BeingPaid, PaidHasEvidence, ClosedIsBilled, Attempts
  <2>7. TablesAgree'
    BY <2>1, <2>3, <2>4 DEF IInv, TablesAgree, Agrees
  <2> QED BY <2>2, <2>5, <2>6, <2>7 DEF IInv
<1> QED BY <1>1, <1>2

LEMMA InitInv ==
  ASSUME Init
  PROVE  IInv
<1>1. /\ attempt = [k \in Keys |-> Null] /\ charge = [n \in Numbers |-> "none"]
      /\ asked = [n \in Numbers |-> 0] /\ proc = [p \in Procs |-> Idle]
      /\ closed = FALSE /\ invoice = "none" /\ misheard = {}
  BY DEF Init
<1>2. TypeOK
  <2>1. Idle \in ProcType
    BY TodosTyped DEF Idle, ProcType, Todos, Says
  <2>2. proc \in [Procs -> ProcType]
    BY <1>1, <2>1
  <2>3. events \in [Numbers -> 0 .. MaxDeliveries] /\ faults \in 0 .. MaxFaults
    BY BillingAssumption DEF Init
  <2>4. attempt \in [Keys -> [status: {"pending", "succeeded", "failed"}, ref: BOOLEAN] \cup {Null}]
    BY <1>1
  <2>5. charge \in [Numbers -> {"none", "processing", "succeeded", "failed"}] /\ asked \in [Numbers -> Nat]
    BY <1>1
  <2>6. billable \in BOOLEAN /\ closed \in BOOLEAN /\ invoice \in {"none", "issued", "paid"}
        /\ unheard \subseteq Numbers /\ misheard \subseteq Numbers /\ left \subseteq Keys
    BY DEF Init
  <2> QED BY <2>2, <2>3, <2>4, <2>5, <2>6 DEF TypeOK, ProcType
<1>3. \A p \in Procs : Warranted(p)
  BY <1>1 DEF Warranted, Todos, Collecting, Idle
<1>4. OneCharges
  BY <1>1 DEF OneCharges, Idle
<1>5. \A n \in Numbers : <<"invoice", n>> \in Keys
  BY DEF Keys
<1>6. TablesAgree /\ BeingPaid /\ PaidHasEvidence /\ ClosedIsBilled
  BY <1>1, <1>5 DEF TablesAgree, Agrees, BeingPaid, PaidHasEvidence, ClosedIsBilled, Attempts
<1> QED BY <1>2, <1>3, <1>4, <1>6 DEF IInv

LEMMA NextStep ==
  ASSUME IInv, [Next]_vars
  PROVE  IInv'
<1>1. CASE UNCHANGED vars
  <2> USE <1>1 DEF vars, rows, provider, history
  <2>1. TypeOK' /\ \A p \in Procs : Warranted(p)'
    BY DEF IInv, TypeOK, Warranted, Lost
  <2>2. OneCharges' /\ TablesAgree' /\ BeingPaid' /\ PaidHasEvidence' /\ ClosedIsBilled'
    BY DEF IInv, OneCharges, TablesAgree, Agrees, BeingPaid, PaidHasEvidence, ClosedIsBilled, Lost, Attempts
  <2> QED BY <2>1, <2>2 DEF IInv
<1>2. CASE SubscriptionChanges \/ \E n \in Numbers : ChargeSettles(n)
  BY <1>2, OutsideStep
<1>3. ASSUME NEW p \in Procs,
             \/ BeginClose(p) \/ Begin(p, "invoice") \/ Begin(p, "manual")
             \/ Step(p) \/ Die(p) \/ \E n \in Numbers : Deliver(p, n)
      PROVE  IInv'
  BY <1>3, CloserStep, NumberStep, KeyStep, ChargeStep, RecordStep, PayStep, SaveStep, WebhookStep DEF Step
<1> QED BY <1>1, <1>2, <1>3 DEF Next

LEMMA InvAlways == Spec => []IInv
<1>1. Init => IInv
  BY InitInv
<1>2. IInv /\ [Next]_vars => IInv'
  BY NextStep
<1> QED BY <1>1, <1>2, PTL DEF Spec

-----------------------------------------------------------------------------
(* Type correctness: the rows, the provider's intents and what every       *)
(* process has yet to do are of their types.                               *)
THEOREM TypeCorrect == Spec => []TypeOK
<1>1. IInv => TypeOK
  BY DEF IInv
<1> QED BY <1>1, InvAlways, PTL

(* createPendingAttempt: whoever inserts the attempt, and nobody else,     *)
(* calls the provider under its key, however many collectors race and      *)
(* whichever of them die.                                                  *)
THEOREM KeysExclusive == Spec => []KeysAreExclusive
<1>1. IInv => KeysAreExclusive
  BY DEF IInv, TablesAgree, Agrees, KeysAreExclusive
<1> QED BY <1>1, InvAlways, PTL

(* recordOutcome writes by id alone and any process may be the last to:    *)
(* what an attempt says of the charge is nevertheless true, but for a      *)
(* charge the provider took and answered with an error.                    *)
THEOREM OutcomesTrue == Spec => []OutcomesAreTrue
<1>1. IInv => OutcomesAreTrue
  BY DEF IInv, TablesAgree, Agrees, OutcomesAreTrue, Lost
<1> QED BY <1>1, InvAlways, PTL

(* markPaid looks at the invoice alone, yet every process that reaches it  *)
(* holds an attempt that warrants it.                                      *)
THEOREM PaidOnEvidence == Spec => []PaidHasEvidence
<1>1. IInv => PaidHasEvidence
  BY DEF IInv
<1> QED BY <1>1, InvAlways, PTL

(* A succeeded attempt is written before its invoice is marked: unless the *)
(* process that does both is cut short, the invoice is paid when it ends.  *)
THEOREM SucceededPays == Spec => []SucceededIsPaid
<1>1. IInv => SucceededIsPaid
  BY DEF IInv, BeingPaid, SucceededIsPaid, Idle
<1> QED BY <1>1, InvAlways, PTL

(* closePeriod writes the invoice before it marks the month, so no death   *)
(* between the two loses the invoice of a closed month.                    *)
THEOREM ClosedBilled == Spec => []ClosedIsBilled
<1>1. IInv => ClosedIsBilled
  BY DEF IInv
<1> QED BY <1>1, InvAlways, PTL
=============================================================================
