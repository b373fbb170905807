------------------------- MODULE BridgeOutboxProofs -------------------------
(***************************************************************************)
(* What holds of the outbox for any number of lines, of calls under way,   *)
(* of attempts and of faults.  A row nobody raced for and of which no      *)
(* dispatch lost sight is Quiet: one task holds it or none, and how often  *)
(* it went out follows from where that task is, or from the row's status.  *)
(* Of the rows that were raced for, Noted keeps what is left to say.       *)
(***************************************************************************)
EXTENDS BridgeOutbox, FiniteSetTheorems, WellFoundedInduction, TLAPS

(* A task with nothing to dispatch is free, and only one that waits has a  *)
(* SEND or an ack under way.                                               *)
Shape ==
  \A k \in Tasks : /\ task[k].at = "idle" <=> task[k].lines = {}
                   /\ answer[k] # "none" <=> task[k].at = "waiting"

(* What is recorded, or about to be, was claimed before, or not for want   *)
(* of trying.                                                              *)
Recorded ==
  /\ \A k \in Tasks : task[k].at = "mark" => task[k].id \in claimed \cup unclaimed
  /\ \A m \in Lines : providerId[m] # NoId => providerId[m] \in claimed \cup unclaimed

Quiet(m) ==
  /\ orphans[m] = 0
  /\ \A k, j \in Tasks : m \in task[k].lines /\ m \in task[j].lines => k = j
  /\ \A k \in Tasks : m \in task[k].lines =>
       /\ status[m] = "pending"
       /\ sends[m] = IF WentOut(k) /\ m = Line(k) THEN 1 ELSE 0
  /\ ~Held(m) => sends[m] = IF status[m] = "sent" THEN 1 ELSE 0

QuietRows == \A m \in Lines \ (crossed \cup lost) : Quiet(m)

(* What the row of a line says, however many tasks hold it: nothing        *)
(* happens before it is queued; WhatsApp has what is marked sent, or about *)
(* to be; what is out and not yet marked has a task that will mark it,     *)
(* unless a dispatch lost sight of it.                                     *)
Noted ==
  /\ \A m \in Lines :
       /\ status[m] = "none" => ~Held(m) /\ sends[m] = 0 /\ orphans[m] = 0
       /\ status[m] = "sent" => sends[m] >= 1
  /\ \A k \in Tasks : WentOut(k) => sends[Line(k)] >= 1
  /\ \A m \in Lines \ lost :
       /\ orphans[m] = 0
       /\ status[m] = "pending" /\ sends[m] >= 1 =>
            \E k \in Tasks : WentOut(k) /\ Line(k) = m

IInv == TypeOK /\ Shape /\ Recorded /\ QuietRows /\ Noted

-----------------------------------------------------------------------------
(* The line a task is at is one of its lines. *)
LEMMA LineOfTask ==
  ASSUME TypeOK, NEW k \in Tasks, task[k].lines # {}
  PROVE  Line(k) \in task[k].lines /\ Line(k) \in Lines
<1> DEFINE S == task[k].lines
           R == {p \in Nat \X Nat : p[1] < p[2]}
<1>1. S \subseteq Lines /\ S \subseteq Nat
  BY OutboxAssumption DEF TypeOK
<1>2. IsWellFoundedOn(R, Nat)
  BY NatLessThanWellFounded DEF OpToRel
<1>3. PICK m \in S : \A n \in S : ~(<<n, m>> \in R)
  <2> HIDE DEF R
  <2> QED BY <1>1, <1>2, WFMin
<1>4. \A n \in S : m <= n
  <2> SUFFICES ASSUME NEW n \in S PROVE m <= n
    OBVIOUS
  <2>1. <<n, m>> \notin R
    BY <1>3
  <2> QED BY <1>1, <2>1
<1> QED BY <1>1, <1>4 DEF Line

(* What is at stake is some of the lines, and has the line of every task   *)
(* whose line is out or may be.                                            *)
LEMMA StakeIsLines ==
  ASSUME TypeOK, Shape, NEW K \in SUBSET Tasks
  PROVE  /\ AtStake(K) \subseteq Lines
         /\ \A k \in K : answer[k] = "send" \/ WentOut(k) => Line(k) \in AtStake(K)
<1>1. ASSUME NEW k \in K, answer[k] = "send" \/ WentOut(k) PROVE Line(k) \in Lines
  <2>1. task[k].lines # {}
    BY <1>1 DEF Shape, WentOut
  <2> QED BY <2>1, LineOfTask
<1> QED BY <1>1 DEF AtStake

TaskType == [at : {"idle", "spoken", "hand", "waiting", "claim", "mark"},
             lines : SUBSET Lines, id : Nat \X Nat]

LEMMA FreeTyped == Free \in TaskType /\ NoId \in Nat \X Nat
BY DEF Free, NoId, TaskType

(* dispatch() returns: the task has every line but the one it was at.      *)
LEMMA Returned ==
  ASSUME TypeOK, NEW k \in Tasks, task[k].lines # {}, Return(k)
  PROVE  /\ task' \in [Tasks -> TaskType]
         /\ \A j \in Tasks \ {k} : task'[j] = task[j]
         /\ task'[k].lines = task[k].lines \ {Line(k)}
         /\ task'[k].at = IF task'[k].lines = {} THEN "idle" ELSE "hand"
<1>1. task \in [Tasks -> TaskType]
  BY DEF TypeOK, TaskType
<1>2. Line(k) \in task[k].lines
  BY LineOfTask
<1>3. CASE task[k].lines = {Line(k)}
  BY <1>1, <1>3, FreeTyped DEF Return, Free
<1>4. CASE task[k].lines # {Line(k)}
  <2> DEFINE rest == [Free EXCEPT !.at = "hand", !.lines = task[k].lines \ {Line(k)}]
  <2>1. task' = [task EXCEPT ![k] = rest]
    BY <1>4 DEF Return
  <2>2. rest \in TaskType
    BY <1>1, FreeTyped DEF TaskType
  <2>3. rest.at = "hand" /\ rest.lines = task[k].lines \ {Line(k)}
    BY DEF Free
  <2>4. task[k].lines \ {Line(k)} # {}
    BY <1>2, <1>4
  <2> QED BY <1>1, <2>1, <2>2, <2>3, <2>4
<1> QED BY <1>3, <1>4

(* dispatch() goes on: only how far the task is changes. *)
LEMMA Reached ==
  ASSUME TypeOK, NEW k \in Tasks, NEW at \in {"waiting", "claim", "mark"}, Reach(k, at)
  PROVE  /\ task' \in [Tasks -> TaskType]
         /\ \A j \in Tasks \ {k} : task'[j] = task[j]
         /\ task'[k].lines = task[k].lines /\ task'[k].id = task[k].id
         /\ task'[k].at = at
<1>1. task \in [Tasks -> TaskType]
  BY DEF TypeOK, TaskType
<1>2. [task[k] EXCEPT !.at = at] \in TaskType
  BY <1>1 DEF TaskType
<1>3. task' = [task EXCEPT ![k] = [task[k] EXCEPT !.at = at]]
  BY <1>1 DEF Reach
<1> QED BY <1>1, <1>2, <1>3 DEF TaskType

LEMMA GoesOn ==
  ASSUME NEW k \in Tasks, GoOn(k)
  PROVE  /\ task[k].at = "waiting" => Reach(k, "claim")
         /\ task[k].at = "claim" => Reach(k, "mark")
         /\ task[k].at = "mark" => Return(k)
BY DEF GoOn, ClaimFirst

-----------------------------------------------------------------------------
(* Every column, every call and every message keeps its type. *)
LEMMA TypeStep == TypeOK /\ Shape /\ [Next]_vars => TypeOK'
<1> SUFFICES ASSUME TypeOK, Shape, [Next]_vars PROVE TypeOK'
  OBVIOUS
<1> DEFINE TaskTyped == task' \in [Tasks -> TaskType]
           RowsTyped == /\ status' \in [Lines -> {"none", "pending", "sent", "failed"}]
                        /\ attempts' \in [Lines -> Nat]
                        /\ providerId' \in [Lines -> Nat \X Nat]
           ChannelTyped == /\ answer' \in [Tasks -> {"none", "send", "ok", "nack"}]
                           /\ orphans' \in [Lines -> Nat] /\ sends' \in [Lines -> Nat]
           SetsTyped == /\ claimed' \subseteq Nat \X Nat /\ unclaimed' \subseteq Nat \X Nat
                        /\ crossed' \subseteq Lines /\ lost' \subseteq Lines
                        /\ faults' \in 0 .. MaxFaults
           Typed == TaskTyped /\ RowsTyped /\ ChannelTyped /\ SetsTyped
<1> SUFFICES Typed
  BY DEF TypeOK, TaskType
<1>a. task \in [Tasks -> TaskType]
  BY DEF TypeOK, TaskType
<1>b. \A k \in Tasks : task[k].at # "idle" =>
        /\ task[k].lines # {} /\ Line(k) \in Lines
  BY LineOfTask DEF Shape
<1> USE OutboxAssumption DEF rows, whatsapp, history
<1>1. ASSUME NEW k \in Tasks, NEW m \in Lines, Enqueue(k, m) PROVE Typed
  <2>1. PICK at \in {"hand", "spoken"} :
          task' = [task EXCEPT ![k] = [Free EXCEPT !.at = at, !.lines = {m}]]
    BY <1>1 DEF Enqueue
  <2>2. [Free EXCEPT !.at = at, !.lines = {m}] \in TaskType
    BY FreeTyped DEF TaskType
  <2>3. TaskTyped
    BY <1>a, <2>1, <2>2
  <2> QED BY <1>1, <2>3 DEF Enqueue, Queue, TypeOK
<1>d. ASSUME NEW k \in Tasks, NEW m \in Lines, EnqueueText(k, m) PROVE Typed
  <2>1. task' = [task EXCEPT ![k] = [task[k] EXCEPT !.at = "hand", !.lines = @ \cup {m}]]
    BY <1>d, <1>a DEF EnqueueText
  <2>2. [task[k] EXCEPT !.at = "hand", !.lines = @ \cup {m}] \in TaskType
    BY <1>a DEF TaskType
  <2>3. TaskTyped
    BY <1>a, <2>1, <2>2
  <2> QED BY <1>d, <2>3 DEF EnqueueText, Queue, TypeOK
<1>f. \A K \in SUBSET Tasks : AtStake(K) \subseteq Lines
  BY StakeIsLines
<1>e. ASSUME NEW k \in Tasks, ClipIsGone(k) \/ MarkFails(k) PROVE Typed
  <2>1. TaskTyped
    BY <1>a, <1>e, FreeTyped DEF ClipIsGone, MarkFails
  <2>2. RowsTyped /\ ChannelTyped
    BY <1>e DEF ClipIsGone, MarkFails, TypeOK
  <2>3. CASE ClipIsGone(k)
    BY <2>1, <2>2, <2>3 DEF ClipIsGone, TypeOK
  <2>4. CASE MarkFails(k)
    <3>1. lost' = lost \cup AtStake({k}) /\ UNCHANGED <<claimed, crossed, unclaimed>>
      BY <2>4 DEF MarkFails
    <3>2. faults' \in 0 .. MaxFaults
      BY <2>4 DEF MarkFails, TypeOK
    <3>3. SetsTyped
      BY <1>f, <3>1, <3>2 DEF TypeOK
    <3> QED BY <2>1, <2>2, <3>3
  <2> QED BY <1>e, <2>3, <2>4
<1>2. ASSUME NEW k \in Tasks, OnHello(k) PROVE Typed
  <2>1. [Free EXCEPT !.at = "hand", !.lines = PendingSends] \in TaskType
    BY FreeTyped DEF TaskType, PendingSends
  <2> QED BY <1>2, <1>a, <2>1 DEF OnHello, TypeOK, PendingSends
<1>3. ASSUME NEW k \in Tasks, Hand(k) PROVE Typed
  <2>1. TaskTyped
    BY <1>3, <1>b, Returned, Reached DEF Hand
  <2> QED BY <1>3, <2>1 DEF Hand, Mark, TypeOK
<1>c. ASSUME NEW k \in Tasks, task[k].at # "idle", AttemptFails(k), UNCHANGED providerId
      PROVE  TaskTyped /\ RowsTyped
  <2>1. TaskTyped
    <3>1. Return(k) /\ task[k].lines # {}
      BY <1>c, <1>b DEF AttemptFails
    <3> QED BY <3>1, Returned
  <2>2. attempts' \in [Lines -> Nat]
    <3>1. attempts' = [attempts EXCEPT ![Line(k)] = @ + 1]
      BY <1>c DEF AttemptFails
    <3>2. Line(k) \in Lines
      BY <1>c, <1>b
    <3>3. attempts \in [Lines -> Nat]
      BY DEF TypeOK
    <3>4. \A m \in Lines : attempts'[m] = IF m = Line(k) THEN attempts[m] + 1 ELSE attempts[m]
      BY <3>1, <3>3
    <3>5. attempts' = [m \in Lines |-> attempts'[m]]
      BY <3>1, <3>3
    <3>6. \A m \in Lines : attempts[m] \in Nat
      BY <3>3
    <3> QED BY <3>4, <3>5, <3>6
  <2>3. status' \in [Lines -> {"none", "pending", "sent", "failed"}]
    BY <1>c DEF AttemptFails, Mark, TypeOK
  <2> QED BY <1>c, <2>1, <2>2, <2>3 DEF TypeOK
<1>4. ASSUME NEW k \in Tasks, AckArrives(k) PROVE Typed
  <2>1. TaskTyped /\ RowsTyped
    <3>1. CASE answer[k] = "ok"
      <4>1. GoOn(k) /\ UNCHANGED rows
        BY <1>4, <3>1 DEF AckArrives
      <4>2. Reach(k, "claim")
        BY <1>4, <4>1, GoesOn DEF AckArrives
      <4> QED BY <4>1, <4>2, Reached DEF TypeOK
    <3>2. CASE answer[k] # "ok"
      BY <1>4, <3>2, <1>c DEF AckArrives
    <3> QED BY <3>1, <3>2
  <2> QED BY <1>4, <2>1 DEF AckArrives, TypeOK
<1>5. ASSUME NEW k \in Tasks, AckTimesOut(k) PROVE Typed
  <2>1. TaskTyped /\ RowsTyped
    <3>1. task[k].at # "idle" /\ AttemptFails(k) /\ UNCHANGED providerId
      BY <1>5 DEF AckTimesOut
    <3> QED BY <3>1, <1>c
  <2>2. ChannelTyped
    <3>1. answer' = [answer EXCEPT ![k] = "none"] /\ sends' = sends
      BY <1>5 DEF AckTimesOut
    <3>2. \/ orphans' = [orphans EXCEPT ![Line(k)] = @ + 1]
          \/ orphans' = orphans
      BY <1>5 DEF AckTimesOut
    <3> QED BY <3>1, <3>2 DEF TypeOK
  <2>3. SetsTyped
    <3>1. lost' = lost \cup AtStake({k}) /\ UNCHANGED <<claimed, crossed, unclaimed>>
      BY <1>5 DEF AckTimesOut
    <3>2. faults' \in 0 .. MaxFaults
      BY <1>5 DEF AckTimesOut, TypeOK
    <3> QED BY <1>f, <3>1, <3>2 DEF TypeOK
  <2> QED BY <2>1, <2>2, <2>3
<1>6. ASSUME NEW k \in Tasks, ClaimOwn(k) PROVE Typed
  <2>1. TaskTyped
    <3>1. Reach(k, "mark")
      BY <1>6, GoesOn DEF ClaimOwn
    <3> QED BY <3>1, Reached
  <2>2. RowsTyped /\ ChannelTyped /\ crossed' = crossed /\ lost' = lost
    BY <1>6 DEF ClaimOwn, TypeOK
  <2>3. task[k].id \in Nat \X Nat
    BY <1>a DEF TaskType
  <2>4. SetsTyped
    <3>1. \/ claimed' = claimed \cup {task[k].id} /\ UNCHANGED <<unclaimed, faults>>
          \/ /\ unclaimed' = unclaimed \cup {task[k].id} /\ claimed' = claimed
             /\ faults < MaxFaults /\ faults' = faults + 1
      BY <1>6 DEF ClaimOwn
    <3>2. faults' \in 0 .. MaxFaults
      BY <3>1 DEF TypeOK
    <3>3. claimed' \subseteq Nat \X Nat /\ unclaimed' \subseteq Nat \X Nat
      BY <2>3, <3>1 DEF TypeOK
    <3> QED BY <2>2, <3>2, <3>3 DEF TypeOK
  <2> QED BY <2>1, <2>2, <2>4
<1>7. ASSUME NEW k \in Tasks, MarkSent(k) PROVE Typed
  <2>1. TaskTyped
    BY <1>7, <1>b, GoesOn, Returned DEF MarkSent
  <2>2. task[k].id \in Nat \X Nat
    BY <1>a DEF TaskType
  <2> QED BY <1>7, <2>1, <2>2 DEF MarkSent, Mark, TypeOK
<1>8. ASSUME NEW k \in Tasks, HandleSend(k) PROVE Typed
  <2>1. Line(k) \in Lines
    BY <1>8, <1>b DEF HandleSend, Shape
  <2>2. ChannelTyped /\ SetsTyped
    <3>1. sends' \in [Lines -> Nat]
      <4>1. sends' = [sends EXCEPT ![Line(k)] = @ + 1] \/ sends' = sends
        BY <1>8 DEF HandleSend
      <4>2. sends \in [Lines -> Nat]
        BY DEF TypeOK
      <4> QED BY <4>1, <4>2, <2>1
    <3>3. answer' \in [Tasks -> {"none", "send", "ok", "nack"}]
      <4>1. PICK a \in {"ok", "nack"} : answer' = [answer EXCEPT ![k] = a]
        BY <1>8 DEF HandleSend
      <4> QED BY <4>1 DEF TypeOK
    <3>2. lost' \subseteq Lines
      <4>1. lost' = lost \cup AtStake({k}) \/ lost' = lost
        BY <1>8 DEF HandleSend
      <4>2. lost \subseteq Lines
        BY DEF TypeOK
      <4>3. {k} \in SUBSET Tasks
        OBVIOUS
      <4>4. AtStake({k}) \subseteq Lines
        BY <1>f, <4>3
      <4> QED BY <4>1, <4>2, <4>4
    <3> QED BY <1>8, <3>1, <3>2, <3>3 DEF HandleSend, TypeOK
  <2>3. TaskTyped
    <3>1. Id(Line(k), sends'[Line(k)]) \in Nat \X Nat
      BY <2>1, <2>2 DEF Id
    <3>2. [task[k] EXCEPT !.id = Id(Line(k), sends'[Line(k)])] \in TaskType
      BY <3>1, <1>a DEF TaskType
    <3>3. \/ task' = [task EXCEPT ![k] = [task[k] EXCEPT !.id = Id(Line(k), sends'[Line(k)])]]
          \/ task' = task
      BY <1>8, <1>a DEF HandleSend
    <3> QED BY <3>2, <3>3, <1>a
  <2> QED BY <1>8, <2>2, <2>3 DEF HandleSend, TypeOK
<1>9. ASSUME NEW m \in Lines, HandleOrphan(m) PROVE Typed
  BY <1>9, <1>a DEF HandleOrphan, TypeOK
<1>10. ASSUME NEW m \in Lines, NEW n \in 1 .. sends[m], AnswersEcho(Id(m, n)) PROVE Typed
  <2>1. Id(m, n) \in Nat \X Nat
    BY DEF Id, TypeOK
  <2> QED BY <1>10, <1>a, <2>1 DEF AnswersEcho, TypeOK
<1>11. ASSUME Restart PROVE Typed
  <2>1. \A m \in Lines : Cardinality({k \in Tasks : answer[k] = "send" /\ Line(k) = m}) \in Nat
    BY FS_Subset, FS_CardinalityType
  <2>2. orphans' \in [Lines -> Nat]
    <3> DEFINE left(m) == Cardinality({k \in Tasks : answer[k] = "send" /\ Line(k) = m})
    <3>1. orphans' = [m \in Lines |-> orphans[m] + left(m)]
      BY <1>11 DEF Restart
    <3>2. \A m \in Lines : left(m) \in Nat
      BY <2>1
    <3>3. \A m \in Lines : orphans[m] \in Nat
      BY DEF TypeOK
    <3> HIDE DEF left
    <3>4. \A m \in Lines : orphans[m] + left(m) \in Nat
      BY <3>2, <3>3
    <3> QED BY <3>1, <3>4
  <2>3. TaskTyped /\ answer' \in [Tasks -> {"none", "send", "ok", "nack"}]
    BY <1>11, FreeTyped DEF Restart
  <2>4. RowsTyped /\ sends' \in [Lines -> Nat]
    BY <1>11 DEF Restart, TypeOK
  <2>5. SetsTyped
    <3>1. lost' = lost \cup AtStake(Tasks) /\ UNCHANGED <<claimed, crossed, unclaimed>>
      BY <1>11 DEF Restart
    <3>2. faults' \in 0 .. MaxFaults
      BY <1>11 DEF Restart, TypeOK
    <3> QED BY <1>f, <3>1, <3>2 DEF TypeOK
  <2> QED BY <2>2, <2>3, <2>4, <2>5
<1>12. CASE UNCHANGED vars
  BY <1>12, <1>a DEF vars, TypeOK
<1> QED BY <1>1, <1>2, <1>3, <1>4, <1>5, <1>6, <1>7, <1>8, <1>9, <1>10, <1>11, <1>12,
        <1>d, <1>e DEF Next, Dispatch

-----------------------------------------------------------------------------
(* A dispatch takes one step: it returns, waits for the ack, or is told    *)
(* the id and claims it, in that order.                                    *)
LEMMA DispatchSteps ==
  ASSUME TypeOK, Shape, NEW k \in Tasks, Dispatch(k)
  PROVE  /\ task[k].at # "idle" /\ task[k].lines # {}
         /\ \/ Return(k) /\ answer'[k] = "none"
            \/ Reach(k, "waiting") /\ task[k].at = "hand" /\ answer'[k] = "send"
            \/ /\ Reach(k, "claim") /\ task[k].at = "waiting"
               /\ answer[k] = "ok" /\ answer'[k] = "none"
            \/ Reach(k, "mark") /\ task[k].at = "claim" /\ answer'[k] = "none"
         /\ \A j \in Tasks \ {k} : answer'[j] = answer[j]
<1> USE DEF TypeOK, whatsapp
<1>0. task[k].at # "idle" /\ task[k].lines # {}
  BY DEF Shape, Dispatch, Hand, AckArrives, AckTimesOut, ClaimOwn, MarkSent
<1>1. CASE Hand(k)
  BY <1>0, <1>1 DEF Shape, Hand
<1>2. CASE AckArrives(k)
  BY <1>0, <1>2, GoesOn DEF AckArrives, AttemptFails
<1>3. CASE AckTimesOut(k)
  BY <1>0, <1>3 DEF AckTimesOut, AttemptFails
<1>4. CASE ClaimOwn(k)
  BY <1>0, <1>4, GoesOn DEF Shape, ClaimOwn
<1>5. CASE MarkSent(k)
  BY <1>0, <1>5, GoesOn DEF Shape, MarkSent
<1> QED BY <1>1, <1>2, <1>3, <1>4, <1>5 DEF Dispatch

(* The steps before anything is dispatched: a call begins, or has its      *)
(* second line queued. *)
Begin(k) == (\E m \in Lines : Enqueue(k, m) \/ EnqueueText(k, m)) \/ OnHello(k)

LEMMA Begins ==
  ASSUME TypeOK, NEW k \in Tasks, Begin(k)
  PROVE  /\ task[k].at \in {"idle", "spoken"} /\ UNCHANGED <<answer, claimed, unclaimed, providerId>>
         /\ \A j \in Tasks \ {k} : task'[j] = task[j]
         /\ task'[k].at \in {"hand", "spoken"} /\ task'[k].lines # {}
<1> USE DEF rows, whatsapp, history, Free, TypeOK
<1>1. ASSUME NEW m \in Lines, Enqueue(k, m)
      PROVE  /\ task[k].at = "idle" /\ UNCHANGED <<answer, claimed, unclaimed, providerId>>
             /\ \A j \in Tasks \ {k} : task'[j] = task[j]
             /\ task'[k].at \in {"hand", "spoken"} /\ task'[k].lines = {m}
  <2>1. PICK at \in {"hand", "spoken"} :
          task' = [task EXCEPT ![k] = [Free EXCEPT !.at = at, !.lines = {m}]]
    BY <1>1 DEF Enqueue
  <2> QED BY <1>1, <2>1 DEF Enqueue, Queue
<1>2. ASSUME NEW m \in Lines, EnqueueText(k, m)
      PROVE  /\ task[k].at = "spoken" /\ UNCHANGED <<answer, claimed, unclaimed, providerId>>
             /\ \A j \in Tasks \ {k} : task'[j] = task[j]
             /\ task'[k].at = "hand" /\ task'[k].lines = task[k].lines \cup {m}
  BY <1>2 DEF EnqueueText, Queue
<1>3. CASE OnHello(k)
  BY <1>3 DEF OnHello, PendingSends
<1> QED BY <1>1, <1>2, <1>3 DEF Begin

(* A call ends with what it had left undone. *)
Drop(k) == ClipIsGone(k) \/ MarkFails(k)

LEMMA Drops ==
  ASSUME TypeOK, Shape, NEW k \in Tasks, Drop(k)
  PROVE  /\ answer'[k] = "none" /\ \A j \in Tasks \ {k} : answer'[j] = answer[j]
         /\ UNCHANGED <<rows, claimed, unclaimed, orphans, sends, crossed>>
         /\ \A j \in Tasks \ {k} : task'[j] = task[j]
         /\ task'[k].at = "idle" /\ task'[k].lines = {}
         /\ lost \subseteq lost'
         /\ WentOut(k) => Line(k) \in lost'
<1>1. task' = [task EXCEPT ![k] = Free]
  BY DEF Drop, ClipIsGone, MarkFails
<1>2. task \in [Tasks -> TaskType]
  BY DEF TypeOK, TaskType
<1>3. /\ \A j \in Tasks \ {k} : task'[j] = task[j]
      /\ task'[k].at = "idle" /\ task'[k].lines = {}
  BY <1>1, <1>2 DEF Free
<1>4. CASE ClipIsGone(k)
  BY <1>3, <1>4 DEF ClipIsGone, WentOut, Shape, whatsapp, history
<1>5. CASE MarkFails(k)
  <2>1. WentOut(k) => Line(k) \in AtStake({k})
    BY StakeIsLines
  <2> QED BY <1>3, <1>5, <2>1 DEF MarkFails, TypeOK
<1> QED BY <1>4, <1>5 DEF Drop

(* A task keeps its shape, and what it records was claimed before. *)
LEMMA ShapeStep == TypeOK /\ Shape /\ [Next]_vars => Shape'
<1> SUFFICES ASSUME TypeOK, Shape, [Next]_vars PROVE Shape'
  OBVIOUS
<1> USE DEF rows, whatsapp, history
<1>1. ASSUME NEW k \in Tasks, Begin(k) PROVE Shape'
  BY <1>1, Begins DEF Shape
<1>6. ASSUME NEW k \in Tasks, Drop(k) PROVE Shape'
  BY <1>6, Drops DEF Shape
<1>2. ASSUME NEW k \in Tasks, Dispatch(k) PROVE Shape'
  <2>1. /\ \A j \in Tasks \ {k} : task'[j] = task[j] /\ answer'[j] = answer[j]
        /\ \/ /\ task'[k].at = IF task'[k].lines = {} THEN "idle" ELSE "hand"
              /\ answer'[k] = "none"
           \/ /\ task'[k].lines = task[k].lines /\ task[k].lines # {}
              /\ task'[k].at = "waiting" /\ answer'[k] = "send"
           \/ /\ task'[k].lines = task[k].lines /\ task[k].lines # {}
              /\ task'[k].at \in {"claim", "mark"} /\ answer'[k] = "none"
    BY <1>2, DispatchSteps, Returned, Reached
  <2> QED BY <2>1 DEF Shape
<1>3. ASSUME NEW k \in Tasks, HandleSend(k) PROVE Shape'
  <2>1. \A j \in Tasks : task'[j].at = task[j].at /\ task'[j].lines = task[j].lines
    <3>1. task \in [Tasks -> TaskType]
      BY DEF TypeOK, TaskType
    <3>2. \/ task' = [task EXCEPT ![k] = [task[k] EXCEPT !.id = Id(Line(k), sends'[Line(k)])]]
          \/ task' = task
      BY <1>3, <3>1 DEF HandleSend
    <3> QED BY <3>1, <3>2 DEF TaskType
  <2>2. PICK a \in {"ok", "nack"} : answer' = [answer EXCEPT ![k] = a]
    BY <1>3 DEF HandleSend
  <2>3. answer[k] = "send"
    BY <1>3 DEF HandleSend
  <2> QED BY <2>1, <2>2, <2>3 DEF Shape, TypeOK
<1>4. ASSUME Restart PROVE Shape'
  BY <1>4 DEF Restart, Shape, Free
<1>5. ASSUME UNCHANGED <<task, answer>> PROVE Shape'
  BY <1>5 DEF Shape
<1> QED BY <1>1, <1>2, <1>3, <1>4, <1>5, <1>6 DEF Next, Begin, Drop, HandleOrphan, AnswersEcho, vars

LEMMA RecordedStep == TypeOK /\ Shape /\ Recorded /\ [Next]_vars => Recorded'
<1> SUFFICES ASSUME TypeOK, Shape, Recorded, [Next]_vars PROVE Recorded'
  OBVIOUS
<1> USE DEF rows, whatsapp, history
<1>1. ASSUME NEW k \in Tasks, Begin(k) PROVE Recorded'
  BY <1>1, Begins DEF Recorded
<1>6. ASSUME NEW k \in Tasks, Drop(k) PROVE Recorded'
  BY <1>6, Drops DEF Recorded
<1>2. ASSUME NEW k \in Tasks, Dispatch(k) PROVE Recorded'
  <2>0. /\ \A j \in Tasks \ {k} : task'[j] = task[j]
        /\ \/ task'[k].at # "mark"
           \/ task[k].at = "claim" /\ task'[k].id = task[k].id
    BY <1>2, DispatchSteps, Returned, Reached
  <2>1. CASE ClaimOwn(k)
    <3>1. /\ providerId' = providerId /\ claimed \subseteq claimed' /\ unclaimed \subseteq unclaimed'
          /\ task[k].id \in claimed' \cup unclaimed'
      BY <2>1 DEF ClaimOwn
    <3> QED BY <2>0, <3>1 DEF Recorded
  <2>2. CASE MarkSent(k)
    <3>1. /\ task[k].at = "mark" /\ claimed' = claimed /\ unclaimed' = unclaimed
          /\ providerId' = [providerId EXCEPT ![Line(k)] = task[k].id]
      BY <2>2 DEF MarkSent
    <3>2. task'[k].at # "mark"
      BY <2>0, <3>1
    <3>3. \A m \in Lines : providerId'[m] \in {providerId[m], task[k].id}
      BY <3>1 DEF TypeOK
    <3> QED BY <2>0, <3>1, <3>2, <3>3 DEF Recorded
  <2>3. CASE Hand(k) \/ AckArrives(k) \/ AckTimesOut(k)
    <3>1. task[k].at \in {"hand", "waiting"} /\ UNCHANGED <<claimed, unclaimed, providerId>>
      BY <2>3 DEF Hand, AckArrives, AckTimesOut
    <3> QED BY <2>0, <3>1 DEF Recorded
  <2> QED BY <1>2, <2>1, <2>2, <2>3 DEF Dispatch
<1>3. ASSUME NEW k \in Tasks, HandleSend(k) PROVE Recorded'
  <2>1. /\ \A j \in Tasks : task'[j].at = task[j].at
        /\ \A j \in Tasks \ {k} : task'[j] = task[j]
        /\ task[k].at = "waiting" /\ UNCHANGED <<claimed, unclaimed, providerId>>
    BY <1>3 DEF HandleSend, TypeOK, Shape
  <2> QED BY <2>1 DEF Recorded
<1>4. ASSUME Restart PROVE Recorded'
  BY <1>4 DEF Restart, Recorded, Free
<1>5. ASSUME UNCHANGED <<task, providerId, unclaimed>>, claimed \subseteq claimed' PROVE Recorded'
  BY <1>5 DEF Recorded
<1> QED BY <1>1, <1>2, <1>3, <1>4, <1>5, <1>6 DEF Next, Begin, Drop, HandleOrphan, AnswersEcho, vars

-----------------------------------------------------------------------------
(* What a step of task k leaves of the other lines and tasks. *)
Untouched(k) ==
  /\ \A j \in Tasks \ {k} : task'[j] = task[j] /\ answer'[j] = answer[j]
  /\ \A m \in Lines \ {Line(k)} :
       status'[m] = status[m] /\ sends'[m] = sends[m] /\ orphans'[m] = orphans[m]
  /\ crossed \subseteq crossed' /\ lost \subseteq lost'

LEMMA OthersKeepLine ==
  ASSUME NEW k \in Tasks, Untouched(k)
  PROVE  \A j \in Tasks \ {k} : Line(j)' = Line(j) /\ WentOut(j)' = WentOut(j)
BY DEF Untouched, Line, WentOut

(* The task is done with its line: the line's row must tell the truth now, *)
(* and the lines that are left have not gone out.                          *)
LEMMA QuietReturn ==
  ASSUME TypeOK, Shape, QuietRows, NEW k \in Tasks, task[k].lines # {},
         Return(k), answer'[k] = "none", Untouched(k),
         Line(k) \notin crossed' \cup lost' =>
           /\ orphans'[Line(k)] = 0
           /\ sends'[Line(k)] = IF status'[Line(k)] = "sent" THEN 1 ELSE 0
  PROVE  QuietRows'
<1> DEFINE L == Line(k)
<1>1. /\ \A j \in Tasks \ {k} : task'[j] = task[j]
      /\ task'[k].lines = task[k].lines \ {L} /\ task'[k].at \in {"idle", "hand"}
  BY Returned
<1>2. ~(WentOut(k)')
  BY <1>1 DEF WentOut
<1>3. L \in task[k].lines
  BY LineOfTask
<1> SUFFICES ASSUME NEW m \in Lines \ (crossed' \cup lost') PROVE Quiet(m)'
  BY DEF QuietRows
<1>4. Quiet(m)
  BY DEF QuietRows, Untouched
<1> HIDE DEF L
<1>5. CASE m = L
  <2>1. \A j \in Tasks : m \notin task'[j].lines
    BY <1>1, <1>3, <1>4, <1>5 DEF Quiet
  <2>2. orphans'[m] = 0 /\ sends'[m] = IF status'[m] = "sent" THEN 1 ELSE 0
    BY <1>5 DEF L
  <2> QED BY <2>1, <2>2 DEF Quiet, Held
<1>6. CASE m # L
  <2>1. \A j \in Tasks : m \in task'[j].lines <=> m \in task[j].lines
    BY <1>1, <1>6
  <2>2. status'[m] = status[m] /\ sends'[m] = sends[m] /\ orphans'[m] = orphans[m]
    BY <1>6 DEF Untouched, L
  <2>3. ASSUME NEW j \in Tasks, m \in task'[j].lines
        PROVE  status'[m] = "pending" /\ sends'[m] = IF WentOut(j)' /\ m = Line(j)' THEN 1 ELSE 0
    <3>1. status[m] = "pending" /\ sends[m] = IF WentOut(j) /\ m = Line(j) THEN 1 ELSE 0
      BY <2>1, <2>3, <1>4 DEF Quiet
    <3>2. CASE j = k
      BY <3>1, <3>2, <2>2, <1>2, <1>6 DEF L
    <3>3. CASE j # k
      BY <3>1, <3>3, <2>2, OthersKeepLine
    <3> QED BY <3>2, <3>3
  <2>4. Held(m)' <=> Held(m)
    BY <2>1 DEF Held
  <2> QED BY <1>4, <2>1, <2>2, <2>3, <2>4 DEF Quiet
<1> QED BY <1>5, <1>6

(* The task is still at its line: whether it went out is what the task's   *)
(* place says.                                                             *)
LEMMA QuietReach ==
  ASSUME TypeOK, Shape, QuietRows, NEW k \in Tasks, task[k].lines # {},
         task'[k].lines = task[k].lines, Untouched(k),
         Line(k) \notin crossed' \cup lost' =>
           /\ orphans'[Line(k)] = 0 /\ status'[Line(k)] = "pending"
           /\ sends'[Line(k)] = IF WentOut(k)' THEN 1 ELSE 0
  PROVE  QuietRows'
<1>1. Line(k)' = Line(k) /\ Line(k) \in task[k].lines
  BY LineOfTask DEF Line
<1> SUFFICES ASSUME NEW m \in Lines \ (crossed' \cup lost') PROVE Quiet(m)'
  BY DEF QuietRows
<1>2. Quiet(m)
  BY DEF QuietRows, Untouched
<1>3. \A j \in Tasks : task'[j].lines = task[j].lines
  BY DEF Untouched
<1>4. Held(m)' <=> Held(m)
  BY <1>3 DEF Held
<1>5. CASE m = Line(k)
  <2>1. Held(m) /\ \A j \in Tasks : m \in task[j].lines => j = k
    BY <1>1, <1>2, <1>5 DEF Held, Quiet
  <2> QED BY <1>1, <1>3, <1>4, <1>5, <2>1 DEF Quiet
<1>6. CASE m # Line(k)
  <2>1. status'[m] = status[m] /\ sends'[m] = sends[m] /\ orphans'[m] = orphans[m]
    BY <1>6 DEF Untouched
  <2>2. ASSUME NEW j \in Tasks, m \in task'[j].lines
        PROVE  status'[m] = "pending" /\ sends'[m] = IF WentOut(j)' /\ m = Line(j)' THEN 1 ELSE 0
    <3>1. status[m] = "pending" /\ sends[m] = IF WentOut(j) /\ m = Line(j) THEN 1 ELSE 0
      BY <1>2, <1>3, <2>2 DEF Quiet
    <3>2. CASE j = k
      BY <3>1, <3>2, <2>1, <1>1, <1>6
    <3>3. CASE j # k
      BY <3>1, <3>3, <2>1, OthersKeepLine
    <3> QED BY <3>2, <3>3
  <2> QED BY <1>2, <1>3, <1>4, <2>1, <2>2 DEF Quiet
<1> QED BY <1>5, <1>6

-----------------------------------------------------------------------------
(* A quiet row stays quiet, or is no longer one. *)
LEMMA DispatchQuiet ==
  ASSUME TypeOK, Shape, QuietRows, NEW k \in Tasks, Dispatch(k)
  PROVE  QuietRows'
<1> DEFINE L == Line(k)
<1> USE DEF rows, whatsapp, history
<1>0. /\ task[k].at # "idle" /\ task[k].lines # {} /\ L \in Lines /\ L \in task[k].lines
      /\ \A j \in Tasks \ {k} : answer'[j] = answer[j]
  BY DispatchSteps, LineOfTask
<1>1. ASSUME L \notin crossed \cup lost
      PROVE  /\ orphans[L] = 0 /\ status[L] = "pending"
             /\ sends[L] = IF WentOut(k) THEN 1 ELSE 0
  BY <1>0, <1>1 DEF QuietRows, Quiet
<1> HIDE DEF L
<1>2. CASE Hand(k)
  <2>1. /\ UNCHANGED <<orphans, sends, crossed, lost>> /\ ~WentOut(k)
        /\ answer[k] = "none" /\ task[k].at = "hand"
    BY <1>2 DEF Hand, WentOut, Shape
  <2>2. CASE Return(k) /\ answer' = answer /\ (status' = status \/ Mark(L, "failed"))
    <3>1. Untouched(k)
      BY <2>1, <2>2, Returned, <1>0 DEF Untouched, Mark, TypeOK, L
    <3>2. status'[L] \in {status[L], "failed"}
      BY <2>2, <1>0 DEF Mark, TypeOK
    <3> QED BY <1>0, <1>1, <2>1, <2>2, <3>1, <3>2, QuietReturn DEF L
  <2>3. CASE Reach(k, "waiting") /\ answer' = [answer EXCEPT ![k] = "send"] /\ status' = status
    <3>1. Untouched(k) /\ task'[k].lines = task[k].lines /\ task'[k].at = "waiting"
      BY <2>1, <2>3, Reached, <1>0 DEF Untouched
    <3>2. ~(WentOut(k)')
      BY <2>3, <3>1 DEF WentOut, TypeOK
    <3> QED BY <1>0, <1>1, <2>1, <2>3, <3>1, <3>2, QuietReach DEF L
  <2> QED BY <1>2, <2>2, <2>3 DEF Hand, L
<1>3. CASE AckArrives(k) /\ answer[k] = "ok"
  <2>1. /\ Reach(k, "claim") /\ UNCHANGED <<status, orphans, sends, crossed, lost>>
    BY <1>3, GoesOn DEF AckArrives
  <2>2. Untouched(k) /\ task'[k].lines = task[k].lines /\ task'[k].at = "claim"
    BY <2>1, Reached, <1>0 DEF Untouched
  <2>3. WentOut(k) /\ WentOut(k)'
    BY <1>3, <2>2 DEF WentOut
  <2> QED BY <1>0, <1>1, <2>1, <2>2, <2>3, QuietReach DEF L
<1>4. CASE AckArrives(k) /\ answer[k] # "ok"
  <2>1. /\ Return(k) /\ (status' = status \/ Mark(L, "failed"))
        /\ UNCHANGED <<orphans, sends, crossed, lost>>
        /\ answer' = [answer EXCEPT ![k] = "none"] /\ task[k].at = "waiting"
    BY <1>4 DEF AckArrives, AttemptFails, L
  <2>2. Untouched(k) /\ answer'[k] = "none" /\ ~WentOut(k)
    BY <1>4, <2>1, Returned, <1>0 DEF Untouched, Mark, TypeOK, L, WentOut
  <2>3. status'[L] \in {status[L], "failed"}
    BY <2>1, <1>0 DEF Mark, TypeOK
  <2> QED BY <1>0, <1>1, <2>1, <2>2, <2>3, QuietReturn DEF L
<1>5. CASE AckTimesOut(k)
  <2>1. /\ Return(k) /\ (status' = status \/ Mark(L, "failed"))
        /\ \/ orphans' = orphans
           \/ orphans' = [orphans EXCEPT ![L] = @ + 1]
        /\ UNCHANGED <<sends, crossed>> /\ lost' = lost \cup AtStake({k})
        /\ answer' = [answer EXCEPT ![k] = "none"] /\ task[k].at = "waiting"
        /\ answer[k] # "send" => orphans' = orphans
    BY <1>5 DEF AckTimesOut, AttemptFails, L
  <2>2. Untouched(k) /\ answer'[k] = "none"
    BY <2>1, Returned, <1>0 DEF Untouched, Mark, TypeOK, L
  <2>3. answer[k] = "send" \/ WentOut(k) => L \in lost'
    BY <2>1, StakeIsLines DEF L
  <2>4. status'[L] \in {status[L], "failed"}
    BY <2>1, <1>0 DEF Mark, TypeOK
  <2> QED BY <1>0, <1>1, <2>1, <2>2, <2>3, <2>4, QuietReturn DEF L
<1>6. CASE ClaimOwn(k)
  <2>1. /\ Reach(k, "mark") /\ task[k].at = "claim"
        /\ UNCHANGED <<status, orphans, sends, crossed, lost, answer>>
    BY <1>6, GoesOn DEF ClaimOwn
  <2>2. Untouched(k) /\ task'[k].lines = task[k].lines /\ task'[k].at = "mark"
    BY <2>1, Reached DEF Untouched
  <2>3. WentOut(k) /\ WentOut(k)'
    BY <2>1, <2>2 DEF WentOut
  <2> QED BY <1>0, <1>1, <2>1, <2>2, <2>3, QuietReach DEF L
<1>7. CASE MarkSent(k)
  <2>1. /\ Return(k) /\ Mark(L, "sent") /\ task[k].at = "mark"
        /\ UNCHANGED <<orphans, sends, crossed, lost, answer>>
    BY <1>7, GoesOn DEF MarkSent, L
  <2>2. Untouched(k) /\ answer'[k] = "none" /\ WentOut(k)
    BY <2>1, Returned, <1>0 DEF Untouched, Mark, TypeOK, L, WentOut, Shape
  <2>3. status'[L] = "sent"
    BY <2>1, <1>0 DEF Mark, TypeOK
  <2> QED BY <1>0, <1>1, <2>1, <2>2, <2>3, QuietReturn DEF L
<1> QED BY <1>2, <1>3, <1>4, <1>5, <1>6, <1>7 DEF Dispatch

LEMMA SendQuiet ==
  ASSUME TypeOK, Shape, QuietRows, NEW k \in Tasks, HandleSend(k)
  PROVE  QuietRows'
<1> DEFINE L == Line(k)
<1>0. /\ answer[k] = "send" /\ task[k].at = "waiting" /\ task[k].lines # {}
      /\ L \in Lines /\ L \in task[k].lines /\ ~WentOut(k)
  BY LineOfTask DEF HandleSend, Shape, WentOut
<1>1. /\ UNCHANGED <<status, orphans, crossed>>
      /\ task'[k].lines = task[k].lines /\ task'[k].at = "waiting"
      /\ \A j \in Tasks \ {k} : task'[j] = task[j]
  BY <1>0 DEF HandleSend, TypeOK, rows
<1>2. ASSUME L \notin crossed \cup lost
      PROVE  orphans[L] = 0 /\ status[L] = "pending" /\ sends[L] = 0
  BY <1>0, <1>2 DEF QuietRows, Quiet
<1> HIDE DEF L
<1>3. CASE sends' = [sends EXCEPT ![L] = @ + 1] /\ answer' = [answer EXCEPT ![k] = "ok"]
           /\ lost' = lost
  <2>1. Untouched(k) /\ WentOut(k)'
    BY <1>1, <1>3 DEF Untouched, TypeOK, L, WentOut
  <2>2. sends'[L] = sends[L] + 1
    BY <1>0, <1>3 DEF TypeOK
  <2> QED BY <1>0, <1>1, <1>2, <1>3, <2>1, <2>2, QuietReach DEF L
<1>4. CASE sends' = [sends EXCEPT ![L] = @ + 1] /\ answer' = [answer EXCEPT ![k] = "nack"]
           /\ lost' = lost \cup AtStake({k})
  <2>1. Untouched(k) /\ L \in lost'
    BY <1>0, <1>1, <1>4, StakeIsLines DEF Untouched, TypeOK, L
  <2> QED BY <1>0, <1>1, <1>4, <2>1, QuietReach DEF L
<1>5. CASE sends' = sends /\ answer' = [answer EXCEPT ![k] = "nack"] /\ lost' = lost
  <2>1. Untouched(k) /\ ~(WentOut(k)')
    BY <1>1, <1>5 DEF Untouched, TypeOK, L, WentOut
  <2> QED BY <1>0, <1>1, <1>2, <1>5, <2>1, QuietReach DEF L
<1> QED BY <1>3, <1>4, <1>5 DEF HandleSend, L

LEMMA BeginQuiet ==
  ASSUME TypeOK, Shape, QuietRows, NEW k \in Tasks, Begin(k)
  PROVE  QuietRows'
<1>1. /\ answer' = answer /\ ~WentOut(k) /\ ~(WentOut(k)')
      /\ \A j \in Tasks \ {k} : task'[j] = task[j]
  BY Begins DEF Shape, WentOut
<1>2. \A j \in Tasks \ {k} : Line(j)' = Line(j) /\ (WentOut(j)' <=> WentOut(j))
  BY <1>1 DEF Line, WentOut
<1> SUFFICES ASSUME NEW m \in Lines \ (crossed' \cup lost') PROVE Quiet(m)'
  BY DEF QuietRows
<1>3. /\ UNCHANGED <<orphans, sends, lost>> /\ Quiet(m)
      /\ \/ m \in task'[k].lines /\ ~Held(m) /\ status[m] # "sent" /\ status'[m] = "pending"
         \/ (m \in task'[k].lines <=> m \in task[k].lines) /\ status'[m] = status[m]
  <2>1. CASE OnHello(k)
    <3>1. task'[k].lines = PendingSends /\ UNCHANGED <<orphans, sends, lost, status>>
          /\ task[k].lines = {}
      BY <2>1 DEF OnHello, TypeOK, Free, rows, whatsapp
    <3>2. crossed' = crossed \cup {n \in PendingSends : Held(n)}
      BY <2>1 DEF OnHello
    <3> QED BY <3>1, <3>2 DEF PendingSends, QuietRows
  <2>2. ASSUME NEW n \in Lines, Enqueue(k, n) \/ EnqueueText(k, n)
        PROVE  /\ UNCHANGED <<orphans, sends, lost, crossed>>
               /\ status[n] = "none" /\ status' = [status EXCEPT ![n] = "pending"]
               /\ task'[k].lines = task[k].lines \cup {n}
    <3>1. Queue(n)
      BY <2>2 DEF Enqueue, EnqueueText
    <3>2. CASE Enqueue(k, n)
      <4>1. PICK at \in {"hand", "spoken"} :
              task' = [task EXCEPT ![k] = [Free EXCEPT !.at = at, !.lines = {n}]]
        BY <3>2 DEF Enqueue
      <4>2. task[k].lines = {} /\ task'[k].lines = {n}
        BY <3>2, <4>1 DEF Enqueue, Free, TypeOK
      <4> QED BY <3>1, <4>2 DEF Queue, whatsapp, history
    <3>3. CASE EnqueueText(k, n)
      <4>1. task'[k].lines = task[k].lines \cup {n}
        BY <3>3 DEF EnqueueText, TypeOK
      <4> QED BY <3>1, <4>1 DEF Queue, whatsapp, history
    <3> QED BY <2>2, <3>2, <3>3
  <2>3. CASE \E n \in Lines : Enqueue(k, n) \/ EnqueueText(k, n)
    <3>1. PICK n \in Lines : Enqueue(k, n) \/ EnqueueText(k, n)
      BY <2>3
    <3>2. Quiet(m) /\ (m = n => ~Held(m))
      BY <2>2, <3>1 DEF QuietRows, Quiet, Held
    <3>3. status'[m] = IF m = n THEN "pending" ELSE status[m]
      BY <2>2, <3>1 DEF TypeOK
    <3> QED BY <2>2, <3>1, <3>2, <3>3
  <2> QED BY <2>1, <2>3 DEF Begin
<1>4. CASE (m \in task'[k].lines <=> m \in task[k].lines) /\ status'[m] = status[m]
  <2>1. \A j \in Tasks : m \in task'[j].lines <=> m \in task[j].lines
    BY <1>1, <1>4
  <2>2. Held(m)' <=> Held(m)
    BY <2>1 DEF Held
  <2>3. ASSUME NEW j \in Tasks, m \in task'[j].lines
        PROVE  status'[m] = "pending" /\ sends'[m] = IF WentOut(j)' /\ m = Line(j)' THEN 1 ELSE 0
    BY <1>1, <1>2, <1>3, <1>4, <2>1, <2>3 DEF Quiet
  <2> QED BY <1>3, <1>4, <2>1, <2>2, <2>3 DEF Quiet
<1>5. CASE m \in task'[k].lines /\ ~Held(m) /\ status[m] # "sent" /\ status'[m] = "pending"
  <2>1. \A j \in Tasks \ {k} : m \notin task'[j].lines
    BY <1>1, <1>5 DEF Held
  <2>2. sends'[m] = 0 /\ orphans'[m] = 0
    BY <1>3, <1>5 DEF Quiet
  <2>3. Held(m)'
    BY <1>5 DEF Held
  <2> QED BY <1>1, <1>5, <2>1, <2>2, <2>3 DEF Quiet
<1> QED BY <1>3, <1>4, <1>5

LEMMA DropQuiet ==
  ASSUME TypeOK, Shape, QuietRows, NEW k \in Tasks, Drop(k)
  PROVE  QuietRows'
<1>1. /\ UNCHANGED <<status, orphans, sends, crossed>>
      /\ \A j \in Tasks \ {k} : task'[j] = task[j] /\ answer'[j] = answer[j]
      /\ task'[k].lines = {} /\ lost \subseteq lost'
      /\ WentOut(k) => Line(k) \in lost'
  BY Drops DEF rows
<1>2. \A j \in Tasks \ {k} : Line(j)' = Line(j) /\ (WentOut(j)' <=> WentOut(j))
  BY <1>1 DEF Line, WentOut
<1> SUFFICES ASSUME NEW m \in Lines \ (crossed' \cup lost') PROVE Quiet(m)'
  BY DEF QuietRows
<1>3. Quiet(m)
  BY <1>1 DEF QuietRows
<1>4. CASE m \in task[k].lines
  <2>1. status[m] = "pending" /\ sends[m] = 0
    BY <1>1, <1>3, <1>4 DEF Quiet
  <2>2. \A j \in Tasks : m \notin task'[j].lines
    BY <1>1, <1>3, <1>4 DEF Quiet
  <2> QED BY <1>1, <1>3, <2>1, <2>2 DEF Quiet, Held
<1>5. CASE m \notin task[k].lines
  <2>1. \A j \in Tasks : m \in task'[j].lines <=> m \in task[j].lines
    BY <1>1, <1>5
  <2>2. Held(m)' <=> Held(m)
    BY <2>1 DEF Held
  <2>3. ASSUME NEW j \in Tasks, m \in task'[j].lines
        PROVE  status'[m] = "pending" /\ sends'[m] = IF WentOut(j)' /\ m = Line(j)' THEN 1 ELSE 0
    BY <1>1, <1>2, <1>3, <1>5, <2>1, <2>3 DEF Quiet
  <2> QED BY <1>1, <1>3, <2>1, <2>2, <2>3 DEF Quiet
<1> QED BY <1>4, <1>5

LEMMA RestartQuiet ==
  ASSUME TypeOK, Shape, QuietRows, Restart
  PROVE  QuietRows'
<1> SUFFICES ASSUME NEW m \in Lines \ (crossed' \cup lost') PROVE Quiet(m)'
  BY DEF QuietRows
<1>1. Quiet(m) /\ \A k \in Tasks : answer[k] = "send" \/ WentOut(k) => Line(k) # m
  BY StakeIsLines DEF Restart, QuietRows
<1>2. {k \in Tasks : answer[k] = "send" /\ Line(k) = m} = {}
  BY <1>1
<1>3. orphans'[m] = 0
  <2>1. orphans'[m] = orphans[m] + Cardinality({k \in Tasks : answer[k] = "send" /\ Line(k) = m})
    BY DEF Restart
  <2>2. Cardinality({k \in Tasks : answer[k] = "send" /\ Line(k) = m}) = 0
    BY <1>2, FS_EmptySet
  <2>3. orphans[m] = 0
    BY <1>1 DEF Quiet
  <2> QED BY <2>1, <2>2, <2>3
<1>4. UNCHANGED <<status, sends>> /\ \A k \in Tasks : task'[k].lines = {}
  BY DEF Restart, rows, Free
<1>5. sends[m] = IF status[m] = "sent" THEN 1 ELSE 0
  <2>1. CASE Held(m)
    <3>1. PICK k \in Tasks : m \in task[k].lines
      BY <2>1 DEF Held
    <3>2. status[m] = "pending" /\ sends[m] = 0
      BY <1>1, <3>1 DEF Quiet
    <3> QED BY <3>2
  <2>2. CASE ~Held(m)
    BY <1>1, <2>2 DEF Quiet
  <2> QED BY <2>1, <2>2
<1> QED BY <1>3, <1>4, <1>5 DEF Quiet, Held

LEMMA QuietStep == TypeOK /\ Shape /\ QuietRows /\ [Next]_vars => QuietRows'
<1> SUFFICES ASSUME TypeOK, Shape, QuietRows, [Next]_vars PROVE QuietRows'
  OBVIOUS
<1>1. ASSUME NEW n \in Lines, HandleOrphan(n) PROVE QuietRows'
  <2> SUFFICES ASSUME NEW m \in Lines \ (crossed \cup lost) PROVE Quiet(m)'
    BY <1>1 DEF HandleOrphan, QuietRows, history
  <2>1. Quiet(m) /\ m # n
    BY <1>1 DEF HandleOrphan, QuietRows, Quiet
  <2>2. UNCHANGED <<status, task, answer>> /\ orphans'[m] = orphans[m] /\ sends'[m] = sends[m]
    BY <1>1, <2>1 DEF HandleOrphan, rows, TypeOK
  <2> QED BY <2>1, <2>2 DEF Quiet, Held, WentOut, Line
<1>2. ASSUME UNCHANGED <<status, task, whatsapp, crossed, lost>> PROVE QuietRows'
  BY <1>2 DEF QuietRows, Quiet, Held, WentOut, Line, whatsapp
<1> QED BY <1>1, <1>2, BeginQuiet, DropQuiet, DispatchQuiet, SendQuiet, RestartQuiet
        DEF Next, Begin, Drop, AnswersEcho, vars, rows, history

-----------------------------------------------------------------------------
(* A step of task k, as far as Noted can tell: the line it marks is out,   *)
(* what it takes from the pending lines or adds to them is accounted for.  *)
Notes(k) ==
  /\ \A j \in Tasks \ {k} : task'[j] = task[j] /\ answer'[j] = answer[j]
  /\ lost \subseteq lost'
  /\ \A m \in Lines :
       /\ sends'[m] >= sends[m]
       /\ status'[m] = "none" =>
            /\ status[m] = "none" /\ m \notin task'[k].lines
            /\ sends'[m] = sends[m] /\ orphans'[m] = orphans[m]
       /\ status'[m] = "sent" => status[m] = "sent" \/ sends[m] >= 1
       /\ m \notin lost' =>
            /\ orphans'[m] = orphans[m]
            /\ status'[m] = "pending" /\ sends'[m] >= 1 =>
                 \/ WentOut(k)' /\ Line(k)' = m
                 \/ status[m] = "pending" /\ sends[m] >= 1 /\ ~(WentOut(k) /\ Line(k) = m)
  /\ WentOut(k)' => sends'[Line(k)'] >= 1

LEMMA NotesKeep ==
  ASSUME TypeOK, TypeOK', Shape, Noted, NEW k \in Tasks, Notes(k)
  PROVE  Noted'
<1>1. \A j \in Tasks \ {k} : Line(j)' = Line(j) /\ (WentOut(j)' <=> WentOut(j))
  BY DEF Notes, Line, WentOut
<1>2. ASSUME NEW m \in Lines
      PROVE  /\ status'[m] = "none" => ~(Held(m)') /\ sends'[m] = 0 /\ orphans'[m] = 0
             /\ status'[m] = "sent" => sends'[m] >= 1
  <2>1. ASSUME status'[m] = "none" PROVE ~(Held(m)') /\ sends'[m] = 0 /\ orphans'[m] = 0
    <3>1. ~Held(m) /\ sends'[m] = 0 /\ orphans'[m] = 0 /\ m \notin task'[k].lines
      BY <2>1 DEF Notes, Noted
    <3>2. \A j \in Tasks : m \notin task'[j].lines
      BY <3>1 DEF Notes, Held
    <3> QED BY <3>1, <3>2 DEF Held
  <2>2. sends[m] \in Nat /\ sends'[m] \in Nat
    BY DEF TypeOK
  <2>3. ASSUME status'[m] = "sent" PROVE sends'[m] >= 1
    BY <2>2, <2>3 DEF Notes, Noted
  <2> QED BY <2>1, <2>3
<1>3. ASSUME NEW j \in Tasks, WentOut(j)' PROVE sends'[Line(j)'] >= 1
  <2>1. CASE j = k
    BY <1>3, <2>1 DEF Notes
  <2>2. CASE j # k
    <3>1. WentOut(j) /\ Line(j)' = Line(j) /\ task[j].lines # {}
      BY <1>1, <1>3, <2>2 DEF WentOut, Shape
    <3>2. Line(j) \in Lines /\ sends[Line(j)] >= 1
      BY <3>1, LineOfTask DEF Noted
    <3>3. sends[Line(j)] \in Nat /\ sends'[Line(j)] \in Nat
      BY <3>2 DEF TypeOK
    <3>4. sends'[Line(j)] >= sends[Line(j)]
      BY <3>2 DEF Notes
    <3>5. sends'[Line(j)] >= 1
      BY <3>2, <3>3, <3>4
    <3> QED BY <3>1, <3>5
  <2> QED BY <2>1, <2>2
<1>4. ASSUME NEW m \in Lines \ lost'
      PROVE  /\ orphans'[m] = 0
             /\ status'[m] = "pending" /\ sends'[m] >= 1 =>
                  \E j \in Tasks : WentOut(j)' /\ Line(j)' = m
  <2>1. m \in Lines \ lost
    BY DEF Notes
  <2>2. orphans'[m] = 0
    BY <2>1 DEF Notes, Noted
  <2>3. ASSUME status'[m] = "pending", sends'[m] >= 1
        PROVE  \E j \in Tasks : WentOut(j)' /\ Line(j)' = m
    <3>1. CASE WentOut(k)' /\ Line(k)' = m
      BY <3>1
    <3>2. CASE status[m] = "pending" /\ sends[m] >= 1 /\ ~(WentOut(k) /\ Line(k) = m)
      <4>1. PICK j \in Tasks : WentOut(j) /\ Line(j) = m
        BY <2>1, <3>2 DEF Noted
      <4>2. j # k
        BY <3>2, <4>1
      <4> QED BY <1>1, <4>1, <4>2
    <3> QED BY <2>3, <3>1, <3>2 DEF Notes
  <2> QED BY <2>2, <2>3
<1> QED BY <1>2, <1>3, <1>4 DEF Noted

(* What a dispatch does to its own line. *)
LEMMA DispatchNotes ==
  ASSUME TypeOK, Shape, Noted, NEW k \in Tasks, Dispatch(k)
  PROVE  Notes(k)
<1> DEFINE L == Line(k)
<1>0. /\ task[k].lines # {} /\ L \in Lines /\ L \in task[k].lines
      /\ \A j \in Tasks \ {k} : answer'[j] = answer[j]
  BY DispatchSteps, LineOfTask
<1>1. /\ \A j \in Tasks \ {k} : task'[j] = task[j]
      /\ task'[k].lines \subseteq task[k].lines
      /\ \/ task'[k].at \in {"idle", "hand"} /\ answer'[k] = "none"
         \/ task'[k].at = "waiting" /\ answer'[k] = "send"
         \/ task'[k].lines = task[k].lines /\ WentOut(k)
  BY <1>0, DispatchSteps, Returned, Reached DEF WentOut
<1>2. /\ sends' = sends /\ lost \subseteq lost'
      /\ \A m \in Lines : /\ status'[m] \in {status[m], "failed", "sent"}
                          /\ m # L => status'[m] = status[m] /\ orphans'[m] = orphans[m]
      /\ L \notin lost' => orphans'[L] = orphans[L]
      /\ status'[L] = "sent" => status[L] = "sent" \/ WentOut(k)
      /\ WentOut(k) => \/ WentOut(k)' /\ Line(k)' = L
                       \/ status'[L] # "pending"
                       \/ L \in lost'
  <2> USE <1>0 DEF rows, whatsapp, history
  <2>1. CASE Hand(k)
    <3>1. /\ UNCHANGED <<orphans, sends, lost>> /\ ~WentOut(k)
          /\ status' = status \/ Mark(L, "failed")
      BY <2>1 DEF Hand, WentOut, Shape
    <3>2. \A m \in Lines : /\ status'[m] \in {status[m], "failed"}
                           /\ m # L => status'[m] = status[m]
      BY <3>1 DEF Mark, TypeOK
    <3> QED BY <3>1, <3>2
  <2>2. CASE AckArrives(k)
    <3>1. UNCHANGED <<orphans, sends, lost>> /\ task[k].at = "waiting"
      BY <2>2 DEF AckArrives
    <3>2. CASE answer[k] = "ok"
      <4>1. Reach(k, "claim") /\ status' = status
        BY <2>2, <3>2, GoesOn DEF AckArrives
      <4>2. task'[k].at = "claim" /\ task'[k].lines = task[k].lines
        BY <4>1, Reached
      <4> QED BY <3>1, <4>1, <4>2 DEF WentOut, Line
    <3>3. CASE answer[k] # "ok"
      <4>1. ~WentOut(k) /\ (status' = status \/ Mark(L, "failed"))
        BY <2>2, <3>1, <3>3 DEF AckArrives, AttemptFails, WentOut
      <4>2. \A m \in Lines : /\ status'[m] \in {status[m], "failed"}
                             /\ m # L => status'[m] = status[m]
        BY <4>1 DEF Mark, TypeOK
      <4> QED BY <3>1, <4>1, <4>2
    <3> QED BY <3>2, <3>3
  <2>3. CASE AckTimesOut(k)
    <3>1. /\ status' = status \/ Mark(L, "failed")
          /\ sends' = sends /\ lost' = lost \cup AtStake({k})
          /\ \/ orphans' = orphans
             \/ orphans' = [orphans EXCEPT ![L] = @ + 1] /\ answer[k] = "send"
      BY <2>3 DEF AckTimesOut, AttemptFails
    <3>2. answer[k] = "send" \/ WentOut(k) => L \in lost'
      BY <3>1, StakeIsLines
    <3>3. \A m \in Lines : /\ status'[m] \in {status[m], "failed"}
                           /\ m # L => status'[m] = status[m] /\ orphans'[m] = orphans[m]
      BY <3>1 DEF Mark, TypeOK
    <3>4. L \notin lost' => orphans'[L] = orphans[L]
      BY <3>1, <3>2
    <3> QED BY <3>1, <3>2, <3>3, <3>4
  <2>4. CASE ClaimOwn(k)
    <3>1. Reach(k, "mark") /\ UNCHANGED <<status, orphans, sends, lost>>
      BY <2>4, GoesOn DEF ClaimOwn
    <3>2. task'[k].at = "mark" /\ task'[k].lines = task[k].lines
      BY <3>1, Reached
    <3> QED BY <3>1, <3>2 DEF WentOut, Line
  <2>5. CASE MarkSent(k)
    <3>1. Mark(L, "sent") /\ WentOut(k) /\ UNCHANGED <<orphans, sends, lost>>
      BY <2>5 DEF MarkSent, WentOut
    <3>2. \A m \in Lines : status'[m] = IF m = L THEN "sent" ELSE status[m]
      BY <3>1 DEF Mark, TypeOK
    <3> QED BY <3>1, <3>2
  <2> QED BY <2>1, <2>2, <2>3, <2>4, <2>5 DEF Dispatch
<1>3. WentOut(k) => sends[L] >= 1
  BY DEF Noted
<1>4. WentOut(k)' => WentOut(k) /\ Line(k)' = L
  BY <1>1 DEF WentOut, Line
<1>5. \A m \in Lines : sends[m] \in Nat
  BY DEF TypeOK
<1>6. Held(L) /\ \A m \in Lines : m \in task'[k].lines => Held(m)
  BY <1>0, <1>1 DEF Held
<1>7. ASSUME NEW m \in Lines, status'[m] = "none"
      PROVE  /\ status[m] = "none" /\ m \notin task'[k].lines
             /\ sends'[m] = sends[m] /\ orphans'[m] = orphans[m]
  <2>1. status[m] = "none"
    BY <1>2, <1>7
  <2>2. ~Held(m)
    BY <2>1 DEF Noted
  <2> QED BY <1>2, <1>6, <2>1, <2>2
<1> HIDE DEF L
<1>8. ASSUME NEW m \in Lines, status'[m] = "sent" PROVE status[m] = "sent" \/ sends[m] >= 1
  BY <1>2, <1>3, <1>8
<1>9. ASSUME NEW m \in Lines, m \notin lost'
      PROVE  /\ orphans'[m] = orphans[m]
             /\ status'[m] = "pending" /\ sends'[m] >= 1 =>
                  \/ WentOut(k)' /\ Line(k)' = m
                  \/ status[m] = "pending" /\ sends[m] >= 1 /\ ~(WentOut(k) /\ L = m)
  <2>1. orphans'[m] = orphans[m]
    BY <1>2, <1>9
  <2>2. status'[m] = "pending" => status[m] = "pending"
    BY <1>2
  <2> QED BY <1>2, <1>9, <2>1, <2>2
<1>10. \A m \in Lines : sends'[m] >= sends[m]
  BY <1>2, <1>5
<1>11. WentOut(k)' => sends'[Line(k)'] >= 1
  BY <1>2, <1>3, <1>4
<1>12. \A j \in Tasks \ {k} : task'[j] = task[j] /\ answer'[j] = answer[j]
  BY <1>0, <1>1
<1> QED BY <1>2, <1>7, <1>8, <1>9, <1>10, <1>11, <1>12 DEF Notes, L

LEMMA SendNotes ==
  ASSUME TypeOK, Shape, Noted, NEW k \in Tasks, HandleSend(k)
  PROVE  Notes(k)
<1> DEFINE L == Line(k)
<1>0. /\ answer[k] = "send" /\ task[k].at = "waiting" /\ task[k].lines # {}
      /\ L \in Lines /\ L \in task[k].lines /\ ~WentOut(k)
  BY LineOfTask DEF HandleSend, Shape, WentOut
<1>1. /\ UNCHANGED <<status, orphans>> /\ lost \subseteq lost'
      /\ task'[k].lines = task[k].lines /\ task'[k].at = "waiting"
      /\ \A j \in Tasks \ {k} : task'[j] = task[j] /\ answer'[j] = answer[j]
  BY <1>0 DEF HandleSend, TypeOK, rows
<1>2. Line(k)' = L /\ (WentOut(k)' <=> answer'[k] = "ok")
  BY <1>1 DEF Line, WentOut
<1>3. \/ /\ sends' = [sends EXCEPT ![L] = @ + 1]
         /\ answer'[k] = "ok" \/ L \in lost'
      \/ sends' = sends /\ answer'[k] = "nack"
  BY <1>0, StakeIsLines DEF HandleSend, TypeOK
<1>4. \A m \in Lines : /\ sends[m] \in Nat
                       /\ sends'[m] \in {sends[m], sends[m] + 1}
                       /\ m # L => sends'[m] = sends[m]
  BY <1>3 DEF TypeOK
<1>5. WentOut(k)' => sends'[L] >= 1
  <2>1. WentOut(k)' => sends'[L] = sends[L] + 1
    BY <1>0, <1>2, <1>3 DEF TypeOK
  <2> QED BY <1>0, <1>4, <2>1
<1>6. \A m \in Lines : status[m] = "none" => m # L /\ m \notin task[k].lines
  BY <1>0 DEF Noted, Held
<1>7. \A m \in Lines : status[m] = "sent" => sends[m] >= 1
  BY DEF Noted
<1>8. L \notin lost' => WentOut(k)' \/ sends' = sends
  BY <1>2, <1>3
<1> HIDE DEF L
<1>9. ASSUME NEW m \in Lines, m \notin lost', status'[m] = "pending", sends'[m] >= 1
      PROVE  \/ WentOut(k)' /\ Line(k)' = m
             \/ status[m] = "pending" /\ sends[m] >= 1 /\ ~(WentOut(k) /\ L = m)
  BY <1>0, <1>1, <1>2, <1>4, <1>8, <1>9
<1>10. \A m \in Lines : sends'[m] >= sends[m]
  BY <1>4
<1> QED BY <1>1, <1>2, <1>4, <1>5, <1>6, <1>7, <1>9, <1>10 DEF Notes, L

LEMMA BeginNotes ==
  ASSUME TypeOK, Shape, Noted, NEW k \in Tasks, Begin(k)
  PROVE  Notes(k)
<1>1. /\ answer' = answer /\ ~WentOut(k) /\ ~(WentOut(k)')
      /\ \A j \in Tasks \ {k} : task'[j] = task[j]
  BY Begins DEF Shape, WentOut
<1>2. /\ UNCHANGED <<orphans, sends>> /\ lost' = lost
      /\ \A m \in Lines :
           \/ status'[m] = status[m] /\ (m \in task'[k].lines => status[m] # "none")
           \/ status[m] = "none" /\ status'[m] = "pending"
  <2>1. CASE OnHello(k)
    <3>1. task'[k].lines = PendingSends /\ UNCHANGED <<orphans, sends, lost, status>>
      BY <2>1 DEF OnHello, TypeOK, rows, whatsapp
    <3> QED BY <3>1 DEF PendingSends
  <2>2. ASSUME NEW n \in Lines, Enqueue(k, n) \/ EnqueueText(k, n)
        PROVE  /\ UNCHANGED <<orphans, sends, lost>>
               /\ status[n] = "none" /\ status' = [status EXCEPT ![n] = "pending"]
               /\ task'[k].lines = task[k].lines \cup {n}
    <3>1. Queue(n)
      BY <2>2 DEF Enqueue, EnqueueText
    <3>2. CASE Enqueue(k, n)
      <4>1. PICK at \in {"hand", "spoken"} :
              task' = [task EXCEPT ![k] = [Free EXCEPT !.at = at, !.lines = {n}]]
        BY <3>2 DEF Enqueue
      <4>2. task[k].lines = {} /\ task'[k].lines = {n}
        BY <3>2, <4>1 DEF Enqueue, Free, TypeOK
      <4> QED BY <3>1, <4>2 DEF Queue, whatsapp, history
    <3>3. CASE EnqueueText(k, n)
      <4>1. task'[k].lines = task[k].lines \cup {n}
        BY <3>3 DEF EnqueueText, TypeOK
      <4> QED BY <3>1, <4>1 DEF Queue, whatsapp, history
    <3> QED BY <2>2, <3>2, <3>3
  <2>3. CASE \E n \in Lines : Enqueue(k, n) \/ EnqueueText(k, n)
    <3>1. PICK n \in Lines : Enqueue(k, n) \/ EnqueueText(k, n)
      BY <2>3
    <3>2. \A m \in Lines : status'[m] = IF m = n THEN "pending" ELSE status[m]
      BY <2>2, <3>1 DEF TypeOK
    <3>3. \A m \in task[k].lines : status[m] # "none"
      BY DEF Noted, Held, TypeOK
    <3> QED BY <2>2, <3>1, <3>2, <3>3
  <2> QED BY <2>1, <2>3 DEF Begin
<1>3. \A m \in Lines : /\ sends[m] \in Nat
                       /\ status[m] = "none" => sends[m] = 0
  BY DEF TypeOK, Noted
<1>4. \A m \in Lines : sends'[m] >= sends[m]
  BY <1>2, <1>3
<1>5. ASSUME NEW m \in Lines, status'[m] = "pending", sends'[m] >= 1
      PROVE  status[m] = "pending" /\ sends[m] >= 1
  BY <1>2, <1>3, <1>5
<1> QED BY <1>1, <1>2, <1>4, <1>5 DEF Notes

LEMMA DropNotes ==
  ASSUME TypeOK, Shape, Noted, NEW k \in Tasks, Drop(k)
  PROVE  Notes(k)
<1>1. /\ UNCHANGED <<status, orphans, sends>>
      /\ \A j \in Tasks \ {k} : task'[j] = task[j] /\ answer'[j] = answer[j]
      /\ task'[k].lines = {} /\ lost \subseteq lost'
      /\ WentOut(k) => Line(k) \in lost'
      /\ ~(WentOut(k)')
  BY Drops DEF rows, WentOut
<1>2. \A m \in Lines : sends'[m] >= sends[m]
  BY <1>1 DEF TypeOK
<1> QED BY <1>1, <1>2 DEF Notes

LEMMA NotedStep == TypeOK /\ Shape /\ Noted /\ [Next]_vars => Noted'
<1> SUFFICES ASSUME TypeOK, Shape, Noted, [Next]_vars PROVE Noted'
  OBVIOUS
<1>0. TypeOK'
  BY TypeStep
<1>1. ASSUME NEW k \in Tasks, Begin(k) \/ Drop(k) \/ Dispatch(k) \/ HandleSend(k)
      PROVE  Noted'
  BY <1>0, <1>1, BeginNotes, DropNotes, DispatchNotes, SendNotes, NotesKeep
<1>2. ASSUME NEW n \in Lines, HandleOrphan(n) PROVE Noted'
  <2>1. /\ n \in lost /\ status[n] # "none" /\ UNCHANGED <<status, task, answer, lost>>
        /\ \A m \in Lines \ {n} : orphans'[m] = orphans[m] /\ sends'[m] = sends[m]
        /\ sends[n] \in Nat /\ sends'[n] \in {sends[n], sends[n] + 1}
    BY <1>2 DEF HandleOrphan, Noted, TypeOK, rows, history
  <2>2. \A k \in Tasks : Line(k)' = Line(k) /\ (WentOut(k)' <=> WentOut(k))
    BY <2>1 DEF Line, WentOut
  <2>3. \A m \in Lines : /\ sends[m] >= 1 => sends'[m] >= 1
                         /\ Held(m)' <=> Held(m)
    BY <2>1 DEF Held
  <2>4. ASSUME NEW k \in Tasks, WentOut(k) PROVE sends'[Line(k)] >= 1
    <3>1. Line(k) \in Lines
      BY <2>4, LineOfTask DEF WentOut, Shape
    <3> QED BY <2>3, <2>4, <3>1 DEF Noted
  <2>5. \A m \in Lines : /\ status'[m] = "none" => ~(Held(m)') /\ sends'[m] = 0 /\ orphans'[m] = 0
                         /\ status'[m] = "sent" => sends'[m] >= 1
    BY <2>1, <2>3 DEF Noted
  <2>6. \A m \in Lines \ lost' :
          /\ orphans'[m] = 0
          /\ status'[m] = "pending" /\ sends'[m] >= 1 =>
               \E k \in Tasks : WentOut(k)' /\ Line(k)' = m
    BY <2>1, <2>2 DEF Noted
  <2> QED BY <2>2, <2>4, <2>5, <2>6 DEF Noted
<1>3. ASSUME Restart PROVE Noted'
  <2>1. /\ UNCHANGED <<status, sends>> /\ lost' = lost \cup AtStake(Tasks)
        /\ \A k \in Tasks : ~(WentOut(k)') /\ task'[k].lines = {}
        /\ \A m \in Lines : orphans'[m] =
             orphans[m] + Cardinality({k \in Tasks : answer[k] = "send" /\ Line(k) = m})
    BY <1>3 DEF Restart, rows, Free, WentOut
  <2>2. ASSUME NEW m \in Lines, \A k \in Tasks : answer[k] = "send" => Line(k) # m
        PROVE  orphans'[m] = orphans[m]
    <3>1. {k \in Tasks : answer[k] = "send" /\ Line(k) = m} = {}
      BY <2>2
    <3> QED BY <2>1, <3>1, FS_EmptySet DEF TypeOK
  <2>3. ASSUME NEW m \in Lines, status[m] = "none" PROVE orphans'[m] = 0
    <3>1. ~Held(m) /\ orphans[m] = 0
      BY <2>3 DEF Noted
    <3>2. \A k \in Tasks : answer[k] = "send" => Line(k) # m
      BY <3>1, LineOfTask DEF Held, Shape
    <3> QED BY <2>2, <3>1, <3>2
  <2>4. ASSUME NEW m \in Lines \ lost'
        PROVE  orphans'[m] = 0 /\ ~(status[m] = "pending" /\ sends[m] >= 1)
    <3>1. m \notin lost /\ \A k \in Tasks : answer[k] = "send" \/ WentOut(k) => Line(k) # m
      BY <2>1, StakeIsLines
    <3> QED BY <2>2, <3>1 DEF Noted
  <2>5. \A m \in Lines : ~(Held(m)')
    BY <2>1 DEF Held
  <2> QED BY <2>1, <2>3, <2>4, <2>5 DEF Noted
<1>4. ASSUME UNCHANGED <<status, task, whatsapp, lost>> PROVE Noted'
  BY <1>4 DEF Noted, Held, WentOut, Line, whatsapp
<1> QED BY <1>1, <1>2, <1>3, <1>4
        DEF Next, Begin, Drop, AnswersEcho, vars, rows, history

-----------------------------------------------------------------------------
(* Before anything is said. *)
LEMMA InitInv == Init => IInv
<1> SUFFICES ASSUME Init PROVE IInv
  OBVIOUS
<1>1. TypeOK
  BY OutboxAssumption, FreeTyped DEF Init, TypeOK, TaskType
<1>2. Shape /\ Recorded
  BY DEF Init, Shape, Recorded, Free
<1>3. QuietRows
  BY DEF Init, QuietRows, Quiet, Held, Free
<1>4. Noted
  BY DEF Init, Noted, Held, Free, WentOut
<1> QED BY <1>1, <1>2, <1>3, <1>4 DEF IInv

(* The invariant holds in every state. *)
LEMMA InvAlways == Spec => []IInv
<1>1. IInv /\ [Next]_vars => IInv'
  BY TypeStep, ShapeStep, RecordedStep, QuietStep, NotedStep DEF IInv
<1> QED BY InitInv, <1>1, PTL DEF Spec

(* Rows, calls and messages keep their types. *)
THEOREM TypeCorrect == Spec => []TypeOK
<1>1. IInv => TypeOK
  BY DEF IInv
<1> QED BY InvAlways, <1>1, PTL

(* However many calls hold rows and however often bridge, statements and   *)
(* server fail: the line of a row marked sent is out; a line that is out   *)
(* while its row is pending has a dispatch that will mark it, unless one   *)
(* lost sight of it; and it went out once at most, not at all if given up, *)
(* unless besides two calls held its row at once.                          *)
THEOREM OutboxTellsTruth == Spec => []OutboxIsTrue
<1>1. ASSUME IInv PROVE OutboxIsTrue
  <2>1. \A m \in Lines : status[m] = "sent" => sends[m] >= 1
    BY <1>1 DEF IInv, Noted
  <2>2. \A m \in Lines \ lost : status[m] = "pending" /\ sends[m] >= 1 =>
          \E k \in Tasks : WentOut(k) /\ Line(k) = m
    BY <1>1 DEF IInv, Noted
  <2>3. ASSUME NEW m \in Lines \ (lost \cup crossed)
        PROVE  sends[m] <= 1 /\ (status[m] = "failed" => sends[m] = 0)
    <3>1. Quiet(m)
      BY <1>1 DEF IInv, QuietRows
    <3>2. CASE ~Held(m)
      BY <3>1, <3>2 DEF Quiet
    <3>3. CASE Held(m)
      <4>1. PICK k \in Tasks : m \in task[k].lines
        BY <3>3 DEF Held
      <4>2. status[m] = "pending" /\ sends[m] = IF WentOut(k) /\ m = Line(k) THEN 1 ELSE 0
        BY <3>1, <4>1 DEF Quiet
      <4> QED BY <4>2
    <3> QED BY <3>2, <3>3
  <2> QED BY <2>1, <2>2, <2>3 DEF OutboxIsTrue
<1> QED BY InvAlways, <1>1, PTL

(* No echo of a line that is recorded as sent is ever answered, if its id  *)
(* could be claimed.                                                       *)
THEOREM RecordedNeverAnswered == Spec => RecordedIsNotAnswered
<1>1. ASSUME IInv
      PROVE  \A m \in Lines :
               providerId[m] \notin unclaimed \cup {NoId} => ~AnswersEcho(providerId[m])
  BY <1>1 DEF IInv, Recorded, AnswersEcho
<1> QED BY InvAlways, <1>1, PTL DEF RecordedIsNotAnswered
=============================================================================
