---------------------------- MODULE BridgeOutbox ----------------------------
(***************************************************************************)
(* What Stewra says in a person's own WhatsApp: the rows of                *)
(* whatsapp_outbound, their dispatch through the bridge on the person's    *)
(* computer, and the echo of what was said (whatsappBridgeService,         *)
(* whatsappStore, bridgeEmitter and bridgeHandler on the server; bridge    *)
(* and stewraClient on the computer).                                      *)
(*                                                                         *)
(* A task is one call of sendText, sendSpokenAndText or drainOutbox: it    *)
(* dispatches its lines one after the other, each dispatch a sequence of   *)
(* awaited statements.  Nothing keeps two tasks from holding the same row. *)
(* Bridges come and go, and WhatsApp with them: whether one is online, and *)
(* open, is settled anew wherever the code asks.                           *)
(***************************************************************************)
EXTENDS Naturals, FiniteSets

CONSTANTS Lines,         \* bound: outbox rows, numbered as they are queued
          Tasks,         \* bound: calls under way at a time
          MaxAttempts,   \* MAX_SEND_ATTEMPTS
          MaxSends,      \* bound: how often WhatsApp takes one line
          MaxFaults      \* bound: acks that do not come, statements that fail, early
                         \* echoes, restarts

ASSUME OutboxAssumption ==
  /\ Lines \subseteq Nat \ {0} /\ IsFiniteSet(Lines) /\ IsFiniteSet(Tasks)
  /\ MaxAttempts \in Nat \ {0} /\ MaxSends \in Nat \ {0} /\ MaxFaults \in Nat

VARIABLES
  (* the server *)
  status,      \* whatsapp_outbound.status, "none" before the row exists
  attempts,
  providerId,  \* provider_message_id: the id the row was recorded sent with
  task,        \* per task: where its dispatch is, its lines, the id it was told
  claimed,     \* channel_inbound_messages: ids that will not be answered (again)
  (* the bridge and WhatsApp *)
  answer,      \* per task: its SEND on the way, then the bridge's ack
  orphans,     \* per line: SENDs at the bridge whose ack nobody awaits
  sends,       \* per line: how often WhatsApp took it
  (* history *)
  crossed,     \* lines two tasks held at once
  lost,        \* lines a dispatch lost sight of when they were out, or might be
  unclaimed,   \* ids whose claim failed, unnoticed
  faults

rows == <<status, attempts, providerId>>
whatsapp == <<answer, orphans, sends>>
history == <<crossed, lost, unclaimed, faults>>
vars == <<rows, task, claimed, whatsapp, history>>

NoId == <<0, 0>>
Free == [at |-> "idle", lines |-> {}, id |-> NoId]

Init ==
  /\ status = [m \in Lines |-> "none"] /\ attempts = [m \in Lines |-> 0]
  /\ providerId = [m \in Lines |-> NoId]
  /\ task = [k \in Tasks |-> Free] /\ claimed = {}
  /\ answer = [k \in Tasks |-> "none"]
  /\ orphans = [m \in Lines |-> 0] /\ sends = [m \in Lines |-> 0]
  /\ crossed = {} /\ lost = {} /\ unclaimed = {} /\ faults = 0

Held(m) == \E k \in Tasks : m \in task[k].lines

(* The one a task is at: it takes the oldest first. *)
Line(k) == CHOOSE m \in task[k].lines : \A n \in task[k].lines : m <= n

(* WhatsApp has the line a task is at, as its bridge said or will say. *)
WentOut(k) == answer[k] = "ok" \/ task[k].at \in {"claim", "mark"}

(* The lines some tasks are at that are out, or may yet be. *)
AtStake(K) == {Line(k) : k \in {j \in K : answer[j] = "send" \/ WentOut(j)}}

(* An id WhatsApp gave: the line, and which of its sends it was. *)
Id(m, n) == <<m, n>>

-----------------------------------------------------------------------------
(* The insert: m is the next row. *)
Queue(m) ==
  /\ status[m] = "none" /\ \A n \in Lines : n < m => status[n] # "none"
  /\ status' = [status EXCEPT ![m] = "pending"]
  /\ UNCHANGED <<attempts, providerId, claimed, whatsapp, history>>

(* A turn, or a session's relay, has something to say: sendText; or the    *)
(* voice note that sendSpokenAndText queues first.                         *)
Enqueue(k, m) ==
  /\ task[k] = Free
  /\ Queue(m)
  /\ \E at \in {"hand", "spoken"} :
       task' = [task EXCEPT ![k] = [Free EXCEPT !.at = at, !.lines = {m}]]

(* What the voice note says, as text; then both are dispatched. *)
EnqueueText(k, m) ==
  /\ task[k].at = "spoken"
  /\ Queue(m)
  /\ task' = [task EXCEPT ![k].at = "hand", ![k].lines = @ \cup {m}]

(* Seeded defect: what was sent is looked for again. *)
NotGivenUp == {m \in Lines : status[m] \in {"pending", "sent"}}

PendingSends == {m \in Lines : status[m] = "pending"}

(* A bridge connects with WhatsApp open: onBridgeOnline, drainOutbox.  One  *)
(* that says hello before WhatsApp has opened is marked as seen, then and   *)
(* when it opens, and drains nothing.                                       *)
OnHello(k) ==
  /\ task[k] = Free /\ PendingSends # {}
  /\ task' = [task EXCEPT ![k] = [Free EXCEPT !.at = "hand", !.lines = PendingSends]]
  /\ crossed' = crossed \cup {m \in PendingSends : Held(m)}
  /\ UNCHANGED <<rows, claimed, whatsapp, lost, unclaimed, faults>>

-----------------------------------------------------------------------------
(* dispatch(), of the first of the task's lines.                           *)

Reach(k, at) == task' = [task EXCEPT ![k].at = at]

(* The dispatch returns: sendText is over, drainOutbox takes the next line.*)
Return(k) ==
  task' = [task EXCEPT ![k] =
    IF task[k].lines = {Line(k)} THEN Free
    ELSE [Free EXCEPT !.at = "hand", !.lines = task[k].lines \ {Line(k)}]]

(* markFailed, markSent: by id, whatever the row says. *)
Mark(m, s) == status' = [status EXCEPT ![m] = s]

(* withinSendBudget and dispatchToBridge.  The line is given up past the   *)
(* budget, or when the bridge is too old; it stays pending when nobody is  *)
(* online; else it is handed to the bridge.                                *)
Hand(k) ==
  /\ task[k].at = "hand"
  /\ \/ Mark(Line(k), "failed") /\ Return(k) /\ UNCHANGED answer
     \/ Return(k) /\ UNCHANGED <<status, answer>>
     \/ /\ answer' = [answer EXCEPT ![k] = "send"]
        /\ Reach(k, "waiting")
        /\ UNCHANGED status
  /\ UNCHANGED <<attempts, providerId, claimed, orphans, sends, history>>

(* markAttemptFailed: the row stays pending until it was tried too often. *)
AttemptFails(k) ==
  /\ attempts' = [attempts EXCEPT ![Line(k)] = @ + 1]
  /\ IF attempts[Line(k)] + 1 >= MaxAttempts THEN Mark(Line(k), "failed") ELSE UNCHANGED status
  /\ Return(k)

(* Seeded defect: the row is marked before the id is claimed. *)
MarkFirst(at) == IF at = "waiting" THEN "mark" ELSE IF at = "mark" THEN "claim" ELSE "over"

(* The id is claimed, then the row is marked. *)
ClaimFirst(at) == IF at = "waiting" THEN "claim" ELSE IF at = "claim" THEN "mark" ELSE "over"

GoOn(k) == IF ClaimFirst(task[k].at) = "over" THEN Return(k) ELSE Reach(k, ClaimFirst(task[k].at))

AckArrives(k) ==
  /\ task[k].at = "waiting" /\ answer[k] \in {"ok", "nack"}
  /\ IF answer[k] = "ok" THEN GoOn(k) /\ UNCHANGED <<status, attempts>> ELSE AttemptFails(k)
  /\ answer' = [answer EXCEPT ![k] = "none"]
  /\ UNCHANGED <<providerId, claimed, orphans, sends, history>>

(* `ack_timeout`, also of a bridge that is gone, is a failed attempt; what *)
(* is at the bridge stays there.                                           *)
AckTimesOut(k) ==
  /\ task[k].at = "waiting"
  /\ faults < MaxFaults /\ faults' = faults + 1
  /\ AttemptFails(k)
  /\ lost' = lost \cup AtStake({k})
  /\ orphans' = IF answer[k] = "send" THEN [orphans EXCEPT ![Line(k)] = @ + 1] ELSE orphans
  /\ answer' = [answer EXCEPT ![k] = "none"]
  /\ UNCHANGED <<providerId, claimed, sends, crossed, unclaimed>>

(* claimInboundMessage, on the id the bridge told.  An insert that fails   *)
(* answers as one that finds the id claimed, and the answer is not looked  *)
(* at: the dispatch goes on to mark the row either way.                    *)
ClaimOwn(k) ==
  /\ task[k].at = "claim"
  /\ \/ claimed' = claimed \cup {task[k].id} /\ UNCHANGED <<unclaimed, faults>>
     \/ /\ faults < MaxFaults /\ faults' = faults + 1
        /\ unclaimed' = unclaimed \cup {task[k].id}
        /\ UNCHANGED claimed
  /\ GoOn(k)
  /\ UNCHANGED <<rows, whatsapp, crossed, lost>>

(* markSent; the line is then stored among the chat's messages. *)
MarkSent(k) ==
  /\ task[k].at = "mark"
  /\ Mark(Line(k), "sent")
  /\ providerId' = [providerId EXCEPT ![Line(k)] = task[k].id]
  /\ GoOn(k)
  /\ UNCHANGED <<attempts, claimed, whatsapp, history>>

(* The call throws before its line is handed over, the voice note's clip   *)
(* being gone say: what it had left to dispatch stays pending.             *)
ClipIsGone(k) ==
  /\ task[k].at = "hand"
  /\ task' = [task EXCEPT ![k] = Free]
  /\ UNCHANGED <<rows, claimed, whatsapp, history>>

(* So it does when the row cannot be marked, as sent or as tried in vain.  *)
MarkFails(k) ==
  /\ task[k].at = "mark" \/ answer[k] = "nack"
  /\ faults < MaxFaults /\ faults' = faults + 1
  /\ lost' = lost \cup AtStake({k})
  /\ task' = [task EXCEPT ![k] = Free]
  /\ answer' = [answer EXCEPT ![k] = "none"]
  /\ UNCHANGED <<rows, claimed, orphans, sends, crossed, unclaimed>>

-----------------------------------------------------------------------------
(* The computer.                                                           *)

(* handleSend: WhatsApp takes the line; or it does not, for want of a      *)
(* connection or of the message to quote; or it does and names no id, or   *)
(* the server cannot read the ack, which counts as a nack as well.         *)
HandleSend(k) ==
  /\ answer[k] = "send"
  /\ \/ /\ sends[Line(k)] < MaxSends
        /\ sends' = [sends EXCEPT ![Line(k)] = @ + 1]
        /\ \/ /\ answer' = [answer EXCEPT ![k] = "ok"]
              /\ task' = [task EXCEPT ![k].id = Id(Line(k), sends'[Line(k)])]
              /\ UNCHANGED lost
           \/ /\ answer' = [answer EXCEPT ![k] = "nack"]
              /\ lost' = lost \cup AtStake({k})
              /\ UNCHANGED task
     \/ answer' = [answer EXCEPT ![k] = "nack"] /\ UNCHANGED <<sends, task, lost>>
  /\ UNCHANGED <<rows, claimed, orphans, crossed, unclaimed, faults>>

HandleOrphan(m) ==
  /\ orphans[m] > 0
  /\ orphans' = [orphans EXCEPT ![m] = @ - 1]
  /\ \/ sends[m] < MaxSends /\ sends' = [sends EXCEPT ![m] = @ + 1]
     \/ UNCHANGED sends
  /\ UNCHANGED <<rows, task, claimed, answer, history>>

(* Another device of the person's forwards what Stewra said, and onInbound *)
(* claims it: a turn is run on it unless it was claimed already.           *)
AnswersEcho(id) ==
  /\ id[2] \in 1 .. sends[id[1]] /\ id \notin claimed
  /\ claimed' = claimed \cup {id}
  /\ faults < MaxFaults /\ faults' = faults + 1
  /\ UNCHANGED <<rows, task, whatsapp, crossed, lost, unclaimed>>

-----------------------------------------------------------------------------
(* The server's calls are gone; what is at the bridge is still handled. *)
Restart ==
  /\ faults < MaxFaults /\ faults' = faults + 1
  /\ orphans' = [m \in Lines |-> orphans[m] + Cardinality({k \in Tasks : answer[k] = "send" /\ Line(k) = m})]
  /\ answer' = [k \in Tasks |-> "none"]
  /\ task' = [k \in Tasks |-> Free]
  /\ lost' = lost \cup AtStake(Tasks)
  /\ UNCHANGED <<rows, claimed, sends, crossed, unclaimed>>

Dispatch(k) == Hand(k) \/ AckArrives(k) \/ AckTimesOut(k) \/ ClaimOwn(k) \/ MarkSent(k)

Next ==
  \/ \E k \in Tasks :
       \/ \E m \in Lines : Enqueue(k, m) \/ EnqueueText(k, m)
       \/ OnHello(k) \/ Dispatch(k) \/ ClipIsGone(k) \/ MarkFails(k) \/ HandleSend(k)
  \/ \E m \in Lines : HandleOrphan(m) \/ \E n \in 1 .. sends[m] : AnswersEcho(Id(m, n))
  \/ Restart

Spec == Init /\ [][Next]_vars
-----------------------------------------------------------------------------
TypeOK ==
  /\ status \in [Lines -> {"none", "pending", "sent", "failed"}] /\ attempts \in [Lines -> Nat]
  /\ providerId \in [Lines -> Nat \X Nat]
  /\ task \in [Tasks -> [at : {"idle", "spoken", "hand", "waiting", "claim", "mark"},
                         lines : SUBSET Lines, id : Nat \X Nat]]
  /\ claimed \subseteq Nat \X Nat /\ unclaimed \subseteq Nat \X Nat
  /\ answer \in [Tasks -> {"none", "send", "ok", "nack"}]
  /\ orphans \in [Lines -> Nat] /\ sends \in [Lines -> Nat]
  /\ crossed \subseteq Lines /\ lost \subseteq Lines /\ faults \in 0 .. MaxFaults

(* What an outbox row says is true of what went out.                       *)
(*   - Of every row: WhatsApp has the line of one marked sent.             *)
(*   - Unless a dispatch lost sight of it: a line that is out, and whose   *)
(*     row is still pending, has a dispatch under way that will mark it.   *)
(*   - Unless, besides, two tasks held it at once: it went out once at     *)
(*     most, and not at all if its row was given up.                       *)
(* A dispatch loses sight of a line that is out, or may yet be, when it    *)
(* stops waiting for the ack, when a line WhatsApp took is acknowledged as *)
(* failed or without its id, when the row cannot be marked, and when the   *)
(* server restarts on the way.                                             *)
OutboxIsTrue ==
  \A m \in Lines :
    /\ status[m] = "sent" => sends[m] >= 1
    /\ m \notin lost /\ status[m] = "pending" /\ sends[m] >= 1 =>
         \E k \in Tasks : WentOut(k) /\ Line(k) = m
    /\ m \notin lost \cup crossed =>
         sends[m] <= 1 /\ (status[m] = "failed" => sends[m] = 0)

(* No turn is run on a message of Stewra's own once the outbox has it down *)
(* as sent, if its id could be claimed: its echo may overtake the ack,     *)
(* never the record.                                                       *)
RecordedIsNotAnswered ==
  [][\A m \in Lines : providerId[m] \notin unclaimed \cup {NoId} => ~AnswersEcho(providerId[m])]_vars
=============================================================================
