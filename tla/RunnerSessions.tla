--------------------------- MODULE RunnerSessions ---------------------------
(***************************************************************************)
(* One coding session, on both sides of the socket: its row in             *)
(* runner_sessions and the server's handlers (runnerSessionService,        *)
(* runnerSessionRepository, runnerHandler, runnerEmitter), and the session *)
(* on the machine that runs it (sessionManager, stewraRunnerClient,        *)
(* workspace).  Sessions are independent but for the machine's cap on      *)
(* finished ones it retains: Evict is what the others' completions do.     *)
(*                                                                         *)
(* Events travel in order each way; what the machine emits while it is     *)
(* disconnected waits for the next connection, what was in flight at a     *)
(* disconnect is lost.  The server starts a handler per event and awaits   *)
(* in it, so the statements of its handlers take effect in any order.  An  *)
(* event that is not as its schema wants it is dropped, and a handler      *)
(* whose statement throws is given up; neither is told to the machine.     *)
(***************************************************************************)
EXTENDS Naturals, Sequences

CONSTANTS MaxTurns,      \* bound: the opening turn and the follow-ups
          MaxRequests,   \* bound: requests of members
          MaxAsks,       \* bound: permissions the harness asks for
          MaxFaults      \* bound: disconnects, deaths of the machine, events and statements dropped

ASSUME RunnerAssumption ==
  MaxTurns \in Nat \ {0} /\ MaxRequests \in Nat /\ MaxAsks \in Nat /\ MaxFaults \in Nat

Turns == 1 .. MaxTurns
Outcomes == {"completed", "failed", "cancelled"}
Relayed == {"prompt", "decide", "cancel", "push"}
Writes == {"running", "awaiting-permission", "device_offline", "pushed"} \cup Outcomes

VARIABLES
  (* the server *)
  row,         \* [status, ended, branch, pushed]; ended: ended_at is set
  dispatch,    \* where dispatch() is: "no", "created", "waiting", "over"
  requests,    \* per kind, requests that found the session as they need it
  writes,      \* per kind, statements handlers have yet to make
  (* the socket *)
  online, toRunner, toServer,
  ack,         \* the answer to START_SESSION on its way
  (* the machine *)
  starting,    \* start() is cutting the worktree or launching the harness
  live,        \* the session is in `sessions`
  disposed,    \* its harness process was killed
  turns,       \* "no", "running" (acp.prompt), "saving" (diff, commit), "over"
  asked,       \* permission prompts awaiting a decision
  cancelling,  \* cancel() awaits the harness
  removing,    \* teardown is removing the worktree and its branch
  retained,    \* the session is in `completed`
  worktree, branch,   \* "none", "kept", "removed"
  (* history *)
  reported,    \* the session-done the machine emitted, "none" before
  calm,        \* it was recorded with nothing else under way
  raced,       \* a turn completed while a cancel awaited the harness
  evicted,
  died,        \* the machine died
  dropped,     \* ways a report of the end was lost: with the "connection",
               \* to the "schema" of the event, with its "statement"
  made, faults

server == <<row, dispatch, requests, writes>>
wire == <<online, toRunner, toServer, ack>>
process == <<starting, live, disposed, turns, asked, cancelling, removing, retained>>
disk == <<worktree, branch>>
history == <<reported, calm, raced, evicted, died, dropped, made, faults>>
vars == <<server, wire, process, disk, history>>

Init ==
  /\ row = [status |-> "none", ended |-> FALSE, branch |-> FALSE, pushed |-> FALSE]
  /\ dispatch = "no"
  /\ requests = [q \in Relayed |-> 0]
  /\ writes = [w \in Writes |-> 0]
  /\ online \in BOOLEAN /\ toRunner = <<>> /\ toServer = <<>> /\ ack = "none"
  /\ starting = FALSE /\ live = FALSE /\ disposed = FALSE
  /\ turns = [t \in Turns |-> "no"]
  /\ asked = 0 /\ cancelling = FALSE /\ removing = FALSE /\ retained = FALSE
  /\ worktree = "none" /\ branch = "none"
  /\ reported = "none" /\ calm = FALSE /\ raced = FALSE
  /\ evicted = FALSE /\ died = FALSE /\ dropped = {}
  /\ made = [requests |-> 0, asks |-> 0] /\ faults = 0

-----------------------------------------------------------------------------
(* Starting a session: the row, then the machine, then its answer.         *)

Create ==
  /\ dispatch = "no"
  /\ dispatch' = "created"
  /\ row' = [row EXCEPT !.status = "starting"]
  /\ UNCHANGED <<requests, writes, wire, process, disk, history>>

Owe(w) == writes' = [writes EXCEPT ![w] = @ + 1]

(* startSessionOnRunner: a machine that is offline, or that was not woken  *)
(* in time, fails the session.                                             *)
SendStart ==
  /\ dispatch = "created"
  /\ \/ /\ online
        /\ toRunner' = Append(toRunner, "start")
        /\ dispatch' = "waiting"
        /\ UNCHANGED writes
     \/ /\ ~online
        /\ dispatch' = "over"
        /\ Owe("device_offline")
        /\ UNCHANGED toRunner
  /\ UNCHANGED <<row, requests, online, toServer, ack, process, disk, history>>

AckArrives ==
  /\ dispatch = "waiting" /\ online /\ ack # "none"
  /\ dispatch' = "over"
  /\ Owe(IF ack = "accepted" THEN "running" ELSE "device_offline")
  /\ ack' = "none"
  /\ UNCHANGED <<row, requests, online, toRunner, toServer, process, disk, history>>

(* The session is failed; the machine may have it all the same. *)
AckTimesOut ==
  /\ dispatch = "waiting"
  /\ dispatch' = "over"
  /\ Owe("device_offline")
  /\ UNCHANGED <<row, requests, wire, process, disk, history>>

-----------------------------------------------------------------------------
(* Members' requests: a read of the row, the event, a write.               *)

(* Seeded defect: the status is looked at, and not whether it has ended. *)
ActiveByStatus == row.status # "none"

(* requireActive *)
Active == row.status # "none" /\ ~row.ended

(* requireFinishedWithBranch *)
Pushable == row.ended /\ row.branch

Request(q) ==
  /\ made.requests < MaxRequests
  /\ IF q = "push" THEN Pushable ELSE Active
  /\ requests' = [requests EXCEPT ![q] = @ + 1]
  /\ made' = [made EXCEPT !.requests = @ + 1]
  /\ UNCHANGED <<row, dispatch, writes, wire, process, disk,
                 reported, calm, raced, evicted, died, dropped, faults>>

(* Without the machine the request is refused and nothing is written.      *)
Relay(q) ==
  /\ requests[q] > 0
  /\ requests' = [requests EXCEPT ![q] = @ - 1]
  /\ \/ /\ online
        /\ toRunner' = Append(toRunner, q)
        /\ IF q \in {"prompt", "decide"} THEN Owe("running") ELSE UNCHANGED writes
     \/ /\ ~online
        /\ UNCHANGED <<toRunner, writes>>
  /\ UNCHANGED <<row, dispatch, online, toServer, ack, process, disk, history>>

-----------------------------------------------------------------------------
(* handlePermissionRequest, handleDone, the answer to a push: the handler  *)
(* looks the session up and then writes.                                   *)
Receive ==
  /\ online /\ toServer # <<>>
  /\ toServer' = Tail(toServer)
  /\ Owe(Head(toServer))
  /\ UNCHANGED <<row, dispatch, requests, online, toRunner, ack, process, disk, history>>

(* What the harness worded - the message of a failure, the options of a    *)
(* permission - may be longer than the schema takes: the event is dropped. *)
Worded == {"failed", "awaiting-permission"}

Malformed ==
  /\ online /\ toServer # <<>> /\ Head(toServer) \in Worded
  /\ faults < MaxFaults /\ faults' = faults + 1
  /\ toServer' = Tail(toServer)
  /\ dropped' = IF Head(toServer) \in Outcomes THEN dropped \cup {"schema"} ELSE dropped
  /\ UNCHANGED <<server, online, toRunner, ack, process, disk,
                 reported, calm, raced, evicted, died, made>>

NothingElse(w) ==
  /\ dispatch = "over"
  /\ \A o \in Writes : writes[o] = IF o = w THEN 1 ELSE 0
  /\ requests["prompt"] = 0 /\ requests["decide"] = 0

StatusOf(w) == IF w = "device_offline" THEN "failed" ELSE w

(* setStatus, setStatusByDevice, finish, finishByDevice, markPushed: by    *)
(* id, whatever the row says.                                              *)
Write(w) ==
  /\ writes[w] > 0
  /\ writes' = [writes EXCEPT ![w] = @ - 1]
  /\ row' = IF w = "pushed" THEN [row EXCEPT !.pushed = TRUE]
            ELSE [row EXCEPT !.status = StatusOf(w),
                             !.ended = @ \/ w \in Outcomes \cup {"device_offline"},
                             !.branch = @ \/ w = "completed"]
  /\ calm' = (calm \/ (w \in Outcomes /\ NothingElse(w)))
  /\ UNCHANGED <<dispatch, requests, wire, process, disk,
                 reported, raced, evicted, died, dropped, made, faults>>

(* guard: a handler that throws is logged, and its write is never made. *)
WriteThrows(w) ==
  /\ writes[w] > 0
  /\ faults < MaxFaults /\ faults' = faults + 1
  /\ writes' = [writes EXCEPT ![w] = @ - 1]
  /\ dropped' = IF w \in Outcomes THEN dropped \cup {"statement"} ELSE dropped
  /\ UNCHANGED <<row, dispatch, requests, wire, process, disk,
                 reported, calm, raced, evicted, died, made>>

-----------------------------------------------------------------------------
(* The machine.                                                            *)

(* finish(): only a session still in `sessions` is reported. *)
Finish(outcome) ==
  IF live
  THEN /\ live' = FALSE
       /\ toServer' = Append(toServer, outcome)
       /\ reported' = outcome
  ELSE UNCHANGED <<live, toServer, reported>>

TakeEvent(e) ==
  /\ online /\ toRunner # <<>> /\ Head(toRunner) = e
  /\ toRunner' = Tail(toRunner)

BeginStart ==
  /\ TakeEvent("start")
  /\ starting' = TRUE
  /\ UNCHANGED <<server, online, toServer, ack, live, disposed, turns, asked,
                 cancelling, removing, retained, disk, history>>

(* The worktree is cut and the harness runs: the session is registered and *)
(* its opening turn begins; or it is refused and the worktree cleaned up.  *)
Started ==
  /\ starting /\ starting' = FALSE
  /\ live' = TRUE /\ disposed' = FALSE /\ ack' = "accepted"
  /\ turns' = [turns EXCEPT ![1] = "running"]
  /\ worktree' = "kept" /\ branch' = "kept"
  /\ UNCHANGED <<server, online, toRunner, toServer, asked,
                 cancelling, removing, retained, history>>

StartRefused ==
  /\ starting /\ starting' = FALSE
  /\ ack' = "refused"
  /\ UNCHANGED <<server, online, toRunner, toServer, live, disposed, turns, asked,
                 cancelling, removing, retained, disk, history>>

(* A prompt for a session that is not live, or no longer, is dropped. *)
Prompted ==
  /\ TakeEvent("prompt")
  /\ \/ live /\ \E t \in Turns :
                  /\ turns[t] = "no" /\ \A u \in 1 .. t - 1 : turns[u] # "no"
                  /\ turns' = [turns EXCEPT ![t] = "running"]
     \/ ~live /\ UNCHANGED turns
  /\ UNCHANGED <<server, online, toServer, ack, starting, live, disposed, asked,
                 cancelling, removing, retained, disk, history>>

AskPermission ==
  /\ live /\ ~disposed /\ (\E t \in Turns : turns[t] = "running")
  /\ made.asks < MaxAsks
  /\ made' = [made EXCEPT !.asks = @ + 1]
  /\ asked' = asked + 1
  /\ toServer' = Append(toServer, "awaiting-permission")
  /\ UNCHANGED <<server, online, toRunner, ack, starting, live, disposed, turns,
                 cancelling, removing, retained, disk,
                 reported, calm, raced, evicted, died, dropped, faults>>

(* A late or repeated decision finds no prompt. *)
Decided ==
  /\ TakeEvent("decide")
  /\ asked' = IF asked > 0 THEN asked - 1 ELSE 0
  /\ UNCHANGED <<server, online, toServer, ack, starting, live, disposed, turns,
                 cancelling, removing, retained, disk, history>>

(* acp.prompt comes back: done, or `cancelled` - left to cancel().         *)
TurnEnds(t) ==
  /\ turns[t] = "running" /\ ~disposed /\ asked = 0
  /\ \/ turns' = [turns EXCEPT ![t] = "saving"]
     \/ cancelling /\ turns' = [turns EXCEPT ![t] = "over"]
  /\ UNCHANGED <<server, wire, starting, live, disposed, asked, cancelling,
                 removing, retained, disk, history>>

(* acp.prompt throws, as it does once the process is killed. *)
TurnFails(t) ==
  /\ turns[t] = "running"
  /\ turns' = [turns EXCEPT ![t] = "over"]
  /\ asked' = 0 /\ disposed' = TRUE
  /\ Finish("failed")
  /\ UNCHANGED <<server, online, toRunner, ack, starting, cancelling, removing,
                 retained, disk, calm, raced, evicted, died, dropped, made, faults>>

(* The diff and the commit are done, or failed: retainCompleted, finish.   *)
TurnSaved(t) ==
  /\ turns[t] = "saving"
  /\ turns' = [turns EXCEPT ![t] = "over"]
  /\ retained' = TRUE /\ disposed' = TRUE
  /\ Finish("completed")
  /\ raced' = (raced \/ cancelling)
  /\ UNCHANGED <<server, online, toRunner, ack, starting, asked, cancelling, removing,
                 disk, calm, evicted, died, dropped, made, faults>>

(* Seeded defect: a cancel tears down what it no longer finds live. *)
FindsAnything == worktree = "kept"

FindsSession == live

Cancelled ==
  /\ TakeEvent("cancel")
  /\ cancelling' = (cancelling \/ FindsSession)
  /\ UNCHANGED <<server, online, toServer, ack, starting, live, disposed, turns, asked,
                 removing, retained, disk, history>>

(* Seeded defect: the session is torn down and not reported. *)
TornDownSilently ==
  /\ live' = FALSE
  /\ UNCHANGED <<toServer, reported>>

ReportCancelled == Finish("cancelled")

(* The rest of cancel(), once the harness was told: finish comes before    *)
(* the teardown, whose killing of the process makes the turns fail.        *)
CancelGoesOn ==
  /\ cancelling /\ cancelling' = FALSE
  /\ asked' = 0 /\ disposed' = TRUE /\ removing' = TRUE
  /\ ReportCancelled
  /\ UNCHANGED <<server, online, toRunner, ack, starting, turns, retained, disk,
                 calm, raced, evicted, died, dropped, made, faults>>

RemoveWorktree ==
  /\ removing /\ removing' = FALSE
  /\ worktree' = "removed" /\ branch' = "removed"
  /\ UNCHANGED <<server, wire, starting, live, disposed, turns, asked, cancelling,
                 retained, history>>

(* retainCompleted of another session, past the cap: the branch stays. *)
Evict ==
  /\ retained /\ retained' = FALSE
  /\ worktree' = "removed" /\ evicted' = TRUE
  /\ UNCHANGED <<server, wire, starting, live, disposed, turns, asked, cancelling,
                 removing, branch, reported, calm, raced, died, dropped, made, faults>>

(* push, openPr: only what is retained, from its worktree. *)
Pushed ==
  /\ TakeEvent("push")
  /\ toServer' = IF retained /\ worktree = "kept" THEN Append(toServer, "pushed") ELSE toServer
  /\ UNCHANGED <<server, online, ack, process, disk, history>>

-----------------------------------------------------------------------------
Fault ==
  /\ faults < MaxFaults
  /\ faults' = faults + 1
  /\ online' = FALSE /\ toRunner' = <<>> /\ toServer' = <<>> /\ ack' = "none"
  /\ dropped' = IF \E i \in 1 .. Len(toServer) : toServer[i] \in Outcomes
                THEN dropped \cup {"connection"} ELSE dropped

Disconnect ==
  /\ online /\ Fault
  /\ UNCHANGED <<server, process, disk, reported, calm, raced, evicted, died, made>>

(* The machine stops: what it kept in memory is gone, and nobody reports   *)
(* the session's end.                                                      *)
Die ==
  /\ Fault /\ died' = TRUE
  /\ starting' = FALSE /\ live' = FALSE /\ disposed' = TRUE
  /\ turns' = [t \in Turns |-> IF turns[t] = "no" THEN "no" ELSE "over"]
  /\ asked' = 0 /\ cancelling' = FALSE /\ removing' = FALSE /\ retained' = FALSE
  /\ UNCHANGED <<server, disk, reported, calm, raced, evicted, made>>

Connect ==
  /\ ~online /\ online' = TRUE
  /\ UNCHANGED <<server, toRunner, toServer, ack, process, disk, history>>

Server ==
  \/ SendStart \/ AckArrives \/ AckTimesOut \/ Receive \/ Malformed
  \/ \E q \in Relayed : Relay(q)
  \/ \E w \in Writes : Write(w) \/ WriteThrows(w)

Machine ==
  \/ BeginStart \/ Started \/ StartRefused \/ Prompted \/ Decided \/ Cancelled \/ Pushed
  \/ AskPermission \/ CancelGoesOn \/ RemoveWorktree \/ Evict
  \/ \E t \in Turns : TurnEnds(t) \/ TurnFails(t) \/ TurnSaved(t)

Next ==
  \/ Create \/ Server \/ Machine
  \/ \E q \in Relayed : Request(q)
  \/ Connect \/ Disconnect \/ Die

Spec == Init /\ [][Next]_vars

(* Handlers that were begun go on, events that were sent arrive, the       *)
(* machine's socket reconnects by itself; neither members nor the harness  *)
(* have to do anything.                                                    *)
Fairness ==
  /\ WF_vars(Connect) /\ WF_vars(Receive) /\ WF_vars(CancelGoesOn)
  /\ \A w \in Outcomes : WF_vars(Write(w))

FairSpec == Spec /\ Fairness
-----------------------------------------------------------------------------
Rows == [status : {"none", "starting", "running", "awaiting-permission"} \cup Outcomes,
         ended : BOOLEAN, branch : BOOLEAN, pushed : BOOLEAN]

ServerTyped ==
  /\ row \in Rows /\ (row.status \in Outcomes => row.ended)
  /\ dispatch \in {"no", "created", "waiting", "over"}
  /\ requests \in [Relayed -> Nat]
  /\ writes \in [Writes -> Nat]

WireTyped ==
  /\ online \in BOOLEAN
  /\ toRunner \in Seq(Relayed \cup {"start"})
  /\ toServer \in Seq(Writes)
  /\ ack \in {"none", "accepted", "refused"}

ProcessTyped ==
  /\ {starting, live, disposed, cancelling, removing, retained} \subseteq BOOLEAN
  /\ turns \in [Turns -> {"no", "running", "saving", "over"}]
  /\ asked \in Nat

DiskTyped == worktree \in {"none", "kept", "removed"} /\ branch \in {"none", "kept", "removed"}

HistoryTyped ==
  /\ reported \in {"none"} \cup Outcomes
  /\ {calm, raced, evicted, died} \subseteq BOOLEAN
  /\ dropped \subseteq {"connection", "schema", "statement"}
  /\ made \in [requests : 0 .. MaxRequests, asks : 0 .. MaxAsks]
  /\ faults \in 0 .. MaxFaults

(* The state is well formed, and a row whose status is final has ended_at. *)
TypeOK == ServerTyped /\ WireTyped /\ ProcessTyped /\ DiskTyped /\ HistoryTyped

(* Once the machine's report of the end is recorded while no other request *)
(* or event of the session is being handled, the row keeps that outcome:   *)
(* no status write, request or permission comes after it.                  *)
OutcomeKept == calm => row.ended /\ row.status = reported

(* What was reported completed can be pushed - it is retained, with its    *)
(* worktree and branch - until other sessions evict it, unless the machine *)
(* died or a cancel was awaiting the harness when it completed.            *)
CompletedIsPushable ==
  (reported = "completed" /\ ~raced /\ ~evicted /\ ~died)
     => retained /\ worktree = "kept" /\ branch = "kept"

(* A cancel that finds the session, and any end the machine reports, ends  *)
(* the row, unless the machine died, or the report itself was in flight at *)
(* a disconnect, too long for its schema, or in a handler that threw.      *)
EndIsRecorded ==
  (cancelling \/ reported # "none") ~> (row.ended \/ died \/ dropped # {})
=============================================================================
