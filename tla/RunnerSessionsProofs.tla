------------------------ MODULE RunnerSessionsProofs ------------------------
(***************************************************************************)
(* What holds of a coding session for any number of turns, requests,       *)
(* permissions and faults.  The machine is asked to start it once, so it   *)
(* is live once and its end is reported once; what follows that report on  *)
(* the way to the server can only be the answer to a push.                 *)
(***************************************************************************)
EXTENDS RunnerSessions, TLAPS

HasStart == \E i \in 1 .. Len(toRunner) : toRunner[i] = "start"

(* The machine has not been told to start the session, or is about to be.  *)
Fresh ==
  /\ ~live /\ ~cancelling /\ ~removing /\ reported = "none"
  /\ \A t \in Turns : turns[t] = "no"

StartsOnce ==
  /\ \A i, j \in 1 .. Len(toRunner) : toRunner[i] = "start" /\ toRunner[j] = "start" => i = j
  /\ HasStart => dispatch \notin {"no", "created"} /\ ~starting /\ Fresh
  /\ dispatch \in {"no", "created"} => ~HasStart /\ ~starting /\ Fresh
  /\ starting => ~HasStart /\ Fresh

(* While it is live nothing was reported and its worktree is there. *)
LiveFirst ==
  /\ live => reported = "none" /\ ~removing
  /\ live /\ ~evicted => worktree = "kept" /\ branch = "kept"
  /\ cancelling => live \/ raced \/ reported # "completed"

Kept ==
  reported = "completed" /\ ~raced /\ ~evicted /\ ~died
    => ~cancelling /\ ~removing /\ retained /\ worktree = "kept" /\ branch = "kept"

(* Only the answer to a push follows the report of the end, or the write   *)
(* it led to.                                                              *)
EndIsLast ==
  /\ \A i \in 1 .. Len(toServer) : toServer[i] \in Outcomes =>
       /\ toServer[i] = reported
       /\ \A j \in i + 1 .. Len(toServer) : toServer[j] = "pushed"
  /\ \A w \in Outcomes : writes[w] > 0 =>
       /\ w = reported
       /\ \A j \in 1 .. Len(toServer) : toServer[j] = "pushed"

Calm ==
  calm =>
    /\ row.ended /\ row.status = reported /\ reported \in Outcomes
    /\ dispatch = "over" /\ requests["prompt"] = 0 /\ requests["decide"] = 0
    /\ \A w \in Writes \ {"pushed"} : writes[w] = 0
    /\ \A j \in 1 .. Len(toServer) : toServer[j] = "pushed"

IInv == TypeOK /\ StartsOnce /\ LiveFirst /\ Kept /\ EndIsLast /\ Calm

-----------------------------------------------------------------------------
LEMMA FinishTyped ==
  ASSUME TypeOK, NEW w \in Outcomes, Finish(w)
  PROVE  live' \in BOOLEAN /\ toServer' \in Seq(Writes) /\ reported' \in {"none"} \cup Outcomes
<1>1. w \in Writes
  BY DEF Writes
<1>2. live \in BOOLEAN /\ toServer \in Seq(Writes) /\ reported \in {"none"} \cup Outcomes
  BY DEF TypeOK, ProcessTyped, WireTyped, HistoryTyped
<1>3. CASE live
  <2>1. live' = FALSE /\ toServer' = Append(toServer, w) /\ reported' = w
    BY <1>3 DEF Finish
  <2>2. toServer' \in Seq(Writes)
    BY <1>1, <1>2, <2>1
  <2> QED BY <2>1, <2>2
<1>4. CASE ~live
  BY <1>2, <1>4 DEF Finish
<1> QED BY <1>3, <1>4

LEMMA OweTyped ==
  ASSUME ServerTyped, NEW w \in Writes, Owe(w)
  PROVE  writes' \in [Writes -> Nat]
BY DEF Owe, ServerTyped

LEMMA TakeTyped ==
  ASSUME WireTyped, NEW e, TakeEvent(e)
  PROVE  toRunner' \in Seq(Relayed \cup {"start"})
BY DEF TakeEvent, WireTyped

LEMMA SendTyped ==
  ASSUME WireTyped, NEW e \in Relayed \cup {"start"}, toRunner' = Append(toRunner, e)
  PROVE  toRunner' \in Seq(Relayed \cup {"start"})
BY DEF WireTyped

(* A write gives the row a status and, with a final one, ended_at. *)
LEMMA WriteTyped ==
  ASSUME ServerTyped, NEW w \in Writes, Write(w)
  PROVE  row' \in Rows /\ (row'.status \in Outcomes => row'.ended)
<1>1. CASE w = "pushed"
  <2>1. row' = [row EXCEPT !.pushed = TRUE]
    BY <1>1 DEF Write
  <2> QED BY <2>1 DEF ServerTyped, Rows
<1>2. CASE w # "pushed"
  <2> DEFINE s == StatusOf(w)
             e == row.ended \/ w \in Outcomes \cup {"device_offline"}
             b == row.branch \/ w = "completed"
  <2>1. row' = [row EXCEPT !.status = s, !.ended = e, !.branch = b]
    BY <1>2 DEF Write
  <2>2. /\ s \in {"running", "awaiting-permission"} \cup Outcomes
        /\ s \in Outcomes => e
    BY <1>2 DEF StatusOf, Writes, Outcomes
  <2>3. e \in BOOLEAN /\ b \in BOOLEAN
    OBVIOUS
  <2> HIDE DEF s, e, b
  <2> QED BY <2>1, <2>2, <2>3 DEF ServerTyped, Rows
<1> QED BY <1>1, <1>2

(* What happens on the machine and on its connection changes nothing there. *)
LEMMA MachineAlone == Machine \/ Connect \/ Disconnect \/ Die => UNCHANGED server
BY DEF Machine, BeginStart, Started, StartRefused, Prompted, Decided, Cancelled, Pushed,
       AskPermission, CancelGoesOn, RemoveWorktree, Evict, TurnEnds, TurnFails, TurnSaved,
       Connect, Disconnect, Die

(* The rows and what the server has under way keep their types. *)
LEMMA ServerStep == TypeOK /\ [Next]_vars => ServerTyped'
<1> SUFFICES ASSUME TypeOK, [Next]_vars PROVE ServerTyped'
  OBVIOUS
<1> ServerTyped
  BY DEF TypeOK
<1>1. CASE Create
  <2>1. row' \in Rows /\ (row'.status \in Outcomes => row'.ended)
    BY <1>1 DEF Create, ServerTyped, Rows, Outcomes
  <2> QED BY <1>1, <2>1 DEF Create, ServerTyped
<1>2. CASE SendStart \/ AckArrives \/ AckTimesOut
  <2>1. writes' \in [Writes -> Nat]
    <3>1. CASE writes' = writes
      BY <3>1 DEF ServerTyped
    <3>2. CASE \E w \in {"running", "device_offline"} : Owe(w)
      BY <3>2, OweTyped DEF Writes
    <3> QED BY <1>2, <3>1, <3>2 DEF SendStart, AckArrives, AckTimesOut
  <2> QED BY <1>2, <2>1 DEF SendStart, AckArrives, AckTimesOut, ServerTyped
<1>3. CASE Receive
  <2>1. Head(toServer) \in Writes
    BY <1>3 DEF Receive, TypeOK, WireTyped
  <2>2. writes' \in [Writes -> Nat]
    BY <1>3, <2>1, OweTyped DEF Receive
  <2> QED BY <1>3, <2>2 DEF Receive, ServerTyped
<1>4. ASSUME NEW q \in Relayed, Relay(q) PROVE ServerTyped'
  <2>1. writes' \in [Writes -> Nat]
    <3>1. CASE writes' = writes
      BY <3>1 DEF ServerTyped
    <3>2. CASE Owe("running")
      BY <3>2, OweTyped DEF Writes
    <3> QED BY <1>4, <3>1, <3>2 DEF Relay
  <2>2. requests' \in [Relayed -> Nat]
    BY <1>4 DEF Relay, ServerTyped
  <2> QED BY <1>4, <2>1, <2>2 DEF Relay, ServerTyped
<1>5. ASSUME NEW w \in Writes, Write(w) PROVE ServerTyped'
  <2>1. writes' \in [Writes -> Nat]
    BY <1>5 DEF Write, ServerTyped
  <2>2. row' \in Rows /\ (row'.status \in Outcomes => row'.ended)
    BY <1>5, WriteTyped DEF Write
  <2> QED BY <1>5, <2>1, <2>2 DEF Write, ServerTyped
<1>8. ASSUME NEW w \in Writes, WriteThrows(w) PROVE ServerTyped'
  <2>1. writes' \in [Writes -> Nat]
    BY <1>8 DEF WriteThrows, ServerTyped
  <2> QED BY <1>8, <2>1 DEF WriteThrows, ServerTyped
<1>6. ASSUME NEW q \in Relayed, Request(q) PROVE ServerTyped'
  <2>1. requests' \in [Relayed -> Nat]
    BY <1>6 DEF Request, ServerTyped
  <2> QED BY <1>6, <2>1 DEF Request, ServerTyped
<1>7. CASE UNCHANGED server
  BY <1>7 DEF server, ServerTyped
<1> QED BY <1>1, <1>2, <1>3, <1>4, <1>5, <1>6, <1>7, <1>8, MachineAlone DEF Next, Server, Malformed, vars

(* What travels keeps its type. *)
LEMMA WireStep == TypeOK /\ [Next]_vars => WireTyped'
<1> SUFFICES ASSUME TypeOK, [Next]_vars PROVE WireTyped'
  OBVIOUS
<1> WireTyped
  BY DEF TypeOK
<1> DEFINE S == Seq(Relayed \cup {"start"})
<1>1. CASE SendStart
  <2>1. toRunner' \in S
    BY <1>1, SendTyped DEF SendStart, WireTyped
  <2> QED BY <1>1, <2>1 DEF SendStart, WireTyped
<1>2. ASSUME NEW q \in Relayed, Relay(q) PROVE WireTyped'
  <2>1. toRunner' \in S
    BY <1>2, SendTyped DEF Relay, WireTyped
  <2> QED BY <1>2, <2>1 DEF Relay, WireTyped
<1>3. CASE Receive \/ Malformed
  <2>1. toServer # <<>> /\ toServer' = Tail(toServer)
    BY <1>3 DEF Receive, Malformed
  <2>2. toServer' \in Seq(Writes)
    BY <2>1 DEF WireTyped
  <2> QED BY <1>3, <2>2 DEF Receive, Malformed, WireTyped
<1>4. CASE BeginStart \/ Prompted \/ Decided \/ Cancelled
  <2>1. toRunner' \in S
    BY <1>4, TakeTyped DEF BeginStart, Prompted, Decided, Cancelled
  <2> QED BY <1>4, <2>1 DEF BeginStart, Prompted, Decided, Cancelled, WireTyped, TakeEvent
<1>5. CASE Pushed
  <2>1. toRunner' \in S
    BY <1>5, TakeTyped DEF Pushed
  <2>2. toServer' \in Seq(Writes)
    <3>1. "pushed" \in Writes
      BY DEF Writes
    <3> QED BY <1>5, <3>1 DEF Pushed, WireTyped
  <2> QED BY <1>5, <2>1, <2>2 DEF Pushed, WireTyped
<1>6. CASE AskPermission
  <2>1. toServer' \in Seq(Writes)
    <3>1. "awaiting-permission" \in Writes
      BY DEF Writes
    <3> QED BY <1>6, <3>1 DEF AskPermission, WireTyped
  <2> QED BY <1>6, <2>1 DEF AskPermission, WireTyped
<1>7. CASE CancelGoesOn \/ \E t \in Turns : TurnFails(t) \/ TurnSaved(t)
  <2>1. toServer' \in Seq(Writes)
    BY <1>7, FinishTyped DEF CancelGoesOn, ReportCancelled, TurnFails, TurnSaved, Outcomes
  <2> QED BY <1>7, <2>1 DEF CancelGoesOn, TurnFails, TurnSaved, WireTyped
<1>8. CASE Disconnect \/ Die
  <2>1. online' = FALSE /\ toRunner' = <<>> /\ toServer' = <<>> /\ ack' = "none"
    BY <1>8 DEF Disconnect, Die, Fault
  <2>2. <<>> \in S /\ <<>> \in Seq(Writes)
    OBVIOUS
  <2> QED BY <2>1, <2>2 DEF WireTyped
<1>9. CASE Create \/ AckArrives \/ AckTimesOut \/ Started \/ StartRefused \/ RemoveWorktree
           \/ Evict \/ Connect
  BY <1>9 DEF Create, AckArrives, AckTimesOut, Started, StartRefused, RemoveWorktree, Evict,
              Connect, wire, WireTyped
<1>10. CASE (\E q \in Relayed : Request(q)) \/ (\E w \in Writes : Write(w) \/ WriteThrows(w))
             \/ (\E t \in Turns : TurnEnds(t)) \/ UNCHANGED vars
  BY <1>10 DEF Request, Write, WriteThrows, TurnEnds, vars, wire, WireTyped
<1> QED BY <1>1, <1>2, <1>3, <1>4, <1>5, <1>6, <1>7, <1>8, <1>9, <1>10
        DEF Next, Server, Machine

(* The session on the machine keeps its type, and its files are kept or not. *)
LEMMA ProcessStep == TypeOK /\ [Next]_vars => ProcessTyped' /\ DiskTyped'
<1> SUFFICES ASSUME TypeOK, [Next]_vars PROVE ProcessTyped' /\ DiskTyped'
  OBVIOUS
<1> ProcessTyped /\ DiskTyped
  BY DEF TypeOK
<1> DEFINE T == [Turns -> {"no", "running", "saving", "over"}]
<1>1. CASE UNCHANGED <<process, disk>>
  BY <1>1 DEF process, disk, ProcessTyped, DiskTyped
<1>2. CASE BeginStart \/ StartRefused \/ Cancelled \/ RemoveWorktree \/ Evict
  BY <1>2 DEF BeginStart, StartRefused, Cancelled, RemoveWorktree, Evict, disk, FindsSession,
              ProcessTyped, DiskTyped
<1>3. CASE Started
  <2>1. turns' \in T
    BY <1>3 DEF Started, ProcessTyped
  <2> QED BY <1>3, <2>1 DEF Started, ProcessTyped, DiskTyped
<1>4. CASE Prompted
  <2>1. turns' \in T
    BY <1>4 DEF Prompted, ProcessTyped
  <2> QED BY <1>4, <2>1 DEF Prompted, disk, ProcessTyped, DiskTyped
<1>5. CASE Decided \/ AskPermission
  <2>1. asked' \in Nat
    BY <1>5 DEF Decided, AskPermission, ProcessTyped
  <2> QED BY <1>5, <2>1 DEF Decided, AskPermission, disk, ProcessTyped, DiskTyped
<1>6. CASE CancelGoesOn
  <2>1. live' \in BOOLEAN
    BY <1>6, FinishTyped DEF CancelGoesOn, ReportCancelled, Outcomes
  <2> QED BY <1>6, <2>1 DEF CancelGoesOn, disk, ProcessTyped, DiskTyped
<1>7. ASSUME NEW t \in Turns, TurnEnds(t) \/ TurnFails(t) \/ TurnSaved(t)
      PROVE  ProcessTyped' /\ DiskTyped'
  <2>1. turns' \in T
    BY <1>7 DEF TurnEnds, TurnFails, TurnSaved, ProcessTyped
  <2>2. live' \in BOOLEAN
    BY <1>7, FinishTyped DEF TurnEnds, TurnFails, TurnSaved, Outcomes, ProcessTyped
  <2>3. /\ disposed' \in {disposed, TRUE} /\ retained' \in {retained, TRUE} /\ asked' \in {asked, 0}
        /\ UNCHANGED <<starting, cancelling, removing, disk>>
    BY <1>7 DEF TurnEnds, TurnFails, TurnSaved
  <2>4. DiskTyped'
    BY <2>3 DEF disk, DiskTyped
  <2>5. {starting, live, disposed, cancelling, removing, retained}' \subseteq BOOLEAN
    BY <2>2, <2>3 DEF ProcessTyped
  <2>6. asked' \in Nat
    BY <2>3 DEF ProcessTyped
  <2> QED BY <2>1, <2>4, <2>5, <2>6 DEF ProcessTyped
<1>8. CASE Die
  <2>1. turns' \in T
    BY <1>8 DEF Die, ProcessTyped
  <2> QED BY <1>8, <2>1 DEF Die, disk, ProcessTyped, DiskTyped
<1>p. CASE Pushed
  BY <1>1, <1>p DEF Pushed
<1>9. Machine \/ Die \/ UNCHANGED <<process, disk>>
  BY DEF Next, Server, Create, SendStart, AckArrives, AckTimesOut, Receive, Malformed, Relay, Write,
         WriteThrows, Request, Connect, Disconnect, vars
<1> QED BY <1>1, <1>2, <1>3, <1>4, <1>5, <1>6, <1>7, <1>8, <1>9, <1>p DEF Machine

(* The history keeps its type and its bounds. *)
LEMMA HistoryStep == TypeOK /\ [Next]_vars => HistoryTyped'
<1> SUFFICES ASSUME TypeOK, [Next]_vars PROVE HistoryTyped'
  OBVIOUS
<1> HistoryTyped
  BY DEF TypeOK
<1> DEFINE M == [requests : 0 .. MaxRequests, asks : 0 .. MaxAsks]
<1>1. CASE UNCHANGED history
  BY <1>1 DEF history, HistoryTyped
<1>2. ASSUME NEW q \in Relayed, Request(q) PROVE HistoryTyped'
  <2>1. made' \in M
    BY <1>2, RunnerAssumption DEF Request, HistoryTyped
  <2> QED BY <1>2, <2>1 DEF Request, HistoryTyped
<1>3. CASE AskPermission
  <2>1. made' \in M
    BY <1>3, RunnerAssumption DEF AskPermission, HistoryTyped
  <2> QED BY <1>3, <2>1 DEF AskPermission, HistoryTyped
<1>4. ASSUME NEW w \in Writes, Write(w) PROVE HistoryTyped'
  <2>1. calm' \in BOOLEAN
    BY <1>4 DEF Write
  <2> QED BY <1>4, <2>1 DEF Write, HistoryTyped
<1>5. CASE CancelGoesOn \/ \E t \in Turns : TurnFails(t) \/ TurnSaved(t)
  <2>1. reported' \in {"none"} \cup Outcomes
    BY <1>5, FinishTyped DEF CancelGoesOn, ReportCancelled, TurnFails, TurnSaved, Outcomes
  <2> QED BY <1>5, <2>1 DEF CancelGoesOn, TurnFails, TurnSaved, HistoryTyped
<1>6. CASE Evict
  BY <1>6 DEF Evict, HistoryTyped
<1>7. CASE Disconnect \/ Die
  <2>1. faults' \in 0 .. MaxFaults
    BY <1>7, RunnerAssumption DEF Disconnect, Die, Fault, HistoryTyped
  <2>3. died' = died \/ died' = TRUE
    BY <1>7 DEF Disconnect, Die
  <2>2. dropped' \subseteq {"connection", "schema", "statement"}
    BY <1>7 DEF Disconnect, Die, Fault, HistoryTyped
  <2> QED BY <1>7, <2>1, <2>2, <2>3 DEF Disconnect, Die, HistoryTyped
<1>10. CASE Malformed \/ \E w \in Writes : WriteThrows(w)
  <2>1. faults' \in 0 .. MaxFaults
    BY <1>10, RunnerAssumption DEF Malformed, WriteThrows, HistoryTyped
  <2>2. dropped' \subseteq {"connection", "schema", "statement"}
    BY <1>10 DEF Malformed, WriteThrows, HistoryTyped
  <2> QED BY <1>10, <2>1, <2>2 DEF Malformed, WriteThrows, HistoryTyped
<1>8. CASE Create \/ SendStart \/ AckArrives \/ AckTimesOut \/ Receive \/ Connect
           \/ (\E q \in Relayed : Relay(q)) \/ UNCHANGED vars
  BY <1>1, <1>8 DEF Create, SendStart, AckArrives, AckTimesOut, Receive, Connect, Relay, vars
<1>9. CASE BeginStart \/ Started \/ StartRefused \/ Prompted \/ Decided \/ Cancelled \/ Pushed
           \/ RemoveWorktree \/ (\E t \in Turns : TurnEnds(t))
  BY <1>1, <1>9 DEF BeginStart, Started, StartRefused, Prompted, Decided, Cancelled, Pushed,
                    RemoveWorktree, TurnEnds
<1> QED BY <1>2, <1>3, <1>4, <1>5, <1>6, <1>7, <1>8, <1>9, <1>10 DEF Next, Server, Machine

LEMMA TypeStep == TypeOK /\ [Next]_vars => TypeOK'
BY ServerStep, WireStep, ProcessStep, HistoryStep DEF TypeOK

LEMMA TypeInit == Init => TypeOK
<1> SUFFICES ASSUME Init PROVE TypeOK
  OBVIOUS
<1> USE DEF Init
<1>1. ServerTyped
  BY DEF ServerTyped, Rows, Outcomes
<1>2. WireTyped
  BY DEF WireTyped
<1>3. ProcessTyped /\ DiskTyped
  BY DEF ProcessTyped, DiskTyped
<1>4. HistoryTyped
  <2>1. made \in [requests : 0 .. MaxRequests, asks : 0 .. MaxAsks] /\ faults \in 0 .. MaxFaults
    BY RunnerAssumption
  <2> QED BY <2>1 DEF HistoryTyped
<1> QED BY <1>1, <1>2, <1>3, <1>4 DEF TypeOK

(* The state is well formed, and a row whose status is final has ended_at: *)
(* a member's request never finds a finished session active.               *)
THEOREM TypeCorrect == Spec => []TypeOK
BY TypeInit, TypeStep, PTL DEF Spec

-----------------------------------------------------------------------------
(* Lines of events. *)

LEMMA Appended ==
  ASSUME NEW S, NEW s \in Seq(S), NEW e \in S
  PROVE  /\ Len(s) \in Nat /\ Len(Append(s, e)) = Len(s) + 1
         /\ \A i \in 1 .. Len(s) : Append(s, e)[i] = s[i]
         /\ Append(s, e)[Len(s) + 1] = e
OBVIOUS

LEMMA Rest ==
  ASSUME NEW S, NEW s \in Seq(S), s # <<>>
  PROVE  /\ Len(s) \in Nat \ {0} /\ Head(s) = s[1] /\ Len(Tail(s)) = Len(s) - 1
         /\ \A i \in 1 .. Len(s) - 1 : Tail(s)[i] = s[i + 1]
OBVIOUS

-----------------------------------------------------------------------------
(* A session nobody started stays so until its worktree is cut. *)
LEMMA StaysFresh ==
  ASSUME TypeOK, [Next]_vars, Fresh
  PROVE  Fresh' \/ Started
<1>1. CASE Prompted \/ Cancelled
  BY <1>1 DEF Prompted, Cancelled, FindsSession, Fresh, history
<1>2. CASE CancelGoesOn \/ RemoveWorktree \/ \E t \in Turns : TurnEnds(t) \/ TurnFails(t) \/ TurnSaved(t)
  BY <1>2 DEF CancelGoesOn, RemoveWorktree, TurnEnds, TurnFails, TurnSaved, Fresh
<1>3. CASE Die
  BY <1>3 DEF Die, Fresh
<1>4. CASE BeginStart \/ StartRefused \/ Decided \/ Pushed \/ AskPermission \/ Evict \/ Connect
           \/ Disconnect
  BY <1>4 DEF BeginStart, StartRefused, Decided, Pushed, AskPermission, Evict, Connect,
              Disconnect, process, history, Fresh
<1>5. CASE Create \/ Server \/ (\E q \in Relayed : Request(q)) \/ UNCHANGED vars
  <2>1. UNCHANGED <<process, reported>>
    BY <1>5 DEF Create, Server, SendStart, AckArrives, AckTimesOut, Receive, Malformed, Relay, Write,
                WriteThrows, Request, vars, history
  <2> QED BY <2>1 DEF process, Fresh
<1> QED BY <1>1, <1>2, <1>3, <1>4, <1>5 DEF Next, Machine

(* What is sent to the machine, and what it takes. *)
LEMMA StartTravels ==
  ASSUME TypeOK, [Next]_vars
  PROVE  \/ toRunner' = toRunner \/ toRunner' = <<>>
         \/ SendStart
         \/ \E q \in Relayed : toRunner' = Append(toRunner, q)
         \/ toRunner # <<>> /\ toRunner' = Tail(toRunner)
<1>1. CASE Machine \/ Disconnect \/ Die \/ Connect
  BY <1>1 DEF Machine, BeginStart, Started, StartRefused, Prompted, Decided, Cancelled, Pushed,
              TakeEvent, AskPermission, CancelGoesOn, RemoveWorktree, Evict, TurnEnds, TurnFails,
              TurnSaved, Disconnect, Die, Fault, Connect, wire
<1>2. CASE Create \/ Server \/ (\E q \in Relayed : Request(q)) \/ UNCHANGED vars
  BY <1>2 DEF Create, Server, AckArrives, AckTimesOut, Receive, Malformed, Relay, Write, WriteThrows, Request, vars, wire
<1> QED BY <1>1, <1>2 DEF Next

LEMMA StartsStep == IInv /\ [Next]_vars => StartsOnce'
<1> SUFFICES ASSUME IInv, [Next]_vars PROVE StartsOnce'
  OBVIOUS
<1>t. TypeOK /\ StartsOnce
  BY DEF IInv
<1>r. toRunner \in Seq(Relayed \cup {"start"})
  BY <1>t DEF TypeOK, WireTyped
<1>d. dispatch' \in {"no", "created"} => dispatch \in {"no", "created"}
  BY DEF Next, Server, Machine, Create, SendStart, AckArrives, AckTimesOut, Receive, Malformed, Relay, Write,
         WriteThrows, Request, BeginStart, Started, StartRefused, Prompted, Decided, Cancelled, Pushed,
         AskPermission, CancelGoesOn, RemoveWorktree, Evict, TurnEnds, TurnFails, TurnSaved,
         Connect, Disconnect, Die, server, vars
<1>s. starting' => starting \/ BeginStart
  BY DEF Next, Server, Machine, Create, SendStart, AckArrives, AckTimesOut, Receive, Malformed, Relay, Write,
         WriteThrows, Request, Started, StartRefused, Prompted, Decided, Cancelled, Pushed,
         AskPermission, CancelGoesOn, RemoveWorktree, Evict, TurnEnds, TurnFails, TurnSaved,
         Connect, Disconnect, Die, process, vars
<1>1. CASE SendStart /\ toRunner' = Append(toRunner, "start")
  <2>1. ~HasStart /\ ~starting /\ Fresh
    BY <1>1, <1>t DEF SendStart, StartsOnce
  <2>2. /\ Len(toRunner) \in Nat /\ Len(toRunner') = Len(toRunner) + 1
        /\ \A i \in 1 .. Len(toRunner) : toRunner'[i] = toRunner[i]
    BY <1>1, <1>r, Appended
  <2>3. \A i \in 1 .. Len(toRunner') : toRunner'[i] = "start" => i = Len(toRunner')
    BY <2>1, <2>2 DEF HasStart
  <2>4. dispatch' \notin {"no", "created"} /\ ~starting' /\ Fresh'
    <3>1. dispatch' = "waiting" \/ dispatch' = "over"
      BY <1>1 DEF SendStart
    <3>2. UNCHANGED <<process, history>>
      BY <1>1 DEF SendStart
    <3> QED BY <2>1, <3>1, <3>2 DEF process, history, Fresh
  <2>5. Len(toRunner') \in Nat
    BY <2>2
  <2> QED BY <2>3, <2>4, <2>5 DEF StartsOnce, HasStart
<1>2. CASE toRunner # <<>> /\ Head(toRunner) = "start" /\ toRunner' = Tail(toRunner)
  <2>1. /\ Len(toRunner) \in Nat \ {0} /\ toRunner[1] = "start" /\ Len(toRunner') = Len(toRunner) - 1
        /\ \A i \in 1 .. Len(toRunner) - 1 : toRunner'[i] = toRunner[i + 1]
    BY <1>2, <1>r, Rest
  <2>2. ~HasStart'
    <3> SUFFICES ASSUME NEW i \in 1 .. Len(toRunner'), toRunner'[i] = "start" PROVE FALSE
      BY DEF HasStart
    <3>1. i + 1 \in 1 .. Len(toRunner) /\ 1 \in 1 .. Len(toRunner) /\ toRunner[i + 1] = "start" /\ i + 1 # 1
      BY <2>1
    <3> QED BY <3>1, <2>1, <1>t DEF StartsOnce
  <2>3. HasStart
    BY <2>1 DEF HasStart
  <2>4. dispatch \notin {"no", "created"} /\ ~starting /\ Fresh
    BY <2>3, <1>t DEF StartsOnce
  <2>5. Fresh'
    BY <2>4, <1>t, StaysFresh DEF Started
  <2> QED BY <2>2, <2>4, <2>5, <1>d DEF StartsOnce, HasStart
<1>3. CASE ~(SendStart /\ toRunner' = Append(toRunner, "start"))
           /\ ~(toRunner # <<>> /\ Head(toRunner) = "start" /\ toRunner' = Tail(toRunner))
  <2>1. /\ HasStart' => HasStart
        /\ \A i, j \in 1 .. Len(toRunner') : toRunner'[i] = "start" /\ toRunner'[j] = "start" => i = j
    <3>1. CASE toRunner' = toRunner \/ toRunner' = <<>>
      BY <3>1, <1>t DEF StartsOnce, HasStart
    <3>2. ASSUME NEW q \in Relayed, toRunner' = Append(toRunner, q)
          PROVE  <2>1!1 /\ <2>1!2
      <4>1. /\ Len(toRunner) \in Nat /\ Len(toRunner') = Len(toRunner) + 1
            /\ \A i \in 1 .. Len(toRunner) : toRunner'[i] = toRunner[i]
            /\ toRunner'[Len(toRunner) + 1] = q
        BY <3>2, <1>r, Appended
      <4>2. q # "start"
        BY DEF Relayed
      <4>3. \A i \in 1 .. Len(toRunner') : toRunner'[i] = "start" =>
              i \in 1 .. Len(toRunner) /\ toRunner[i] = "start"
        BY <4>1, <4>2
      <4> QED BY <4>3, <1>t DEF StartsOnce, HasStart
    <3>3. CASE toRunner # <<>> /\ toRunner' = Tail(toRunner)
      <4>1. /\ Len(toRunner) \in Nat \ {0} /\ Len(toRunner') = Len(toRunner) - 1
            /\ \A i \in 1 .. Len(toRunner) - 1 : toRunner'[i] = toRunner[i + 1]
        BY <3>3, <1>r, Rest
      <4>2. \A i \in 1 .. Len(toRunner') : toRunner'[i] = "start" =>
              i + 1 \in 1 .. Len(toRunner) /\ toRunner[i + 1] = "start"
        BY <4>1
      <4>3. ASSUME NEW i \in 1 .. Len(toRunner'), NEW j \in 1 .. Len(toRunner'),
                   toRunner'[i] = "start", toRunner'[j] = "start"
            PROVE  i = j
        <5>1. i + 1 = j + 1
          BY <4>2, <4>3, <1>t DEF StartsOnce
        <5> QED BY <5>1
      <4> QED BY <4>2, <4>3 DEF HasStart
    <3>4. SendStart => toRunner' = toRunner
      BY <1>3 DEF SendStart
    <3> QED BY <3>1, <3>2, <3>3, <3>4, <1>t, StartTravels
  <2>2. ~BeginStart
    BY <1>3 DEF BeginStart, TakeEvent
  <2>3. HasStart' => dispatch' \notin {"no", "created"} /\ ~starting' /\ Fresh'
    BY <2>1, <2>2, <1>t, <1>s, <1>d, StaysFresh DEF StartsOnce, Started
  <2>4. dispatch' \in {"no", "created"} => ~HasStart' /\ ~starting' /\ Fresh'
    BY <2>1, <2>2, <1>t, <1>s, <1>d, StaysFresh DEF StartsOnce, Started
  <2>5. starting' => ~HasStart' /\ Fresh'
    BY <2>1, <2>2, <1>t, <1>s, StaysFresh DEF StartsOnce, Started
  <2> QED BY <2>1, <2>3, <2>4, <2>5 DEF StartsOnce, HasStart
<1> QED BY <1>1, <1>2, <1>3

-----------------------------------------------------------------------------
(* finish() reports the end of a session that is live, and of no other. *)
LEMMA Ends ==
  ASSUME NEW w, Finish(w)
  PROVE  /\ ~live'
         /\ live => reported' = w /\ toServer' = Append(toServer, w)
         /\ ~live => reported' = reported /\ toServer' = toServer
BY DEF Finish

LEMMA FilesStep == IInv /\ [Next]_vars => LiveFirst' /\ Kept'
<1> SUFFICES ASSUME IInv, [Next]_vars PROVE LiveFirst' /\ Kept'
  OBVIOUS
<1>l. LiveFirst /\ Kept
  BY DEF IInv
<1>1. CASE Started
  <2>1. Fresh
    BY <1>1 DEF IInv, StartsOnce, Started
  <2> QED BY <1>1, <2>1 DEF Started, history, Fresh, LiveFirst, Kept
<1>2. CASE Cancelled
  <2>1. cancelling' => cancelling \/ live
    BY <1>2 DEF Cancelled, FindsSession
  <2>2. UNCHANGED <<live, removing, retained, worktree, branch, reported, raced, evicted, died>>
    BY <1>2 DEF Cancelled, disk, history
  <2>3. Kept'
    <3>1. live => reported # "completed"
      BY <1>l DEF LiveFirst
    <3> QED BY <1>l, <2>1, <2>2, <3>1 DEF Kept
  <2> QED BY <1>l, <2>1, <2>2, <2>3 DEF LiveFirst
<1>3. CASE CancelGoesOn
  <2>1. /\ ~live' /\ (live => reported' = "cancelled") /\ (~live => reported' = reported)
        /\ cancelling /\ ~cancelling' /\ UNCHANGED <<raced, evicted, died>>
    BY <1>3, Ends DEF CancelGoesOn, ReportCancelled
  <2>2. LiveFirst'
    BY <2>1 DEF LiveFirst
  <2>3. Kept'
    BY <1>l, <2>1 DEF Kept
  <2> QED BY <2>2, <2>3
<1>4. ASSUME NEW t \in Turns, TurnFails(t) PROVE LiveFirst' /\ Kept'
  <2>1. /\ ~live' /\ (live => reported' = "failed") /\ (~live => reported' = reported)
        /\ UNCHANGED <<cancelling, removing, retained, worktree, branch, raced, evicted, died>>
    BY <1>4, Ends DEF TurnFails, disk
  <2> QED BY <1>l, <2>1 DEF LiveFirst, Kept
<1>5. ASSUME NEW t \in Turns, TurnSaved(t) PROVE LiveFirst' /\ Kept'
  <2>1. /\ ~live' /\ (live => reported' = "completed") /\ (~live => reported' = reported)
        /\ retained' /\ UNCHANGED <<cancelling, removing, worktree, branch, evicted, died>>
    BY <1>5, Ends DEF TurnSaved, disk
  <2>2. raced' <=> raced \/ cancelling
    BY <1>5 DEF TurnSaved
  <2> QED BY <1>l, <2>1, <2>2 DEF LiveFirst, Kept
<1>6. CASE RemoveWorktree
  BY <1>l, <1>6 DEF RemoveWorktree, history, LiveFirst, Kept
<1>7. CASE Evict
  BY <1>l, <1>7 DEF Evict, LiveFirst, Kept
<1>8. CASE Disconnect
  BY <1>l, <1>8 DEF Disconnect, Fault, process, disk, LiveFirst, Kept
<1>9. CASE Die
  BY <1>l, <1>9 DEF Die, Fault, disk, LiveFirst, Kept
<1>10. CASE UNCHANGED <<live, cancelling, removing, retained, worktree, branch, reported, raced, evicted, died>>
  BY <1>l, <1>10 DEF LiveFirst, Kept
<1>11. \/ Started \/ Cancelled \/ CancelGoesOn \/ RemoveWorktree \/ Evict \/ Disconnect \/ Die
       \/ \E t \in Turns : TurnFails(t) \/ TurnSaved(t)
       \/ UNCHANGED <<live, cancelling, removing, retained, worktree, branch, reported, raced, evicted, died>>
  BY DEF Next, Server, Machine, Create, SendStart, AckArrives, AckTimesOut, Receive, Malformed, Relay, Write,
         WriteThrows, Request, BeginStart, StartRefused, Prompted, Decided, Pushed, AskPermission, TurnEnds,
         Connect, process, disk, history, vars
<1> QED BY <1>1, <1>2, <1>3, <1>4, <1>5, <1>6, <1>7, <1>8, <1>9, <1>10, <1>11

-----------------------------------------------------------------------------
AllPushed(line) == \A j \in 1 .. Len(line) : line[j] = "pushed"

LEMMA EndStep == IInv /\ [Next]_vars => EndIsLast'
<1> SUFFICES ASSUME IInv, [Next]_vars PROVE EndIsLast'
  OBVIOUS
<1>e. EndIsLast /\ LiveFirst
  BY DEF IInv
<1>s. toServer \in Seq(Writes) /\ writes \in [Writes -> Nat] /\ Outcomes \subseteq Writes
  BY DEF IInv, TypeOK, WireTyped, ServerTyped, Writes
<1>o. "none" \notin Outcomes /\ "pushed" \notin Outcomes /\ "awaiting-permission" \notin Outcomes
  BY DEF Outcomes
<1>n. live => /\ \A i \in 1 .. Len(toServer) : toServer[i] \notin Outcomes
              /\ \A w \in Outcomes : ~(writes[w] > 0)
  BY <1>e, <1>o DEF LiveFirst, EndIsLast
<1>1. ASSUME NEW w \in Outcomes, Finish(w), UNCHANGED writes PROVE EndIsLast'
  <2>1. CASE live
    <3>1. reported' = w /\ toServer' = Append(toServer, w)
      BY <1>1, <2>1, Ends
    <3>2. /\ Len(toServer) \in Nat /\ Len(toServer') = Len(toServer) + 1
          /\ \A i \in 1 .. Len(toServer) : toServer'[i] = toServer[i]
          /\ toServer'[Len(toServer) + 1] = w
      BY <3>1, <1>s, Appended
    <3>3. \A i \in 1 .. Len(toServer') : toServer'[i] \in Outcomes => i = Len(toServer')
      BY <3>2, <2>1, <1>n
    <3>4. \A i \in 1 .. Len(toServer') : toServer'[i] \in Outcomes =>
            toServer'[i] = reported' /\ \A j \in i + 1 .. Len(toServer') : toServer'[j] = "pushed"
      BY <3>1, <3>2, <3>3
    <3>5. \A x \in Outcomes : ~(writes'[x] > 0)
      BY <1>1, <2>1, <1>n
    <3> QED BY <3>4, <3>5 DEF EndIsLast
  <2>2. CASE ~live
    <3>1. reported' = reported /\ toServer' = toServer
      BY <1>1, <2>2, Ends
    <3> QED BY <1>1, <1>e, <3>1 DEF EndIsLast
  <2> QED BY <2>1, <2>2
<1>2. ASSUME NEW e \in {"pushed", "awaiting-permission"}, toServer' = Append(toServer, e),
             e = "pushed" \/ live, UNCHANGED <<writes, reported>>
      PROVE  EndIsLast'
  <2>1. /\ Len(toServer) \in Nat /\ Len(toServer') = Len(toServer) + 1
        /\ \A i \in 1 .. Len(toServer) : toServer'[i] = toServer[i]
        /\ toServer'[Len(toServer) + 1] = e
    <3>1. e \in Writes
      BY DEF Writes
    <3> QED BY <1>2, <1>s, <3>1, Appended
  <2>2. CASE live
    <3>1. \A i \in 1 .. Len(toServer') : toServer'[i] \notin Outcomes
      BY <2>1, <2>2, <1>n, <1>o
    <3> QED BY <3>1, <2>2, <1>2, <1>n DEF EndIsLast
  <2>3. CASE e = "pushed"
    <3>1. ASSUME NEW i \in 1 .. Len(toServer'), toServer'[i] \in Outcomes
          PROVE  toServer'[i] = reported' /\ \A j \in i + 1 .. Len(toServer') : toServer'[j] = "pushed"
      <4>1. i \in 1 .. Len(toServer) /\ toServer[i] = toServer'[i]
        BY <2>1, <2>3, <3>1, <1>o
      <4>2. toServer[i] = reported /\ \A j \in i + 1 .. Len(toServer) : toServer[j] = "pushed"
        BY <4>1, <3>1, <1>e DEF EndIsLast
      <4>3. ASSUME NEW j \in i + 1 .. Len(toServer') PROVE toServer'[j] = "pushed"
        <5>1. j = Len(toServer) + 1 \/ (j \in i + 1 .. Len(toServer) /\ j \in 1 .. Len(toServer))
          BY <2>1, <4>1
        <5> QED BY <5>1, <2>1, <2>3, <4>2
      <4> QED BY <4>1, <4>2, <4>3, <1>2
    <3>2. AllPushed(toServer) => AllPushed(toServer')
      <4>1. \A j \in 1 .. Len(toServer') : j \in 1 .. Len(toServer) \/ j = Len(toServer) + 1
        BY <2>1
      <4> QED BY <4>1, <2>1, <2>3 DEF AllPushed
    <3>3. \A x \in Outcomes : writes'[x] > 0 => x = reported' /\ AllPushed(toServer')
      BY <3>2, <1>2, <1>e DEF EndIsLast, AllPushed
    <3> QED BY <3>1, <3>3 DEF EndIsLast, AllPushed
  <2> QED BY <1>2, <2>2, <2>3
<1>3. CASE Receive
  <2>1. /\ Len(toServer) \in Nat \ {0} /\ Head(toServer) = toServer[1]
        /\ Len(toServer') = Len(toServer) - 1
        /\ \A i \in 1 .. Len(toServer) - 1 : toServer'[i] = toServer[i + 1]
    BY <1>3, <1>s, Rest DEF Receive
  <2>2. reported' = reported /\ writes' = [writes EXCEPT ![toServer[1]] = @ + 1]
    BY <1>3, <2>1 DEF Receive, Owe, history
  <2>3. ASSUME NEW i \in 1 .. Len(toServer'), toServer'[i] \in Outcomes
        PROVE  toServer'[i] = reported' /\ \A j \in i + 1 .. Len(toServer') : toServer'[j] = "pushed"
    <3>1. i + 1 \in 1 .. Len(toServer) /\ toServer[i + 1] = toServer'[i]
      BY <2>1
    <3>2. toServer[i + 1] = reported /\ \A j \in i + 2 .. Len(toServer) : toServer[j] = "pushed"
      BY <3>1, <2>3, <1>e DEF EndIsLast
    <3>3. ASSUME NEW j \in i + 1 .. Len(toServer') PROVE toServer'[j] = "pushed"
      <4>1. j \in 1 .. Len(toServer) - 1 /\ j + 1 \in i + 2 .. Len(toServer)
        BY <2>1
      <4> QED BY <4>1, <2>1, <3>2
    <3> QED BY <3>1, <3>2, <3>3, <2>2
  <2>4. ASSUME NEW x \in Outcomes, writes'[x] > 0
        PROVE  x = reported' /\ AllPushed(toServer')
    <3>1. x \in Writes /\ (x = toServer[1] \/ writes[x] > 0)
      BY <2>2, <2>4, <1>s
    <3>2. CASE x = toServer[1]
      <4>1. 1 \in 1 .. Len(toServer)
        BY <2>1
      <4>2. x = reported /\ \A j \in 2 .. Len(toServer) : toServer[j] = "pushed"
        BY <3>2, <4>1, <2>4, <1>e DEF EndIsLast
      <4>3. \A j \in 1 .. Len(toServer') : j \in 1 .. Len(toServer) - 1 /\ j + 1 \in 2 .. Len(toServer)
        BY <2>1
      <4> QED BY <4>2, <4>3, <2>1, <2>2 DEF AllPushed
    <3>3. CASE writes[x] > 0
      <4>1. x = reported /\ \A j \in 1 .. Len(toServer) : toServer[j] = "pushed"
        BY <3>3, <1>e DEF EndIsLast
      <4>2. \A j \in 1 .. Len(toServer') : j \in 1 .. Len(toServer) - 1 /\ j + 1 \in 1 .. Len(toServer)
        BY <2>1
      <4> QED BY <4>1, <4>2, <2>1, <2>2 DEF AllPushed
    <3> QED BY <3>1, <3>2, <3>3
  <2> QED BY <2>3, <2>4 DEF EndIsLast, AllPushed
<1>4. ASSUME toServer' = toServer \/ toServer' = <<>>, UNCHANGED reported,
             \A x \in Outcomes : writes'[x] > 0 => writes[x] > 0
      PROVE  EndIsLast'
  BY <1>4, <1>e DEF EndIsLast
<1>5. ASSUME NEW o \in Writes \ Outcomes, Owe(o)
      PROVE  \A x \in Outcomes : writes'[x] > 0 => writes[x] > 0
  BY <1>5, <1>s DEF Owe
<1>6. CASE SendStart \/ AckArrives \/ AckTimesOut \/ \E q \in Relayed : Relay(q)
  <2>1. UNCHANGED <<toServer, reported>>
    BY <1>6 DEF SendStart, AckArrives, AckTimesOut, Relay, wire, history
  <2>2. {"running", "device_offline"} \subseteq Writes \ Outcomes
    BY DEF Writes, Outcomes
  <2>3. UNCHANGED writes \/ \E o \in {"running", "device_offline"} : Owe(o)
    BY <1>6 DEF SendStart, AckArrives, AckTimesOut, Relay
  <2> QED BY <2>1, <2>2, <2>3, <1>4, <1>5
<1>7. ASSUME NEW w \in Writes, Write(w) PROVE EndIsLast'
  <2>1. UNCHANGED <<toServer, reported>>
    BY <1>7 DEF Write, wire
  <2>2. \A x \in Outcomes : writes'[x] > 0 => writes[x] > 0
    BY <1>7, <1>s DEF Write
  <2> QED BY <2>1, <2>2, <1>4
<1>13. ASSUME NEW w \in Writes, WriteThrows(w) PROVE EndIsLast'
  <2>1. UNCHANGED <<toServer, reported>>
    BY <1>13 DEF WriteThrows, wire
  <2>2. \A x \in Outcomes : writes'[x] > 0 => writes[x] > 0
    BY <1>13, <1>s DEF WriteThrows
  <2> QED BY <2>1, <2>2, <1>4
<1>14. CASE Malformed
  <2>1. /\ Len(toServer) \in Nat \ {0} /\ Len(toServer') = Len(toServer) - 1
        /\ \A i \in 1 .. Len(toServer) - 1 : toServer'[i] = toServer[i + 1]
    BY <1>14, <1>s, Rest DEF Malformed
  <2>2. UNCHANGED <<writes, reported>>
    BY <1>14 DEF Malformed, server
  <2>3. \A i \in 1 .. Len(toServer') : i + 1 \in 1 .. Len(toServer) /\ toServer'[i] = toServer[i + 1]
    BY <2>1
  <2>4. ASSUME NEW i \in 1 .. Len(toServer'), toServer'[i] \in Outcomes
        PROVE  toServer'[i] = reported' /\ \A j \in i + 1 .. Len(toServer') : toServer'[j] = "pushed"
    <3>1. toServer[i + 1] = reported /\ \A j \in i + 2 .. Len(toServer) : toServer[j] = "pushed"
      BY <2>3, <2>4, <1>e DEF EndIsLast
    <3>2. ASSUME NEW j \in i + 1 .. Len(toServer') PROVE toServer'[j] = "pushed"
      <4>1. j \in 1 .. Len(toServer) - 1 /\ j + 1 \in i + 2 .. Len(toServer)
        BY <2>1
      <4> QED BY <4>1, <2>1, <3>1
    <3> QED BY <2>2, <2>3, <3>1, <3>2
  <2>5. \A x \in Outcomes : writes'[x] > 0 => x = reported' /\ AllPushed(toServer')
    BY <2>2, <2>3, <1>e DEF EndIsLast, AllPushed
  <2> QED BY <2>4, <2>5 DEF EndIsLast, AllPushed
<1>8. CASE AskPermission
  BY <1>8, <1>2 DEF AskPermission, server
<1>9. CASE Pushed
  <2>1. toServer' = toServer \/ toServer' = Append(toServer, "pushed")
    BY <1>9 DEF Pushed
  <2>2. UNCHANGED <<writes, reported>>
    BY <1>9 DEF Pushed, server, history
  <2> QED BY <2>1, <2>2, <1>2, <1>4
<1>10. CASE CancelGoesOn \/ \E t \in Turns : TurnFails(t) \/ TurnSaved(t)
  <2>1. {"cancelled", "failed", "completed"} \subseteq Outcomes
    BY DEF Outcomes
  <2> QED BY <1>10, <1>1, <2>1 DEF CancelGoesOn, ReportCancelled, TurnFails, TurnSaved, server
<1>11. CASE Disconnect \/ Die
  BY <1>4, <1>11 DEF Disconnect, Die, Fault, server
<1>12. CASE BeginStart \/ Started \/ StartRefused \/ Prompted \/ Decided \/ Cancelled
            \/ RemoveWorktree \/ Evict \/ Connect \/ Create \/ (\E q \in Relayed : Request(q))
            \/ (\E t \in Turns : TurnEnds(t)) \/ UNCHANGED vars
  <2>1. UNCHANGED <<toServer, reported, writes>>
    BY <1>12 DEF BeginStart, Started, StartRefused, Prompted, Decided, Cancelled, RemoveWorktree,
                 Evict, Connect, Create, Request, TurnEnds, TakeEvent, server, wire, history, vars
  <2> QED BY <2>1, <1>4
<1> QED BY <1>3, <1>6, <1>7, <1>8, <1>9, <1>10, <1>11, <1>12, <1>13, <1>14 DEF Next, Server, Machine

-----------------------------------------------------------------------------
(* Once it is recorded in peace, the end is not written over: nothing that *)
(* writes a status is owed, on its way, or can still be begun.             *)
LEMMA CalmStep == IInv /\ [Next]_vars => Calm'
<1> SUFFICES ASSUME IInv, [Next]_vars, calm' PROVE Calm'
  BY DEF Calm
<1>s. /\ toServer \in Seq(Writes) /\ writes \in [Writes -> Nat] /\ requests \in [Relayed -> Nat]
      /\ row \in Rows
  BY DEF IInv, TypeOK, WireTyped, ServerTyped
<1>c. calm => /\ row.ended /\ row.status = reported /\ reported \in Outcomes
              /\ dispatch = "over" /\ requests["prompt"] = 0 /\ requests["decide"] = 0
              /\ \A w \in Writes \ {"pushed"} : writes[w] = 0
              /\ AllPushed(toServer)
  BY DEF IInv, Calm, AllPushed
<1>l. calm => ~live
  BY <1>c DEF IInv, LiveFirst, Outcomes
<1>q. Writes \ Outcomes # {} /\ "running" \in Writes \ {"pushed"}
  BY DEF Writes, Outcomes
<1>1. ASSUME NEW w \in Writes, Write(w) PROVE Calm'
  <2>1. writes' = [writes EXCEPT ![w] = @ - 1] /\ writes[w] > 0
    BY <1>1 DEF Write
  <2>2. UNCHANGED <<dispatch, requests, toServer, reported>>
    BY <1>1 DEF Write, wire
  <2>3. CASE calm
    <3>1. w = "pushed"
      BY <2>1, <2>3, <1>c
    <3>2. row' = [row EXCEPT !.pushed = TRUE]
      BY <1>1, <3>1 DEF Write
    <3>3. row'.ended /\ row'.status = row.status
      BY <1>c, <1>s, <2>3, <3>2 DEF Rows
    <3>4. \A x \in Writes \ {"pushed"} : writes'[x] = 0
      BY <1>c, <1>s, <2>1, <2>3, <3>1
    <3> QED BY <1>c, <2>2, <2>3, <3>3, <3>4 DEF Calm, AllPushed
  <2>4. CASE ~calm
    <3>1. w \in Outcomes /\ NothingElse(w)
      BY <1>1, <2>4 DEF Write
    <3>2. w = reported /\ AllPushed(toServer)
      BY <3>1, <2>1 DEF IInv, EndIsLast, AllPushed
    <3>3. StatusOf(w) = w /\ w # "pushed"
      BY <3>1 DEF StatusOf, Outcomes
    <3>4. row'.ended /\ row'.status = w
      <4> DEFINE e == row.ended \/ w \in Outcomes \cup {"device_offline"}
                 b == row.branch \/ w = "completed"
      <4>1. row' = [row EXCEPT !.status = w, !.ended = e, !.branch = b]
        BY <1>1, <3>3 DEF Write
      <4>2. e
        BY <3>1
      <4> HIDE DEF e, b
      <4> QED BY <4>1, <4>2, <1>s DEF Rows
    <3>5. \A x \in Writes \ {"pushed"} : writes'[x] = 0
      BY <3>1, <3>3, <2>1, <1>s DEF NothingElse
    <3> QED BY <3>1, <3>2, <3>4, <3>5, <2>2 DEF Calm, AllPushed, NothingElse
  <2> QED BY <2>3, <2>4
<1>2. ASSUME NEW q \in Relayed, Request(q) PROVE Calm'
  <2>1. calm /\ UNCHANGED <<row, dispatch, writes, toServer, reported>>
    BY <1>2 DEF Request, wire
  <2>2. q # "prompt" /\ q # "decide"
    BY <1>2, <1>c, <2>1 DEF Request, Active
  <2>3. requests'["prompt"] = 0 /\ requests'["decide"] = 0
    BY <1>2, <1>c, <1>s, <2>1, <2>2 DEF Request, Relayed
  <2> QED BY <1>c, <2>1, <2>3 DEF Calm, AllPushed
<1>3. ASSUME NEW q \in Relayed, Relay(q) PROVE Calm'
  <2>1. calm /\ UNCHANGED <<row, dispatch, toServer, reported>>
    BY <1>3 DEF Relay, history
  <2>2. q # "prompt" /\ q # "decide"
    BY <1>3, <1>c, <2>1 DEF Relay
  <2>3. requests'["prompt"] = 0 /\ requests'["decide"] = 0
    BY <1>3, <1>c, <1>s, <2>1, <2>2 DEF Relay, Relayed
  <2>4. UNCHANGED writes
    BY <1>3, <2>2 DEF Relay
  <2> QED BY <1>c, <2>1, <2>3, <2>4 DEF Calm, AllPushed
<1>4. CASE Receive
  <2>1. calm /\ UNCHANGED <<row, dispatch, requests, reported>>
    BY <1>4 DEF Receive, history
  <2>2. /\ Len(toServer) \in Nat \ {0} /\ Head(toServer) = toServer[1]
        /\ Len(toServer') = Len(toServer) - 1
        /\ \A i \in 1 .. Len(toServer) - 1 : toServer'[i] = toServer[i + 1]
    BY <1>4, <1>s, Rest DEF Receive
  <2>3. toServer[1] = "pushed"
    BY <1>c, <2>1, <2>2 DEF AllPushed
  <2>4. AllPushed(toServer')
    <3>1. \A j \in 1 .. Len(toServer') : j \in 1 .. Len(toServer) - 1 /\ j + 1 \in 1 .. Len(toServer)
      BY <2>2
    <3> QED BY <1>c, <2>1, <2>2, <3>1 DEF AllPushed
  <2>5. \A x \in Writes \ {"pushed"} : writes'[x] = 0
    BY <1>4, <1>c, <1>s, <2>1, <2>2, <2>3 DEF Receive, Owe
  <2> QED BY <1>c, <2>1, <2>4, <2>5 DEF Calm, AllPushed
<1>11. ~Malformed
  <2>1. ASSUME Malformed PROVE FALSE
    <3>1. calm /\ toServer[1] \in Worded /\ 1 \in 1 .. Len(toServer)
      BY <2>1, <1>s, Rest DEF Malformed
    <3> QED BY <3>1, <1>c DEF AllPushed, Worded
  <2> QED BY <2>1
<1>12. ASSUME NEW w \in Writes, WriteThrows(w) PROVE Calm'
  <2>1. calm /\ writes[w] > 0 /\ UNCHANGED <<row, dispatch, requests, toServer, reported>>
    BY <1>12 DEF WriteThrows, wire
  <2>2. \A x \in Writes \ {"pushed"} : writes'[x] = 0
    BY <1>12, <1>c, <1>s, <2>1 DEF WriteThrows
  <2> QED BY <1>c, <2>1, <2>2 DEF Calm, AllPushed
<1>5. CASE Pushed
  <2>1. calm /\ UNCHANGED <<row, dispatch, requests, writes, reported>>
    BY <1>5 DEF Pushed, history, server
  <2>2. AllPushed(toServer')
    <3>1. CASE toServer' = toServer
      BY <3>1, <1>c, <2>1
    <3>2. CASE toServer' = Append(toServer, "pushed")
      <4>1. /\ Len(toServer) \in Nat /\ Len(toServer') = Len(toServer) + 1
            /\ \A i \in 1 .. Len(toServer) : toServer'[i] = toServer[i]
            /\ toServer'[Len(toServer) + 1] = "pushed"
        <5>1. "pushed" \in Writes
          BY DEF Writes
        <5> QED BY <3>2, <1>s, <5>1, Appended
      <4>2. \A j \in 1 .. Len(toServer') : j \in 1 .. Len(toServer) \/ j = Len(toServer) + 1
        BY <4>1
      <4> QED BY <4>1, <4>2, <1>c, <2>1 DEF AllPushed
    <3> QED BY <1>5, <3>1, <3>2 DEF Pushed
  <2> QED BY <1>c, <2>1, <2>2 DEF Calm, AllPushed
<1>6. ASSUME NEW w, Finish(w), calm PROVE UNCHANGED <<toServer, reported>>
  BY <1>6, <1>l, Ends
<1>7. CASE CancelGoesOn \/ \E t \in Turns : TurnFails(t) \/ TurnSaved(t)
  <2>1. calm /\ UNCHANGED server
    BY <1>7 DEF CancelGoesOn, TurnFails, TurnSaved
  <2>2. UNCHANGED <<toServer, reported>>
    BY <1>6, <1>7, <2>1 DEF CancelGoesOn, ReportCancelled, TurnFails, TurnSaved
  <2> QED BY <1>c, <2>1, <2>2 DEF Calm, AllPushed, server
<1>8. CASE Disconnect \/ Die
  <2>1. calm /\ UNCHANGED <<server, reported>> /\ toServer' = <<>>
    BY <1>8 DEF Disconnect, Die, Fault
  <2> QED BY <1>c, <2>1 DEF Calm, server
<1>9. ~(Create \/ SendStart \/ AckArrives \/ AckTimesOut \/ AskPermission)
  BY <1>c, <1>l DEF Create, SendStart, AckArrives, AckTimesOut, AskPermission, history
<1>10. CASE BeginStart \/ Started \/ StartRefused \/ Prompted \/ Decided \/ Cancelled
            \/ RemoveWorktree \/ Evict \/ Connect \/ (\E t \in Turns : TurnEnds(t)) \/ UNCHANGED vars
  <2>1. calm /\ UNCHANGED <<server, toServer, reported>>
    BY <1>10 DEF BeginStart, Started, StartRefused, Prompted, Decided, Cancelled, RemoveWorktree,
                 Evict, Connect, TurnEnds, wire, history, vars
  <2> QED BY <1>c, <2>1 DEF Calm, AllPushed, server
<1> QED BY <1>1, <1>2, <1>3, <1>4, <1>5, <1>7, <1>8, <1>9, <1>10, <1>11, <1>12 DEF Next, Server, Machine

-----------------------------------------------------------------------------
LEMMA Invariant == Spec => []IInv
<1>1. Init => IInv
  <2>1. Init => TypeOK
    BY TypeInit
  <2>2. Init => StartsOnce /\ LiveFirst /\ Kept /\ EndIsLast /\ Calm
    BY DEF Init, StartsOnce, HasStart, Fresh, LiveFirst, Kept, EndIsLast, Calm, Outcomes, Writes
  <2> QED BY <2>1, <2>2 DEF IInv
<1>2. IInv /\ [Next]_vars => IInv'
  BY TypeStep, StartsStep, FilesStep, EndStep, CalmStep DEF IInv
<1> QED BY <1>1, <1>2, PTL DEF Spec

(* An outcome recorded while nothing else of the session is being handled  *)
(* is final: no status, request or permission is written over it, for any  *)
(* number of turns, requests and faults.                                   *)
THEOREM OutcomeIsKept == Spec => []OutcomeKept
<1>1. IInv => OutcomeKept
  BY DEF IInv, Calm, OutcomeKept
<1> QED BY <1>1, Invariant, PTL

(* What the machine reported completed can be pushed until it is evicted,  *)
(* unless a cancel overlapped the completion or the machine died.          *)
THEOREM CompletedStaysPushable == Spec => []CompletedIsPushable
<1>1. IInv => CompletedIsPushable
  BY DEF IInv, Kept, CompletedIsPushable
<1> QED BY <1>1, Invariant, PTL
=============================================================================
