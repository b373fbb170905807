--------------------------- MODULE CallSignaling ----------------------------
(***************************************************************************)
(* 1:1 calls: the in-memory registry of callSignalingHandler, the ring     *)
(* timers, and the call_sessions rows and inline markers of callService    *)
(* and callSessionRepository.                                              *)
(*                                                                         *)
(* A handler runs without interruption up to its next await, so one action *)
(* is a statement of a handler taking effect and what the handler does     *)
(* with the answer before its next await.  Statements of two handlers may  *)
(* take effect in either order.  A user has any number of devices; a       *)
(* disconnect is that of any of them.                                      *)
(***************************************************************************)
EXTENDS Naturals, Sequences, FiniteSets

CONSTANTS Calls,          \* call ids
          Users,
          Conversations,
          Members,        \* the two participants of each conversation
          NoCall, Timer,  \* Timer: the ring timer as the one who closes a call
          MaxFaults       \* bound: restarts of the server and failed statements

ASSUME CallsAssumption ==
  /\ Members \in [Conversations -> SUBSET Users]
  /\ \A v \in Conversations : Cardinality(Members[v]) = 2
  /\ MaxFaults \in Nat
  /\ NoCall \notin Calls \cup [conversation : Conversations, caller : Users]
  /\ Timer \notin Users

Terminal == {"declined", "ended", "missed"}
Statuses == {"none", "ringing", "accepted"} \cup Terminal
Closers == Users \cup {Timer}

VARIABLES
  placed,       \* per call: [conversation, caller] of the initiate, or NoCall
  opening,      \* per call: where its handleInitiate is
  activeCalls,  \* the registry: "absent", "ringing" or "answered"
  ringTimeout,  \* the ring timer is armed
  accepting,    \* where the callee's handleAnswer is
  closing,      \* per call and closer: [at, status, tell] of a close under way
  cleaning,     \* per user: the call a disconnect is finalizing, if one is
  status,       \* call_sessions.status
  markers,      \* the call_start and call_end messages, in order
  (* history *)
  heard,        \* who ended the ringing, or was told that it ended
  overlapped,   \* calls whose initiate was under way when this one was checked
  lost,         \* a restart or a failed statement hit the call
  faults

calls == <<placed, opening, activeCalls, ringTimeout>>
rows == <<status, markers>>
history == <<overlapped, lost, faults>>
vars == <<calls, accepting, closing, cleaning, rows, heard, history>>

NoClose == [at |-> "no", status |-> "none", tell |-> {}]
NobodyCloses == [x \in Closers |-> NoClose]

Init ==
  /\ placed = [c \in Calls |-> NoCall]
  /\ opening = [c \in Calls |-> "no"]
  /\ activeCalls = [c \in Calls |-> "absent"]
  /\ ringTimeout = [c \in Calls |-> FALSE]
  /\ accepting = [c \in Calls |-> "no"]
  /\ closing = [c \in Calls |-> NobodyCloses]
  /\ cleaning = [u \in Users |-> NoCall]
  /\ status = [c \in Calls |-> "none"]
  /\ markers = [c \in Calls |-> <<>>]
  /\ heard = [c \in Calls |-> {}]
  /\ overlapped = [c \in Calls |-> {}]
  /\ lost = [c \in Calls |-> FALSE]
  /\ faults = 0

Parties(c) == Members[placed[c].conversation]
Callee(c) == CHOOSE u \in Parties(c) : u # placed[c].caller
OtherParty(c, u) == Parties(c) \ {u}
In(v) == {c \in Calls : placed[c] # NoCall /\ placed[c].conversation = v}
Live(c) == activeCalls[c] # "absent"
IsParticipant(c, u) == Live(c) /\ u \in Parties(c)

-----------------------------------------------------------------------------
(* Seeded defect: the busy check forgets calls that were answered. *)
RingingOnly(v) == \E c \in In(v) : activeCalls[c] = "ringing"

Busy(v) == \E c \in In(v) : Live(c)

(* handleInitiate up to the insert; a busy conversation is refused. *)
Initiate(c, u, v) ==
  /\ placed[c] = NoCall /\ u \in Members[v] /\ ~Busy(v)
  /\ placed' = [placed EXCEPT ![c] = [conversation |-> v, caller |-> u]]
  /\ opening' = [opening EXCEPT ![c] = "inserting"]
  /\ overlapped' = [overlapped EXCEPT
       ![c] = {d \in In(v) : opening[d] = "inserting"}]
  /\ UNCHANGED <<activeCalls, ringTimeout, accepting, closing, cleaning, rows,
                 heard, lost, faults>>

(* Seeded defect: the timer is left to the callee's answer. *)
ArmedOnAnswer(c) == UNCHANGED ringTimeout

Arm(c) == ringTimeout' = [ringTimeout EXCEPT ![c] = TRUE]

(* The row and its participants are inserted in one transaction; then the  *)
(* timer, the registry entry and the ring.                                 *)
Open(c) ==
  /\ opening[c] = "inserting"
  /\ opening' = [opening EXCEPT ![c] = "done"]
  /\ status' = [status EXCEPT ![c] = "ringing"]
  /\ activeCalls' = [activeCalls EXCEPT ![c] = "ringing"]
  /\ Arm(c)
  /\ UNCHANGED <<placed, accepting, closing, cleaning, markers, heard, history>>

-----------------------------------------------------------------------------
Disarm(c) == ringTimeout' = [ringTimeout EXCEPT ![c] = FALSE]

(* handleAnswer up to markAccepted; a second device's answer is refused. *)
Answer(c) ==
  /\ activeCalls[c] = "ringing"
  /\ activeCalls' = [activeCalls EXCEPT ![c] = "answered"]
  /\ Disarm(c)
  /\ accepting' = [accepting EXCEPT ![c] = "update"]
  /\ heard' = [heard EXCEPT ![c] = @ \cup {Callee(c)}]
  /\ UNCHANGED <<placed, opening, closing, cleaning, rows, history>>

Answered(c) ==
  /\ accepting' = [accepting EXCEPT ![c] = "done"]
  /\ heard' = [heard EXCEPT ![c] = @ \cup {placed[c].caller}]

(* markAccepted moves only a ringing row, else it skips the marker; the    *)
(* caller is told CALL_ANSWERED either way.                                *)
MarkAccepted(c) ==
  /\ accepting[c] = "update"
  /\ \/ /\ status[c] = "ringing"
        /\ status' = [status EXCEPT ![c] = "accepted"]
        /\ accepting' = [accepting EXCEPT ![c] = "marker"]
        /\ UNCHANGED heard
     \/ /\ status[c] # "ringing"
        /\ Answered(c)
        /\ UNCHANGED status
  /\ UNCHANGED <<calls, closing, cleaning, markers, history>>

MarkStart(c) ==
  /\ accepting[c] = "marker"
  /\ markers' = [markers EXCEPT ![c] = Append(@, "call_start")]
  /\ Answered(c)
  /\ UNCHANGED <<calls, closing, cleaning, status, history>>

-----------------------------------------------------------------------------
(* Seeded defect: the entry leaves the registry only when its row closes. *)
KeptInRegistry(c) == UNCHANGED activeCalls

(* The in-memory guard: the entry is deleted before the first await. *)
Deregister(c) == activeCalls' = [activeCalls EXCEPT ![c] = "absent"]

(* What finalizeCall and handleDecline do before they await the close. *)
Finalize(c, x, as, tell) ==
  /\ Deregister(c)
  /\ Disarm(c)
  /\ closing' = [closing EXCEPT ![c][x] = [at |-> "read", status |-> as, tell |-> tell]]
  /\ heard' = [heard EXCEPT ![c] = @ \cup ({x} \ {Timer})]

OnceOver(c) == IF activeCalls[c] = "answered" THEN "ended" ELSE "missed"

RingTimesOut(c) ==
  /\ ringTimeout[c]
  /\ Finalize(c, Timer, "missed", Parties(c))
  /\ UNCHANGED <<placed, opening, accepting, cleaning, rows, history>>

(* The callee may decline a call it has already answered. *)
Decline(c) ==
  /\ Live(c)
  /\ Finalize(c, Callee(c), "declined", {placed[c].caller})
  /\ UNCHANGED <<placed, opening, accepting, cleaning, rows, history>>

End(c, u) ==
  /\ IsParticipant(c, u)
  /\ Finalize(c, u, OnceOver(c), OtherParty(c, u))
  /\ UNCHANGED <<placed, opening, accepting, cleaning, rows, history>>

(* cleanupCalls: a disconnecting device finalizes the calls of its user,   *)
(* one after the other, each awaited; one disconnect of a user at a time.  *)
CanCleanUp(u) ==
  cleaning[u] \in Calls => closing[cleaning[u]][u] = NoClose

CleanUp(u, c) ==
  /\ CanCleanUp(u) /\ IsParticipant(c, u)
  /\ Finalize(c, u, OnceOver(c), OtherParty(c, u))
  /\ cleaning' = [cleaning EXCEPT ![u] = c]
  /\ UNCHANGED <<placed, opening, accepting, rows, history>>

CleanedUp(u) ==
  /\ cleaning[u] # NoCall /\ CanCleanUp(u)
  /\ \A c \in Calls : ~IsParticipant(c, u)
  /\ cleaning' = [cleaning EXCEPT ![u] = NoCall]
  /\ UNCHANGED <<calls, accepting, closing, rows, heard, history>>

-----------------------------------------------------------------------------
Closed(c, x) ==
  /\ closing' = [closing EXCEPT ![c][x] = NoClose]
  /\ heard' = [heard EXCEPT ![c] = @ \cup closing[c][x].tell]

(* Seeded defect: an accepted call counts as terminal. *)
IsAnswered(c) == status[c] \in Terminal \cup {"accepted"}

IsTerminal(c) == status[c] \in Terminal

(* callService.close: a row already terminal is left alone; then           *)
(* CALL_ENDED or CALL_DECLINED.                                            *)
ReadRow(c, x) ==
  /\ closing[c][x].at = "read"
  /\ \/ IsTerminal(c) /\ Closed(c, x)
     \/ /\ ~IsTerminal(c)
        /\ closing' = [closing EXCEPT ![c][x].at = "update"]
        /\ UNCHANGED heard
  /\ UNCHANGED <<calls, accepting, cleaning, rows, history>>

(* The repository's close answers the row as it is when its update matches *)
(* none, so the marker is written either way.                              *)
CloseRow(c, x) ==
  /\ closing[c][x].at = "update"
  /\ status' = [status EXCEPT ![c] = IF IsTerminal(c) THEN @ ELSE closing[c][x].status]
  /\ closing' = [closing EXCEPT ![c][x].at = "marker"]
  /\ UNCHANGED <<calls, accepting, cleaning, markers, heard, history>>

MarkEnd(c, x) ==
  /\ closing[c][x].at = "marker"
  /\ markers' = [markers EXCEPT ![c] = Append(@, "call_end")]
  /\ Closed(c, x)
  /\ UNCHANGED <<calls, accepting, cleaning, status, history>>

-----------------------------------------------------------------------------
Fault ==
  /\ faults < MaxFaults
  /\ faults' = faults + 1

(* A statement fails: its handler throws, and nothing after it happens.    *)
(* The insert may have been committed all the same.                        *)
OpenFails(c) ==
  /\ Fault /\ opening[c] = "inserting"
  /\ opening' = [opening EXCEPT ![c] = "done"]
  /\ \E row \in {"none", "ringing"} : status' = [status EXCEPT ![c] = row]
  /\ lost' = [lost EXCEPT ![c] = TRUE]
  /\ UNCHANGED <<placed, activeCalls, ringTimeout, accepting, closing, cleaning,
                 markers, heard, overlapped>>

AcceptFails(c) ==
  /\ Fault /\ accepting[c] \in {"update", "marker"}
  /\ accepting' = [accepting EXCEPT ![c] = "done"]
  /\ lost' = [lost EXCEPT ![c] = TRUE]
  /\ UNCHANGED <<calls, closing, cleaning, rows, heard, overlapped>>

CloseFails(c, x) ==
  /\ Fault /\ closing[c][x].at \in {"read", "update", "marker"}
  /\ closing' = [closing EXCEPT ![c][x] = NoClose]
  /\ lost' = [lost EXCEPT ![c] = TRUE]
  /\ UNCHANGED <<calls, accepting, cleaning, rows, heard, overlapped>>

UnderWay(c) ==
  \/ opening[c] = "inserting"
  \/ Live(c)
  \/ accepting[c] \in {"update", "marker"}
  \/ closing[c] # NobodyCloses

(* The server stops: the registry, the timers and the handlers are gone,   *)
(* the rows stay, and nothing reads them again.  A restart in the middle   *)
(* of an insert is OpenFails.                                              *)
Restart ==
  /\ Fault /\ \E c \in Calls : UnderWay(c)
  /\ \A c \in Calls : opening[c] # "inserting"
  /\ lost' = [c \in Calls |-> lost[c] \/ UnderWay(c)]
  /\ opening' = [c \in Calls |-> IF opening[c] = "no" THEN "no" ELSE "done"]
  /\ activeCalls' = [c \in Calls |-> "absent"]
  /\ ringTimeout' = [c \in Calls |-> FALSE]
  /\ accepting' = [c \in Calls |-> IF accepting[c] = "no" THEN "no" ELSE "done"]
  /\ closing' = [c \in Calls |-> NobodyCloses]
  /\ cleaning' = [u \in Users |-> NoCall]
  /\ UNCHANGED <<placed, rows, heard, overlapped>>

Handlers ==
  \/ \E c \in Calls : Open(c) \/ MarkAccepted(c) \/ MarkStart(c) \/ RingTimesOut(c)
  \/ \E c \in Calls, x \in Closers : ReadRow(c, x) \/ CloseRow(c, x) \/ MarkEnd(c, x)
  \/ \E u \in Users : CleanedUp(u) \/ \E c \in Calls : CleanUp(u, c)

Next ==
  \/ Handlers
  \/ \E c \in Calls, u \in Users, v \in Conversations : Initiate(c, u, v)
  \/ \E c \in Calls : Answer(c) \/ Decline(c)
  \/ \E c \in Calls, u \in Users : End(c, u)
  \/ \E c \in Calls : OpenFails(c) \/ AcceptFails(c)
  \/ \E c \in Calls, x \in Closers : CloseFails(c, x)
  \/ Restart

Spec == Init /\ [][Next]_vars

(* A live server resumes its handlers and fires its timers; nobody has to  *)
(* answer, hang up or leave.                                               *)
Fairness ==
  /\ \A c \in Calls :
       /\ WF_vars(Open(c)) /\ WF_vars(RingTimesOut(c))
       /\ WF_vars(MarkAccepted(c)) /\ WF_vars(MarkStart(c))
  /\ \A c \in Calls, x \in Closers :
       WF_vars(ReadRow(c, x)) /\ WF_vars(CloseRow(c, x)) /\ WF_vars(MarkEnd(c, x))

FairSpec == Spec /\ Fairness
-----------------------------------------------------------------------------
Closing == [at : {"no", "read", "update", "marker"},
            status : {"none"} \cup Terminal, tell : SUBSET Users]

(* Every variable has its type, and a timer rings only for a registered    *)
(* call nobody has answered.                                               *)
TypeOK ==
  /\ placed \in [Calls -> {NoCall} \cup [conversation : Conversations, caller : Users]]
  /\ opening \in [Calls -> {"no", "inserting", "done"}]
  /\ activeCalls \in [Calls -> {"absent", "ringing", "answered"}]
  /\ ringTimeout \in [Calls -> BOOLEAN]
  /\ accepting \in [Calls -> {"no", "update", "marker", "done"}]
  /\ closing \in [Calls -> [Closers -> Closing]]
  /\ cleaning \in [Users -> {NoCall} \cup Calls]
  /\ status \in [Calls -> Statuses]
  /\ markers \in [Calls -> Seq({"call_start", "call_end"})]
  /\ heard \in [Calls -> SUBSET Users]
  /\ overlapped \in [Calls -> SUBSET Calls]
  /\ lost \in [Calls -> BOOLEAN]
  /\ faults \in 0 .. MaxFaults
  /\ \A c \in Calls : ringTimeout[c] => activeCalls[c] = "ringing"

Ends(c) == {i \in DOMAIN markers[c] : markers[c][i] = "call_end"}

(* A call is closed once, and as what it was.  Whoever ends it - a party,  *)
(* the timer, a disconnect, all at once - at most one call_end marker is   *)
(* written; a missed call was never answered, an ended one was.            *)
ClosedOnce ==
  \A c \in Calls :
    /\ Cardinality(Ends(c)) <= 1
    /\ Ends(c) # {} => status[c] \in Terminal
    /\ status[c] = "ended" => accepting[c] # "no"
    /\ status[c] = "missed" => accepting[c] = "no"

(* A conversation has two live calls only if each was checked before the   *)
(* other was registered: the busy check refuses every later one.           *)
SecondCallOnlyByRace ==
  \A c, d \in Calls :
    (c # d /\ Live(c) /\ Live(d) /\ placed[c].conversation = placed[d].conversation)
      => d \in overlapped[c] \/ c \in overlapped[d]

(* A row that is still ringing or accepted belongs to a call the server    *)
(* can still close - in the registry or being closed - unless a restart or *)
(* a failed statement lost it.                                             *)
OpenRowsAreTracked ==
  \A c \in Calls :
    status[c] \in {"ringing", "accepted"} =>
      \/ Live(c) \/ lost[c]
      \/ \E x \in Closers : closing[c][x].at \in {"read", "update"}

Settled(c) == placed[c] # NoCall /\ Parties(c) \subseteq heard[c]

(* A call that rings stops ringing for both: each party answers it, ends   *)
(* it or is told, unless a restart or a failed statement lost it.          *)
RingIsSettled ==
  \A c \in Calls : (activeCalls[c] = "ringing") ~> (lost[c] \/ Settled(c))
=============================================================================
