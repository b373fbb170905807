------------------------------ MODULE Campaign ------------------------------
(***************************************************************************)
(* What a broadcast promises the member who schedules it and the people it *)
(* is addressed to (broadcastService, broadcastSendHandler).  It goes      *)
(* through its phases and ends once.  A person who is listed is waiting    *)
(* until some worker takes him, passed over with a reason, or asked for    *)
(* once, by the worker that took him, whose answer settles him for good.   *)
(* Only a person not asked for yet waits again, and only when the worker   *)
(* that took him gives him back: one whose worker is lost is never taken   *)
(* up again.  After a cancel a worker takes one more batch at most.        *)
(***************************************************************************)
EXTENDS Naturals

CONSTANTS People, Workers,
          Batches      \* the sets of people that may be taken at a time

VARIABLES
  phase,   \* of the campaign
  place,   \* place[r]: how far the campaign has got with person r
  asks,    \* asks[r]: times he was asked for
  hands,   \* hands[w]: the people worker w has taken and is not done with
  late     \* late[w]: batches worker w has taken since the cancel

people == <<place, asks, hands, late>>
vars == <<phase, people>>

Init ==
  /\ phase = "absent"
  /\ place = [r \in People |-> "unlisted"]
  /\ asks = [r \in People |-> 0]
  /\ hands = [w \in Workers |-> {}]
  /\ late = [w \in Workers |-> 0]

Lead(from, to) == phase \in from /\ phase' = to /\ UNCHANGED people

Schedule == Lead({"absent"}, "scheduled")
Begin == Lead({"scheduled", "paused"}, "running")
Pause == Lead({"scheduled", "running"}, "paused")
Complete == Lead({"running"}, "completed")
Fail == Lead({"scheduled", "running", "paused"}, "failed")
Cancel == Lead({"scheduled", "running", "paused"}, "cancelled")

(* People join the list, those who may not be messaged only to be shown. *)
List(waiting, barred) ==
  /\ phase # "absent"
  /\ waiting \cap barred = {} /\ \A r \in waiting \cup barred : place[r] = "unlisted"
  /\ place' = [r \in People |-> IF r \in waiting THEN "waiting"
                                ELSE IF r \in barred THEN "passed" ELSE place[r]]
  /\ UNCHANGED <<phase, asks, hands, late>>

Take(w, S) ==
  /\ hands[w] = {} /\ \A r \in S : place[r] = "waiting"
  /\ phase = "cancelled" => late[w] = 0
  /\ place' = [r \in People |-> IF r \in S THEN "taken" ELSE place[r]]
  /\ hands' = [hands EXCEPT ![w] = S]
  /\ late' = [late EXCEPT ![w] = IF phase = "cancelled" THEN @ + 1 ELSE @]
  /\ UNCHANGED <<phase, asks>>

Pass(w, r) ==
  /\ r \in hands[w] /\ place[r] = "taken"
  /\ place' = [place EXCEPT ![r] = "passed"]
  /\ hands' = [hands EXCEPT ![w] = @ \ {r}]
  /\ UNCHANGED <<phase, asks, late>>

(* One who gets no answer lets go of all it has taken. *)
Ask(w, r) ==
  /\ r \in hands[w] /\ place[r] = "taken"
  /\ place' = [place EXCEPT ![r] = "asked"]
  /\ asks' = [asks EXCEPT ![r] = @ + 1]
  /\ UNCHANGED hands \/ hands' = [hands EXCEPT ![w] = {}]
  /\ UNCHANGED <<phase, late>>

Answer(w, r) ==
  /\ r \in hands[w] /\ place[r] = "asked"
  /\ \E answer \in {"reached", "refused"} : place' = [place EXCEPT ![r] = answer]
  /\ hands' = [hands EXCEPT ![w] = @ \ {r}]
  /\ UNCHANGED <<phase, asks, late>>

(* Nobody is given back who was asked for. *)
GiveBack(w) ==
  /\ \A r \in hands[w] : place[r] = "taken"
  /\ place' = [r \in People |-> IF r \in hands[w] THEN "waiting" ELSE place[r]]
  /\ hands' = [hands EXCEPT ![w] = {}]
  /\ UNCHANGED <<phase, asks, late>>

Vanish(w) ==
  /\ hands' = [hands EXCEPT ![w] = {}]
  /\ UNCHANGED <<phase, place, asks, late>>

Next ==
  \/ Schedule \/ Begin \/ Pause \/ Complete \/ Fail \/ Cancel
  \/ \E waiting, barred \in SUBSET People : List(waiting, barred)
  \/ \E w \in Workers :
       \/ \E S \in Batches : Take(w, S)
       \/ \E r \in People : Pass(w, r) \/ Ask(w, r) \/ Answer(w, r)
       \/ GiveBack(w) \/ Vanish(w)

Spec == Init /\ [][Next]_vars
=============================================================================
