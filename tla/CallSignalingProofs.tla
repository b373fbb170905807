------------------------ MODULE CallSignalingProofs -------------------------
(***************************************************************************)
(* What holds of the calls for any number of them, of users and of faults. *)
(* A call passes through the registry once (Once), so whoever ends it, one *)
(* close is under way at a time and none follows it; what that close will  *)
(* write agrees with whether the call was answered.                        *)
(***************************************************************************)
EXTENDS CallSignaling, FiniteSetTheorems, TLAPS

IsClosing(c, x) == closing[c][x] # NoClose

(* Nothing happens to a call before it was opened; while it is registered  *)
(* nobody closes it; then one does.                                        *)
Stage(c) ==
  /\ opening[c] # "done" => /\ activeCalls[c] = "absent" /\ accepting[c] = "no"
                            /\ closing[c] = NobodyCloses /\ status[c] = "none"
                            /\ Ends(c) = {}
  /\ placed[c] = NoCall => opening[c] = "no"
  /\ Live(c) => closing[c] = NobodyCloses /\ Ends(c) = {} /\ status[c] \notin Terminal
  /\ activeCalls[c] = "ringing" => accepting[c] = "no"
  /\ activeCalls[c] = "answered" => accepting[c] # "no"
  /\ \A x, y \in Closers : IsClosing(c, x) /\ IsClosing(c, y) => x = y

(* What a close under way will write. *)
WillClose(c) ==
  \A x \in Closers : IsClosing(c, x) =>
    /\ closing[c][x].at # "no" /\ closing[c][x].status \in Terminal
    /\ closing[c][x].status = "ended" => accepting[c] # "no"
    /\ closing[c][x].status = "missed" => accepting[c] = "no"
    /\ closing[c][x].at = "marker" => status[c] \in Terminal
    /\ Ends(c) = {}

WasClosed(c) ==
  /\ \A i, j \in Ends(c) : i = j
  /\ Ends(c) # {} => status[c] \in Terminal
  /\ status[c] = "ended" => accepting[c] # "no"
  /\ status[c] = "missed" => accepting[c] = "no"

Tracked(c) ==
  status[c] \in {"ringing", "accepted"} =>
    \/ Live(c) \/ lost[c]
    \/ \E x \in Closers : closing[c][x].at \in {"read", "update"}

Once(c) == Stage(c) /\ WillClose(c) /\ WasClosed(c) /\ Tracked(c)

(* The busy check saw every call of the conversation but those that were   *)
(* being inserted.                                                         *)
Taken(c) == opening[c] = "inserting" \/ Live(c)
Checked ==
  \A c, d \in Calls :
    (c # d /\ Taken(c) /\ Taken(d) /\ placed[c].conversation = placed[d].conversation)
      => d \in overlapped[c] \/ c \in overlapped[d]

IInv == TypeOK /\ (\A c \in Calls : Once(c)) /\ Checked

-----------------------------------------------------------------------------
(* A conversation has a member besides the caller. *)
LEMMA CalleeIsMember ==
  ASSUME TypeOK, NEW c \in Calls, placed[c] # NoCall
  PROVE  Callee(c) \in Users /\ Parties(c) \subseteq Users /\ placed[c].caller \in Users
<1>1. placed[c].conversation \in Conversations /\ placed[c].caller \in Users
  BY DEF TypeOK
<1>2. Parties(c) \subseteq Users /\ Cardinality(Parties(c)) = 2
  BY <1>1, CallsAssumption DEF Parties
<1>3. \E u \in Parties(c) : u # placed[c].caller
  <2> SUFFICES ASSUME Parties(c) \subseteq {placed[c].caller} PROVE FALSE
    OBVIOUS
  <2>1. IsFiniteSet({placed[c].caller}) /\ Cardinality({placed[c].caller}) = 1
    BY FS_Singleton
  <2>2. Cardinality(Parties(c)) <= 1
    BY <2>1, FS_Subset
  <2> QED BY <1>2, <2>2
<1> QED BY <1>1, <1>2, <1>3 DEF Callee

LEMMA NoCloseTyped ==
  /\ NoClose \in Closing
  /\ NobodyCloses \in [Closers -> Closing]
  /\ \A x \in Closers : NobodyCloses[x] = NoClose
BY DEF NoClose, NobodyCloses, Closing

(* A close begins: the entry leaves the registry, the timer is off. *)
LEMMA FinalizeTyped ==
  ASSUME TypeOK, NEW c \in Calls, NEW x \in Closers, NEW as \in Terminal,
         NEW tell \in SUBSET Users, Finalize(c, x, as, tell)
  PROVE  /\ activeCalls' = [activeCalls EXCEPT ![c] = "absent"]
         /\ ringTimeout' = [ringTimeout EXCEPT ![c] = FALSE]
         /\ closing' \in [Calls -> [Closers -> Closing]]
         /\ closing' = [closing EXCEPT ![c] =
                         [closing[c] EXCEPT ![x] = [at |-> "read", status |-> as, tell |-> tell]]]
         /\ heard' \in [Calls -> SUBSET Users]
<1> DEFINE begun == [at |-> "read", status |-> as, tell |-> tell]
<1>1. begun \in Closing
  BY DEF Closing
<1>2. closing' = [closing EXCEPT ![c] = [closing[c] EXCEPT ![x] = begun]]
  BY DEF Finalize, TypeOK
<1>3. [closing[c] EXCEPT ![x] = begun] \in [Closers -> Closing]
  BY <1>1 DEF TypeOK
<1>4. closing' \in [Calls -> [Closers -> Closing]]
  BY <1>2, <1>3 DEF TypeOK
<1>5. heard' \in [Calls -> SUBSET Users]
  BY DEF Finalize, TypeOK, Closers
<1> QED BY <1>2, <1>4, <1>5 DEF Finalize, Deregister, Disarm

(* One of the closes goes a statement further, or is over. *)
LEMMA ClosingTyped ==
  ASSUME TypeOK, NEW c \in Calls, NEW x \in Closers,
         \/ Closed(c, x)
         \/ \E at \in {"update", "marker"} :
              closing' = [closing EXCEPT ![c][x].at = at] /\ UNCHANGED heard
         \/ closing' = [closing EXCEPT ![c][x] = NoClose] /\ UNCHANGED heard
  PROVE  /\ closing' \in [Calls -> [Closers -> Closing]]
         /\ heard' \in [Calls -> SUBSET Users]
<1>1. closing[c] \in [Closers -> Closing] /\ closing[c][x] \in Closing
  BY DEF TypeOK
<1>2. PICK z \in Closing : closing' = [closing EXCEPT ![c] = [closing[c] EXCEPT ![x] = z]]
  <2>1. ASSUME NEW at \in {"update", "marker"}, closing' = [closing EXCEPT ![c][x].at = at]
        PROVE  /\ [closing[c][x] EXCEPT !.at = at] \in Closing
               /\ closing' = [closing EXCEPT ![c] = [closing[c] EXCEPT ![x] =
                                [closing[c][x] EXCEPT !.at = at]]]
    BY <1>1, <2>1 DEF Closing, TypeOK
  <2>2. ASSUME closing' = [closing EXCEPT ![c][x] = NoClose]
        PROVE  closing' = [closing EXCEPT ![c] = [closing[c] EXCEPT ![x] = NoClose]]
    BY <2>2 DEF TypeOK
  <2> QED BY <2>1, <2>2, NoCloseTyped DEF Closed
<1>3. [closing[c] EXCEPT ![x] = z] \in [Closers -> Closing]
  BY <1>1, <1>2
<1>4. heard' \in [Calls -> SUBSET Users]
  <2>1. closing[c][x].tell \subseteq Users
    BY <1>1 DEF Closing
  <2>2. heard' = heard \/ heard' = [heard EXCEPT ![c] = @ \cup closing[c][x].tell]
    BY DEF Closed
  <2>3. heard \in [Calls -> SUBSET Users]
    BY DEF TypeOK
  <2>4. heard[c] \cup closing[c][x].tell \in SUBSET Users
    BY <2>1, <2>3
  <2> QED BY <2>2, <2>3, <2>4
<1> QED BY <1>2, <1>3, <1>4 DEF TypeOK

(* Every variable keeps its type. *)
LEMMA TypeStep == TypeOK /\ (\A c \in Calls : Once(c)) /\ [Next]_vars => TypeOK'
<1> SUFFICES ASSUME TypeOK, \A c \in Calls : Once(c), [Next]_vars PROVE TypeOK'
  OBVIOUS
<1> USE DEF calls, rows, history
<1>0. ASSUME NEW c \in Calls PROVE opening[c] # "no" => placed[c] # NoCall
  BY DEF Once, Stage
<1>1. ASSUME NEW c \in Calls, NEW u \in Users, NEW v \in Conversations, Initiate(c, u, v)
      PROVE  TypeOK'
  <2>1. [conversation |-> v, caller |-> u] \in [conversation : Conversations, caller : Users]
    OBVIOUS
  <2>2. placed' \in [Calls -> {NoCall} \cup [conversation : Conversations, caller : Users]]
    BY <1>1, <2>1 DEF Initiate, TypeOK
  <2>3. overlapped' \in [Calls -> SUBSET Calls]
    BY <1>1 DEF Initiate, TypeOK, In
  <2> QED BY <1>1, <2>2, <2>3 DEF Initiate, TypeOK
<1>2. ASSUME NEW c \in Calls, Open(c) PROVE TypeOK'
  BY <1>2 DEF Open, Arm, TypeOK, Statuses
<1>3. ASSUME NEW c \in Calls, Answer(c) PROVE TypeOK'
  <2>1. Callee(c) \in Users
    BY <1>0, <1>3, CalleeIsMember DEF Answer, Once, Stage
  <2> QED BY <1>3, <2>1 DEF Answer, Disarm, TypeOK
<1>a. ASSUME NEW c \in Calls, Answered(c), accepting[c] \in {"update", "marker"}
      PROVE  /\ accepting' \in [Calls -> {"no", "update", "marker", "done"}]
             /\ heard' \in [Calls -> SUBSET Users]
  <2>1. placed[c].caller \in Users
    BY <1>0, <1>a, CalleeIsMember DEF Once, Stage
  <2> QED BY <1>a, <2>1 DEF Answered, TypeOK
<1>4. ASSUME NEW c \in Calls, MarkAccepted(c) PROVE TypeOK'
  <2>1. CASE status[c] = "ringing"
    <3>1. /\ status' = [status EXCEPT ![c] = "accepted"]
          /\ accepting' = [accepting EXCEPT ![c] = "marker"]
          /\ UNCHANGED <<calls, closing, cleaning, markers, heard, history>>
      BY <1>4, <2>1 DEF MarkAccepted
    <3>2. status' \in [Calls -> Statuses]
      BY <3>1 DEF TypeOK, Statuses
    <3>3. accepting' \in [Calls -> {"no", "update", "marker", "done"}]
      BY <3>1 DEF TypeOK
    <3> QED BY <3>1, <3>2, <3>3 DEF TypeOK
  <2>2. CASE status[c] # "ringing"
    BY <1>4, <2>2, <1>a DEF MarkAccepted, TypeOK
  <2> QED BY <2>1, <2>2
<1>5. ASSUME NEW c \in Calls, MarkStart(c) PROVE TypeOK'
  <2>1. markers' \in [Calls -> Seq({"call_start", "call_end"})]
    BY <1>5 DEF MarkStart, TypeOK
  <2> QED BY <1>5, <2>1, <1>a DEF MarkStart, TypeOK
<1>b. ASSUME NEW c \in Calls, NEW x \in Closers, NEW as \in Terminal,
             NEW tell \in SUBSET Users, Finalize(c, x, as, tell),
             cleaning' \in [Users -> {NoCall} \cup Calls],
             UNCHANGED <<placed, opening, accepting, rows, history>>
      PROVE  TypeOK'
  <2>1. /\ activeCalls' = [activeCalls EXCEPT ![c] = "absent"]
        /\ ringTimeout' = [ringTimeout EXCEPT ![c] = FALSE]
        /\ closing' \in [Calls -> [Closers -> Closing]]
        /\ heard' \in [Calls -> SUBSET Users]
    BY <1>b, FinalizeTyped
  <2> QED BY <1>b, <2>1 DEF TypeOK
<1>c. ASSUME NEW c \in Calls, Live(c)
      PROVE  /\ Callee(c) \in Users /\ Parties(c) \subseteq Users
             /\ placed[c].caller \in Users
  BY <1>0, <1>c, CalleeIsMember DEF Once, Stage, Live
<1>6. ASSUME NEW c \in Calls, RingTimesOut(c) PROVE TypeOK'
  <2>1. Parties(c) \in SUBSET Users
    BY <1>6, <1>c DEF RingTimesOut, TypeOK, Live
  <2>2. Timer \in Closers /\ "missed" \in Terminal
    BY DEF Closers, Terminal
  <2>3. Finalize(c, Timer, "missed", Parties(c)) /\ cleaning' = cleaning
        /\ UNCHANGED <<placed, opening, accepting, rows, history>>
    BY <1>6 DEF RingTimesOut
  <2> QED BY <1>b, <2>1, <2>2, <2>3 DEF TypeOK
<1>7. ASSUME NEW c \in Calls, Decline(c) PROVE TypeOK'
  <2>1. Callee(c) \in Closers /\ {placed[c].caller} \in SUBSET Users /\ "declined" \in Terminal
    BY <1>7, <1>c DEF Decline, Closers, Terminal
  <2>2. Finalize(c, Callee(c), "declined", {placed[c].caller}) /\ cleaning' = cleaning
        /\ UNCHANGED <<placed, opening, accepting, rows, history>>
    BY <1>7 DEF Decline
  <2> QED BY <1>b, <2>1, <2>2 DEF TypeOK
<1>8. ASSUME NEW c \in Calls, NEW u \in Users, End(c, u) \/ CleanUp(u, c) PROVE TypeOK'
  <2>1. /\ u \in Closers /\ OtherParty(c, u) \in SUBSET Users /\ OnceOver(c) \in Terminal
    BY <1>8, <1>c DEF End, CleanUp, IsParticipant, OtherParty, OnceOver, Closers, Terminal
  <2>2. /\ Finalize(c, u, OnceOver(c), OtherParty(c, u))
        /\ UNCHANGED <<placed, opening, accepting, rows, history>>
        /\ cleaning' = cleaning \/ cleaning' = [cleaning EXCEPT ![u] = c]
    BY <1>8 DEF End, CleanUp
  <2>3. cleaning' \in [Users -> {NoCall} \cup Calls]
    BY <2>2 DEF TypeOK
  <2> QED BY <1>b, <2>1, <2>2, <2>3
<1>9. ASSUME NEW u \in Users, CleanedUp(u) PROVE TypeOK'
  BY <1>9 DEF CleanedUp, TypeOK
<1>10. ASSUME NEW c \in Calls, NEW x \in Closers, ReadRow(c, x) PROVE TypeOK'
  <2>1. closing' \in [Calls -> [Closers -> Closing]] /\ heard' \in [Calls -> SUBSET Users]
    BY <1>10, ClosingTyped DEF ReadRow
  <2> QED BY <1>10, <2>1 DEF ReadRow, TypeOK
<1>11. ASSUME NEW c \in Calls, NEW x \in Closers, CloseRow(c, x) PROVE TypeOK'
  <2>1. closing' \in [Calls -> [Closers -> Closing]] /\ heard' = heard
    BY <1>11, ClosingTyped DEF CloseRow
  <2>2. closing[c][x].status \in Statuses
    BY DEF TypeOK, Closing, Statuses
  <2>3. status' \in [Calls -> Statuses]
    BY <1>11, <2>2 DEF CloseRow, TypeOK
  <2> QED BY <1>11, <2>1, <2>3 DEF CloseRow, TypeOK
<1>12. ASSUME NEW c \in Calls, NEW x \in Closers, MarkEnd(c, x) PROVE TypeOK'
  <2>1. closing' \in [Calls -> [Closers -> Closing]] /\ heard' \in [Calls -> SUBSET Users]
    BY <1>12, ClosingTyped DEF MarkEnd
  <2>2. markers' \in [Calls -> Seq({"call_start", "call_end"})]
    BY <1>12 DEF MarkEnd, TypeOK
  <2> QED BY <1>12, <2>1, <2>2 DEF MarkEnd, TypeOK
<1>d. Fault => faults' \in 0 .. MaxFaults
  BY CallsAssumption DEF Fault, TypeOK
<1>13. ASSUME NEW c \in Calls, OpenFails(c) PROVE TypeOK'
  BY <1>13, <1>d DEF OpenFails, TypeOK, Statuses
<1>14. ASSUME NEW c \in Calls, AcceptFails(c) PROVE TypeOK'
  BY <1>14, <1>d DEF AcceptFails, TypeOK
<1>15. ASSUME NEW c \in Calls, NEW x \in Closers, CloseFails(c, x) PROVE TypeOK'
  <2>1. closing' \in [Calls -> [Closers -> Closing]]
    BY <1>15, ClosingTyped DEF CloseFails
  <2> QED BY <1>15, <2>1, <1>d DEF CloseFails, TypeOK
<1>16. ASSUME Restart PROVE TypeOK'
  <2>1. /\ closing' \in [Calls -> [Closers -> Closing]] /\ cleaning' \in [Users -> {NoCall} \cup Calls]
        /\ lost' \in [Calls -> BOOLEAN]
    BY <1>16, NoCloseTyped DEF Restart, TypeOK, UnderWay, Live
  <2>2. /\ opening' \in [Calls -> {"no", "inserting", "done"}]
        /\ activeCalls' \in [Calls -> {"absent", "ringing", "answered"}]
        /\ ringTimeout' \in [Calls -> BOOLEAN] /\ \A c \in Calls : ~ringTimeout'[c]
        /\ accepting' \in [Calls -> {"no", "update", "marker", "done"}]
    BY <1>16 DEF Restart
  <2> QED BY <1>16, <2>1, <2>2, <1>d DEF Restart, TypeOK
<1>17. CASE UNCHANGED vars
  BY <1>17 DEF vars, TypeOK
<1> QED BY <1>1, <1>2, <1>3, <1>4, <1>5, <1>6, <1>7, <1>8, <1>9, <1>10, <1>11, <1>12, <1>13,
           <1>14, <1>15, <1>16, <1>17 DEF Next, Handlers

-----------------------------------------------------------------------------
(* A call nothing happens to. *)
Kept(d) ==
  /\ placed'[d] = placed[d] /\ opening'[d] = opening[d] /\ activeCalls'[d] = activeCalls[d]
  /\ accepting'[d] = accepting[d] /\ closing'[d] = closing[d]
  /\ status'[d] = status[d] /\ markers'[d] = markers[d] /\ (lost[d] => lost'[d])

LEMMA KeptOnce ==
  ASSUME NEW d \in Calls, Once(d), Kept(d)
  PROVE  Once(d)'
<1>1. Ends(d)' = Ends(d) /\ (Live(d)' <=> Live(d))
  BY DEF Kept, Ends, Live
<1>2. \A x \in Closers : IsClosing(d, x)' <=> IsClosing(d, x)
  BY DEF Kept, IsClosing
<1>3. Stage(d)'
  BY <1>1, <1>2 DEF Kept, Once, Stage
<1>4. WillClose(d)'
  BY <1>1, <1>2 DEF Kept, Once, WillClose
<1>5. WasClosed(d)'
  BY <1>1 DEF Kept, Once, WasClosed
<1>6. Tracked(d)'
  BY <1>1 DEF Kept, Once, Tracked
<1> QED BY <1>3, <1>4, <1>5, <1>6 DEF Once

(* A marker more is one more call_end, or none. *)
LEMMA EndsAppend ==
  ASSUME TypeOK, NEW c \in Calls, NEW e \in {"call_start", "call_end"},
         markers'[c] = Append(markers[c], e)
  PROVE  Ends(c)' = IF e = "call_end" THEN Ends(c) \cup {Len(markers[c]) + 1} ELSE Ends(c)
<1> DEFINE s == markers[c]
<1>1. s \in Seq({"call_start", "call_end"})
  BY DEF TypeOK
<1>2. /\ DOMAIN Append(s, e) = 1 .. Len(s) + 1 /\ DOMAIN s = 1 .. Len(s) /\ Len(s) \in Nat
      /\ \A i \in 1 .. Len(s) : Append(s, e)[i] = s[i]
      /\ Append(s, e)[Len(s) + 1] = e
  BY <1>1
<1>3. 1 .. Len(s) + 1 = 1 .. Len(s) \cup {Len(s) + 1}
  BY <1>2
<1>4. Ends(c)' = {i \in 1 .. Len(s) + 1 : Append(s, e)[i] = "call_end"}
  BY <1>2 DEF Ends
<1> HIDE DEF s
<1>5. Ends(c) = {i \in 1 .. Len(s) : s[i] = "call_end"}
  BY <1>2 DEF Ends, s
<1>6. CASE e = "call_end"
  BY <1>2, <1>3, <1>4, <1>5, <1>6 DEF s
<1>7. CASE e # "call_end"
  BY <1>2, <1>3, <1>4, <1>5, <1>7 DEF s
<1> QED BY <1>6, <1>7 DEF s

(* Whoever ends a registered call begins the one close it will have. *)
LEMMA FinalizeOnce ==
  ASSUME TypeOK, NEW c \in Calls, Once(c), Live(c), NEW x \in Closers, NEW as \in Terminal,
         NEW tell \in SUBSET Users, Finalize(c, x, as, tell),
         as = "ended" => activeCalls[c] = "answered",
         as = "missed" => activeCalls[c] = "ringing",
         UNCHANGED <<placed, opening, accepting, rows, history>>
  PROVE  Once(c)' /\ ~(Live(c)')
<1> DEFINE begun == [at |-> "read", status |-> as, tell |-> tell]
<1>1. /\ opening[c] = "done" /\ placed[c] # NoCall /\ closing[c] = NobodyCloses
      /\ Ends(c) = {} /\ status[c] \notin Terminal
      /\ as = "ended" => accepting[c] # "no"
      /\ as = "missed" => accepting[c] = "no"
  BY DEF Once, Stage, Live, TypeOK
<1>2. /\ activeCalls' = [activeCalls EXCEPT ![c] = "absent"]
      /\ closing' = [closing EXCEPT ![c] = [closing[c] EXCEPT ![x] = begun]]
  <2>1. /\ activeCalls' = [activeCalls EXCEPT ![c] = "absent"]
        /\ closing' = [closing EXCEPT ![c][x] = begun]
    BY DEF Finalize, Deregister
  <2> QED BY <2>1 DEF TypeOK
<1>3. closing'[c] = [NobodyCloses EXCEPT ![x] = begun]
  BY <1>1, <1>2 DEF TypeOK
<1>4. /\ closing'[c][x] = begun
      /\ \A y \in Closers \ {x} : closing'[c][y] = NoClose
  BY <1>3, NoCloseTyped
<1>5. \A y \in Closers : IsClosing(c, y)' => y = x
  BY <1>4 DEF IsClosing
<1>6. activeCalls'[c] = "absent" /\ Ends(c)' = {} /\ UNCHANGED <<status, accepting, lost>>
  BY <1>1, <1>2 DEF TypeOK, Ends, rows, history
<1>7. Stage(c)'
  BY <1>1, <1>5, <1>6 DEF Stage, Live
<1>8. WillClose(c)'
  <2>1. /\ closing'[c][x].at = "read" /\ closing'[c][x].status = as
    BY <1>4
  <2> HIDE DEF begun
  <2> QED BY <1>1, <2>1, <1>5, <1>6 DEF WillClose
<1>9. WasClosed(c)'
  BY <1>1, <1>6 DEF WasClosed, Terminal
<1>10. Tracked(c)'
  BY <1>4 DEF Tracked
<1> QED BY <1>6, <1>7, <1>8, <1>9, <1>10 DEF Once, Live

(* The close under way makes a statement, is over, or fails. *)
LEMMA CloseOnce ==
  ASSUME TypeOK, NEW c \in Calls, Once(c), NEW x \in Closers,
         ReadRow(c, x) \/ CloseRow(c, x) \/ MarkEnd(c, x) \/ CloseFails(c, x)
  PROVE  Once(c)'
<1>0. /\ UNCHANGED <<placed, opening, activeCalls, accepting>>
      /\ closing[c][x].at # "no" /\ (lost[c] => lost'[c])
  BY DEF ReadRow, CloseRow, MarkEnd, CloseFails, calls, history, TypeOK
<1>1. /\ IsClosing(c, x) /\ Ends(c) = {} /\ ~Live(c) /\ opening[c] = "done"
      /\ closing[c][x].status \in Terminal
      /\ closing[c][x].status = "ended" => accepting[c] # "no"
      /\ closing[c][x].status = "missed" => accepting[c] = "no"
      /\ closing[c][x].at = "marker" => status[c] \in Terminal
      /\ \A y \in Closers \ {x} : closing[c][y] = NoClose
  <2>1. IsClosing(c, x)
    BY <1>0 DEF IsClosing, NoClose
  <2>2. closing[c] # NobodyCloses
    BY <2>1, NoCloseTyped DEF IsClosing
  <2>3. opening[c] = "done" /\ ~Live(c) /\ \A y \in Closers \ {x} : ~IsClosing(c, y)
    BY <2>1, <2>2 DEF Once, Stage
  <2> QED BY <2>1, <2>3 DEF Once, WillClose, IsClosing
<1>2. /\ status[c] = "ended" => accepting[c] # "no"
      /\ status[c] = "missed" => accepting[c] = "no"
  BY DEF Once, WasClosed
<1>3. /\ activeCalls'[c] = activeCalls[c] /\ ~(Live(c)')
      /\ opening'[c] = "done" /\ placed'[c] # NoCall
  BY <1>0, <1>1 DEF Live, Once, Stage
<1>4. ASSUME NEW z, closing'[c] = [closing[c] EXCEPT ![x] = z],
             z = NoClose \/ (/\ z.at \in {"update", "marker"} /\ z.status = closing[c][x].status
                             /\ z.at = "marker" => status'[c] \in Terminal
                             /\ Ends(c)' = {}),
             \A i, j \in Ends(c)' : i = j,
             Ends(c)' # {} => status'[c] \in Terminal,
             status'[c] \in {status[c], closing[c][x].status},
             z.at \in {"read", "update"} \/ status'[c] \in Terminal \/ lost'[c]
      PROVE  Once(c)'
  <2>1. closing'[c][x] = z /\ \A y \in Closers \ {x} : closing'[c][y] = NoClose
    BY <1>1, <1>4 DEF TypeOK
  <2>2. \A y \in Closers : IsClosing(c, y)' => y = x /\ z # NoClose
    BY <2>1 DEF IsClosing
  <2>3. activeCalls'[c] = "absent"
    BY <1>3 DEF Live
  <2>4. Stage(c)'
    BY <1>3, <2>2, <2>3 DEF Stage
  <2>5. WillClose(c)'
    BY <1>0, <1>1, <1>4, <2>1, <2>2 DEF WillClose
  <2>6. WasClosed(c)'
    BY <1>0, <1>1, <1>2, <1>4 DEF WasClosed
  <2>7. Tracked(c)'
    BY <1>4, <2>1 DEF Tracked, Terminal
  <2> QED BY <2>4, <2>5, <2>6, <2>7 DEF Once
<1>a. ASSUME closing' = [closing EXCEPT ![c][x] = NoClose]
      PROVE  closing'[c] = [closing[c] EXCEPT ![x] = NoClose]
  BY <1>a DEF TypeOK
<1>5. CASE ReadRow(c, x) /\ IsTerminal(c)
  <2>1. /\ closing'[c] = [closing[c] EXCEPT ![x] = NoClose] /\ status' = status
        /\ Ends(c)' = {}
    BY <1>1, <1>5, <1>a DEF ReadRow, Closed, rows, Ends
  <2> QED BY <1>4, <1>5, <2>1 DEF IsTerminal
<1>6. CASE ReadRow(c, x) /\ ~IsTerminal(c)
  <2> DEFINE z == [closing[c][x] EXCEPT !.at = "update"]
  <2>1. closing'[c] = [closing[c] EXCEPT ![x] = z] /\ status' = status /\ Ends(c)' = {}
    BY <1>1, <1>6 DEF ReadRow, rows, Ends, TypeOK
  <2>2. z.at = "update" /\ z.status = closing[c][x].status
    BY DEF TypeOK, Closing
  <2> HIDE DEF z
  <2> QED BY <1>4, <2>1, <2>2
<1>7. CASE CloseRow(c, x)
  <2> DEFINE z == [closing[c][x] EXCEPT !.at = "marker"]
  <2>1. closing'[c] = [closing[c] EXCEPT ![x] = z] /\ Ends(c)' = {}
    BY <1>1, <1>7 DEF CloseRow, Ends, TypeOK
  <2>2. z.at = "marker" /\ z.status = closing[c][x].status
    BY DEF TypeOK, Closing
  <2>3. status'[c] = IF IsTerminal(c) THEN status[c] ELSE closing[c][x].status
    BY <1>7 DEF CloseRow, TypeOK
  <2>4. status'[c] \in Terminal /\ status'[c] \in {status[c], closing[c][x].status}
    BY <1>1, <2>3 DEF IsTerminal
  <2> HIDE DEF z
  <2> QED BY <1>4, <2>1, <2>2, <2>4
<1>8. CASE MarkEnd(c, x)
  <2>1. closing'[c] = [closing[c] EXCEPT ![x] = NoClose] /\ status' = status
    BY <1>8, <1>a DEF MarkEnd, Closed
  <2>2. markers'[c] = Append(markers[c], "call_end") /\ status[c] \in Terminal
    BY <1>1, <1>8 DEF MarkEnd, TypeOK
  <2>3. Ends(c)' = {Len(markers[c]) + 1}
    BY <1>1, <2>2, EndsAppend
  <2> QED BY <1>4, <2>1, <2>2, <2>3
<1>9. CASE CloseFails(c, x)
  <2>1. /\ closing'[c] = [closing[c] EXCEPT ![x] = NoClose] /\ status' = status
        /\ Ends(c)' = {} /\ lost'[c]
    BY <1>1, <1>9, <1>a DEF CloseFails, rows, Ends, TypeOK
  <2> QED BY <1>4, <2>1
<1> QED BY <1>5, <1>6, <1>7, <1>8, <1>9

(* The step belongs to call c alone. *)
Only(c) == \A d \in Calls \ {c} : Kept(d)

LEMMA OnceStep ==
  TypeOK /\ (\A c \in Calls : Once(c)) /\ [Next]_vars => (\A c \in Calls : Once(c))'
<1> SUFFICES ASSUME TypeOK, \A c \in Calls : Once(c), [Next]_vars PROVE \A c \in Calls : Once(c)'
  OBVIOUS
<1>a. ASSUME NEW c \in Calls, Only(c), Once(c)' PROVE \A d \in Calls : Once(d)'
  BY <1>a, KeptOnce DEF Only
<1>b. ASSUME NEW c \in Calls PROVE Once(c) /\ Stage(c) /\ WillClose(c) /\ WasClosed(c) /\ Tracked(c)
  BY DEF Once
<1> USE DEF calls, rows, history
<1>1. ASSUME NEW c \in Calls, NEW u \in Users, NEW v \in Conversations, Initiate(c, u, v)
      PROVE  \A d \in Calls : Once(d)'
  <2>1. Only(c)
    BY <1>1 DEF Only, Kept, Initiate, TypeOK
  <2>2. /\ opening[c] = "no" /\ opening'[c] = "inserting" /\ placed'[c] # NoCall
        /\ activeCalls[c] = "absent" /\ accepting[c] = "no" /\ closing[c] = NobodyCloses
        /\ status[c] = "none" /\ Ends(c) = {}
        /\ UNCHANGED <<activeCalls, accepting, closing, status, markers>>
    <3>1. opening[c] = "no" /\ placed' = [placed EXCEPT ![c] = [conversation |-> v, caller |-> u]]
      BY <1>1, <1>b DEF Initiate, Stage
    <3>2. placed'[c] # NoCall
      <4>1. [conversation |-> v, caller |-> u] \in [conversation : Conversations, caller : Users]
        OBVIOUS
      <4> QED BY <3>1, <4>1, CallsAssumption DEF TypeOK
    <3> QED BY <1>1, <1>b, <3>1, <3>2 DEF Initiate, Stage, TypeOK
  <2>3. Ends(c)' = {} /\ \A x \in Closers : ~(IsClosing(c, x)')
    BY <2>2, NoCloseTyped DEF Ends, IsClosing
  <2> QED BY <1>a, <2>1, <2>2, <2>3
          DEF Once, Stage, WillClose, WasClosed, Tracked, Live, Terminal
<1>2. ASSUME NEW c \in Calls, Open(c) PROVE \A d \in Calls : Once(d)'
  <2>1. Only(c)
    BY <1>2 DEF Only, Kept, Open, TypeOK
  <2>2. /\ placed[c] # NoCall /\ accepting[c] = "no" /\ closing[c] = NobodyCloses /\ Ends(c) = {}
    BY <1>2, <1>b DEF Open, Stage
  <2>3. /\ opening'[c] = "done" /\ activeCalls'[c] = "ringing" /\ status'[c] = "ringing"
        /\ UNCHANGED <<placed, accepting, closing, markers>> /\ Ends(c)' = Ends(c)
    BY <1>2 DEF Open, TypeOK, Ends
  <2>4. \A x \in Closers : ~(IsClosing(c, x)')
    BY <2>2, <2>3, NoCloseTyped DEF IsClosing
  <2> QED BY <1>a, <2>1, <2>2, <2>3, <2>4
          DEF Once, Stage, WillClose, WasClosed, Tracked, Live, Terminal
<1>3. ASSUME NEW c \in Calls, Answer(c) PROVE \A d \in Calls : Once(d)'
  <2>1. Only(c)
    BY <1>3 DEF Only, Kept, Answer, TypeOK
  <2>2. /\ Live(c) /\ opening[c] = "done" /\ placed[c] # NoCall /\ closing[c] = NobodyCloses
        /\ Ends(c) = {} /\ status[c] \notin Terminal
    BY <1>3, <1>b DEF Answer, Stage, Live
  <2>3. /\ activeCalls'[c] = "answered" /\ accepting'[c] = "update"
        /\ UNCHANGED <<placed, opening, closing, status, markers>> /\ Ends(c)' = Ends(c)
    BY <1>3 DEF Answer, TypeOK, Ends
  <2>4. \A x \in Closers : ~(IsClosing(c, x)')
    BY <2>2, <2>3, NoCloseTyped DEF IsClosing
  <2> QED BY <1>a, <2>1, <2>2, <2>3, <2>4
          DEF Once, Stage, WillClose, WasClosed, Tracked, Live, Terminal
<1>c. ASSUME NEW c \in Calls, Only(c), accepting[c] # "no", accepting'[c] # "no",
             UNCHANGED <<placed, opening, activeCalls, closing>>, Ends(c)' = Ends(c),
             lost[c] => lost'[c],
             status'[c] = status[c] \/ (status[c] = "ringing" /\ status'[c] = "accepted")
      PROVE  \A d \in Calls : Once(d)'
  <2>1. /\ Live(c)' <=> Live(c)
        /\ \A x \in Closers : IsClosing(c, x)' <=> IsClosing(c, x)
    BY <1>c DEF Live, IsClosing
  <2>2. /\ status'[c] \in Terminal <=> status[c] \in Terminal
        /\ status'[c] = "ended" => status[c] = "ended"
        /\ status'[c] = "missed" => status[c] = "missed"
        /\ status'[c] \in {"ringing", "accepted"} => status[c] \in {"ringing", "accepted"}
    BY <1>c DEF Terminal
  <2>3. Stage(c)'
    BY <1>b, <1>c, <2>1, <2>2 DEF Stage
  <2>4. WillClose(c)'
    BY <1>b, <1>c, <2>1, <2>2 DEF WillClose
  <2>5. WasClosed(c)' /\ Tracked(c)'
    BY <1>b, <1>c, <2>1, <2>2 DEF WasClosed, Tracked
  <2> QED BY <1>a, <1>c, <2>3, <2>4, <2>5 DEF Once
<1>4. ASSUME NEW c \in Calls, MarkAccepted(c) PROVE \A d \in Calls : Once(d)'
  <2>1. Only(c)
    BY <1>4 DEF Only, Kept, MarkAccepted, Answered, TypeOK
  <2>2. /\ accepting[c] # "no" /\ accepting'[c] # "no"
        /\ UNCHANGED <<placed, opening, activeCalls, closing, lost>> /\ Ends(c)' = Ends(c)
        /\ status'[c] = status[c] \/ (status[c] = "ringing" /\ status'[c] = "accepted")
    BY <1>4 DEF MarkAccepted, Answered, TypeOK, Ends
  <2> QED BY <1>c, <2>1, <2>2
<1>5. ASSUME NEW c \in Calls, MarkStart(c) PROVE \A d \in Calls : Once(d)'
  <2>1. Only(c)
    BY <1>5 DEF Only, Kept, MarkStart, Answered, TypeOK
  <2>2. /\ accepting[c] # "no" /\ accepting'[c] # "no"
        /\ UNCHANGED <<placed, opening, activeCalls, closing, lost, status>>
    BY <1>5 DEF MarkStart, Answered, TypeOK
  <2>3. Ends(c)' = Ends(c)
    <3>1. markers'[c] = Append(markers[c], "call_start")
      BY <1>5 DEF MarkStart, TypeOK
    <3> QED BY <3>1, EndsAppend
  <2> QED BY <1>c, <2>1, <2>2, <2>3
<1>d. ASSUME NEW c \in Calls, Live(c), NEW x \in Closers, NEW as \in Terminal,
             NEW tell \in SUBSET Users, Finalize(c, x, as, tell),
             as = "ended" => activeCalls[c] = "answered",
             as = "missed" => activeCalls[c] = "ringing",
             UNCHANGED <<placed, opening, accepting, rows, history>>
      PROVE  \A d \in Calls : Once(d)'
  <2>1. Once(c)'
    BY <1>d, FinalizeOnce
  <2>2. Only(c)
    BY <1>d DEF Finalize, Deregister, Only, Kept, TypeOK
  <2> QED BY <1>a, <2>1, <2>2
<1>e. ASSUME NEW c \in Calls, Live(c)
      PROVE  /\ Callee(c) \in Closers /\ Parties(c) \in SUBSET Users
             /\ {placed[c].caller} \in SUBSET Users
             /\ \A u \in Users : OtherParty(c, u) \in SUBSET Users /\ u \in Closers
  <2>1. placed[c] # NoCall
    BY <1>b, <1>e DEF Stage, Live
  <2> QED BY <2>1, CalleeIsMember DEF OtherParty, Closers
<1>6. ASSUME NEW c \in Calls, RingTimesOut(c) PROVE \A d \in Calls : Once(d)'
  <2>1. Live(c) /\ activeCalls[c] = "ringing" /\ Timer \in Closers /\ "missed" \in Terminal
    BY <1>6 DEF RingTimesOut, TypeOK, Live, Closers, Terminal
  <2>2. /\ Finalize(c, Timer, "missed", Parties(c))
        /\ UNCHANGED <<placed, opening, accepting, rows, history>>
    BY <1>6 DEF RingTimesOut
  <2> QED BY <1>d, <1>e, <2>1, <2>2
<1>7. ASSUME NEW c \in Calls, Decline(c) PROVE \A d \in Calls : Once(d)'
  <2>1. Live(c) /\ "declined" \in Terminal
    BY <1>7 DEF Decline, Terminal
  <2>2. /\ Finalize(c, Callee(c), "declined", {placed[c].caller})
        /\ UNCHANGED <<placed, opening, accepting, rows, history>>
    BY <1>7 DEF Decline
  <2> QED BY <1>d, <1>e, <2>1, <2>2
<1>8. ASSUME NEW c \in Calls, NEW u \in Users, End(c, u) \/ CleanUp(u, c)
      PROVE  \A d \in Calls : Once(d)'
  <2>1. Live(c)
    BY <1>8 DEF End, CleanUp, IsParticipant
  <2>2. /\ OnceOver(c) \in Terminal
        /\ OnceOver(c) = "ended" => activeCalls[c] = "answered"
        /\ OnceOver(c) = "missed" => activeCalls[c] = "ringing"
    BY <2>1 DEF OnceOver, Terminal, Live, TypeOK
  <2>3. /\ Finalize(c, u, OnceOver(c), OtherParty(c, u))
        /\ UNCHANGED <<placed, opening, accepting, rows, history>>
    BY <1>8 DEF End, CleanUp
  <2> QED BY <1>d, <1>e, <2>1, <2>2, <2>3
<1>9. ASSUME NEW c \in Calls, NEW x \in Closers,
             ReadRow(c, x) \/ CloseRow(c, x) \/ MarkEnd(c, x) \/ CloseFails(c, x)
      PROVE  \A d \in Calls : Once(d)'
  <2>1. Only(c)
    <3>1. \A d \in Calls \ {c} : closing'[d] = closing[d]
      BY <1>9 DEF ReadRow, CloseRow, MarkEnd, CloseFails, Closed, TypeOK
    <3>2. \A d \in Calls \ {c} : status'[d] = status[d] /\ markers'[d] = markers[d] /\ (lost[d] => lost'[d])
      BY <1>9 DEF ReadRow, CloseRow, MarkEnd, CloseFails, TypeOK
    <3>3. UNCHANGED <<placed, opening, activeCalls, accepting>>
      BY <1>9 DEF ReadRow, CloseRow, MarkEnd, CloseFails
    <3> QED BY <3>1, <3>2, <3>3 DEF Only, Kept
  <2> QED BY <1>a, <1>9, <2>1, CloseOnce
<1>10. ASSUME NEW c \in Calls, OpenFails(c) PROVE \A d \in Calls : Once(d)'
  <2>1. Only(c)
    BY <1>10 DEF Only, Kept, OpenFails, TypeOK
  <2>2. /\ placed[c] # NoCall /\ accepting[c] = "no" /\ closing[c] = NobodyCloses /\ Ends(c) = {}
        /\ activeCalls[c] = "absent"
    BY <1>10, <1>b DEF OpenFails, Stage
  <2>3. /\ opening'[c] = "done" /\ status'[c] \in {"none", "ringing"} /\ lost'[c]
        /\ UNCHANGED <<placed, activeCalls, accepting, closing, markers>> /\ Ends(c)' = Ends(c)
    BY <1>10 DEF OpenFails, TypeOK, Ends
  <2>4. \A x \in Closers : ~(IsClosing(c, x)')
    BY <2>2, <2>3, NoCloseTyped DEF IsClosing
  <2> QED BY <1>a, <2>1, <2>2, <2>3, <2>4
          DEF Once, Stage, WillClose, WasClosed, Tracked, Live, Terminal
<1>11. ASSUME NEW c \in Calls, AcceptFails(c) PROVE \A d \in Calls : Once(d)'
  <2>1. Only(c)
    BY <1>11 DEF Only, Kept, AcceptFails, TypeOK
  <2>2. /\ accepting[c] # "no" /\ accepting'[c] # "no" /\ (lost[c] => lost'[c])
        /\ UNCHANGED <<placed, opening, activeCalls, closing, status>> /\ Ends(c)' = Ends(c)
    BY <1>11 DEF AcceptFails, TypeOK, Ends
  <2> QED BY <1>c, <2>1, <2>2
<1>12. ASSUME Restart, NEW c \in Calls PROVE Once(c)'
  <2>1. /\ activeCalls'[c] = "absent" /\ closing'[c] = NobodyCloses /\ Ends(c)' = Ends(c)
        /\ UNCHANGED <<placed, status>> /\ lost'[c] = (lost[c] \/ UnderWay(c))
        /\ opening'[c] = IF opening[c] = "no" THEN "no" ELSE "done"
        /\ accepting'[c] = IF accepting[c] = "no" THEN "no" ELSE "done"
    BY <1>12 DEF Restart, Ends
  <2>2. \A x \in Closers : ~(IsClosing(c, x)')
    BY <2>1, NoCloseTyped DEF IsClosing
  <2>3. (\E x \in Closers : closing[c][x].at \in {"read", "update"}) => closing[c] # NobodyCloses
    BY NoCloseTyped DEF NoClose
  <2>4. Stage(c)'
    BY <1>b, <2>1, <2>2 DEF Stage, Live
  <2>5. WillClose(c)' /\ WasClosed(c)'
    BY <1>b, <2>1, <2>2 DEF WillClose, WasClosed
  <2>6. Tracked(c)'
    BY <1>b, <2>1, <2>3 DEF Tracked, UnderWay
  <2> QED BY <2>4, <2>5, <2>6 DEF Once
<1>13. ASSUME \A d \in Calls : Kept(d) PROVE \A d \in Calls : Once(d)'
  BY <1>13, KeptOnce
<1>14. ASSUME NEW u \in Users, CleanedUp(u) PROVE \A d \in Calls : Kept(d)
  BY <1>14 DEF CleanedUp, Kept
<1>15. ASSUME UNCHANGED vars PROVE \A d \in Calls : Kept(d)
  BY <1>15 DEF vars, Kept
<1> QED BY <1>1, <1>2, <1>3, <1>4, <1>5, <1>6, <1>7, <1>8, <1>9, <1>10, <1>11, <1>12, <1>13,
           <1>14, <1>15 DEF Next, Handlers

-----------------------------------------------------------------------------
(* Every call that holds a conversation was checked against the others. *)
LEMMA CheckedStep ==
  TypeOK /\ (\A c \in Calls : Once(c)) /\ Checked /\ [Next]_vars => Checked'
<1> SUFFICES ASSUME TypeOK, \A c \in Calls : Once(c), Checked, [Next]_vars PROVE Checked'
  OBVIOUS
<1> USE DEF calls, history
<1>1. ASSUME NEW c \in Calls, NEW u \in Users, NEW v \in Conversations, Initiate(c, u, v)
      PROVE  Checked'
  <2>1. /\ placed[c] = NoCall /\ ~Busy(v)
        /\ placed'[c].conversation = v /\ overlapped'[c] = {d \in In(v) : opening[d] = "inserting"}
        /\ \A d \in Calls \ {c} : /\ placed'[d] = placed[d] /\ opening'[d] = opening[d]
                                  /\ overlapped'[d] = overlapped[d]
        /\ activeCalls' = activeCalls
    BY <1>1 DEF Initiate, TypeOK
  <2>2. ASSUME NEW d \in Calls \ {c}, Taken(d)', placed'[d].conversation = v
        PROVE  d \in overlapped'[c]
    <3>1. placed[d] # NoCall /\ Taken(d) /\ placed[d].conversation = v
      BY <2>1, <2>2 DEF Taken, Live, Once, Stage
    <3>2. d \in In(v) /\ ~Live(d)
      BY <2>1, <3>1 DEF Busy, In
    <3> QED BY <2>1, <3>1, <3>2 DEF Taken
  <2>3. \A d \in Calls \ {c} : Taken(d)' => Taken(d)
    BY <2>1 DEF Taken, Live
  <2> QED BY <2>1, <2>2, <2>3 DEF Checked
<1>2. ASSUME UNCHANGED <<placed, overlapped>>, \A d \in Calls : Taken(d)' => Taken(d)
      PROVE  Checked'
  BY <1>2 DEF Checked
<1>3. ASSUME NEW c \in Calls, Open(c) PROVE Checked'
  <2>1. Taken(c) /\ UNCHANGED <<placed, overlapped>>
    BY <1>3 DEF Open, Taken
  <2>2. \A d \in Calls \ {c} : opening'[d] = opening[d] /\ activeCalls'[d] = activeCalls[d]
    BY <1>3 DEF Open, TypeOK
  <2> QED BY <1>2, <2>1, <2>2 DEF Taken, Live
<1>4. ASSUME NEW c \in Calls, Answer(c) PROVE Checked'
  <2>1. Live(c) /\ UNCHANGED <<placed, overlapped, opening>>
    BY <1>4 DEF Answer, Live
  <2>2. \A d \in Calls \ {c} : activeCalls'[d] = activeCalls[d]
    BY <1>4 DEF Answer, TypeOK
  <2> QED BY <1>2, <2>1, <2>2 DEF Taken, Live
<1>5. ASSUME NEW c \in Calls,
             \/ RingTimesOut(c) \/ Decline(c) \/ (\E u \in Users : End(c, u) \/ CleanUp(u, c))
      PROVE  Checked'
  <2>1. activeCalls' = [activeCalls EXCEPT ![c] = "absent"] /\ UNCHANGED <<placed, overlapped, opening>>
    BY <1>5 DEF RingTimesOut, Decline, End, CleanUp, Finalize, Deregister
  <2> QED BY <1>2, <2>1 DEF Taken, Live, TypeOK
<1>6. ASSUME NEW c \in Calls, OpenFails(c) PROVE Checked'
  BY <1>2, <1>6 DEF OpenFails, Taken, Live, TypeOK
<1>7. ASSUME Restart PROVE Checked'
  BY <1>7 DEF Restart, Checked, Taken, Live, TypeOK
<1>8. ASSUME UNCHANGED <<placed, overlapped, opening, activeCalls>> PROVE Checked'
  BY <1>2, <1>8 DEF Taken, Live
<1> QED BY <1>1, <1>3, <1>4, <1>5, <1>6, <1>7, <1>8
        DEF Next, Handlers, MarkAccepted, MarkStart, ReadRow, CloseRow, MarkEnd, CleanedUp,
            AcceptFails, CloseFails, vars

-----------------------------------------------------------------------------
(* No call was placed yet. *)
LEMMA InitInv == Init => IInv
<1> SUFFICES ASSUME Init PROVE IInv
  OBVIOUS
<1>1. TypeOK
  <2>1. closing \in [Calls -> [Closers -> Closing]]
    BY NoCloseTyped DEF Init
  <2>2. markers \in [Calls -> Seq({"call_start", "call_end"})]
    BY DEF Init
  <2> QED BY <2>1, <2>2, CallsAssumption DEF Init, TypeOK, Statuses
<1>2. ASSUME NEW c \in Calls PROVE Once(c)
  <2>1. /\ placed[c] = NoCall /\ opening[c] = "no" /\ activeCalls[c] = "absent"
        /\ accepting[c] = "no" /\ closing[c] = NobodyCloses /\ status[c] = "none"
        /\ Ends(c) = {} /\ ~Live(c) /\ \A x \in Closers : ~IsClosing(c, x)
    BY NoCloseTyped DEF Init, Ends, Live, IsClosing
  <2> QED BY <2>1 DEF Once, Stage, WillClose, WasClosed, Tracked
<1>3. Checked
  BY DEF Init, Checked, Taken, Live
<1> QED BY <1>1, <1>2, <1>3 DEF IInv

(* The invariant holds in every state. *)
LEMMA InvAlways == Spec => []IInv
<1>1. IInv /\ [Next]_vars => IInv'
  BY TypeStep, OnceStep, CheckedStep DEF IInv
<1> QED BY InitInv, <1>1, PTL DEF Spec

(* Registry, timers, closes and rows keep their types, and a timer rings   *)
(* only for a registered call nobody has answered.                         *)
THEOREM TypeCorrect == Spec => []TypeOK
<1>1. IInv => TypeOK
  BY DEF IInv
<1> QED BY InvAlways, <1>1, PTL

(* However many parties, timers and disconnects end it, a call is closed   *)
(* once, and as what it was.                                               *)
THEOREM CallClosedOnce == Spec => []ClosedOnce
<1>1. ASSUME IInv PROVE ClosedOnce
  <2> SUFFICES ASSUME NEW c \in Calls
               PROVE  /\ Cardinality(Ends(c)) <= 1
                      /\ Ends(c) # {} => status[c] \in Terminal
                      /\ status[c] = "ended" => accepting[c] # "no"
                      /\ status[c] = "missed" => accepting[c] = "no"
    BY DEF ClosedOnce
  <2>1. WasClosed(c)
    BY <1>1 DEF IInv, Once
  <2>2. CASE Ends(c) = {}
    BY <2>1, <2>2, FS_EmptySet DEF WasClosed
  <2>3. CASE Ends(c) # {}
    <3>1. PICK i \in Ends(c) : TRUE
      BY <2>3
    <3>2. Ends(c) = {i}
      BY <2>1, <3>1 DEF WasClosed
    <3>3. Cardinality({i}) = 1
      BY FS_Singleton
    <3> QED BY <2>1, <3>2, <3>3 DEF WasClosed
  <2> QED BY <2>2, <2>3
<1> QED BY InvAlways, <1>1, PTL

(* A conversation has two live calls only if neither was there for the     *)
(* other's busy check to see.                                              *)
THEOREM SecondCallRaced == Spec => []SecondCallOnlyByRace
<1>1. IInv => SecondCallOnlyByRace
  BY DEF IInv, Checked, Taken, SecondCallOnlyByRace
<1> QED BY InvAlways, <1>1, PTL

(* A row that is open belongs to a call the server can still close, unless *)
(* a restart or a failed statement lost it.                                *)
THEOREM OpenRowsTracked == Spec => []OpenRowsAreTracked
<1>1. IInv => OpenRowsAreTracked
  BY DEF IInv, Once, Tracked, OpenRowsAreTracked
<1> QED BY InvAlways, <1>1, PTL
=============================================================================
