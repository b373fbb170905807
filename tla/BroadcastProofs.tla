---------------------------- MODULE BroadcastProofs ----------------------------
(***************************************************************************)
(* What holds of a broadcast for any audience, any number of workers and   *)
(* any sizes of batch and page.  What a handler may still do is one of two *)
(* dozen lists of steps; the list tells whether it holds rows of the       *)
(* ledger, whether it may still claim some, and whether it will refresh    *)
(* the counts before it ends.                                              *)
(***************************************************************************)
EXTENDS Broadcast, FiniteSetTheorems, SequenceTheorems, TLAPS

Dispatching == {<<"check", "start", "page", "refresh", "enqueue">>, <<"check", "page", "refresh", "enqueue">>,
                <<"start", "page", "refresh", "enqueue">>, <<"page", "refresh", "enqueue">>}
BeforeClaim == {<<"unpause", "verify", "claim">>, <<"verify", "claim">>, <<"claim">>}
WithOne == {<<"send">>, <<"accepted">>, <<"refused">>}
Awaiting == {<<"accepted">>, <<"refused">>}
WithBatch == {<<"resolve">>, <<"recipient">>, <<"release", "fail">>, <<"release", "pause", "refresh">>,
              <<"release", "pause", "refresh", "enqueue">>}
Ending == {<<"fail">>, <<"complete", "refresh">>, <<"pause", "refresh">>, <<"pause", "refresh", "enqueue">>,
           <<"refresh">>, <<"refresh", "enqueue">>, <<"enqueue">>, <<"refresh", "retry">>, <<"retry">>}
Todos == {<<>>} \cup Dispatching \cup BeforeClaim \cup WithOne \cup WithBatch \cup Ending

(* The lists on which the counts are refreshed ahead, and no return before. *)
Owing == WithOne \cup
         {<<"page", "refresh", "enqueue">>, <<"recipient">>, <<"release", "pause", "refresh">>,
          <<"release", "pause", "refresh", "enqueue">>, <<"complete", "refresh">>, <<"pause", "refresh">>,
          <<"pause", "refresh", "enqueue">>, <<"refresh">>, <<"refresh", "enqueue">>, <<"refresh", "retry">>}

JobType == [kind : {"none", "dispatch", "send"}, todo : Seq(Steps),
            batch : SUBSET Recipients, at : Recipients \cup {NoOne}]

(* The rows a handler is in charge of. *)
Mine(w) ==
  IF job[w].todo \in WithOne THEN job[w].batch \cup {job[w].at}
  ELSE IF job[w].todo \in WithBatch THEN job[w].batch ELSE {}

(* What a step of w leaves it in charge of; the others stay as they are. *)
LeavesWith(w, S) == Mine(w)' = S /\ \A v \in Workers : v # w => job'[v] = job[v]

(* What a handler has in hand is as its list of steps supposes. *)
Orderly(w) ==
  LET todo == job[w].todo
      batch == job[w].batch
      at == job[w].at
  IN
  /\ todo \in Todos
  /\ todo \notin WithOne \cup {<<"refresh", "retry">>, <<"retry">>} => at = NoOne
  /\ todo \in WithOne => at \in Recipients /\ at \notin batch
  /\ todo = <<"send">> => attempts[at] = 0
  /\ todo \in Awaiting => attempts[at] # 0
  /\ todo \in WithOne \cup WithBatch => \A r \in batch : attempts[r] = 0
  /\ \A r \in Mine(w) : ledger[r] = "sending"
  /\ lateClaims[w] \in {0, 1}
  /\ lateClaims[w] = 1 => status = "cancelled" /\ todo \notin BeforeClaim

Divided == \A v, w \in Workers : v # w => Mine(v) \cap Mine(w) = {}

(* Nobody was asked for twice, nobody who is yet to be claimed at all. *)
Asked ==
  \A r \in Recipients :
    attempts[r] <= 1 /\ (ledger[r] \in {"absent", "pending"} => attempts[r] = 0)

(* The counts are right, or somebody is about to refresh them. *)
Counted == ~dirty /\ counts # Tally => \E w \in Workers : job[w].todo \in Owing

IInv ==
  /\ TypeOK /\ (\A w \in Workers : Orderly(w)) /\ Divided /\ Asked /\ Counted

-----------------------------------------------------------------------------
LEMMA TodosTyped == Todos \subseteq Seq(Steps)
BY DEF Todos, Dispatching, BeforeClaim, WithOne, WithBatch, Ending, Steps

(* The first step of a list tells the list, but for how it goes on. *)
LEMMA Heads ==
  ASSUME NEW w \in Workers, job[w].todo \in Todos
  PROVE  LET t == job[w].todo IN
         /\ At(w, "check") => t \in {<<"check", "start", "page", "refresh", "enqueue">>,
                                    <<"check", "page", "refresh", "enqueue">>}
         /\ At(w, "start") => t = <<"start", "page", "refresh", "enqueue">>
         /\ At(w, "page") => t = <<"page", "refresh", "enqueue">>
         /\ At(w, "unpause") => t = <<"unpause", "verify", "claim">>
         /\ At(w, "verify") => t = <<"verify", "claim">>
         /\ At(w, "claim") => t = <<"claim">>
         /\ At(w, "resolve") => t = <<"resolve">>
         /\ At(w, "recipient") => t = <<"recipient">>
         /\ At(w, "send") => t = <<"send">>
         /\ At(w, "accepted") => t = <<"accepted">>
         /\ At(w, "refused") => t = <<"refused">>
         /\ At(w, "release") => t \in {<<"release", "fail">>, <<"release", "pause", "refresh">>,
                                      <<"release", "pause", "refresh", "enqueue">>}
         /\ At(w, "pause") => t \in {<<"pause", "refresh">>, <<"pause", "refresh", "enqueue">>}
         /\ At(w, "complete") => t = <<"complete", "refresh">>
         /\ At(w, "fail") => t = <<"fail">>
         /\ At(w, "refresh") => t \in {<<"refresh">>, <<"refresh", "enqueue">>, <<"refresh", "retry">>}
         /\ At(w, "enqueue") => t = <<"enqueue">>
         /\ At(w, "retry") => t = <<"retry">>
<1> DEFINE t == job[w].todo
<1>0. t \in Todos /\ \A s : At(w, s) <=> t # <<>> /\ Head(t) = s
  BY DEF At
<1> HIDE DEF t
<1>1. \A s : t = <<s>> => Head(t) = s
  OBVIOUS
<1>2. CASE t \in Dispatching
  BY <1>0, <1>2 DEF Dispatching, t
<1>3. CASE t \in BeforeClaim
  BY <1>0, <1>3 DEF BeforeClaim, t
<1>4. CASE t \in WithOne
  BY <1>0, <1>4 DEF WithOne, t
<1>5. CASE t \in WithBatch
  BY <1>0, <1>5 DEF WithBatch, t
<1>6. CASE t \in Ending
  BY <1>0, <1>6 DEF Ending, t
<1>7. CASE t = <<>>
  BY <1>0, <1>7 DEF t
<1> QED BY <1>0, <1>2, <1>3, <1>4, <1>5, <1>6, <1>7 DEF Todos

LEMMA AwaitingOne == Awaiting \subseteq WithOne /\ <<"send">> \notin Awaiting
BY DEF Awaiting, WithOne

(* The rows in the charge of a handler are those it is sending to. *)
LEMMA SendingIsMine ==
  ASSUME NEW w \in Workers, Orderly(w)
  PROVE  Sending(w) = Mine(w)
<1>1. /\ At(w, "resolve") \/ At(w, "recipient") \/ At(w, "release") <=> job[w].todo \in WithBatch
      /\ At(w, "send") \/ At(w, "accepted") \/ At(w, "refused") <=> job[w].todo \in WithOne
  <2>1. \A t \in WithBatch : t # <<>> /\ Head(t) \in {"resolve", "recipient", "release"}
    BY DEF WithBatch
  <2>2. \A t \in WithOne : t # <<>> /\ Head(t) \in {"send", "accepted", "refused"}
    BY DEF WithOne
  <2>3. At(w, "resolve") \/ At(w, "recipient") \/ At(w, "release") => job[w].todo \in WithBatch
    BY Heads DEF Orderly, WithBatch
  <2>4. At(w, "send") \/ At(w, "accepted") \/ At(w, "refused") => job[w].todo \in WithOne
    BY Heads DEF Orderly, WithOne
  <2> QED BY <2>1, <2>2, <2>3, <2>4 DEF At
<1>2. job[w].todo # <<>> /\ Head(job[w].todo) \in Holding <=> job[w].todo \in WithOne \cup WithBatch
  BY <1>1 DEF Holding, At
<1>3. CASE job[w].todo \in WithOne
  BY <1>2, <1>3, BroadcastAssumption DEF Sending, Mine, Orderly
<1>4. CASE job[w].todo \notin WithOne
  <2>1. job[w].todo \in WithBatch => job[w].at = NoOne
    <3>1. \A t \in WithBatch : t \notin {<<"refresh", "retry">>, <<"retry">>}
      BY DEF WithBatch
    <3> QED BY <1>4, <3>1 DEF Orderly
  <2> QED BY <1>2, <1>4, <2>1 DEF Sending, Mine
<1> QED BY <1>3, <1>4

(* A handler goes on to todo with the batch and the recipient it now has;  *)
(* the others stay where they are.                                         *)
Goes(w, todo, batch, at) ==
  /\ job' \in [Workers -> JobType]
  /\ \A v \in Workers : v # w => job'[v] = job[v]
  /\ job'[w].todo = todo /\ job'[w].batch = batch /\ job'[w].at = at

Nothing(w) == Goes(w, <<>>, {}, NoOne)

LEMMA IdleTyped == Idle \in JobType /\ Idle.todo = <<>> /\ Idle.batch = {} /\ Idle.at = NoOne
BY TodosTyped DEF Idle, JobType, Todos

LEMMA Ends ==
  ASSUME TypeOK, NEW w \in Workers, End(w)
  PROVE  Nothing(w)
<1>1. job \in [Workers -> JobType]
  BY DEF TypeOK, JobType
<1> QED BY <1>1, IdleTyped DEF End, Nothing, Goes

LEMMA Continues ==
  ASSUME TypeOK, NEW w \in Workers, NEW todo \in Todos, Continue(w, todo)
  PROVE  Goes(w, todo, job[w].batch, job[w].at)
<1>1. job \in [Workers -> JobType] /\ todo \in Seq(Steps)
  BY TodosTyped DEF TypeOK, JobType
<1>2. job[w] \in JobType
  BY <1>1
<1>3. /\ [job[w] EXCEPT !.todo = todo] \in JobType
      /\ [job[w] EXCEPT !.todo = todo].todo = todo
      /\ [job[w] EXCEPT !.todo = todo].batch = job[w].batch
      /\ [job[w] EXCEPT !.todo = todo].at = job[w].at
  BY <1>1, <1>2 DEF JobType
<1>4. job' = [job EXCEPT ![w] = [job[w] EXCEPT !.todo = todo]]
  BY DEF Continue
<1> QED BY <1>1, <1>3, <1>4 DEF Goes

(* The list after each step that leads on to the next of its list. *)
LEMMA Tails ==
  /\ Tail(<<"check", "start", "page", "refresh", "enqueue">>) = <<"start", "page", "refresh", "enqueue">>
  /\ Tail(<<"check", "page", "refresh", "enqueue">>) = <<"page", "refresh", "enqueue">>
  /\ Tail(<<"start", "page", "refresh", "enqueue">>) = <<"page", "refresh", "enqueue">>
  /\ Tail(<<"page", "refresh", "enqueue">>) = <<"refresh", "enqueue">>
  /\ Tail(<<"unpause", "verify", "claim">>) = <<"verify", "claim">>
  /\ Tail(<<"verify", "claim">>) = <<"claim">>
  /\ Tail(<<"release", "fail">>) = <<"fail">>
  /\ Tail(<<"release", "pause", "refresh">>) = <<"pause", "refresh">>
  /\ Tail(<<"release", "pause", "refresh", "enqueue">>) = <<"pause", "refresh", "enqueue">>
  /\ Tail(<<"pause", "refresh">>) = <<"refresh">>
  /\ Tail(<<"pause", "refresh", "enqueue">>) = <<"refresh", "enqueue">>
  /\ Tail(<<"complete", "refresh">>) = <<"refresh">>
  /\ Tail(<<"refresh", "enqueue">>) = <<"enqueue">>
  /\ Tail(<<"refresh", "retry">>) = <<"retry">>
OBVIOUS

LEMMA Advances ==
  ASSUME TypeOK, NEW w \in Workers, Advance(w)
  PROVE  /\ \A s : job[w].todo = <<s>> => Nothing(w)
         /\ Len(job[w].todo) # 1 /\ Tail(job[w].todo) \in Todos =>
              Goes(w, Tail(job[w].todo), job[w].batch, job[w].at)
<1>1. ASSUME NEW s, job[w].todo = <<s>> PROVE Nothing(w)
  <2>1. Len(job[w].todo) = 1
    BY <1>1
  <2> QED BY <2>1, Ends DEF Advance
<1>2. ASSUME Len(job[w].todo) # 1, Tail(job[w].todo) \in Todos
      PROVE  Goes(w, Tail(job[w].todo), job[w].batch, job[w].at)
  BY <1>2, Continues DEF Advance
<1> QED BY <1>1, <1>2

-----------------------------------------------------------------------------
(* What a step of w may do to what the other handlers rely on. *)
Frame(w) ==
  /\ \A v \in Workers : v # w => job'[v] = job[v] /\ lateClaims'[v] = lateClaims[v]
  /\ status = "cancelled" => status' = "cancelled"
  /\ \A r \in Recipients :
       r \notin Mine(w) /\ ledger[r] = "sending" => ledger'[r] = "sending" /\ attempts'[r] = attempts[r]

LEMMA OthersOrderly ==
  ASSUME IInv, NEW w \in Workers, Frame(w), NEW v \in Workers, v # w
  PROVE  Orderly(v)' /\ Mine(v)' = Mine(v)
<1>1. /\ Orderly(v) /\ Mine(v) \cap Mine(w) = {} /\ job'[v] = job[v] /\ lateClaims'[v] = lateClaims[v]
      /\ job[v].batch \subseteq Recipients
  BY DEF IInv, Divided, Frame, TypeOK
<1>2. Mine(v)' = Mine(v)
  BY <1>1 DEF Mine
<1>3. Mine(v) \subseteq Recipients
  BY <1>1 DEF Mine, Orderly
<1>4. \A r \in Mine(v) : ledger'[r] = "sending" /\ attempts'[r] = attempts[r]
  BY <1>1, <1>3 DEF Frame, Orderly
<1>5. job[v].todo \in WithOne \cup WithBatch => job[v].batch \subseteq Mine(v)
  BY DEF Mine
<1>6. job[v].todo = <<"send">> => job[v].at \in Mine(v)
  BY DEF Mine, WithOne
<1>7. job[v].todo = <<"send">> => attempts'[job[v].at] = 0
  BY <1>1, <1>4, <1>6 DEF Orderly
<1>8. job[v].todo \in WithOne \cup WithBatch => \A r \in job[v].batch : attempts'[r] = 0
  BY <1>1, <1>4, <1>5 DEF Orderly
<1>9. lateClaims'[v] \in {0, 1} /\ (lateClaims'[v] = 1 => status' = "cancelled" /\ job'[v].todo \notin BeforeClaim)
  BY <1>1 DEF Orderly, Frame
<1>10. job[v].todo \in Awaiting => attempts'[job[v].at] # 0
  <2> SUFFICES ASSUME job[v].todo \in Awaiting PROVE attempts'[job[v].at] # 0
    OBVIOUS
  <2>1. job[v].at \in Mine(v)
    BY AwaitingOne DEF Mine
  <2> QED BY <1>1, <1>4, <2>1 DEF Orderly
<1> QED BY <1>1, <1>2, <1>4, <1>7, <1>8, <1>9, <1>10 DEF Orderly

(* The invariant after a step of w, from what concerns w and the tables.   *)
LEMMA Assembled ==
  ASSUME IInv, NEW w \in Workers, Frame(w), TypeOK', Orderly(w)',
         \A r \in Mine(w)' : r \in Mine(w) \/ ledger[r] # "sending",
         Asked', Counted'
  PROVE  IInv'
<1>1. \A v \in Workers : v # w => Orderly(v)' /\ Mine(v)' = Mine(v)
  BY OthersOrderly
<1>2. \A v \in Workers : v # w => Mine(v)' \cap Mine(w)' = {}
  BY <1>1 DEF IInv, Divided, Orderly
<1>3. Divided'
  BY <1>1, <1>2 DEF Divided, IInv
<1> QED BY <1>1, <1>3 DEF IInv

(* The counts stay right, or somebody goes on owing them. *)
LEMMA StaysCounted ==
  ASSUME IInv, NEW w \in Workers, Tally' = Tally, counts' = counts, dirty => dirty',
         \A v \in Workers : v # w => job'[v] = job[v],
         job[w].todo \in Owing => job'[w].todo \in Owing \/ dirty'
  PROVE  Counted'
BY DEF IInv, Counted

(* A step after which the handler holds no row. *)
LEMMA HoldsNone ==
  ASSUME IInv, NEW w \in Workers, NEW todo \in Todos \ (WithOne \cup WithBatch), NEW batch, NEW at,
         Goes(w, todo, batch, at), todo \notin {<<"refresh", "retry">>, <<"retry">>} => at = NoOne,
         UNCHANGED <<ledger, attempts, lateClaims, counts>>, TypeOK',
         status = "cancelled" => status' = "cancelled", dirty => dirty',
         job[w].todo \in Owing => todo \in Owing \/ dirty',
         todo \in BeforeClaim => job[w].todo \in BeforeClaim \/ status # "cancelled"
  PROVE  IInv' /\ LeavesWith(w, {})
<1>1. Frame(w)
  BY DEF Frame, Goes
<1>2. Mine(w)' = {}
  BY DEF Mine, Goes
<1>0. todo \notin WithOne /\ todo \notin WithBatch /\ todo # <<"send">>
  BY DEF WithOne
<1>3. Orderly(w)'
  BY AwaitingOne, <1>0, <1>2 DEF Orderly, Goes, IInv
<1>4. Asked'
  BY DEF IInv, Asked
<1>5. Counted'
  <2>1. Tally' = Tally
    BY DEF Tally, With
  <2> QED BY <2>1, StaysCounted DEF Goes
<1> QED BY <1>1, <1>2, <1>3, <1>4, <1>5, Assembled DEF LeavesWith, Goes

(* A step after which the handler holds the batch it held. *)
LEMMA KeepsBatch ==
  ASSUME IInv, NEW w \in Workers, job[w].todo \in WithBatch, NEW todo \in WithBatch,
         Goes(w, todo, job[w].batch, job[w].at),
         UNCHANGED <<status, ledger, attempts, lateClaims, counts, dirty>>, TypeOK',
         job[w].todo \in Owing => todo \in Owing
  PROVE  IInv' /\ LeavesWith(w, Mine(w))
<1>1. Frame(w)
  BY DEF Frame, Goes
<1>0. /\ todo \in Todos /\ todo \notin WithOne /\ todo \notin BeforeClaim
      /\ todo \notin {<<"refresh", "retry">>, <<"retry">>} /\ todo # <<"send">>
      /\ job[w].todo \notin WithOne /\ job[w].todo \notin {<<"refresh", "retry">>, <<"retry">>}
  BY DEF Todos, WithBatch, WithOne, BeforeClaim
<1>2. Mine(w)' = Mine(w) /\ Mine(w) = job[w].batch
  BY <1>0 DEF Mine, Goes
<1>3. Orderly(w)'
  BY AwaitingOne, <1>0, <1>2 DEF Orderly, Goes, IInv
<1>4. Asked'
  BY DEF IInv, Asked
<1>5. Counted'
  <2>1. Tally' = Tally
    BY DEF Tally, With
  <2> QED BY <2>1, StaysCounted DEF Goes
<1> QED BY <1>1, <1>2, <1>3, <1>4, <1>5, Assembled DEF LeavesWith, Goes

(* Who holds no row after the step: what the lists are made of. *)
LEMMA Tame ==
  /\ \A t \in {<<>>} \cup Dispatching \cup BeforeClaim \cup Ending : t \in Todos /\ t \notin WithOne \cup WithBatch
  /\ \A t \in {<<>>} \cup Dispatching \cup Ending : t \notin BeforeClaim
  /\ \A t \in BeforeClaim \cup Dispatching \cup WithBatch : t \notin {<<"refresh", "retry">>, <<"retry">>}
<1>1. \A t \in {<<>>} \cup Dispatching : t \notin WithOne \cup WithBatch \cup BeforeClaim
  BY DEF Dispatching, BeforeClaim, WithOne, WithBatch
<1>2. \A t \in BeforeClaim : t \notin WithOne \cup WithBatch
  BY DEF BeforeClaim, WithOne, WithBatch
<1>3. \A t \in Ending : t \notin WithOne \cup WithBatch
  BY DEF Ending, WithOne, WithBatch
<1>4. \A t \in Ending : t \notin BeforeClaim
  BY DEF Ending, BeforeClaim
<1>5. \A t \in BeforeClaim \cup Dispatching \cup WithBatch : t \notin {<<"refresh", "retry">>, <<"retry">>}
  BY DEF BeforeClaim, Dispatching, WithBatch
<1> QED BY <1>1, <1>2, <1>3, <1>4, <1>5 DEF Todos

-----------------------------------------------------------------------------
(* The member's requests: no handler is concerned. *)
LEMMA MemberStep ==
  ASSUME IInv, Create \/ Resume \/ Cancel \/ ApiEnqueues \/ ApiDies
  PROVE  IInv'
<1> USE DEF rows, history
<1>0. TypeOK /\ status \in {"absent", "scheduled", "running", "paused"} \cup Final
  BY DEF IInv, TypeOK
<1>1. /\ UNCHANGED <<ledger, counts, job, attempts, lateClaims, dirty>>
      /\ status' \in {"absent", "scheduled", "running", "paused"} \cup Final
      /\ status = "cancelled" => status' = "cancelled"
  BY <1>0 DEF Create, Resume, Cancel, ApiEnqueues, ApiDies, Move, Final
<1>2. TypeOK'
  <2>1. queue' \in [{"dispatch", "send"} -> Nat] /\ api' \in {"none", "dispatch", "send"}
    BY <1>0 DEF Create, Resume, Cancel, ApiEnqueues, ApiDies, TypeOK
  <2>2. lost' \in BOOLEAN
    BY <1>0 DEF Create, Resume, Cancel, ApiEnqueues, ApiDies, TypeOK
  <2>3. faults' \in {faults, faults + 1} /\ resumes' \in {resumes, resumes + 1}
    BY DEF Create, Resume, Cancel, ApiEnqueues, ApiDies
  <2>4. faults' \in Nat /\ resumes' \in Nat
    BY <1>0, <2>3 DEF TypeOK
  <2> QED BY <1>0, <1>1, <2>1, <2>2, <2>4 DEF TypeOK
<1>3. \A w \in Workers : Orderly(w)' /\ Mine(w)' = Mine(w)
  BY <1>1 DEF IInv, Orderly, Mine
<1>4. Divided' /\ Asked'
  BY <1>1, <1>3 DEF IInv, Divided, Asked
<1>5. Counted'
  BY <1>1 DEF IInv, Counted, Tally, With
<1> QED BY <1>2, <1>3, <1>4, <1>5 DEF IInv

LEMMA JobTyped ==
  ASSUME TypeOK, NEW w \in Workers
  PROVE  job \in [Workers -> JobType] /\ job[w] \in JobType
BY DEF TypeOK, JobType

(* A worker takes a job. *)
LEMMA BeginStep ==
  ASSUME IInv, NEW w \in Workers, BeginDispatch(w) \/ BeginSend(w)
  PROVE  IInv' /\ LeavesWith(w, {})
<1> USE DEF rows, history
<1>0. /\ TypeOK /\ job \in [Workers -> JobType]
      /\ job[w] = Idle /\ job[w].todo = <<>> /\ job[w].batch = {} /\ job[w].at = NoOne
      /\ UNCHANGED <<status, counts, ledger, api, attempts, lateClaims, dirty, lost, faults, resumes>>
  BY JobTyped, IdleTyped DEF IInv, BeginDispatch, BeginSend
<1>1. queue' \in [{"dispatch", "send"} -> Nat]
  BY <1>0 DEF BeginDispatch, BeginSend, TypeOK
<1>2. ASSUME job' \in [Workers -> JobType] PROVE TypeOK'
  BY <1>0, <1>1, <1>2 DEF TypeOK, JobType
<1>3. PICK todo \in {<<>>} \cup Dispatching \cup BeforeClaim, batch \in SUBSET Recipients :
        Goes(w, todo, batch, NoOne) /\ (todo \in BeforeClaim => status # "cancelled")
  <2>1. CASE UNCHANGED job
    BY <1>0, <2>1, Tame DEF Goes
  <2>2. ASSUME NEW kind \in {"dispatch", "send"}, NEW todo \in Dispatching \cup BeforeClaim,
               NEW batch \in SUBSET Recipients,
               job' = [job EXCEPT ![w] = [kind |-> kind, todo |-> todo, batch |-> batch, at |-> NoOne]]
        PROVE  Goes(w, todo, batch, NoOne)
    <3>1. todo \in Seq(Steps)
      BY TodosTyped, Tame
    <3>2. [kind |-> kind, todo |-> todo, batch |-> batch, at |-> NoOne] \in JobType
      BY <3>1 DEF JobType
    <3> QED BY <1>0, <2>2, <3>2 DEF Goes
  <2>3. CASE BeginDispatch(w)
    <3>1. \/ UNCHANGED job
          \/ \E todo \in Dispatching :
               job' = [job EXCEPT ![w] = [kind |-> "dispatch", todo |-> todo, batch |-> Recipients, at |-> NoOne]]
      BY <2>3 DEF BeginDispatch, Dispatching
    <3> QED BY <2>1, <2>2, <3>1, Tame
  <2>4. CASE BeginSend(w)
    <3>1. CASE EndsChain(status)
      BY <2>1, <2>4, <3>1 DEF BeginSend
    <3>2. CASE ~EndsChain(status)
      <4>1. PICK todo \in BeforeClaim :
              job' = [job EXCEPT ![w].kind = "send", ![w].todo = todo]
        BY <2>4, <3>2 DEF BeginSend, BeforeClaim
      <4> DEFINE mid == [Idle EXCEPT !.kind = "send"]
                 new == [mid EXCEPT !.todo = todo]
      <4>2. job' = [job EXCEPT ![w] = new]
        <5>1. job' = [[job EXCEPT ![w] = mid] EXCEPT ![w] = [@ EXCEPT !.todo = todo]]
          BY <1>0, <4>1
        <5>2. [job EXCEPT ![w] = mid][w] = mid
          BY <1>0
        <5> HIDE DEF mid
        <5> QED BY <1>0, <5>1, <5>2
      <4>3. new \in JobType /\ new.todo = todo /\ new.batch = {} /\ new.at = NoOne
        <5>1. mid \in JobType /\ mid.batch = {} /\ mid.at = NoOne
          BY IdleTyped DEF JobType
        <5>2. todo \in Seq(Steps)
          BY TodosTyped, Tame
        <5> HIDE DEF mid
        <5> QED BY <5>1, <5>2 DEF JobType
      <4>4. Goes(w, todo, {}, NoOne)
        <5> HIDE DEF new
        <5> QED BY <1>0, <4>2, <4>3 DEF Goes
      <4> QED BY <3>2, <4>4 DEF EndsChain, Final
    <3> QED BY <3>1, <3>2
  <2> QED BY <2>3, <2>4
<1>4. todo \in Todos \ (WithOne \cup WithBatch)
  BY Tame
<1>5. job[w].todo \notin Owing
  BY <1>0 DEF Owing, WithOne
<1> QED BY <1>0, <1>2, <1>3, <1>4, <1>5, HoldsNone DEF Goes

Statuses == {"absent", "scheduled", "running", "paused"} \cup Final

LEMMA Moved ==
  ASSUME TypeOK, NEW from, NEW to \in Statuses, Move(from, to), "cancelled" \notin from
  PROVE  status' \in Statuses /\ (status = "cancelled" => status' = "cancelled")
BY DEF Move, TypeOK, Statuses

(* Types after a step that leaves the ledger, the counts and the history be. *)
LEMMA TypedAside ==
  ASSUME TypeOK, job' \in [Workers -> JobType], status' \in Statuses,
         queue' \in [{"dispatch", "send"} -> Nat], dirty' \in BOOLEAN, lost' \in BOOLEAN, faults' \in Nat,
         UNCHANGED <<counts, ledger, api, attempts, lateClaims, resumes>>
  PROVE  TypeOK'
BY DEF TypeOK, JobType, Statuses

(* Where Check, Start, Unpause and Verify lead on to. *)
LEMMA Onward ==
  ASSUME NEW w \in Workers, job[w].todo \in Todos,
         At(w, "check") \/ At(w, "start") \/ At(w, "unpause") \/ At(w, "verify")
  PROVE  /\ job[w].todo \in Dispatching \cup BeforeClaim /\ job[w].todo \notin Owing
         /\ Len(job[w].todo) # 1 /\ Tail(job[w].todo) \in Dispatching \cup BeforeClaim
         /\ Tail(job[w].todo) \in BeforeClaim => job[w].todo \in BeforeClaim
<1>1. PICK t \in {<<"check", "start", "page", "refresh", "enqueue">>, <<"check", "page", "refresh", "enqueue">>,
                  <<"start", "page", "refresh", "enqueue">>, <<"unpause", "verify", "claim">>, <<"verify", "claim">>} :
          t = job[w].todo
  BY Heads
<1>2. t \notin Owing
  <2>1. t \notin WithOne
    BY DEF WithOne
  <2> QED BY <2>1 DEF Owing
<1>3. Len(t) # 1
  OBVIOUS
<1>4. \/ t \in Dispatching /\ Tail(t) \in Dispatching
      \/ t \in BeforeClaim /\ Tail(t) \in BeforeClaim
  <2>1. CASE t \in {<<"unpause", "verify", "claim">>, <<"verify", "claim">>}
    BY <2>1, Tails DEF BeforeClaim
  <2>2. CASE t \notin {<<"unpause", "verify", "claim">>, <<"verify", "claim">>}
    BY <2>2, Tails DEF Dispatching
  <2> QED BY <2>1, <2>2
<1> HIDE DEF Dispatching, BeforeClaim
<1> QED BY <1>1, <1>2, <1>3, <1>4, Tame

(* A handler makes ready: it goes on, gives up, or settles how to end. *)
LEMMA PrepareStep ==
  ASSUME IInv, NEW w \in Workers, Check(w) \/ Start(w) \/ Unpause(w) \/ Verify(w)
  PROVE  IInv' /\ LeavesWith(w, {})
<1> USE DEF rows, history
<1>0. /\ TypeOK /\ job[w].todo \in Todos /\ job[w].batch \in SUBSET Recipients
      /\ UNCHANGED <<counts, ledger, queue, api, attempts, lateClaims, dirty, lost, faults, resumes>>
  BY JobTyped DEF IInv, Orderly, Check, Start, Unpause, Verify, JobType
<1>1. job[w].todo \in Dispatching \cup BeforeClaim /\ job[w].todo \notin Owing
  BY <1>0, Onward DEF Check, Start, Unpause, Verify
<1>2. job[w].at = NoOne
  BY <1>1, Tame DEF IInv, Orderly
<1>3. status' \in Statuses /\ (status = "cancelled" => status' = "cancelled")
  <2>1. CASE UNCHANGED status
    BY <1>0, <2>1 DEF TypeOK, Statuses
  <2>2. CASE \E to \in {"failed", "paused"} : Move({"scheduled", "running"}, to)
    BY <1>0, <2>2, Moved DEF Statuses, Final
  <2>3. CASE Move({"scheduled"}, "running")
    BY <1>0, <2>3, Moved DEF Statuses, Final
  <2>4. CASE Move(ResumableFrom, "running")
    BY <1>0, <2>4, Moved DEF Statuses, Final, ResumableFrom
  <2> QED BY <2>1, <2>2, <2>3, <2>4 DEF Check, Start, Unpause, Verify, rows
<1>4. PICK todo \in {<<>>} \cup Dispatching \cup BeforeClaim \cup Ending, batch \in SUBSET Recipients :
        Goes(w, todo, batch, NoOne) /\ (todo \in BeforeClaim => job[w].todo \in BeforeClaim)
  <2>1. ASSUME End(w) PROVE Goes(w, <<>>, {}, NoOne)
    BY <1>0, <2>1, Ends DEF Nothing
  <2>2. CASE Advance(w)
    <3> DEFINE t == Tail(job[w].todo)
    <3>1. Len(job[w].todo) # 1 /\ t \in Dispatching \cup BeforeClaim
          /\ (t \in BeforeClaim => job[w].todo \in BeforeClaim)
      BY <1>0, Onward DEF Check, Start, Unpause, Verify
    <3> HIDE DEF t
    <3>2. Goes(w, t, job[w].batch, NoOne)
      BY <1>0, <1>2, <2>2, <3>1, Advances, Tame DEF t
    <3> QED BY <1>0, <3>1, <3>2
  <2>3. CASE End(w)
    BY <2>1, <2>3, Tame
  <2>4. ASSUME NEW t \in {<<"fail">>, PauseForCap}, Continue(w, t)
        PROVE  Goes(w, t, job[w].batch, NoOne) /\ t \in Ending /\ t \notin BeforeClaim
    <3>1. t \in Ending
      BY DEF Ending, PauseForCap
    <3> QED BY <1>0, <1>2, <2>4, <3>1, Continues, Tame
  <2>5. Advance(w) \/ End(w) \/ \E t \in {<<"fail">>, PauseForCap} : Continue(w, t)
    BY DEF Check, Start, Unpause, Verify
  <2> QED BY <1>0, <2>2, <2>3, <2>4, <2>5
<1>5. TypeOK'
  <2>1. /\ job' \in [Workers -> JobType] /\ queue' \in [{"dispatch", "send"} -> Nat]
        /\ dirty' \in BOOLEAN /\ lost' \in BOOLEAN /\ faults' \in Nat
    BY <1>0, <1>4 DEF Goes, TypeOK
  <2> QED BY <1>0, <1>3, <2>1, TypedAside
<1>6. todo \in Todos \ (WithOne \cup WithBatch)
  BY Tame
<1> QED BY <1>0, <1>1, <1>3, <1>4, <1>5, <1>6, HoldsNone

(* A handler ends: it moves the broadcast, enqueues, retries; it throws,   *)
(* dies, or is run a second time.                                          *)
LEMMA EndingStep ==
  ASSUME IInv, NEW w \in Workers, Transition(w) \/ Enqueue(w) \/ Retry(w)
  PROVE  IInv' /\ LeavesWith(w, {})
<1> USE DEF rows, history
<1>0. /\ TypeOK /\ job[w].todo \in Todos /\ job[w].batch \in SUBSET Recipients
      /\ UNCHANGED <<counts, ledger, api, attempts, lateClaims, dirty, faults, resumes>>
  BY JobTyped DEF IInv, Orderly, Transition, Enqueue, Retry, JobType
<1>1. status' \in Statuses /\ (status = "cancelled" => status' = "cancelled")
  <2>1. CASE UNCHANGED status
    BY <1>0, <2>1 DEF TypeOK, Statuses
  <2>2. CASE Move({"running"}, "paused")
    BY <1>0, <2>2, Moved DEF Statuses, Final
  <2>3. CASE Move({"running"}, "completed")
    BY <1>0, <2>3, Moved DEF Statuses, Final
  <2>4. CASE Move({"running", "paused"}, "failed")
    BY <1>0, <2>4, Moved DEF Statuses, Final
  <2> QED BY <2>1, <2>2, <2>3, <2>4 DEF Transition, Enqueue, Retry
<1>2. queue' \in [{"dispatch", "send"} -> Nat] /\ lost' \in BOOLEAN
  <2>1. queue' \in [{"dispatch", "send"} -> Nat]
    BY <1>0 DEF Transition, Enqueue, Retry, Requeue, TypeOK
  <2>2. lost' \in {lost, TRUE}
    BY DEF Transition, Enqueue, Retry, Requeue
  <2> QED BY <1>0, <2>1, <2>2 DEF TypeOK
<1>3. PICK todo \in {<<>>} \cup Ending, batch \in SUBSET Recipients :
        Goes(w, todo, batch, NoOne) /\ (job[w].todo \in Owing => todo \in Owing)
  <2>1. CASE Transition(w) /\ job[w].todo # <<"fail">>
    <3>1. /\ Advance(w) /\ Len(job[w].todo) # 1 /\ job[w].todo \in Ending
          /\ job[w].todo \notin {<<"refresh", "retry">>, <<"retry">>}
          /\ Tail(job[w].todo) \in {<<"refresh">>, <<"refresh", "enqueue">>}
      <4>1. PICK t \in {<<"pause", "refresh">>, <<"pause", "refresh", "enqueue">>, <<"complete", "refresh">>} :
              t = job[w].todo
        BY <1>0, <2>1, Heads DEF Transition
      <4>2. Tail(t) \in {<<"refresh">>, <<"refresh", "enqueue">>}
        BY Tails
      <4>4. Len(t) # 1
        OBVIOUS
      <4>3. t \in Ending /\ t \notin {<<"refresh", "retry">>, <<"retry">>}
        BY DEF Ending
      <4> QED BY <2>1, <4>1, <4>2, <4>3, <4>4 DEF Transition
    <3>2. job[w].at = NoOne
      BY <3>1, Tame DEF IInv, Orderly
    <3>3. Tail(job[w].todo) \in Ending /\ Tail(job[w].todo) \in Owing
      BY <3>1 DEF Ending, Owing
    <3>4. Goes(w, Tail(job[w].todo), job[w].batch, NoOne)
      BY <1>0, <3>1, <3>2, <3>3, Advances, Tame
    <3> QED BY <1>0, <3>3, <3>4
  <2>2. CASE (Transition(w) /\ job[w].todo = <<"fail">>) \/ Enqueue(w) \/ Retry(w)
    <3>1. job[w].todo \in {<<"fail">>, <<"enqueue">>, <<"retry">>} /\ (Advance(w) \/ End(w))
      BY <1>0, <2>2, Heads DEF Transition, Enqueue, Retry
    <3>2. Nothing(w)
      BY <1>0, <3>1, Advances, Ends
    <3>3. job[w].todo \notin Owing
      BY <3>1 DEF Owing, WithOne
    <3> QED BY <3>2, <3>3 DEF Nothing
  <2> QED BY <2>1, <2>2
<1>4. TypeOK'
  <2>1. job' \in [Workers -> JobType] /\ dirty' \in BOOLEAN /\ faults' \in Nat
    BY <1>0, <1>3 DEF Goes, TypeOK
  <2> QED BY <1>0, <1>1, <1>2, <2>1, TypedAside
<1>5. todo \in Todos \ (WithOne \cup WithBatch) /\ todo \notin BeforeClaim
  BY Tame
<1> QED BY <1>0, <1>1, <1>3, <1>4, <1>5, HoldsNone

LEMMA FaultStep ==
  ASSUME IInv, NEW w \in Workers, Interrupt(w) \/ Overrun(w)
  PROVE  IInv' /\ (Interrupt(w) => LeavesWith(w, {}))
<1> USE DEF rows, history
<1>0. /\ TypeOK /\ job[w] \in JobType /\ status \in Statuses
      /\ UNCHANGED <<status, counts, ledger, api, attempts, lateClaims, resumes>> /\ faults' \in Nat
  BY JobTyped DEF IInv, Interrupt, Overrun, TypeOK, Statuses
<1>1. queue' \in [{"dispatch", "send"} -> Nat]
  BY <1>0 DEF Interrupt, Overrun, Requeue, TypeOK
<1>2. lost' \in BOOLEAN /\ dirty' \in BOOLEAN
  <2>1. lost' \in {lost, TRUE} /\ dirty' \in {dirty, TRUE}
    BY DEF Interrupt, Overrun, Requeue
  <2> QED BY <1>0, <2>1 DEF TypeOK
<1>3. ASSUME Interrupt(w) PROVE IInv' /\ LeavesWith(w, {})
  <2>1. Goes(w, <<>>, {}, NoOne) /\ dirty'
    BY <1>0, <1>3, Ends DEF Interrupt, Nothing
  <2>2. TypeOK'
    BY <1>0, <1>1, <1>2, <2>1, TypedAside DEF Goes
  <2>3. <<>> \in Todos \ (WithOne \cup WithBatch) /\ <<>> \notin BeforeClaim
    BY Tame
  <2> QED BY <1>0, <2>1, <2>2, <2>3, HoldsNone
<1>4. ASSUME Overrun(w) PROVE IInv'
  <2>1. UNCHANGED <<job, dirty>>
    BY <1>4 DEF Overrun
  <2>2. TypeOK'
    BY <1>0, <1>1, <1>2, <2>1, JobTyped, TypedAside
  <2>3. \A v \in Workers : Orderly(v)' /\ Mine(v)' = Mine(v)
    BY <1>0, <2>1 DEF IInv, Orderly, Mine
  <2>4. Divided' /\ Asked'
    BY <1>0, <2>1, <2>3 DEF IInv, Divided, Asked
  <2>5. Counted'
    BY <1>0, <2>1 DEF IInv, Counted, Tally, With
  <2> QED BY <2>2, <2>3, <2>4, <2>5 DEF IInv
<1> QED BY <1>3, <1>4

-----------------------------------------------------------------------------
LEMMA Replaces ==
  ASSUME TypeOK, NEW w \in Workers, NEW new \in JobType, job' = [job EXCEPT ![w] = new]
  PROVE  Goes(w, new.todo, new.batch, new.at)
<1>1. job \in [Workers -> JobType]
  BY JobTyped
<1> QED BY <1>1 DEF Goes

(* The fields a handler changes together. *)
LEMMA Fields ==
  ASSUME TypeOK, NEW w \in Workers, NEW todo \in Todos, NEW batch \in SUBSET Recipients,
         NEW at \in Recipients \cup {NoOne}
  PROVE  /\ job' = [job EXCEPT ![w].batch = batch] => Goes(w, job[w].todo, batch, job[w].at)
         /\ job' = [job EXCEPT ![w].todo = todo, ![w].batch = batch] => Goes(w, todo, batch, job[w].at)
         /\ job' = [job EXCEPT ![w].todo = todo, ![w].at = at] => Goes(w, todo, job[w].batch, at)
         /\ job' = [job EXCEPT ![w].todo = todo, ![w].batch = batch, ![w].at = at] => Goes(w, todo, batch, at)
<1>1. job \in [Workers -> JobType] /\ job[w] \in JobType /\ todo \in Seq(Steps)
  BY JobTyped, TodosTyped
<1>2. ASSUME NEW old \in JobType
      PROVE  /\ [old EXCEPT !.todo = todo] \in JobType /\ [old EXCEPT !.todo = todo].todo = todo
             /\ [old EXCEPT !.todo = todo].batch = old.batch /\ [old EXCEPT !.todo = todo].at = old.at
             /\ [old EXCEPT !.batch = batch] \in JobType /\ [old EXCEPT !.batch = batch].todo = old.todo
             /\ [old EXCEPT !.batch = batch].batch = batch /\ [old EXCEPT !.batch = batch].at = old.at
             /\ [old EXCEPT !.at = at] \in JobType /\ [old EXCEPT !.at = at].todo = old.todo
             /\ [old EXCEPT !.at = at].batch = old.batch /\ [old EXCEPT !.at = at].at = at
  BY <1>1 DEF JobType
<1>3. ASSUME job' = [job EXCEPT ![w].batch = batch] PROVE Goes(w, job[w].todo, batch, job[w].at)
  <2>1. job' = [job EXCEPT ![w] = [job[w] EXCEPT !.batch = batch]]
    BY <1>3
  <2> QED BY <1>1, <1>2, <2>1, Replaces
<1> DEFINE one == [job[w] EXCEPT !.todo = todo]
           two == [one EXCEPT !.batch = batch]
           three == [two EXCEPT !.at = at]
           pair == [one EXCEPT !.at = at]
<1>4. ASSUME NEW f, NEW g PROVE [[job EXCEPT ![w] = f] EXCEPT ![w] = g] = [job EXCEPT ![w] = g]
  BY <1>1
<1>5. \A f : [job EXCEPT ![w] = f][w] = f
  BY <1>1
<1>6. one \in JobType /\ one.todo = todo /\ one.batch = job[w].batch /\ one.at = job[w].at
  BY <1>1, <1>2
<1>7. two \in JobType /\ two.todo = todo /\ two.batch = batch /\ two.at = job[w].at
  <2> HIDE DEF one
  <2> QED BY <1>2, <1>6
<1>8. three \in JobType /\ three.todo = todo /\ three.batch = batch /\ three.at = at
  <2> HIDE DEF two
  <2> QED BY <1>2, <1>7
<1>9. pair \in JobType /\ pair.todo = todo /\ pair.batch = job[w].batch /\ pair.at = at
  <2> HIDE DEF one
  <2> QED BY <1>2, <1>6
<1>10. ASSUME job' = [job EXCEPT ![w].todo = todo, ![w].batch = batch] PROVE job' = [job EXCEPT ![w] = two]
  <2>1. job' = [[job EXCEPT ![w] = one] EXCEPT ![w] = [@ EXCEPT !.batch = batch]]
    BY <1>10
  <2> HIDE DEF one
  <2> QED BY <1>4, <1>5, <2>1
<1>11. ASSUME job' = [job EXCEPT ![w].todo = todo, ![w].at = at] PROVE job' = [job EXCEPT ![w] = pair]
  <2>1. job' = [[job EXCEPT ![w] = one] EXCEPT ![w] = [@ EXCEPT !.at = at]]
    BY <1>11
  <2> HIDE DEF one
  <2> QED BY <1>4, <1>5, <2>1
<1>12. ASSUME job' = [job EXCEPT ![w].todo = todo, ![w].batch = batch, ![w].at = at]
       PROVE  job' = [job EXCEPT ![w] = three]
  <2>1. job' = [[[job EXCEPT ![w] = one] EXCEPT ![w] = [@ EXCEPT !.batch = batch]] EXCEPT ![w] = [@ EXCEPT !.at = at]]
    BY <1>12
  <2>2. [[job EXCEPT ![w] = one] EXCEPT ![w] = [@ EXCEPT !.batch = batch]] = [job EXCEPT ![w] = two]
    <3> HIDE DEF one
    <3> QED BY <1>4, <1>5
  <2> HIDE DEF two
  <2> QED BY <1>4, <1>5, <2>1, <2>2
<1> HIDE DEF two, three, pair
<1> QED BY <1>3, <1>7, <1>8, <1>9, <1>10, <1>11, <1>12, Replaces

LEMMA SameTally ==
  ASSUME \A r \in Recipients : \A st \in Settled : (ledger'[r] = st) <=> (ledger[r] = st)
  PROVE  Tally' = Tally
<1>1. \A st \in Settled : With(st)' = With(st)
  BY DEF With
<1> QED BY <1>1 DEF Tally

LEMMA TallyTyped == Tally \in [Settled -> Nat]
<1>1. ASSUME NEW st \in Settled PROVE Cardinality(With(st)) \in Nat
  <2>1. With(st) \subseteq Recipients
    BY DEF With
  <2> QED BY <2>1, BroadcastAssumption, FS_Subset, FS_CardinalityType
<1> QED BY <1>1 DEF Tally

Rows == [Recipients -> {"absent", "pending", "sending"} \cup Settled]

(* Types after a step that touches the tables. *)
LEMMA TypedTables ==
  ASSUME TypeOK, job' \in [Workers -> JobType], ledger' \in Rows, counts' \in [Settled -> Nat],
         attempts' \in [Recipients -> Nat], lateClaims' \in [Workers -> Nat], dirty' \in BOOLEAN,
         UNCHANGED <<status, queue, api, lost, faults, resumes>>
  PROVE  TypeOK'
BY DEF TypeOK, JobType, Rows

(* A page of the audience is inserted. *)
LEMMA PageStep ==
  ASSUME IInv, NEW w \in Workers, Page(w)
  PROVE  IInv' /\ LeavesWith(w, {})
<1> USE DEF rows, history
<1>0. /\ TypeOK /\ job[w] \in JobType /\ job[w].todo = <<"page", "refresh", "enqueue">> /\ ledger \in Rows
      /\ UNCHANGED <<status, counts, queue, api, attempts, lateClaims, dirty, lost, faults, resumes>>
  BY JobTyped, Heads DEF IInv, Orderly, Page, Rows, TypeOK
<1>1. job[w].at = NoOne
  BY <1>0 DEF IInv, Orderly, WithOne
<1>2. PICK page \in SUBSET job[w].batch, st \in [Recipients -> {"pending", "skipped"}] :
        /\ ledger' = Insert(page, st)
        /\ job' = [job EXCEPT ![w].todo = IF page = job[w].batch THEN Tail(@) ELSE @,
                              ![w].batch = @ \ page]
  BY DEF Page
<1>3. PICK todo \in {<<"page", "refresh", "enqueue">>, <<"refresh", "enqueue">>}, batch \in SUBSET Recipients :
        Goes(w, todo, batch, NoOne)
  <2> DEFINE todo == IF page = job[w].batch THEN Tail(job[w].todo) ELSE job[w].todo
             batch == job[w].batch \ page
  <2>1. todo \in {<<"page", "refresh", "enqueue">>, <<"refresh", "enqueue">>}
    BY <1>0, Tails
  <2>2. batch \in SUBSET Recipients
    BY <1>0 DEF JobType
  <2>3. job' = [job EXCEPT ![w].todo = todo, ![w].batch = batch]
    BY <1>2
  <2> HIDE DEF todo, batch
  <2>4. todo \in Todos
    BY <2>1 DEF Todos, Dispatching, Ending
  <2>5. Goes(w, todo, batch, job[w].at)
    BY <1>0, <2>2, <2>3, <2>4, Fields
  <2> QED BY <1>1, <2>1, <2>2, <2>5
<1>4. \A r \in Recipients :
        /\ ledger[r] # "absent" => ledger'[r] = ledger[r]
        /\ ledger[r] = "absent" => ledger'[r] \in {"absent", "pending", "skipped"}
  BY <1>2 DEF Insert
<1>5. ledger' \in Rows
  <2>1. ledger' = [r \in Recipients |-> ledger'[r]]
    BY <1>2 DEF Insert
  <2>2. \A r \in Recipients : ledger'[r] \in {"absent", "pending", "sending"} \cup Settled
    BY <1>0, <1>4 DEF Rows, Settled
  <2> HIDE <1>2
  <2> QED BY <2>1, <2>2 DEF Rows
<1>6. TypeOK'
  <2>1. counts' \in [Settled -> Nat] /\ attempts' \in [Recipients -> Nat] /\ lateClaims' \in [Workers -> Nat]
        /\ dirty' \in BOOLEAN /\ job' \in [Workers -> JobType]
    BY <1>0, <1>3 DEF TypeOK, Goes
  <2> QED BY <1>0, <1>5, <2>1, TypedTables
<1>7. Frame(w)
  BY <1>0, <1>3, <1>4 DEF Frame, Goes
<1>8. todo \in Todos /\ todo \notin WithOne /\ todo \notin WithBatch /\ todo \notin BeforeClaim
      /\ todo # <<"send">> /\ todo \in Owing
  BY DEF Todos, Dispatching, Ending, WithOne, WithBatch, BeforeClaim, Owing
<1>9. Mine(w)' = {}
  BY <1>3, <1>8 DEF Mine, Goes
<1>10. Orderly(w)'
  BY AwaitingOne, <1>0, <1>3, <1>8, <1>9 DEF Orderly, Goes, IInv
<1>11. Asked'
  BY <1>0, <1>4 DEF IInv, Asked
<1>12. Counted'
  BY <1>3, <1>8 DEF Counted, Goes
<1> QED BY <1>6, <1>7, <1>9, <1>10, <1>11, <1>12, Assembled DEF LeavesWith, Frame

Takes(w, S) ==
  /\ Cardinality(S) <= BatchSize
  /\ ledger' = [r \in Recipients |-> IF r \in S THEN "sending" ELSE ledger[r]]
  /\ lateClaims' = [lateClaims EXCEPT ![w] = IF status = "cancelled" THEN @ + 1 ELSE @]

(* A batch is claimed: rows nobody holds, nobody of which was asked for.   *)
LEMMA ClaimStep ==
  ASSUME IInv, NEW w \in Workers, Claim(w)
  PROVE  /\ IInv'
         /\ \/ LeavesWith(w, {}) /\ UNCHANGED <<ledger, lateClaims>>
            \/ \E S \in SUBSET ClaimableRows : LeavesWith(w, S) /\ Takes(w, S)
<1> USE DEF rows, history
<1>0. /\ TypeOK /\ job[w] \in JobType /\ job[w].todo = <<"claim">> /\ ledger \in Rows
      /\ UNCHANGED <<status, counts, queue, api, attempts, dirty, lost, faults, resumes>>
  BY JobTyped, Heads DEF IInv, Orderly, Claim, Rows, TypeOK
<1>1. job[w].at = NoOne /\ lateClaims[w] = 0 /\ job[w].todo \notin Owing /\ job[w].todo \in BeforeClaim
  <2>1. <<"claim">> \in BeforeClaim /\ <<"claim">> \notin Owing /\ <<"claim">> \notin WithOne
    BY DEF BeforeClaim, Owing, WithOne
  <2> QED BY <1>0, <2>1 DEF IInv, Orderly
<1>t. /\ counts' \in [Settled -> Nat] /\ attempts' \in [Recipients -> Nat] /\ dirty' \in BOOLEAN
      /\ lateClaims \in [Workers -> Nat]
  BY <1>0 DEF TypeOK
<1>2. ASSUME Continue(w, <<"complete", "refresh">>), UNCHANGED <<ledger, lateClaims>>
      PROVE  IInv' /\ LeavesWith(w, {})
  <2>1. <<"complete", "refresh">> \in Ending
    BY DEF Ending
  <2>2. Goes(w, <<"complete", "refresh">>, job[w].batch, NoOne)
    BY <1>0, <1>1, <1>2, <2>1, Continues, Tame
  <2>3. TypeOK'
    BY <1>0, <1>2, <1>t, <2>2, TypedTables DEF Goes
  <2> QED BY <1>0, <1>1, <1>2, <2>1, <2>2, <2>3, HoldsNone, Tame
<1>3. ASSUME NEW S \in SUBSET ClaimableRows,
             ledger' = [r \in Recipients |-> IF r \in S THEN "sending" ELSE ledger[r]],
             job' = [job EXCEPT ![w].todo = <<"resolve">>, ![w].batch = S],
             lateClaims' = [lateClaims EXCEPT ![w] = IF status = "cancelled" THEN @ + 1 ELSE @]
      PROVE  IInv' /\ LeavesWith(w, S)
  <2>1. S \subseteq Recipients /\ \A r \in S : ledger[r] = "pending" /\ attempts[r] = 0
    BY DEF ClaimableRows, With, IInv, Asked
  <2>2. /\ <<"resolve">> \in Todos /\ <<"resolve">> \in WithBatch /\ <<"resolve">> \notin WithOne
        /\ <<"resolve">> \notin BeforeClaim
    BY DEF Todos, WithBatch, WithOne, BeforeClaim
  <2>3. Goes(w, <<"resolve">>, S, NoOne)
    BY <1>0, <1>1, <1>3, <2>1, <2>2, Fields
  <2>4. /\ lateClaims' \in [Workers -> Nat] /\ lateClaims'[w] \in {0, 1}
        /\ lateClaims'[w] = 1 => status = "cancelled"
        /\ \A v \in Workers : v # w => lateClaims'[v] = lateClaims[v]
    BY <1>1, <1>3, <1>t
  <2>5. ledger' \in Rows /\ \A r \in Recipients : ledger'[r] = IF r \in S THEN "sending" ELSE ledger[r]
    BY <1>0, <1>3 DEF Rows
  <2>6. TypeOK'
    BY <1>0, <1>t, <2>3, <2>4, <2>5, TypedTables DEF Goes
  <2>7. Frame(w)
    BY <1>0, <2>3, <2>4, <2>5 DEF Frame, Goes
  <2>8. Mine(w)' = S
    BY <2>2, <2>3 DEF Mine, Goes
  <2>9. Orderly(w)'
    BY AwaitingOne, <1>0, <2>1, <2>2, <2>3, <2>4, <2>5, <2>8 DEF Orderly, Goes, WithOne
  <2>10. Asked'
    BY <1>0, <2>5 DEF IInv, Asked
  <2>11. Counted'
    <3>1. Tally' = Tally
      BY <2>1, <2>5, SameTally DEF Settled
    <3> QED BY <1>0, <1>1, <2>3, <3>1, StaysCounted DEF Goes
  <2>12. \A r \in Mine(w)' : ledger[r] # "sending"
    BY <2>1, <2>8
  <2> QED BY <2>6, <2>7, <2>8, <2>9, <2>10, <2>11, <2>12, Assembled DEF LeavesWith, Frame
<1> QED BY <1>2, <1>3 DEF Claim, Takes

LEMMA Releasing ==
  /\ <<"release">> \o PauseForTheNight = <<"release", "pause", "refresh", "enqueue">>
  /\ <<"release">> \o PauseForCap = <<"release", "pause", "refresh">>
<1>0. /\ <<"release">> \in Seq(Steps) /\ PauseForTheNight \in Seq(Steps) /\ PauseForCap \in Seq(Steps)
      /\ <<"release", "pause", "refresh", "enqueue">> \in Seq(Steps)
      /\ <<"release", "pause", "refresh">> \in Seq(Steps)
  BY DEF Steps, PauseForTheNight, PauseForCap
<1>1. <<"release">> \o PauseForTheNight = <<"release", "pause", "refresh", "enqueue">>
  <2> DEFINE s == <<"release">> \o PauseForTheNight
             t == <<"release", "pause", "refresh", "enqueue">>
  <2>1. s \in Seq(Steps) /\ t \in Seq(Steps) /\ Len(s) = 4 /\ Len(t) = 4
    BY <1>0, ConcatProperties DEF PauseForTheNight
  <2>2. \A i \in 1 .. 4 : s[i] = IF i <= 1 THEN <<"release">>[i] ELSE PauseForTheNight[i - 1]
    BY <1>0, ConcatProperties DEF PauseForTheNight
  <2>3. s[1] = t[1] /\ s[2] = t[2] /\ s[3] = t[3] /\ s[4] = t[4]
    <3> HIDE DEF s
    <3> QED BY <2>2 DEF PauseForTheNight
  <2> HIDE DEF s, t
  <2>4. \A i \in 1 .. 4 : s[i] = t[i]
    BY <2>3
  <2> QED BY <2>1, <2>4, SeqEqual DEF s, t
<1>2. <<"release">> \o PauseForCap = <<"release", "pause", "refresh">>
  <2> DEFINE s == <<"release">> \o PauseForCap
             t == <<"release", "pause", "refresh">>
  <2>1. s \in Seq(Steps) /\ t \in Seq(Steps) /\ Len(s) = 3 /\ Len(t) = 3
    BY <1>0, ConcatProperties DEF PauseForCap
  <2>2. \A i \in 1 .. 3 : s[i] = IF i <= 1 THEN <<"release">>[i] ELSE PauseForCap[i - 1]
    BY <1>0, ConcatProperties DEF PauseForCap
  <2>3. s[1] = t[1] /\ s[2] = t[2] /\ s[3] = t[3]
    <3> HIDE DEF s
    <3> QED BY <2>2 DEF PauseForCap
  <2> HIDE DEF s, t
  <2>4. \A i \in 1 .. 3 : s[i] = t[i]
    BY <2>3
  <2> QED BY <2>1, <2>4, SeqEqual DEF s, t
<1> QED BY <1>1, <1>2

(* The credentials, and the next recipient of the batch: the handler goes  *)
(* on with the batch, without the one it skips or is about to message.     *)
LEMMA RecipientStep ==
  ASSUME IInv, NEW w \in Workers, Resolve(w) \/ Recipient(w)
  PROVE  /\ IInv'
         /\ \/ LeavesWith(w, Mine(w)) /\ UNCHANGED ledger
            \/ \E r \in Mine(w) : LeavesWith(w, Mine(w) \ {r}) /\ ledger' = [ledger EXCEPT ![r] = "skipped"]
<1> USE DEF rows, history
<1>0. /\ TypeOK /\ job[w] \in JobType /\ job[w].todo \in {<<"resolve">>, <<"recipient">>} /\ ledger \in Rows
      /\ UNCHANGED <<status, counts, queue, api, attempts, lateClaims, dirty, lost, faults, resumes>>
  BY JobTyped, Heads DEF IInv, Orderly, Resolve, Recipient, Rows, TypeOK
<1>1. /\ job[w].todo \in WithBatch /\ job[w].todo \notin WithOne
      /\ job[w].todo \notin {<<"refresh", "retry">>, <<"retry">>} /\ job[w].todo \notin BeforeClaim
  BY <1>0 DEF WithBatch, WithOne, BeforeClaim
<1>2. /\ job[w].at = NoOne /\ Mine(w) = job[w].batch /\ job[w].batch \subseteq Recipients
      /\ \A r \in job[w].batch : ledger[r] = "sending" /\ attempts[r] = 0
      /\ lateClaims[w] \in {0, 1} /\ (lateClaims[w] = 1 => status = "cancelled")
  BY <1>0, <1>1 DEF IInv, Orderly, Mine, JobType
<1>t. /\ counts' \in [Settled -> Nat] /\ attempts' \in [Recipients -> Nat] /\ dirty' \in BOOLEAN
      /\ lateClaims' \in [Workers -> Nat]
  BY <1>0 DEF TypeOK
<1>3. ASSUME UNCHANGED ledger, job' \in [Workers -> JobType] PROVE TypeOK'
  BY <1>0, <1>t, <1>3, TypedTables
<1>4. ASSUME NEW todo \in WithBatch, Continue(w, todo), UNCHANGED ledger,
             job[w].todo \in Owing => todo \in Owing
      PROVE  IInv' /\ LeavesWith(w, Mine(w))
  <2>1. todo \in Todos
    BY DEF Todos
  <2>2. Goes(w, todo, job[w].batch, job[w].at)
    BY <1>0, <1>4, <2>1, Continues
  <2>3. TypeOK'
    BY <1>3, <1>4, <2>2 DEF Goes
  <2> QED BY <1>0, <1>1, <1>4, <2>2, <2>3, KeepsBatch
<1>5. CASE Resolve(w)
  <2>1. job[w].todo = <<"resolve">> /\ UNCHANGED ledger
    BY <1>0, <1>5, Heads DEF Resolve, IInv, Orderly
  <2>2. <<"recipient">> \in WithBatch /\ <<"release", "fail">> \in WithBatch /\ <<"resolve">> \notin Owing
    BY DEF WithBatch, Owing, WithOne
  <2> QED BY <1>4, <1>5, <2>1, <2>2 DEF Resolve
<1>6. CASE Recipient(w) /\ job[w].batch = {} /\ Continue(w, NextBatch) /\ UNCHANGED ledger
  <2>1. NextBatch \in Ending /\ NextBatch \in Owing
    BY DEF NextBatch, Ending, Owing
  <2>2. Goes(w, NextBatch, job[w].batch, NoOne)
    BY <1>0, <1>2, <1>6, <2>1, Continues, Tame
  <2>3. TypeOK'
    BY <1>3, <1>6, <2>2 DEF Goes
  <2>4. IInv' /\ LeavesWith(w, {})
    BY <1>0, <1>6, <2>1, <2>2, <2>3, HoldsNone, Tame
  <2> QED BY <1>2, <1>6, <2>4
<1>7. CASE /\ Recipient(w) /\ UNCHANGED ledger
           /\ Continue(w, <<"release">> \o PauseForTheNight) \/ Continue(w, <<"release">> \o PauseForCap)
  <2>1. /\ <<"release">> \o PauseForTheNight = <<"release", "pause", "refresh", "enqueue">>
        /\ <<"release">> \o PauseForCap = <<"release", "pause", "refresh">>
    BY Releasing
  <2>2. PICK todo \in {<<"release", "pause", "refresh", "enqueue">>, <<"release", "pause", "refresh">>} :
          Continue(w, todo)
    BY <1>7, <2>1
  <2>3. todo \in WithBatch /\ todo \in Owing
    BY DEF WithBatch, Owing
  <2> QED BY <1>4, <1>7, <2>2, <2>3
<1>8. ASSUME Recipient(w), NEW r \in job[w].batch, ledger' = [ledger EXCEPT ![r] = "skipped"],
             job' = [job EXCEPT ![w].batch = @ \ {r}]
      PROVE  IInv' /\ LeavesWith(w, Mine(w) \ {r}) /\ r \in Mine(w)
  <2>0. job[w].todo = <<"recipient">> /\ job[w].todo \in Owing /\ job[w].todo \in Todos
    BY <1>8, Heads DEF Recipient, IInv, Orderly, Owing
  <2>1. Goes(w, job[w].todo, job[w].batch \ {r}, NoOne)
    <3>1. job[w].batch \ {r} \in SUBSET Recipients
      BY <1>2
    <3> QED BY <1>0, <1>2, <1>8, <2>0, <3>1, Fields
  <2>2. ledger' \in Rows /\ ledger'[r] = "skipped" /\ \A q \in Recipients : q # r => ledger'[q] = ledger[q]
    BY <1>0, <1>2, <1>8 DEF Rows, Settled
  <2>3. TypeOK'
    BY <1>0, <1>t, <2>1, <2>2, TypedTables DEF Goes
  <2>4. Frame(w)
    BY <1>0, <1>2, <2>1, <2>2 DEF Frame, Goes
  <2>5. Mine(w)' = job[w].batch \ {r}
    BY <1>1, <2>1 DEF Mine, Goes
  <2>6. Orderly(w)'
    BY AwaitingOne, <1>0, <1>1, <1>2, <2>0, <2>1, <2>2, <2>5 DEF Orderly, Goes
  <2>7. Asked'
    BY <1>0, <2>2 DEF IInv, Asked
  <2>8. Counted'
    BY <2>0, <2>1 DEF Counted, Goes
  <2> QED BY <1>2, <1>8, <2>3, <2>4, <2>5, <2>6, <2>7, <2>8, Assembled DEF LeavesWith, Frame
<1>9. ASSUME Recipient(w), NEW r \in job[w].batch, UNCHANGED ledger,
             job' = [job EXCEPT ![w].todo = <<"send">>, ![w].batch = @ \ {r}, ![w].at = r]
      PROVE  IInv' /\ LeavesWith(w, Mine(w))
  <2>0. <<"send">> \in WithOne /\ <<"send">> \in Todos /\ <<"send">> \in Owing /\ <<"send">> \notin BeforeClaim
    BY DEF WithOne, Todos, Owing, BeforeClaim
  <2>1. Goes(w, <<"send">>, job[w].batch \ {r}, r)
    <3>1. job[w].batch \ {r} \in SUBSET Recipients /\ r \in Recipients
      BY <1>2
    <3> QED BY <1>0, <1>2, <1>9, <2>0, <3>1, Fields
  <2>3. TypeOK'
    BY <1>3, <1>9, <2>1 DEF Goes
  <2>4. Frame(w)
    BY <1>0, <1>9, <2>1 DEF Frame, Goes
  <2>5. Mine(w)' = job[w].batch
    BY <2>0, <2>1 DEF Mine, Goes
  <2>6. Orderly(w)'
    BY AwaitingOne, <1>0, <1>2, <1>9, <2>0, <2>1, <2>5 DEF Orderly, Goes
  <2>7. Asked'
    BY <1>0, <1>9 DEF IInv, Asked
  <2>8. Counted'
    BY <2>0, <2>1 DEF Counted, Goes
  <2> QED BY <1>2, <2>3, <2>4, <2>5, <2>6, <2>7, <2>8, Assembled DEF LeavesWith, Frame
<1> QED BY <1>5, <1>6, <1>7, <1>8, <1>9 DEF Recipient

(* Meta is asked: for somebody nobody asked it for. *)
LEMMA SendStep ==
  ASSUME IInv, NEW w \in Workers, Send(w)
  PROVE  /\ IInv'
         /\ job[w].at \in Mine(w)
         /\ LeavesWith(w, Mine(w)) \/ LeavesWith(w, {})
<1> USE DEF rows, history
<1>0. /\ TypeOK /\ job[w] \in JobType /\ job[w].todo = <<"send">> /\ <<"send">> \in WithOne
      /\ UNCHANGED <<status, counts, ledger, queue, api, lateClaims, dirty, lost, faults, resumes>>
  BY JobTyped, Heads DEF IInv, Orderly, Send, WithOne
<1>1. PICK r \in Recipients : r = job[w].at /\ r \notin job[w].batch /\ attempts[r] = 0
  BY <1>0 DEF IInv, Orderly
<1>2. /\ Mine(w) = job[w].batch \cup {r} /\ job[w].batch \subseteq Recipients
      /\ \A q \in Mine(w) : ledger[q] = "sending"
      /\ \A q \in job[w].batch : attempts[q] = 0
      /\ lateClaims[w] \in {0, 1} /\ (lateClaims[w] = 1 => status = "cancelled")
  BY <1>0, <1>1 DEF IInv, Orderly, Mine, JobType
<1>3. /\ attempts' \in [Recipients -> Nat] /\ attempts'[r] = 1
      /\ \A q \in Recipients : q # r => attempts'[q] = attempts[q]
  <2>1. attempts \in [Recipients -> Nat] /\ attempts' = [attempts EXCEPT ![r] = @ + 1]
    BY <1>0, <1>1 DEF Send, TypeOK
  <2> QED BY <1>1, <2>1
<1>4. PICK todo \in {<<"accepted">>, <<"refused">>, <<"refresh", "retry">>} : Continue(w, todo)
  BY DEF Send
<1>5. /\ todo \in Todos /\ todo \in Owing /\ todo # <<"send">> /\ todo \notin BeforeClaim /\ todo \notin WithBatch
      /\ todo \notin WithOne => todo = <<"refresh", "retry">>
  BY DEF Todos, Owing, WithOne, WithBatch, BeforeClaim, Ending
<1>6. Goes(w, todo, job[w].batch, r)
  BY <1>0, <1>1, <1>4, <1>5, Continues
<1>7. TypeOK'
  <2>1. /\ counts' \in [Settled -> Nat] /\ ledger' \in Rows /\ dirty' \in BOOLEAN
        /\ lateClaims' \in [Workers -> Nat]
    BY <1>0 DEF TypeOK, Rows
  <2> QED BY <1>0, <1>3, <1>6, <2>1, TypedTables DEF Goes
<1>8. Frame(w)
  BY <1>0, <1>2, <1>3, <1>6 DEF Frame, Goes
<1>9. Mine(w)' = Mine(w) \/ Mine(w)' = {}
  BY <1>2, <1>5, <1>6 DEF Mine, Goes
<1>10. Orderly(w)'
  <2>1. \A q \in job[w].batch : attempts'[q] = 0
    BY <1>1, <1>2, <1>3
  <2> QED BY <1>3, <1>0, <1>1, <1>2, <1>5, <1>6, <1>9, <2>1 DEF Orderly, Goes
<1>11. Asked'
  BY <1>0, <1>2, <1>3 DEF IInv, Asked
<1>12. Counted'
  BY <1>5, <1>6 DEF Counted, Goes
<1> QED BY <1>7, <1>8, <1>9, <1>10, <1>11, <1>12, Assembled, <1>1, <1>2 DEF LeavesWith, Frame

(* The answer is settled on the row asked about. *)
LEMMA SettleStep ==
  ASSUME IInv, NEW w \in Workers, Settle(w)
  PROVE  IInv' /\ job[w].at \in Mine(w) /\ LeavesWith(w, Mine(w) \ {job[w].at})
<1> USE DEF rows, history
<1>0. /\ TypeOK /\ job[w] \in JobType /\ job[w].todo \in {<<"accepted">>, <<"refused">>}
      /\ job[w].todo \in WithOne /\ ledger \in Rows
      /\ UNCHANGED <<status, counts, queue, api, attempts, lateClaims, dirty, lost, faults, resumes>>
  BY JobTyped, Heads DEF IInv, Orderly, Settle, WithOne, TypeOK, Rows
<1>1. PICK r \in Recipients : r = job[w].at /\ r \notin job[w].batch
  BY <1>0 DEF IInv, Orderly
<1>2. /\ Mine(w) = job[w].batch \cup {r} /\ job[w].batch \subseteq Recipients
      /\ \A q \in Mine(w) : ledger[q] = "sending"
      /\ \A q \in job[w].batch : attempts[q] = 0
      /\ lateClaims[w] \in {0, 1} /\ (lateClaims[w] = 1 => status = "cancelled")
  BY <1>0, <1>1 DEF IInv, Orderly, Mine, JobType
<1>3. /\ ledger' \in Rows /\ ledger'[r] \in {"sent", "failed"}
      /\ \A q \in Recipients : q # r => ledger'[q] = ledger[q]
  <2>1. PICK row \in {"sent", "failed"} : ledger' = [ledger EXCEPT ![r] = row]
    BY <1>1 DEF Settle, RowAfter
  <2> QED BY <1>0, <2>1 DEF Rows, Settled
<1>4. /\ <<"recipient">> \in Todos /\ <<"recipient">> \in WithBatch /\ <<"recipient">> \in Owing
      /\ <<"recipient">> \notin WithOne /\ <<"recipient">> \notin BeforeClaim
  BY DEF Todos, WithBatch, Owing, WithOne, BeforeClaim
<1>5. Goes(w, <<"recipient">>, job[w].batch, NoOne)
  BY <1>0, <1>2, <1>4, Fields DEF Settle
<1>6. TypeOK'
  <2>1. /\ counts' \in [Settled -> Nat] /\ attempts' \in [Recipients -> Nat] /\ dirty' \in BOOLEAN
        /\ lateClaims' \in [Workers -> Nat]
    BY <1>0 DEF TypeOK
  <2> QED BY <1>0, <1>3, <1>5, <2>1, TypedTables DEF Goes
<1>7. Frame(w)
  BY <1>0, <1>2, <1>3, <1>5 DEF Frame, Goes
<1>8. Mine(w)' = job[w].batch
  BY <1>4, <1>5 DEF Mine, Goes
<1>9. Orderly(w)'
  <2>1. \A q \in job[w].batch : ledger'[q] = "sending" /\ attempts'[q] = 0
    BY <1>0, <1>1, <1>2, <1>3
  <2>2. <<"recipient">> # <<"send">>
    BY <1>4 DEF WithOne
  <2> QED BY AwaitingOne, <1>0, <1>2, <1>4, <1>5, <1>8, <2>1, <2>2 DEF Orderly, Goes
<1>10. Asked'
  BY <1>0, <1>3 DEF IInv, Asked
<1>11. Counted'
  BY <1>4, <1>5 DEF Counted, Goes
<1> QED BY <1>1, <1>2, <1>6, <1>7, <1>8, <1>9, <1>10, <1>11, Assembled DEF LeavesWith, Frame

(* The rows not asked about are given back. *)
LEMMA ReleaseStep ==
  ASSUME IInv, NEW w \in Workers, Release(w)
  PROVE  /\ IInv' /\ LeavesWith(w, {})
         /\ \A r \in Recipients : ledger'[r] = IF r \in Mine(w) THEN "pending" ELSE ledger[r]
<1> USE DEF rows, history
<1>0. /\ TypeOK /\ job[w] \in JobType /\ ledger \in Rows
      /\ job[w].todo \in {<<"release", "fail">>, <<"release", "pause", "refresh">>,
                         <<"release", "pause", "refresh", "enqueue">>}
      /\ UNCHANGED <<status, counts, queue, api, attempts, lateClaims, dirty, lost, faults, resumes>>
  BY JobTyped, Heads DEF IInv, Orderly, Release, TypeOK, Rows
<1>1. /\ job[w].todo \in WithBatch /\ job[w].todo \notin WithOne
      /\ job[w].todo \notin {<<"refresh", "retry">>, <<"retry">>} /\ Len(job[w].todo) # 1
  <2>1. job[w].todo \in WithBatch /\ job[w].todo \notin WithOne
    BY <1>0 DEF WithBatch, WithOne
  <2>2. Len(job[w].todo) # 1
    BY <1>0
  <2> QED BY <2>1, <2>2, Tame
<1>2. /\ job[w].at = NoOne /\ Mine(w) = job[w].batch /\ job[w].batch \subseteq Recipients
      /\ \A r \in job[w].batch : ledger[r] = "sending" /\ attempts[r] = 0
      /\ lateClaims[w] \in {0, 1} /\ (lateClaims[w] = 1 => status = "cancelled")
  BY <1>0, <1>1 DEF IInv, Orderly, Mine, JobType
<1>3. PICK todo \in {<<"fail">>, <<"pause", "refresh">>, <<"pause", "refresh", "enqueue">>} :
        todo = Tail(job[w].todo) /\ (job[w].todo \in Owing => todo \in Owing)
  <2>1. <<"release", "fail">> \notin Owing /\ <<"pause", "refresh">> \in Owing
        /\ <<"pause", "refresh", "enqueue">> \in Owing
    BY DEF Owing, WithOne
  <2> QED BY <1>0, <2>1, Tails
<1>4. todo \in Ending
  BY DEF Ending
<1>5. Goes(w, todo, job[w].batch, NoOne)
  BY <1>0, <1>1, <1>2, <1>3, <1>4, Advances, Tame DEF Release
<1>6. /\ ledger' \in Rows
      /\ \A r \in Recipients : IF r \in job[w].batch THEN ledger'[r] = "pending" ELSE ledger'[r] = ledger[r]
  BY <1>0, <1>2 DEF Release, Rows
<1>7. TypeOK'
  <2>1. /\ counts' \in [Settled -> Nat] /\ attempts' \in [Recipients -> Nat] /\ dirty' \in BOOLEAN
        /\ lateClaims' \in [Workers -> Nat]
    BY <1>0 DEF TypeOK
  <2> QED BY <1>0, <1>5, <1>6, <2>1, TypedTables DEF Goes
<1>8. Frame(w)
  BY <1>0, <1>2, <1>5, <1>6 DEF Frame, Goes
<1>9. todo \in Todos /\ todo \notin WithOne /\ todo \notin WithBatch /\ todo \notin BeforeClaim
  BY <1>4, Tame
<1>10. Mine(w)' = {}
  BY <1>5, <1>9 DEF Mine, Goes
<1>11. Orderly(w)'
  <2>1. todo # <<"send">>
    OBVIOUS
  <2> QED BY AwaitingOne, <1>0, <1>2, <1>5, <1>9, <1>10, <2>1 DEF Orderly, Goes
<1>12. Asked'
  BY <1>0, <1>2, <1>6 DEF IInv, Asked
<1>13. Counted'
  <2>1. Tally' = Tally
    BY <1>2, <1>6, SameTally DEF Settled
  <2> QED BY <1>0, <1>3, <1>5, <2>1, StaysCounted DEF Goes
<1> QED BY <1>2, <1>6, <1>7, <1>8, <1>10, <1>11, <1>12, <1>13, Assembled DEF LeavesWith, Frame

(* The counts are refreshed from the ledger. *)
LEMMA RefreshStep ==
  ASSUME IInv, NEW w \in Workers, Refresh(w)
  PROVE  IInv' /\ LeavesWith(w, {})
<1> USE DEF rows, history
<1>0. /\ TypeOK /\ job[w] \in JobType
      /\ job[w].todo \in {<<"refresh">>, <<"refresh", "enqueue">>, <<"refresh", "retry">>}
      /\ UNCHANGED <<status, ledger, queue, api, attempts, lateClaims, lost, faults, resumes>>
      /\ counts' = Tally /\ dirty' = FALSE /\ Advance(w)
  BY JobTyped, Heads DEF IInv, Orderly, Refresh
<1>1. PICK todo \in {<<>>, <<"enqueue">>, <<"retry">>}, batch \in SUBSET Recipients,
           at \in Recipients \cup {NoOne} :
        Goes(w, todo, batch, at) /\ (todo # <<"retry">> => at = NoOne)
  <2>1. CASE job[w].todo = <<"refresh">>
    BY <1>0, <2>1, Advances DEF Nothing
  <2>2. CASE job[w].todo \in {<<"refresh", "enqueue">>, <<"refresh", "retry">>}
    <3>1. Len(job[w].todo) # 1
      BY <2>2
    <3>2. Tail(job[w].todo) \in {<<"enqueue">>, <<"retry">>}
          /\ (Tail(job[w].todo) = <<"enqueue">> => job[w].todo = <<"refresh", "enqueue">>)
      <4>1. CASE job[w].todo = <<"refresh", "enqueue">>
        BY <4>1, Tails
      <4>2. CASE job[w].todo = <<"refresh", "retry">>
        <5>1. <<"retry">> # <<"enqueue">>
          OBVIOUS
        <5> QED BY <4>2, <5>1, Tails
      <4> QED BY <2>2, <4>1, <4>2
    <3>3. Tail(job[w].todo) \in Ending
      BY <3>2 DEF Ending
    <3>4. Goes(w, Tail(job[w].todo), job[w].batch, job[w].at)
      BY <1>0, <3>1, <3>3, Advances, Tame
    <3>5. job[w].todo = <<"refresh", "enqueue">> => job[w].at = NoOne
      <4>1. <<"refresh", "enqueue">> \notin WithOne /\ <<"refresh", "enqueue">> \notin {<<"refresh", "retry">>, <<"retry">>}
        BY DEF WithOne
      <4> QED BY <4>1 DEF IInv, Orderly
    <3> QED BY <1>0, <3>2, <3>4, <3>5 DEF JobType
  <2> QED BY <1>0, <2>1, <2>2
<1>2. todo \in Todos /\ todo \notin WithOne /\ todo \notin WithBatch /\ todo \notin BeforeClaim
  <2>1. todo \in {<<>>} \cup Ending
    BY DEF Ending
  <2> QED BY <2>1, Tame
<1>3. TypeOK'
  <2>1. /\ counts' \in [Settled -> Nat] /\ attempts' \in [Recipients -> Nat] /\ dirty' \in BOOLEAN
        /\ lateClaims' \in [Workers -> Nat] /\ ledger' \in Rows
    BY <1>0, TallyTyped DEF TypeOK, Rows
  <2> QED BY <1>0, <1>1, <2>1, TypedTables DEF Goes
<1>4. Frame(w)
  BY <1>0, <1>1 DEF Frame, Goes
<1>5. Mine(w)' = {}
  BY <1>1, <1>2 DEF Mine, Goes
<1>6. Orderly(w)'
  <2>1. todo # <<"send">> /\ (todo \notin {<<"refresh", "retry">>, <<"retry">>} => at = NoOne)
    BY <1>1
  <2> QED BY AwaitingOne, <1>0, <1>1, <1>2, <1>5, <2>1 DEF Orderly, Goes, IInv
<1>7. Asked'
  BY <1>0 DEF IInv, Asked
<1>8. Counted'
  <2>1. Tally' = Tally
    BY <1>0, SameTally
  <2> QED BY <1>0, <2>1 DEF Counted
<1> QED BY <1>3, <1>4, <1>5, <1>6, <1>7, <1>8, Assembled DEF LeavesWith, Frame

-----------------------------------------------------------------------------
LEMMA InitInv ==
  ASSUME Init
  PROVE  IInv
<1>1. /\ status = "absent" /\ counts = [st \in Settled |-> 0] /\ ledger = [r \in Recipients |-> "absent"]
      /\ job = [w \in Workers |-> Idle] /\ attempts = [r \in Recipients |-> 0]
      /\ lateClaims = [w \in Workers |-> 0]
  BY DEF Init
<1>2. TypeOK
  <2>1. job \in [Workers -> JobType]
    BY <1>1, IdleTyped
  <2>2. counts \in [Settled -> Nat] /\ attempts \in [Recipients -> Nat] /\ lateClaims \in [Workers -> Nat]
    BY <1>1
  <2>3. ledger \in [Recipients -> {"absent", "pending", "sending"} \cup Settled]
    BY <1>1
  <2>4. /\ queue \in [{"dispatch", "send"} -> Nat] /\ api \in {"none", "dispatch", "send"}
        /\ faults \in Nat /\ resumes \in Nat
    BY DEF Init
  <2>5. dirty \in BOOLEAN /\ lost \in BOOLEAN
    BY DEF Init
  <2> QED BY <1>1, <2>1, <2>2, <2>3, <2>4, <2>5 DEF TypeOK, JobType
<1>3. \A w \in Workers : Mine(w) = {} /\ Orderly(w)
  <2>1. <<>> \in Todos /\ <<>> \notin WithOne /\ <<>> \notin WithBatch /\ <<>> # <<"send">>
    BY Tame
  <2>2. ASSUME NEW w \in Workers PROVE job[w].todo = <<>> /\ job[w].at = NoOne /\ lateClaims[w] = 0
    BY <1>1, IdleTyped
  <2>3. \A w \in Workers : Mine(w) = {}
    BY <2>1, <2>2 DEF Mine
  <2> QED BY AwaitingOne, <2>1, <2>2, <2>3 DEF Orderly
<1>4. Divided /\ Asked
  BY <1>1, <1>3 DEF Divided, Asked
<1>5. Counted
  <2>1. \A st \in Settled : With(st) = {}
    BY <1>1 DEF With, Settled
  <2>2. Tally = [st \in Settled |-> 0]
    BY <2>1, FS_EmptySet DEF Tally
  <2> QED BY <1>1, <2>2 DEF Counted
<1> QED BY <1>2, <1>3, <1>4, <1>5 DEF IInv

LEMMA NextStep ==
  ASSUME IInv, [Next]_vars
  PROVE  IInv'
<1>1. CASE UNCHANGED vars
  <2> USE <1>1 DEF vars, rows, history
  <2>1. TypeOK'
    BY DEF IInv, TypeOK
  <2>2. \A w \in Workers : Orderly(w)' /\ Mine(w)' = Mine(w)
    BY DEF IInv, Orderly, Mine
  <2>3. Divided' /\ Asked'
    BY <2>2 DEF IInv, Divided, Asked
  <2>4. Counted'
    BY DEF IInv, Counted, Tally, With
  <2> QED BY <2>1, <2>2, <2>3, <2>4 DEF IInv
<1>2. CASE Create \/ Resume \/ Cancel \/ ApiEnqueues \/ ApiDies
  BY <1>2, MemberStep
<1>3. ASSUME NEW w \in Workers, Step(w) \/ Interrupt(w) \/ Overrun(w) PROVE IInv'
  BY <1>3, BeginStep, PrepareStep, PageStep, ClaimStep, RecipientStep, SendStep, SettleStep,
     ReleaseStep, EndingStep, RefreshStep, FaultStep DEF Step
<1> QED BY <1>1, <1>2, <1>3 DEF Next

LEMMA InvAlways == Spec => []IInv
<1>1. Init => IInv
  BY InitInv
<1>2. IInv /\ [Next]_vars => IInv'
  BY NextStep
<1> QED BY <1>1, <1>2, PTL DEF Spec

(* Type correctness: the row, the ledger, the queue and what every handler *)
(* has yet to do are of their types.                                       *)
THEOREM TypeCorrect == Spec => []TypeOK
<1>1. IInv => TypeOK
  BY DEF IInv
<1> QED BY <1>1, InvAlways, PTL

(* claimPending hands a row to one handler, which asks Meta once or gives  *)
(* the row back unasked: whatever dies, retries or resumes, no recipient   *)
(* is messaged twice.                                                      *)
THEOREM MessagedOnce == Spec => []NobodyMessagedTwice
<1>1. IInv => NobodyMessagedTwice
  BY DEF IInv, Asked, NobodyMessagedTwice
<1> QED BY <1>1, InvAlways, PTL

(* FOR UPDATE SKIP LOCKED and the flip to `sending` divide the audience    *)
(* among the handlers, and what they hold stays `sending`.                 *)
THEOREM AudienceDivided == Spec => []AudienceIsDivided
<1>1. ASSUME IInv PROVE AudienceIsDivided
  <2>1. \A w \in Workers : Sending(w) = Mine(w)
    BY <1>1, SendingIsMine DEF IInv
  <2> QED BY <1>1, <2>1 DEF IInv, Divided, Orderly, AudienceIsDivided
<1> QED BY <1>1, InvAlways, PTL

(* A send job that starts after the cancel ends at once, so a worker       *)
(* claims at most the batch it was about to claim.                         *)
THEOREM CancelStops == Spec => []CancelStopsChain
<1>1. IInv => CancelStopsChain
  BY DEF IInv, Orderly, CancelStopsChain
<1> QED BY <1>1, InvAlways, PTL

(* Every way out of a handler that changed the ledger refreshes the        *)
(* counts.                                                                 *)
THEOREM CountsMatch == Spec => []CountsMatchLedger
<1>1. ASSUME IInv PROVE CountsMatchLedger
  <2>1. <<>> \notin Owing
    BY DEF Owing, WithOne
  <2> QED BY <1>1, <2>1, IdleTyped DEF IInv, Counted, CountsMatchLedger
<1> QED BY <1>1, InvAlways, PTL

(* transition's WHERE status IN (...) never names a final status, so no    *)
(* job, resume or second dispatch reopens what ended.                      *)
THEOREM EndFinal == Spec => EndIsFinal
<1>1. ASSUME [Next]_vars PROVE [(status \in Final) => (status' = status)]_vars
  <2>1. CASE UNCHANGED vars
    BY <2>1
  <2>2. ASSUME Create \/ Resume \/ Cancel \/ ApiEnqueues \/ ApiDies
        PROVE  status \in Final => status' = status
    BY <2>2 DEF Create, Resume, Cancel, ApiEnqueues, ApiDies, rows, Final
  <2>3. ASSUME NEW w \in Workers, Check(w) \/ Start(w) \/ Unpause(w) \/ Verify(w) \/ Transition(w)
        PROVE  status \in Final => status' = status
    BY <2>3 DEF Check, Start, Unpause, Verify, Transition, Move, ResumableFrom, rows, Final
  <2>4. ASSUME NEW w \in Workers,
               \/ BeginDispatch(w) \/ Page(w) \/ BeginSend(w) \/ Claim(w) \/ Resolve(w) \/ Recipient(w)
               \/ Send(w) \/ Settle(w) \/ Release(w) \/ Refresh(w) \/ Enqueue(w) \/ Retry(w)
               \/ Interrupt(w) \/ Overrun(w)
        PROVE  status' = status
    BY <2>4 DEF BeginDispatch, Page, BeginSend, Claim, Resolve, Recipient, Send, Settle, Release, Refresh,
                Enqueue, Retry, Interrupt, Overrun, rows
  <2>5. ASSUME NEW w \in Workers, Step(w) \/ Interrupt(w) \/ Overrun(w)
        PROVE  status \in Final => status' = status
    BY <2>3, <2>4, <2>5 DEF Step
  <2>6. Next => (status \in Final => status' = status)
    BY <2>2, <2>5 DEF Next
  <2> QED BY <1>1, <2>1, <2>6
<1> QED BY <1>1, PTL DEF Spec, EndIsFinal
-----------------------------------------------------------------------------
(* Nothing is at work before the member has scheduled the broadcast.       *)
Unscheduled ==
  status = "absent" =>
    /\ queue["dispatch"] = 0 /\ queue["send"] = 0 /\ api = "none"
    /\ \A w \in Workers : job[w] = Idle

LEMMA UnscheduledAlways == Spec => []Unscheduled
<1>1. Init => Unscheduled
  BY DEF Init, Unscheduled
<1>2. ASSUME Unscheduled, [Next]_vars PROVE Unscheduled'
  <2> USE DEF rows, history
  <2>1. CASE UNCHANGED vars
    BY <1>2, <2>1 DEF Unscheduled, vars
  <2>2. CASE Create \/ Resume \/ Cancel \/ ApiEnqueues \/ ApiDies
    BY <1>2, <2>2 DEF Unscheduled, Create, Resume, Cancel, ApiEnqueues, ApiDies, Move
  <2>3. ASSUME NEW w \in Workers, Step(w) \/ Interrupt(w) \/ Overrun(w)
        PROVE  status # "absent" /\ status' # "absent"
    <3>1. status # "absent"
      <4> SUFFICES ASSUME status = "absent" PROVE FALSE
        OBVIOUS
      <4>1. job[w] = Idle /\ queue["dispatch"] = 0 /\ queue["send"] = 0
        BY <1>2 DEF Unscheduled
      <4>2. ~ \E step \in Steps : At(w, step)
        BY <4>1, IdleTyped DEF At
      <4>3. ~Interrupt(w) /\ ~Overrun(w) /\ ~BeginDispatch(w) /\ ~BeginSend(w)
        BY <4>1 DEF Interrupt, Overrun, BeginDispatch, BeginSend
      <4> QED BY <2>3, <4>2, <4>3 DEF Step, Check, Start, Page, Unpause, Verify, Claim, Resolve, Recipient,
                 Send, Settle, Release, Transition, Refresh, Enqueue, Retry, Steps
    <3>2. status' = status \/ \E from, to \in {"running", "paused", "completed", "failed"} : status' = to
      BY <2>3 DEF Step, Check, Start, Unpause, Transition, Move, BeginDispatch, BeginSend, Page, Verify, Claim,
                  Resolve, Recipient, Send, Settle, Release, Refresh, Enqueue, Retry, Interrupt, Overrun
    <3> QED BY <3>1, <3>2
  <2>4. CASE \E w \in Workers : Step(w) \/ Interrupt(w) \/ Overrun(w)
    BY <2>3, <2>4 DEF Unscheduled
  <2> QED BY <1>2, <2>1, <2>2, <2>4 DEF Next
<1> QED BY <1>1, <1>2, PTL DEF Spec

(* What the steps of a handler do to the promise. *)
Ready == IInv /\ Unscheduled

LEMMA PlaceOf ==
  ASSUME IInv, NEW r \in Recipients
  PROVE  /\ Place[r] = "unlisted" <=> ledger[r] = "absent"
         /\ Place[r] = "waiting" <=> ledger[r] = "pending"
         /\ Place[r] = "taken" <=> ledger[r] = "sending" /\ attempts[r] = 0
         /\ Place[r] = "asked" <=> ledger[r] = "sending" /\ attempts[r] # 0
         /\ Place[r] = "reached" <=> ledger[r] = "sent"
         /\ Place[r] = "refused" <=> ledger[r] = "failed"
         /\ Place[r] = "passed" <=> ledger[r] = "skipped"
<1>1. ledger[r] \in {"absent", "pending", "sending", "sent", "failed", "skipped"}
  BY DEF IInv, TypeOK, Settled
<1> QED BY <1>1 DEF Place, Progress

LEMMA PlaceThen ==
  ASSUME IInv', NEW r \in Recipients
  PROVE  /\ ledger'[r] = "absent" => Place'[r] = "unlisted"
         /\ ledger'[r] = "pending" => Place'[r] = "waiting"
         /\ ledger'[r] = "sending" /\ attempts'[r] = 0 => Place'[r] = "taken"
         /\ ledger'[r] = "sending" /\ attempts'[r] # 0 => Place'[r] = "asked"
         /\ ledger'[r] = "sent" => Place'[r] = "reached"
         /\ ledger'[r] = "failed" => Place'[r] = "refused"
         /\ ledger'[r] = "skipped" => Place'[r] = "passed"
<1>1. ledger'[r] \in {"absent", "pending", "sending", "sent", "failed", "skipped"}
  BY DEF IInv, TypeOK, Settled
<1> QED BY <1>1 DEF Place, Progress

LEMMA PlaceStays ==
  ASSUME IInv, IInv', NEW r \in Recipients, ledger'[r] = ledger[r], attempts'[r] = attempts[r]
  PROVE  Place'[r] = Place[r]
<1>1. ledger[r] \in {"absent", "pending", "sending", "sent", "failed", "skipped"}
  BY DEF IInv, TypeOK, Settled
<1> QED BY <1>1, PlaceOf, PlaceThen

LEMMA PlaceIsFunction ==
  /\ Place = [r \in Recipients |-> Place[r]]
  /\ Place' = [r \in Recipients |-> Place'[r]]
<1>1. Place = [r \in Recipients |-> Place[r]]
  BY DEF Place
<1>2. Place' = [r \in Recipients |-> Place'[r]]
  BY DEF Place
<1> QED BY <1>1, <1>2

(* A step that has got further, or less far, with one person only. *)
LEMMA PlaceOfOne ==
  ASSUME IInv, IInv', NEW r \in Recipients, NEW x, Place'[r] = x,
         \A q \in Recipients \ {r} : ledger'[q] = ledger[q] /\ attempts'[q] = attempts[q]
  PROVE  Place' = [Place EXCEPT ![r] = x]
<1>1. \A q \in Recipients \ {r} : Place'[q] = Place[q]
  BY PlaceStays
<1> QED BY <1>1, PlaceIsFunction

LEMMA PlaceSame == UNCHANGED <<ledger, attempts>> => UNCHANGED Place
BY DEF Place

AllOrderly == \A w \in Workers : Orderly(w)
HandsMine == \A w \in Workers : Sending(w) = Mine(w)

LEMMA HandsAreMine == AllOrderly => HandsMine
BY SendingIsMine DEF AllOrderly, HandsMine

(* Only the rows of one worker are in other hands than before. *)
LEMMA HandsAfter ==
  ASSUME IInv, IInv', NEW w \in Workers, NEW S, LeavesWith(w, S)
  PROVE  Hands[w] = Mine(w) /\ Hands' = [Hands EXCEPT ![w] = S]
<1>1. \A v \in Workers : Sending(v) = Mine(v) /\ Sending(v)' = Mine(v)'
  <2>1. AllOrderly /\ AllOrderly'
    BY DEF IInv, AllOrderly
  <2>2. HandsMine /\ HandsMine'
    BY <2>1, HandsAreMine, PTL
  <2> QED BY <2>2 DEF HandsMine
<1>2. \A v \in Workers : v # w => Mine(v)' = Mine(v)
  BY DEF LeavesWith, Mine
<1> QED BY <1>1, <1>2 DEF Hands, LeavesWith

LEMMA HandsSame == UNCHANGED job => UNCHANGED Hands
BY DEF Hands, Sending, At

LEMMA InitRefines == Init => Promise!Init
<1> SUFFICES ASSUME Init PROVE Promise!Init
  OBVIOUS
<1>1. \A w \in Workers : Sending(w) = {}
  BY IdleTyped DEF Init, Sending, At
<1>2. Place = [r \in Recipients |-> "unlisted"]
  BY DEF Init, Place, Progress
<1> QED BY <1>1, <1>2 DEF Init, Hands, Promise!Init

LEMMA MemberRefines ==
  ASSUME Create \/ Resume \/ Cancel \/ ApiEnqueues \/ ApiDies
  PROVE  [Promise!Next]_(Promise!vars)
<1> USE DEF rows, history
<1>1. UNCHANGED <<Place, attempts, Hands, lateClaims>>
  BY PlaceSame, HandsSame DEF Create, Resume, Cancel, ApiEnqueues, ApiDies
<1>2. \/ status \in {"absent"} /\ status' = "scheduled"
      \/ status \in {"scheduled", "paused"} /\ status' = "running"
      \/ status \in {"scheduled", "running", "paused"} /\ status' = "cancelled"
      \/ UNCHANGED status
  BY DEF Create, Resume, Cancel, ApiEnqueues, ApiDies, Move
<1>3. Promise!Schedule \/ Promise!Begin \/ Promise!Cancel \/ UNCHANGED status
  BY <1>1, <1>2 DEF Promise!Schedule, Promise!Begin, Promise!Cancel, Promise!Lead, Promise!people
<1> QED BY <1>1, <1>3 DEF Promise!Next, Promise!vars, Promise!people

(* The steps that move the broadcast at most. *)
LEMMA PhaseRefines ==
  ASSUME IInv, NEW w \in Workers,
         \/ BeginDispatch(w) \/ BeginSend(w) \/ Check(w) \/ Start(w) \/ Unpause(w) \/ Verify(w)
         \/ Transition(w) \/ Enqueue(w) \/ Retry(w) \/ Refresh(w)
  PROVE  [Promise!Next]_(Promise!vars)
<1> USE DEF rows, history
<1>1. /\ UNCHANGED <<ledger, attempts, lateClaims>>
      /\ \/ status \in {"scheduled", "running"} /\ status' \in {"failed", "paused"}
         \/ status \in {"scheduled", "paused"} /\ status' = "running"
         \/ status = "running" /\ status' \in {"paused", "completed"}
         \/ status \in {"running", "paused"} /\ status' = "failed"
         \/ UNCHANGED status
  BY DEF BeginDispatch, BeginSend, Check, Start, Unpause, Verify, Transition, Enqueue, Retry, Refresh, Move,
         ResumableFrom
<1>2. IInv' /\ LeavesWith(w, {})
  BY BeginStep, PrepareStep, EndingStep, RefreshStep
<1>3. Sending(w) = {}
  <2>1. job[w].todo = <<>> \/ Head(job[w].todo) \notin Holding
    BY IdleTyped DEF BeginDispatch, BeginSend, Check, Start, Unpause, Verify, Transition, Enqueue, Retry, Refresh,
                     At, Holding
  <2> QED BY <2>1 DEF Sending
<1>4. Hands' = Hands
  <2>1. Hands' = [Hands EXCEPT ![w] = {}] /\ Hands[w] = {}
    BY <1>2, <1>3, HandsAfter DEF Hands
  <2> QED BY <2>1 DEF Hands
<1>5. UNCHANGED <<Place, attempts, Hands, lateClaims>>
  BY <1>1, <1>4, PlaceSame
<1>6. Promise!Begin \/ Promise!Pause \/ Promise!Complete \/ Promise!Fail \/ UNCHANGED status
  BY <1>1, <1>5 DEF Promise!Begin, Promise!Pause, Promise!Complete, Promise!Fail, Promise!Lead, Promise!people
<1> QED BY <1>5, <1>6 DEF Promise!Next, Promise!vars, Promise!people

(* A page lists people. *)
LEMMA PageRefines ==
  ASSUME Ready, NEW w \in Workers, Page(w)
  PROVE  Promise!Next
<1> USE DEF rows, history
<1>1. PICK page \in SUBSET job[w].batch, st \in [Recipients -> {"pending", "skipped"}] :
        ledger' = Insert(page, st)
  BY DEF Page
<1>2. IInv /\ IInv' /\ LeavesWith(w, {}) /\ UNCHANGED <<status, attempts, lateClaims>>
  BY PageStep DEF Ready, Page
<1>3. status # "absent"
  BY IdleTyped DEF Ready, Unscheduled, Page, At
<1> DEFINE waiting == {r \in Recipients : r \in page /\ ledger[r] = "absent" /\ st[r] = "pending"}
           barred == {r \in Recipients : r \in page /\ ledger[r] = "absent" /\ st[r] = "skipped"}
<1>4. \A r \in waiting \cup barred : Place[r] = "unlisted"
  BY <1>2, PlaceOf
<1>5. Place' = [r \in Recipients |-> IF r \in waiting THEN "waiting"
                                     ELSE IF r \in barred THEN "passed" ELSE Place[r]]
  <2>1. ASSUME NEW r \in Recipients
        PROVE  Place'[r] = IF r \in waiting THEN "waiting" ELSE IF r \in barred THEN "passed" ELSE Place[r]
    <3>1. ledger'[r] = IF r \in page /\ ledger[r] = "absent" THEN st[r] ELSE ledger[r]
      BY <1>1 DEF Insert
    <3>2. st[r] \in {"pending", "skipped"}
      OBVIOUS
    <3>3. CASE r \in page /\ ledger[r] = "absent"
      BY <1>2, <3>1, <3>2, <3>3, PlaceThen
    <3>4. CASE ~(r \in page /\ ledger[r] = "absent")
      BY <1>2, <3>1, <3>4, PlaceStays
    <3> QED BY <3>3, <3>4
  <2> QED BY <2>1, PlaceIsFunction
<1>6. Hands' = Hands
  <2>1. Sending(w) = {}
    BY DEF Page, At, Sending, Holding
  <2>2. Hands' = [Hands EXCEPT ![w] = {}] /\ Hands[w] = {}
    BY <1>2, <2>1, HandsAfter DEF Hands
  <2> QED BY <2>2 DEF Hands
<1>7. waiting \cap barred = {} /\ waiting \in SUBSET Recipients /\ barred \in SUBSET Recipients
  OBVIOUS
<1> HIDE DEF waiting, barred
<1>8. Promise!List(waiting, barred)
  BY <1>2, <1>3, <1>4, <1>5, <1>6, <1>7 DEF Promise!List
<1> QED BY <1>7, <1>8 DEF Promise!Next

(* A batch is taken, or there is none. *)
LEMMA ClaimRefines ==
  ASSUME IInv, NEW w \in Workers, Claim(w)
  PROVE  [Promise!Next]_(Promise!vars)
<1> USE DEF rows, history
<1>1. IInv' /\ UNCHANGED <<status, attempts>>
  BY ClaimStep DEF Claim
<1>2. Hands[w] = {}
  BY DEF Claim, At, Hands, Sending, Holding
<1>3. CASE LeavesWith(w, {}) /\ UNCHANGED <<ledger, lateClaims>>
  <2>1. Hands' = [Hands EXCEPT ![w] = {}]
    BY <1>1, <1>3, HandsAfter
  <2>2. Hands' = Hands
    BY <1>2, <2>1 DEF Hands
  <2> QED BY <1>1, <1>3, <2>2, PlaceSame DEF Promise!vars, Promise!people
<1>4. ASSUME NEW S \in SUBSET ClaimableRows, LeavesWith(w, S), Takes(w, S)
      PROVE  Promise!Next
  <2>1. S \in SUBSET Recipients /\ \A r \in S : Place[r] = "waiting" /\ attempts[r] = 0
    BY PlaceOf DEF ClaimableRows, With, IInv, Asked
  <2>2. Place' = [r \in Recipients |-> IF r \in S THEN "taken" ELSE Place[r]]
    <3>1. ASSUME NEW r \in Recipients
          PROVE  Place'[r] = IF r \in S THEN "taken" ELSE Place[r]
      <4>1. ledger'[r] = IF r \in S THEN "sending" ELSE ledger[r]
        BY <1>4 DEF Takes
      <4>2. CASE r \in S
        BY <1>1, <2>1, <4>1, <4>2, PlaceThen
      <4>3. CASE r \notin S
        BY <1>1, <4>1, <4>3, PlaceStays
      <4> QED BY <4>2, <4>3
    <3> QED BY <3>1, PlaceIsFunction
  <2>3. Hands' = [Hands EXCEPT ![w] = S]
    BY <1>1, <1>4, HandsAfter
  <2>4. status = "cancelled" => lateClaims[w] = 0
    <3>1. Orderly(w) /\ At(w, "claim")
      BY DEF IInv, Claim
    <3>2. job[w].todo \in BeforeClaim
      BY <3>1, Heads DEF Orderly, BeforeClaim
    <3> QED BY <3>1, <3>2 DEF Orderly
  <2>5. /\ Cardinality(S) <= BatchSize
        /\ lateClaims' = [lateClaims EXCEPT ![w] = IF status = "cancelled" THEN @ + 1 ELSE @]
    BY <1>4 DEF Takes
  <2>6. Promise!Take(w, S)
    BY <1>1, <1>2, <2>1, <2>2, <2>3, <2>4, <2>5 DEF Promise!Take
  <2> QED BY <2>1, <2>5, <2>6 DEF Promise!Next
<1> QED BY <1>3, <1>4, ClaimStep

(* One of the batch is passed over, or picked to be asked for. *)
LEMMA RecipientRefines ==
  ASSUME IInv, NEW w \in Workers, Resolve(w) \/ Recipient(w)
  PROVE  [Promise!Next]_(Promise!vars)
<1> USE DEF rows, history
<1>1. IInv' /\ UNCHANGED <<status, attempts, lateClaims>>
  BY RecipientStep DEF Resolve, Recipient
<1>2. CASE LeavesWith(w, Mine(w)) /\ UNCHANGED ledger
  <2>1. Hands' = [Hands EXCEPT ![w] = Mine(w)] /\ Hands[w] = Mine(w)
    BY <1>1, <1>2, HandsAfter
  <2>2. Hands' = Hands
    BY <2>1 DEF Hands
  <2> QED BY <1>1, <1>2, <2>2, PlaceSame DEF Promise!vars, Promise!people
<1>3. ASSUME NEW r \in Mine(w), LeavesWith(w, Mine(w) \ {r}), ledger' = [ledger EXCEPT ![r] = "skipped"]
      PROVE  Promise!Next
  <2>1. job[w].todo \in WithBatch /\ job[w].todo \notin WithOne
    <3>1. job[w].todo \in Todos /\ (At(w, "resolve") \/ At(w, "recipient"))
      BY DEF Resolve, Recipient, IInv, Orderly
    <3>2. job[w].todo \in WithBatch
      BY <3>1, Heads DEF WithBatch
    <3> QED BY <3>2 DEF WithBatch, WithOne
  <2>2. r \in job[w].batch /\ r \in Recipients /\ ledger[r] = "sending" /\ attempts[r] = 0
    BY <2>1 DEF IInv, TypeOK, Orderly, Mine
  <2>3. Place' = [Place EXCEPT ![r] = "passed"]
    <3>1. ledger'[r] = "skipped" /\ \A q \in Recipients \ {r} : ledger'[q] = ledger[q]
      BY <1>3, <2>2 DEF IInv, TypeOK
    <3>2. Place'[r] = "passed"
      BY <1>1, <2>2, <3>1, PlaceThen
    <3> QED BY <1>1, <2>2, <3>1, <3>2, PlaceOfOne
  <2>4. Hands[w] = Mine(w) /\ Hands' = [Hands EXCEPT ![w] = Mine(w) \ {r}]
    BY <1>1, <1>3, HandsAfter
  <2>5. Place[r] = "taken"
    BY <2>2, PlaceOf
  <2>6. Promise!Pass(w, r)
    BY <1>1, <1>3, <2>3, <2>4, <2>5 DEF Promise!Pass
  <2> QED BY <2>2, <2>6 DEF Promise!Next
<1> QED BY <1>2, <1>3, RecipientStep

(* Meta is asked for one in hand, and its answer settles the row. *)
LEMMA SendRefines ==
  ASSUME IInv, NEW w \in Workers, Send(w)
  PROVE  Promise!Next
<1> USE DEF rows, history
<1>1. IInv' /\ UNCHANGED <<status, ledger, lateClaims>> /\ job[w].at \in Mine(w)
  BY SendStep DEF Send
<1>2. PICK r \in Recipients : r = job[w].at /\ attempts[r] = 0 /\ ledger[r] = "sending"
  BY <1>1, Heads DEF Send, IInv, Orderly, WithOne
<1>3. attempts' = [attempts EXCEPT ![r] = @ + 1] /\ attempts'[r] # 0
  BY <1>2 DEF Send, IInv, TypeOK
<1>4. Place[r] = "taken" /\ Place' = [Place EXCEPT ![r] = "asked"]
  <2>1. \A q \in Recipients \ {r} : attempts'[q] = attempts[q]
    BY <1>3 DEF IInv, TypeOK
  <2>2. Place'[r] = "asked"
    BY <1>1, <1>2, <1>3, PlaceThen
  <2> QED BY <1>1, <1>2, <2>1, <2>2, PlaceOf, PlaceOfOne
<1>5. Hands[w] = Mine(w) /\ (UNCHANGED Hands \/ Hands' = [Hands EXCEPT ![w] = {}])
  <2>1. Hands[w] = Mine(w) /\ (Hands' = [Hands EXCEPT ![w] = Mine(w)] \/ Hands' = [Hands EXCEPT ![w] = {}])
    BY <1>1, HandsAfter, SendStep
  <2> QED BY <2>1 DEF Hands
<1>6. Promise!Ask(w, r)
  BY <1>1, <1>2, <1>3, <1>4, <1>5 DEF Promise!Ask
<1> QED BY <1>6 DEF Promise!Next

LEMMA SettleRefines ==
  ASSUME IInv, NEW w \in Workers, Settle(w)
  PROVE  Promise!Next
<1> USE DEF rows, history
<1>1. /\ IInv' /\ UNCHANGED <<status, attempts, lateClaims>>
      /\ job[w].at \in Mine(w) /\ LeavesWith(w, Mine(w) \ {job[w].at})
  BY SettleStep DEF Settle
<1>2. PICK r \in Recipients : r = job[w].at /\ attempts[r] # 0 /\ ledger[r] = "sending"
  <2>1. job[w].todo \in Awaiting /\ job[w].todo \in WithOne
    BY Heads DEF Settle, IInv, Orderly, Awaiting, WithOne
  <2> QED BY <1>1, <2>1 DEF IInv, Orderly
<1>3. \E answer \in {"reached", "refused"} : Place' = [Place EXCEPT ![r] = answer]
  <2>1. PICK row \in {"sent", "failed"} : ledger' = [ledger EXCEPT ![r] = row]
    BY <1>2 DEF Settle, RowAfter
  <2> DEFINE answer == IF row = "sent" THEN "reached" ELSE "refused"
  <2>2. Place' = [Place EXCEPT ![r] = answer]
    <3>1. ledger'[r] = row /\ \A q \in Recipients \ {r} : ledger'[q] = ledger[q]
      BY <2>1 DEF IInv, TypeOK
    <3>2. Place'[r] = answer
      BY <1>1, <3>1, PlaceThen
    <3> QED BY <1>1, <3>1, <3>2, PlaceOfOne
  <2> QED BY <2>2
<1>4. Hands[w] = Mine(w) /\ Hands' = [Hands EXCEPT ![w] = Mine(w) \ {r}] /\ Place[r] = "asked"
  BY <1>1, <1>2, HandsAfter, PlaceOf
<1>5. Promise!Answer(w, r)
  BY <1>1, <1>2, <1>3, <1>4 DEF Promise!Answer
<1> QED BY <1>5 DEF Promise!Next

(* Those not asked for are given back. *)
LEMMA ReleaseRefines ==
  ASSUME IInv, NEW w \in Workers, Release(w)
  PROVE  Promise!Next
<1> USE DEF rows, history
<1>1. /\ IInv' /\ UNCHANGED <<status, attempts, lateClaims>> /\ LeavesWith(w, {})
      /\ \A r \in Recipients : ledger'[r] = IF r \in Mine(w) THEN "pending" ELSE ledger[r]
  BY ReleaseStep DEF Release
<1>2. \A r \in Mine(w) : r \in Recipients /\ ledger[r] = "sending" /\ attempts[r] = 0
  <2>1. job[w].todo \in WithBatch /\ job[w].todo \notin WithOne
    BY Heads DEF Release, IInv, Orderly, WithBatch, WithOne
  <2> QED BY <2>1 DEF IInv, TypeOK, Orderly, Mine
<1>3. Hands[w] = Mine(w) /\ Hands' = [Hands EXCEPT ![w] = {}]
  BY <1>1, HandsAfter
<1>4. Place' = [r \in Recipients |-> IF r \in Mine(w) THEN "waiting" ELSE Place[r]]
  <2>1. ASSUME NEW r \in Recipients
        PROVE  Place'[r] = IF r \in Mine(w) THEN "waiting" ELSE Place[r]
    <3>1. CASE r \in Mine(w)
      BY <1>1, <3>1, PlaceThen
    <3>2. CASE r \notin Mine(w)
      BY <1>1, <3>2, PlaceStays
    <3> QED BY <3>1, <3>2
  <2> QED BY <2>1, PlaceIsFunction
<1>5. \A r \in Mine(w) : Place[r] = "taken"
  BY <1>2, PlaceOf
<1>6. Promise!GiveBack(w)
  BY <1>1, <1>3, <1>4, <1>5 DEF Promise!GiveBack
<1> QED BY <1>6 DEF Promise!Next

LEMMA FaultRefines ==
  ASSUME IInv, NEW w \in Workers, Interrupt(w) \/ Overrun(w)
  PROVE  [Promise!Next]_(Promise!vars)
<1> USE DEF rows, history
<1>1. IInv' /\ UNCHANGED <<status, Place, attempts, lateClaims>>
  BY FaultStep, PlaceSame DEF Interrupt, Overrun
<1>2. CASE Interrupt(w)
  <2>1. Hands' = [Hands EXCEPT ![w] = {}]
    BY <1>1, <1>2, FaultStep, HandsAfter
  <2>2. Promise!Vanish(w)
    BY <1>1, <2>1 DEF Promise!Vanish
  <2> QED BY <2>2 DEF Promise!Next
<1>3. CASE Overrun(w)
  BY <1>1, <1>3, HandsSame DEF Overrun, Promise!vars, Promise!people
<1> QED BY <1>2, <1>3

LEMMA StepRefines == Ready /\ [Next]_vars => [Promise!Next]_(Promise!vars)
<1> SUFFICES ASSUME Ready, [Next]_vars PROVE [Promise!Next]_(Promise!vars)
  OBVIOUS
<1>1. IInv
  BY DEF Ready
<1>2. CASE UNCHANGED vars
  BY <1>2, PlaceSame, HandsSame DEF vars, rows, history, Promise!vars, Promise!people
<1>3. ASSUME NEW w \in Workers, Step(w) \/ Interrupt(w) \/ Overrun(w) PROVE [Promise!Next]_(Promise!vars)
  BY <1>1, <1>3, PhaseRefines, PageRefines, ClaimRefines, RecipientRefines, SendRefines, SettleRefines,
     ReleaseRefines, FaultRefines DEF Step
<1> QED BY <1>2, <1>3, MemberRefines DEF Next

(* The broadcast keeps what it promises its member and its audience: it    *)
(* ends once, asks for a person once, through the worker that took him,    *)
(* gives back only who was not asked for, and takes up nobody whose        *)
(* handler was lost.                                                       *)
THEOREM Refinement == Spec => KeepsPromise
<1>1. Spec => []Ready
  BY InvAlways, UnscheduledAlways, PTL DEF Ready
<1> QED BY <1>1, InitRefines, StepRefines, PTL DEF Spec, KeepsPromise, Promise!Spec
=============================================================================
