------------------------- MODULE OrganizationProofs -------------------------
(***************************************************************************)
(* What holds of an organization: of who belongs to it (Tenancy), and of   *)
(* the plan it has bought in a store (StoreSubscriptions).  Neither part   *)
(* reads the other's state.                                                *)
(*                                                                         *)
(* First its members, for any number of users, requests and invites.  Two  *)
(* of the three facts IInv adds to the types say what a request, and the   *)
(* deletion of an account, knows once it has made its checks; the third is *)
(* what the count of owners is good for while nothing raced.               *)
(*                                                                         *)
(* Then its subscription, for any number of organizations, handlers and    *)
(* changes at the store.  StoreInv says what a handler knows at each       *)
(* point, how far the rows have followed what the store told, and how far  *)
(* the plan has followed the row.                                          *)
(***************************************************************************)
EXTENDS Tenancy, StoreSubscriptions, FiniteSetTheorems, SequenceTheorems, WellFoundedInduction, TLAPS

-----------------------------------------------------------------------------
(* The members.                                                            *)

(* What has been let through was the actor's to ask for. *)
Permitted ==
  /\ \A r \in Requests : request[r].at \in {"count", "write"} =>
       /\ MayAssign(request[r].actorRole, request[r].to)
       /\ MayAssign(request[r].actorRole, request[r].seen)
  /\ \A i \in Invites : invite[i].at \in {"asked", "pending"} =>
       MayAssign(invite[i].actorRole, invite[i].role)

(* A request about to write has counted if and only if it takes an owner;  *)
(* a deletion that goes ahead has if it leaves others without one.         *)
CountsFirst ==
  /\ \A r \in Requests :
       /\ request[r].at = "count" => TakesOwner(request[r]) /\ ~request[r].counted
       /\ request[r].counted => request[r].at = "write"
       /\ request[r].at = "write" => (request[r].counted <=> TakesOwner(request[r]))
  /\ \A v \in Users :
       /\ deletion[v].counted => deletion[v].at \in {"agreed", "deleting"}
       /\ deletion[v].at = "count" => deletion[v].seen = "owner" /\ ~deletion[v].alone
       /\ deletion[v].at \in {"agreed", "deleting"} =>
            deletion[v].seen # "owner" \/ deletion[v].alone \/ deletion[v].counted

(* An owner is left when t is one no more. *)
OwnerBesides(t) == \E u \in Users : u # t /\ role[u] = "owner"

(* Without a race, one request or deletion at a time has counted, and the  *)
(* other owner it counted is still there.                                  *)
AnotherOwner ==
  ~overlapped /\ ~stale /\ kind # "deleted" =>
    /\ Owners # {}
    /\ \A r \in Requests : request[r].counted =>
         OwnerBesides(request[r].target) /\ ~CountedTogether(r)
    /\ \A v \in Users : deletion[v].counted => OwnerBesides(v) /\ ~CountedTogether(v)

IInv == TypeOK /\ Permitted /\ CountsFirst /\ AnotherOwner

-----------------------------------------------------------------------------
(* The values a request and an invite take. *)
RequestType == [at : {"idle", "find", "count", "write"}, actorRole : Roles \cup {NoRole},
                target : Users, member : Nat, seen : Roles \cup {NoRole},
                to : Roles \cup {NoRole}, counted : BOOLEAN]
InviteType == [at : {"none", "asked", "pending", "over"}, by : Users, to : Users,
               role : Roles \cup {NoRole}, actorRole : Roles \cup {NoRole}]
DeletionType == [at : {"no", "members", "count", "agreed", "deleting", "gone"},
                 seen : Roles \cup {NoRole}, alone : BOOLEAN, counted : BOOLEAN,
                 takesOrg : BOOLEAN]

LEMMA IdleTyped == Idle \in RequestType
BY TenancyAssumption DEF Idle, RequestType

LEMMA StaysTyped == Stays \in DeletionType
BY DEF Stays, DeletionType

LEMMA OverTyped ==
  ASSUME TypeOK, NEW i \in Invites
  PROVE  NoInvite \in InviteType /\ Over \in InviteType /\ Revoked(i) \in InviteType
<1>1. NoInvite \in InviteType /\ Over \in InviteType
  BY TenancyAssumption DEF NoInvite, Over, InviteType
<1>2. invite[i] \in InviteType
  BY DEF TypeOK, InviteType
<1> QED BY <1>1, <1>2 DEF Revoked

LEMMA TypeMeans ==
  TypeOK <=> /\ kind \in {"individual", "business", "deleted"}
             /\ role \in [Users -> Roles \cup {NoRole}]
             /\ membership \in [Users -> Nat] /\ joins \in Nat
             /\ request \in [Requests -> RequestType]
             /\ invite \in [Invites -> InviteType]
             /\ deletion \in [Users -> DeletionType]
             /\ overlapped \in BOOLEAN /\ stale \in BOOLEAN
BY DEF TypeOK, RequestType, InviteType, DeletionType

(* Every column, and what each request carries, keeps its type. *)
LEMMA TypeStep == TypeOK /\ [Next]_vars => TypeOK'
<1> SUFFICES ASSUME TypeOK, [Next]_vars PROVE TypeOK'
  OBVIOUS
<1>a. /\ kind \in {"individual", "business", "deleted"}
      /\ role \in [Users -> Roles \cup {NoRole}]
      /\ membership \in [Users -> Nat] /\ joins \in Nat
      /\ request \in [Requests -> RequestType]
      /\ invite \in [Invites -> InviteType]
      /\ deletion \in [Users -> DeletionType]
      /\ overlapped \in BOOLEAN /\ stale \in BOOLEAN
  BY TypeMeans
<1> DEFINE Typed == /\ kind' \in {"individual", "business", "deleted"}
                    /\ role' \in [Users -> Roles \cup {NoRole}]
                    /\ membership' \in [Users -> Nat] /\ joins' \in Nat
                    /\ request' \in [Requests -> RequestType]
                    /\ invite' \in [Invites -> InviteType]
                    /\ deletion' \in [Users -> DeletionType]
                    /\ overlapped' \in BOOLEAN /\ stale' \in BOOLEAN
<1> SUFFICES Typed
  BY DEF TypeOK, RequestType, InviteType, DeletionType
<1> USE DEF history
<1>1. ASSUME ConvertToBusiness PROVE Typed
  BY <1>1, <1>a DEF ConvertToBusiness
<1>2. ASSUME NEW r \in Requests, NEW actor \in Users, NEW target \in Users,
             NEW to \in Roles \cup {NoRole}, Begin(r, actor, target, to)
      PROVE Typed
  <2>1. [Idle EXCEPT !.at = "find", !.actorRole = role[actor], !.target = target,
                     !.member = membership[target], !.to = to] \in RequestType
    BY <1>a, IdleTyped DEF RequestType
  <2> QED BY <1>2, <1>a, <2>1 DEF Begin
<1>3. ASSUME NEW r \in Requests, FindMember(r) PROVE Typed
  <2> DEFINE q == [request[r] EXCEPT !.seen = role[request[r].target]]
  <2>1. q \in RequestType
    BY <1>a DEF RequestType
  <2>2. [q EXCEPT !.at = IF TakesOwner(q) THEN "count" ELSE "write"] \in RequestType
    BY <2>1 DEF RequestType
  <2>3. PICK c \in RequestType : request' = [request EXCEPT ![r] = c]
    BY <1>3, <2>2, IdleTyped DEF FindMember
  <2> QED BY <1>3, <1>a, <2>3 DEF FindMember
<1>4. ASSUME NEW r \in Requests, CountOwners(r) PROVE Typed
  <2>1. CASE EnoughOwners
    <3>1. [request[r] EXCEPT !.at = "write", !.counted = TRUE] \in RequestType
      BY <1>a DEF RequestType
    <3>2. request' = [request EXCEPT ![r] = [request[r] EXCEPT !.at = "write", !.counted = TRUE]]
      BY <1>4, <2>1, <1>a DEF CountOwners
    <3> QED BY <1>4, <2>1, <1>a, <3>1, <3>2 DEF CountOwners
  <2>2. CASE ~EnoughOwners
    BY <1>4, <2>2, <1>a, IdleTyped DEF CountOwners
  <2> QED BY <2>1, <2>2
<1>5. ASSUME NEW r \in Requests, WriteMember(r) PROVE Typed
  <2>1. request[r].to \in Roles \cup {NoRole}
    BY <1>a DEF RequestType
  <2>2. role' \in [Users -> Roles \cup {NoRole}] /\ stale' \in BOOLEAN
    BY <1>5, <2>1, <1>a DEF WriteMember
  <2> QED BY <1>5, <1>a, <2>2, IdleTyped DEF WriteMember
<1>6. ASSUME NEW i \in Invites, NEW actor \in Users, NEW to \in Users, NEW as \in Roles,
             AskInvite(i, actor, to, as)
      PROVE Typed
  <2>1. [NoInvite EXCEPT !.at = "asked", !.by = actor, !.to = to, !.role = as,
                         !.actorRole = role[actor]] \in InviteType
    BY <1>a, OverTyped DEF InviteType
  <2> QED BY <1>6, <1>a, <2>1 DEF AskInvite
<1>7. ASSUME NEW i \in Invites, InsertInvite(i) PROVE Typed
  <2>1. [invite[i] EXCEPT !.at = "pending"] \in InviteType
    BY <1>a DEF InviteType
  <2> QED BY <1>7, <1>a, <2>1, OverTyped DEF InsertInvite
<1>8. ASSUME NEW i \in Invites, EmailFails(i) \/ RevokeInvite(i) PROVE Typed
  BY <1>8, <1>a, OverTyped DEF EmailFails, RevokeInvite
<1>9. ASSUME NEW i \in Invites, AcceptInvite(i) PROVE Typed
  <2>1. invite[i].to \in Users /\ invite[i].role \in Roles \cup {NoRole}
    BY <1>a DEF InviteType
  <2> QED BY <1>9, <1>a, <2>1, OverTyped DEF AcceptInvite
<1>10. ASSUME NEW u \in Users, FindMemberships(u) \/ FindOthers(u) \/ ListSoleOrgs(u)
       PROVE  Typed
  <2>1. deletion[u] \in DeletionType /\ role[u] \in Roles \cup {NoRole}
    BY <1>a
  <2>2. PICK c \in DeletionType : deletion' = [deletion EXCEPT ![u] = c]
    <3>1. CASE FindMemberships(u)
      <4>1. [Stays EXCEPT !.seen = role[u], !.at = IF role[u] = NoRole THEN "agreed" ELSE "members"]
              \in DeletionType
        BY <2>1, StaysTyped DEF DeletionType
      <4> QED BY <3>1, <4>1 DEF FindMemberships
    <3>2. CASE FindOthers(u)
      <4> DEFINE c == [deletion[u] EXCEPT !.alone = Alone(u), !.at =
                         IF deletion[u].seen = "owner" /\ ~Alone(u) THEN "count" ELSE "agreed"]
      <4>1. Alone(u) \in BOOLEAN
        BY DEF Alone
      <4>2. c \in DeletionType
        BY <2>1, <4>1 DEF DeletionType
      <4>3. deletion' = [deletion EXCEPT ![u] = c]
        BY <3>2, <1>a DEF FindOthers
      <4> QED BY <4>2, <4>3
    <3>3. CASE ListSoleOrgs(u)
      <4> DEFINE c == [deletion[u] EXCEPT !.at = "deleting",
                                          !.takesOrg = role[u] # NoRole /\ Alone(u)]
      <4>1. c \in DeletionType
        BY <2>1 DEF DeletionType, Alone
      <4>2. deletion' = [deletion EXCEPT ![u] = c]
        BY <3>3, <1>a DEF ListSoleOrgs
      <4> QED BY <4>1, <4>2
    <3> QED BY <1>10, <3>1, <3>2, <3>3
  <2> QED BY <1>10, <1>a, <2>2 DEF FindMemberships, FindOthers, ListSoleOrgs
<1>11. ASSUME NEW u \in Users, CountOtherOwners(u) PROVE Typed
  <2>1. CASE EnoughOwners
    <3>1. [deletion[u] EXCEPT !.at = "agreed", !.counted = TRUE] \in DeletionType
      BY <1>a DEF DeletionType
    <3>2. deletion' = [deletion EXCEPT ![u] = [deletion[u] EXCEPT !.at = "agreed", !.counted = TRUE]]
      BY <1>11, <2>1, <1>a DEF CountOtherOwners
    <3> QED BY <1>11, <2>1, <1>a, <3>1, <3>2 DEF CountOtherOwners
  <2>2. CASE ~EnoughOwners
    BY <1>11, <2>2, <1>a, StaysTyped DEF CountOtherOwners
  <2> QED BY <2>1, <2>2
<1>12. ASSUME NEW u \in Users, DeleteAccount(u) PROVE Typed
  <2>1. [Stays EXCEPT !.at = "gone"] \in DeletionType
    BY StaysTyped DEF DeletionType
  <2>2. \A i \in Invites : invite[i] \in InviteType /\ Revoked(i) \in InviteType
    BY <1>a, OverTyped
  <2>3. invite' \in [Invites -> InviteType]
    BY <1>12, <2>2 DEF DeleteAccount
  <2>4. role' \in [Users -> Roles \cup {NoRole}] /\ kind' \in {"individual", "business", "deleted"}
    BY <1>12, <1>a DEF DeleteAccount
  <2> QED BY <1>12, <1>a, <2>1, <2>3, <2>4 DEF DeleteAccount
<1>13. CASE UNCHANGED vars
  BY <1>13, <1>a DEF vars
<1> QED BY <1>1, <1>2, <1>3, <1>4, <1>5, <1>6, <1>7, <1>8, <1>9, <1>10, <1>11, <1>12, <1>13
        DEF Next

(* More than one owner means one besides any given user. *)
LEMMA CountLeavesAnother ==
  ASSUME EnoughOwners, NEW t \in Users
  PROVE  OwnerBesides(t)
<1> SUFFICES ASSUME Owners \subseteq {t} PROVE FALSE
  BY DEF Owners, OwnerBesides
<1>1. IsFiniteSet({t}) /\ Cardinality({t}) = 1
  BY FS_Singleton
<1>2. Cardinality(Owners) <= 1 /\ Cardinality(Owners) \in Nat
  BY <1>1, FS_Subset, FS_CardinalityType
<1> QED BY <1>2 DEF EnoughOwners

-----------------------------------------------------------------------------
(* Where no owner goes and nobody counts, who had counted still may rely   *)
(* on it.                                                                  *)
LEMMA OwnersStay ==
  ASSUME IInv,
         ~overlapped' /\ ~stale' /\ kind' # "deleted" =>
            /\ ~overlapped /\ ~stale /\ kind # "deleted"
            /\ \A u \in Users : role[u] = "owner" => role'[u] = "owner",
         \A r \in Requests : request'[r].counted =>
            request[r].counted /\ request'[r].target = request[r].target,
         \A v \in Users : deletion'[v].counted => deletion[v].counted
  PROVE  AnotherOwner'
BY DEF IInv, AnotherOwner, Owners, OwnerBesides, CountedTogether

(* Where the one who had counted takes its owner away, another stays.      *)
LEMMA OwnerTaken ==
  ASSUME NEW t \in Users, OwnerBesides(t),
         \A u \in Users \ {t} : role'[u] = role[u],
         \A r \in Requests : ~request'[r].counted,
         \A v \in Users : ~deletion'[v].counted
  PROVE  AnotherOwner'
BY DEF AnotherOwner, Owners, OwnerBesides

(* A request writes. *)
LEMMA WriteStep ==
  ASSUME IInv, NEW r \in Requests, WriteMember(r)
  PROVE  AnotherOwner'
<1> DEFINE q == request[r]
<1> USE DEF IInv, TypeOK
<1>1. /\ \A s \in Requests : request'[s] = IF s = r THEN Idle ELSE request[s]
      /\ UNCHANGED <<overlapped, deletion, kind>>
      /\ stale => stale'
  BY DEF WriteMember
<1>a. /\ \A s \in Requests : request'[s].counted =>
            request[s].counted /\ request'[s].target = request[s].target
      /\ \A v \in Users : deletion'[v].counted => deletion[v].counted
  <2>1. ~request'[r].counted /\ \A s \in Requests \ {r} : request'[s] = request[s]
    BY <1>1 DEF Idle
  <2> QED BY <1>1, <2>1
<1>2. CASE ~Found(q)
  <2>1. role' = role
    BY <1>2 DEF WriteMember
  <2> QED BY <1>1, <1>a, <2>1, OwnersStay
<1>3. CASE Found(q)
  <2>1. /\ \A u \in Users : role'[u] = IF u = q.target THEN q.to ELSE role[u]
        /\ ~stale' => role[q.target] = q.seen
    BY <1>3 DEF WriteMember
  <2>2. CASE ~TakesOwner(q)
    <3>1. ~stale' => \A u \in Users : role[u] = "owner" => role'[u] = "owner"
      BY <2>1, <2>2 DEF TakesOwner
    <3> QED BY <1>1, <1>a, <3>1, OwnersStay
  <2>3. CASE TakesOwner(q)
    <3>1. q.counted
      BY <2>3 DEF WriteMember, CountsFirst
    <3> SUFFICES ASSUME ~overlapped', ~stale', kind' # "deleted" PROVE AnotherOwner'
      BY DEF AnotherOwner
    <3>2. OwnerBesides(q.target) /\ ~CountedTogether(r)
      BY <1>1, <3>1 DEF AnotherOwner
    <3>3. /\ \A s \in Requests : ~request'[s].counted
          /\ \A v \in Users : ~deletion'[v].counted
      BY <1>1, <3>2, TenancyAssumption DEF CountedTogether, Idle
    <3>4. q.target \in Users /\ \A u \in Users \ {q.target} : role'[u] = role[u]
      BY <2>1
    <3> QED BY <3>2, <3>3, <3>4, OwnerTaken
  <2> QED BY <2>2, <2>3
<1> QED BY <1>2, <1>3

(* An account is deleted. *)
LEMMA DeleteStep ==
  ASSUME IInv, NEW u \in Users, DeleteAccount(u)
  PROVE  AnotherOwner'
<1> DEFINE d == deletion[u]
<1> USE DEF IInv, TypeOK
<1> SUFFICES ASSUME ~overlapped', ~stale', kind' # "deleted" PROVE AnotherOwner'
  BY DEF AnotherOwner
<1>1. /\ ~overlapped /\ ~stale /\ ~Overtaken(u) /\ ~d.takesOrg /\ kind' = kind
      /\ request' = request /\ d.at = "deleting"
  BY DEF DeleteAccount
<1>2. /\ \A v \in Users : role'[v] = IF v = u THEN NoRole ELSE role[v]
      /\ \A v \in Users : deletion'[v].counted => v # u /\ deletion[v].counted
  BY <1>1 DEF DeleteAccount, Stays
<1>3. role[u] = d.seen /\ ~d.alone
  BY <1>1 DEF Overtaken
<1>4. CASE role[u] = "owner"
  <2>1. d.counted
    BY <1>1, <1>3, <1>4 DEF CountsFirst
  <2>2. OwnerBesides(u) /\ ~CountedTogether(u)
    BY <1>1, <2>1 DEF AnotherOwner
  <2>3. /\ \A r \in Requests : ~request'[r].counted
        /\ \A v \in Users : ~deletion'[v].counted
    BY <1>1, <1>2, <2>2, TenancyAssumption DEF CountedTogether
  <2> QED BY <1>2, <2>2, <2>3, OwnerTaken
<1>5. CASE role[u] # "owner"
  BY <1>1, <1>2, <1>5, OwnersStay
<1> QED BY <1>4, <1>5

(* Every step keeps the three facts. *)
LEMMA InvStep == IInv /\ [Next]_vars => IInv'
<1> SUFFICES ASSUME IInv, [Next]_vars PROVE IInv'
  OBVIOUS
<1>0. TypeOK /\ TypeOK'
  BY TypeStep DEF IInv
<1> USE DEF IInv, TypeOK, history
<1>1. ASSUME NEW r \in Requests, NEW actor \in Users, NEW target \in Users,
             NEW to \in Roles \cup {NoRole}, Begin(r, actor, target, to)
      PROVE  (Permitted /\ CountsFirst /\ AnotherOwner)'
  <2>1. /\ request'[r].at = "find" /\ ~request'[r].counted
        /\ \A s \in Requests \ {r} : request'[s] = request[s]
        /\ UNCHANGED <<kind, invite, role, deletion, overlapped, stale>>
    BY <1>1 DEF Begin, Idle
  <2>2. Permitted'
    BY <2>1 DEF Permitted
  <2>3. CountsFirst'
    BY <2>1 DEF CountsFirst, TakesOwner
  <2>4. AnotherOwner'
    BY <2>1, OwnersStay
  <2> QED BY <2>2, <2>3, <2>4
<1>2. ASSUME NEW r \in Requests, FindMember(r)
      PROVE  (Permitted /\ CountsFirst /\ AnotherOwner)'
  <2>1. /\ \A s \in Requests \ {r} : request'[s] = request[s]
        /\ UNCHANGED <<kind, invite, role, deletion, overlapped, stale>>
        /\ ~request[r].counted
    BY <1>2 DEF FindMember, CountsFirst
  <2>2. \/ request'[r] = Idle
        \/ /\ request'[r].at = IF TakesOwner(request'[r]) THEN "count" ELSE "write"
           /\ ~request'[r].counted
           /\ MayAssign(request'[r].actorRole, request'[r].to)
           /\ MayAssign(request'[r].actorRole, request'[r].seen)
    BY <1>2, <2>1 DEF FindMember, TakesOwner
  <2>3. Permitted'
    BY <2>1, <2>2 DEF Permitted, Idle
  <2>4. CountsFirst'
    <3>1. CASE request'[r] = Idle
      <4>1. request'[r].at = "idle" /\ ~request'[r].counted
        BY <3>1 DEF Idle
      <4> QED BY <2>1, <4>1 DEF CountsFirst, TakesOwner
    <3>2. CASE request'[r].at = IF TakesOwner(request'[r]) THEN "count" ELSE "write"
      BY <2>1, <2>2, <3>2 DEF CountsFirst, Idle
    <3> QED BY <2>2, <3>1, <3>2
  <2>5. ~request'[r].counted
    BY <2>2 DEF Idle
  <2>6. AnotherOwner'
    BY <2>1, <2>5, OwnersStay
  <2> QED BY <2>3, <2>4, <2>6
<1>3. ASSUME NEW r \in Requests, CountOwners(r)
      PROVE  (Permitted /\ CountsFirst /\ AnotherOwner)'
  <2>1. /\ \A s \in Requests \ {r} : request'[s] = request[s]
        /\ UNCHANGED <<kind, invite, role, deletion, stale>>
        /\ request[r].at = "count" /\ TakesOwner(request[r])
    BY <1>3 DEF CountOwners, CountsFirst
  <2>2. CASE ~EnoughOwners
    <3>1. /\ request'[r].at = "idle" /\ ~request'[r].counted
          /\ overlapped' = overlapped
      BY <1>3, <2>2 DEF CountOwners, Idle
    <3>2. Permitted'
      BY <2>1, <3>1 DEF Permitted
    <3>3. CountsFirst'
      BY <2>1, <3>1 DEF CountsFirst, TakesOwner
    <3>4. AnotherOwner'
      BY <2>1, <3>1, OwnersStay
    <3> QED BY <3>2, <3>3, <3>4
  <2>3. CASE EnoughOwners
    <3>1. /\ request'[r].at = "write" /\ request'[r].counted
          /\ request'[r].actorRole = request[r].actorRole /\ request'[r].to = request[r].to
          /\ request'[r].seen = request[r].seen /\ request'[r].target = request[r].target
          /\ overlapped' = (overlapped \/ CountedTogether(r))
      BY <1>3, <2>3 DEF CountOwners
    <3>2. Permitted'
      BY <2>1, <3>1 DEF Permitted
    <3>3. CountsFirst'
      BY <2>1, <3>1 DEF CountsFirst, TakesOwner
    <3>4. OwnerBesides(request[r].target)
      BY <2>3, CountLeavesAnother
    <3>5. AnotherOwner'
      <4> SUFFICES ASSUME ~overlapped' PROVE AnotherOwner'
        BY DEF AnotherOwner
      <4>1. /\ \A s \in Requests \ {r} : ~request'[s].counted
            /\ \A v \in Users : ~deletion'[v].counted
        BY <2>1, <3>1, TenancyAssumption DEF CountedTogether
      <4>2. (OwnerBesides(request[r].target))' /\ Owners' # {}
        BY <2>1, <3>1, <3>4 DEF OwnerBesides, Owners
      <4> QED BY <4>1, <4>2 DEF AnotherOwner, CountedTogether
    <3> QED BY <3>2, <3>3, <3>5
  <2> QED BY <2>2, <2>3
<1>4. ASSUME NEW r \in Requests, WriteMember(r)
      PROVE  (Permitted /\ CountsFirst /\ AnotherOwner)'
  <2>1. /\ request' = [request EXCEPT ![r] = Idle]
        /\ UNCHANGED <<invite, deletion>>
    BY <1>4 DEF WriteMember
  <2>2. (Permitted /\ CountsFirst)'
    BY <2>1, <1>0 DEF Permitted, CountsFirst, Idle
  <2> QED BY <2>2, <1>4, WriteStep
<1>5. ASSUME NEW i \in Invites, NEW actor \in Users, NEW to \in Users, NEW as \in Roles,
             AskInvite(i, actor, to, as)
      PROVE  (Permitted /\ CountsFirst /\ AnotherOwner)'
  <2>1. /\ UNCHANGED <<kind, request, role, deletion, overlapped, stale>>
        /\ \A j \in Invites \ {i} : invite'[j] = invite[j]
        /\ MayAssign(invite'[i].actorRole, invite'[i].role)
    BY <1>5 DEF AskInvite, MayInviteAs, NoInvite
  <2>2. AnotherOwner'
    BY <2>1, OwnersStay
  <2> QED BY <2>1, <2>2 DEF Permitted, CountsFirst, TakesOwner
<1>6. ASSUME NEW i \in Invites, InsertInvite(i) \/ EmailFails(i) \/ RevokeInvite(i)
      PROVE  (Permitted /\ CountsFirst /\ AnotherOwner)'
  <2>1. /\ UNCHANGED <<kind, request, role, deletion, overlapped, stale>>
        /\ \A j \in Invites \ {i} : invite'[j] = invite[j]
    BY <1>6 DEF InsertInvite, EmailFails, RevokeInvite
  <2>2. invite'[i].at \in {"asked", "pending"} =>
          /\ invite[i].at \in {"asked", "pending"}
          /\ invite'[i].actorRole = invite[i].actorRole /\ invite'[i].role = invite[i].role
    BY <1>6 DEF InsertInvite, EmailFails, RevokeInvite, Revoked, Over, NoInvite
  <2>3. Permitted'
    BY <2>1, <2>2 DEF Permitted
  <2>4. AnotherOwner'
    BY <2>1, OwnersStay
  <2> QED BY <2>1, <2>3, <2>4 DEF CountsFirst, TakesOwner
<1>7. ASSUME NEW i \in Invites, AcceptInvite(i)
      PROVE  (Permitted /\ CountsFirst /\ AnotherOwner)'
  <2>1. /\ UNCHANGED <<kind, request, deletion, overlapped, stale>>
        /\ invite' = [invite EXCEPT ![i] = Over]
        /\ \A u \in Users : role[u] # NoRole => role'[u] = role[u]
    BY <1>7 DEF AcceptInvite
  <2>2. Permitted'
    BY <2>1 DEF Permitted, Over, NoInvite
  <2>3. AnotherOwner'
    BY <2>1, OwnersStay DEF NoRole
  <2> QED BY <2>1, <2>2, <2>3 DEF CountsFirst, TakesOwner
<1>8. ASSUME NEW u \in Users, FindMemberships(u) \/ FindOthers(u) \/ ListSoleOrgs(u)
      PROVE  (Permitted /\ CountsFirst /\ AnotherOwner)'
  <2>1. /\ \A v \in Users \ {u} : deletion'[v] = deletion[v]
        /\ UNCHANGED <<kind, invite, role, request, overlapped, stale>>
        /\ deletion'[u].counted => deletion[u].counted
    <3>1. CASE FindMemberships(u)
      BY <3>1 DEF FindMemberships, Stays
    <3>2. CASE FindOthers(u)
      BY <3>2 DEF FindOthers
    <3>3. CASE ListSoleOrgs(u)
      BY <3>3 DEF ListSoleOrgs
    <3> QED BY <1>8, <3>1, <3>2, <3>3
  <2>2. CountsFirst'
    <3>1. CASE FindMemberships(u)
      <4>1. /\ ~deletion'[u].counted /\ deletion'[u].at \in {"agreed", "members"}
            /\ deletion'[u].at = "agreed" => deletion'[u].seen = NoRole
        BY <3>1 DEF FindMemberships, Stays
      <4> QED BY <2>1, <4>1 DEF CountsFirst, NoRole, TakesOwner
    <3>2. CASE FindOthers(u)
      <4>1. /\ deletion'[u].at \in {"agreed", "count"} /\ ~deletion'[u].counted
            /\ deletion'[u].at = "count" => deletion'[u].seen = "owner" /\ ~deletion'[u].alone
            /\ deletion'[u].at = "agreed" => deletion'[u].seen # "owner" \/ deletion'[u].alone
        BY <3>2 DEF FindOthers, CountsFirst
      <4> QED BY <2>1, <4>1 DEF CountsFirst, TakesOwner
    <3>3. CASE ListSoleOrgs(u)
      <4>1. /\ deletion[u].at = "agreed" /\ deletion'[u].at = "deleting"
            /\ deletion'[u].counted = deletion[u].counted
            /\ deletion'[u].seen = deletion[u].seen /\ deletion'[u].alone = deletion[u].alone
        BY <3>3 DEF ListSoleOrgs
      <4> QED BY <2>1, <4>1 DEF CountsFirst, TakesOwner
    <3> QED BY <1>8, <3>1, <3>2, <3>3
  <2>3. AnotherOwner'
    BY <2>1, OwnersStay
  <2> QED BY <2>1, <2>2, <2>3 DEF Permitted
<1>9. ASSUME NEW u \in Users, CountOtherOwners(u)
      PROVE  (Permitted /\ CountsFirst /\ AnotherOwner)'
  <2>1. /\ \A v \in Users \ {u} : deletion'[v] = deletion[v]
        /\ UNCHANGED <<kind, invite, role, request, stale>>
        /\ deletion[u].at = "count"
    BY <1>9 DEF CountOtherOwners
  <2>2. CASE ~EnoughOwners
    <3>1. /\ deletion'[u].at = "no" /\ ~deletion'[u].counted
          /\ overlapped' = overlapped
      BY <1>9, <2>2 DEF CountOtherOwners, Stays
    <3>2. (Permitted /\ CountsFirst)'
      BY <2>1, <3>1 DEF Permitted, CountsFirst, TakesOwner
    <3>3. AnotherOwner'
      BY <2>1, <3>1, OwnersStay
    <3> QED BY <3>2, <3>3
  <2>3. CASE EnoughOwners
    <3>1. /\ deletion'[u].at = "agreed" /\ deletion'[u].counted
          /\ overlapped' = (overlapped \/ CountedTogether(u))
      BY <1>9, <2>3 DEF CountOtherOwners
    <3>2. (Permitted /\ CountsFirst)'
      BY <2>1, <3>1 DEF Permitted, CountsFirst, TakesOwner
    <3>3. OwnerBesides(u)
      BY <2>3, CountLeavesAnother
    <3>4. AnotherOwner'
      <4> SUFFICES ASSUME ~overlapped' PROVE AnotherOwner'
        BY DEF AnotherOwner
      <4>1. /\ \A r \in Requests : ~request'[r].counted
            /\ \A v \in Users \ {u} : ~deletion'[v].counted
        BY <2>1, <3>1, TenancyAssumption DEF CountedTogether
      <4>2. OwnerBesides(u)' /\ Owners' # {}
        BY <2>1, <3>3 DEF OwnerBesides, Owners
      <4> QED BY <4>1, <4>2 DEF AnotherOwner, CountedTogether
    <3> QED BY <3>2, <3>4
  <2> QED BY <2>2, <2>3
<1>10. ASSUME NEW u \in Users, DeleteAccount(u)
       PROVE  (Permitted /\ CountsFirst /\ AnotherOwner)'
  <2>1. /\ request' = request
        /\ \A v \in Users \ {u} : deletion'[v] = deletion[v]
        /\ deletion'[u].at = "gone" /\ ~deletion'[u].counted
        /\ \A i \in Invites : invite'[i] \in {invite[i], Over}
    BY <1>10 DEF DeleteAccount, Stays, Revoked
  <2>2. Permitted'
    <3>1. \A i \in Invites : invite'[i].at \in {"asked", "pending"} => invite'[i] = invite[i]
      BY <2>1 DEF Over, NoInvite
    <3> QED BY <2>1, <3>1 DEF Permitted
  <2>3. CountsFirst'
    BY <2>1 DEF CountsFirst, TakesOwner
  <2> QED BY <2>2, <2>3, <1>10, DeleteStep
<1>11. ASSUME ConvertToBusiness \/ UNCHANGED vars
       PROVE  (Permitted /\ CountsFirst /\ AnotherOwner)'
  <2>1. /\ UNCHANGED <<request, invite, role, deletion, overlapped, stale>>
        /\ kind' # "deleted" => kind # "deleted"
    BY <1>11 DEF ConvertToBusiness, vars
  <2>2. AnotherOwner'
    BY <2>1, OwnersStay
  <2> QED BY <2>1, <2>2 DEF Permitted, CountsFirst, TakesOwner
<1> QED BY <1>0, <1>1, <1>2, <1>3, <1>4, <1>5, <1>6, <1>7, <1>8, <1>9, <1>10, <1>11 DEF Next

-----------------------------------------------------------------------------
(* The founder is an owner, and nothing has been asked. *)
LEMMA InitInv == Init => IInv
<1> SUFFICES ASSUME Init PROVE IInv
  OBVIOUS
<1>1. TypeOK
  <2>1. /\ request \in [Requests -> RequestType] /\ invite \in [Invites -> InviteType]
        /\ deletion \in [Users -> DeletionType]
    BY IdleTyped, StaysTyped, TenancyAssumption DEF Init, NoInvite, InviteType
  <2> QED BY <2>1, TypeMeans DEF Init, Roles, NoRole
<1>2. Permitted /\ CountsFirst
  BY DEF Init, Permitted, CountsFirst, Idle, NoInvite, Stays
<1>3. AnotherOwner
  BY TenancyAssumption DEF Init, AnotherOwner, Owners, Idle, Stays
<1> QED BY <1>1, <1>2, <1>3 DEF IInv

(* The three facts hold in every state. *)
LEMMA InvAlways == Spec => []IInv
BY InitInv, InvStep, PTL DEF Spec

(* The organization's rows, requests and invites keep their types. *)
THEOREM TypeCorrect == Spec => []TypeOK
<1>1. IInv => TypeOK
  BY DEF IInv
<1> QED BY InvAlways, <1>1, PTL

(* However many requests are about an organization's members, it loses its *)
(* last owner only to two that count before either writes, or to one that  *)
(* writes over a role changed after it looked.                             *)
THEOREM OwnerUnlessRaced == Spec => []OwnerlessOnlyByRace
<1>1. IInv => OwnerlessOnlyByRace
  BY DEF IInv, AnotherOwner, OwnerlessOnlyByRace
<1> QED BY InvAlways, <1>1, PTL

(* Ownership moves only at the request, or by the invite, of an owner, or  *)
(* with an account that is deleted.                                        *)
THEOREM OwnershipIsOwners == Spec => OwnersDecide
<1> DEFINE Decided(u) ==
       \/ \E r \in Requests : /\ request[r].at = "write" /\ request[r].target = u
                              /\ request[r].actorRole = "owner" \/ request[r].seen # role[u]
       \/ \E i \in Invites : /\ invite[i].at = "pending" /\ invite'[i].at = "over"
                             /\ invite[i].to = u /\ invite[i].actorRole = "owner"
       \/ \E v \in Users : /\ deletion[v].at = "deleting" /\ deletion'[v].at = "gone"
                           /\ v = u \/ deletion[v].takesOrg
<1>1. ASSUME IInv, [Next]_vars
      PROVE  [\A u \in Users : OwnershipMoves(u) => Decided(u)]_vars
  <2> SUFFICES ASSUME NEW u \in Users, OwnershipMoves(u) PROVE Decided(u)
    OBVIOUS
  <2>0. TypeOK /\ Permitted
    BY <1>1 DEF IInv
  <2>1. ASSUME NEW r \in Requests, WriteMember(r) PROVE Decided(u)
    <3>1. request[r].at = "write" /\ u = request[r].target /\ role'[u] = request[r].to
      BY <2>0, <2>1 DEF WriteMember, OwnershipMoves, TypeOK
    <3>2. /\ MayAssign(request[r].actorRole, request[r].to)
          /\ MayAssign(request[r].actorRole, request[r].seen)
      BY <2>0, <3>1 DEF Permitted
    <3>3. request[r].actorRole = "owner" \/ request[r].seen # role[u]
      BY <3>1, <3>2 DEF MayAssign, OwnershipMoves
    <3> QED BY <3>1, <3>3
  <2>2. ASSUME NEW i \in Invites, AcceptInvite(i) PROVE Decided(u)
    <3>1. /\ invite[i].at = "pending" /\ invite'[i].at = "over"
          /\ u = invite[i].to /\ role[u] = NoRole /\ role'[u] = invite[i].role
      BY <2>0, <2>2 DEF AcceptInvite, Over, NoInvite, OwnershipMoves, TypeOK
    <3>2. invite[i].actorRole = "owner"
      BY <2>0, <3>1 DEF Permitted, MayAssign, OwnershipMoves, NoRole
    <3> QED BY <3>1, <3>2
  <2>3. ASSUME NEW v \in Users, DeleteAccount(v) PROVE Decided(u)
    <3>1. deletion[v].at = "deleting" /\ deletion'[v].at = "gone"
      BY <2>0, <2>3 DEF DeleteAccount, TypeOK, Stays
    <3>2. v = u \/ deletion[v].takesOrg
      BY <2>0, <2>3 DEF DeleteAccount, TypeOK, OwnershipMoves
    <3> QED BY <3>1, <3>2
  <2>4. ASSUME role' = role PROVE FALSE
    BY <2>4 DEF OwnershipMoves
  <2> QED BY <1>1, <2>1, <2>2, <2>3, <2>4 DEF Next, ConvertToBusiness, Begin, FindMember,
             CountOwners, AskInvite, InsertInvite, EmailFails, RevokeInvite, FindMemberships,
             FindOthers, CountOtherOwners, ListSoleOrgs, vars
<1> QED BY InvAlways, <1>1, PTL DEF Spec, OwnersDecide

-----------------------------------------------------------------------------
(* The subscription.                                                       *)

(* The parts of StoreTypeOK. *)
Change == [ref : Nat \ {0}, status : Statuses]
RowUpTo(t) == [org : Orgs, ref : Nat \ {0}, status : Statuses, sub : 0 .. t]
Points == {"idle", "rekey", "find", "insert", "update", "mark", "record"} \cup Reconciling
HandlerType == [pc : Points, org : Orgs \cup {0}, change : Nat, ref : Nat, status : Statuses,
                ver : Nat, row : Nat, sub : Nat, tenure : Nat, seen : Nat]

(* References count up, and each begins with a purchase that is paid for. *)
ToldInOrder ==
  /\ Len(told) > 0 /\ told[1].ref = 1
  /\ \A v, w \in DOMAIN told : v <= w => told[v].ref <= told[w].ref
  /\ \A r \in 1 .. Current.ref : \E v \in DOMAIN told : told[v].ref = r /\ told[v].status # "revoked"
  /\ store = "apple" => Current.ref = 1

(* Where a handler acts on something the store said. *)
Working == {"rekey", "find", "insert", "update", "mark"}

(* What each point of a handler knows of the store and of the row. *)
Knows(p) ==
  LET q == proc[p] IN
  /\ q.pc = "idle" => q = AtRest
  /\ IF q.change = 0 THEN q.pc \notin {"mark", "record"} ELSE q.change \in DOMAIN told
  /\ q.pc \in Working =>
       /\ q.ver \in DOMAIN told /\ told[q.ver].ref = q.ref
       /\ q.change # 0 => q.ver >= q.change /\ told[q.change].ref = q.ref
       /\ q.change = 0 => q.org \in Orgs /\ q.status = "active"
       /\ q.ver = Len(told) => (Entitled(q.status) <=> Entitled(Current.status))
  /\ q.pc = "rekey" => q.ref > 1
  /\ q.pc = "insert" => q.change = 0
  /\ q.pc = "find" /\ q.change # 0 => told[q.change].status = "revoked" /\ q.status = "revoked"
  /\ q.pc = "mark" => told[q.change].status = "revoked" /\ q.status = "revoked"
  /\ q.pc \in Reconciling \cup {"mark"} => q.row \in DOMAIN row
  /\ q.pc \in Reconciling => q.org = row[q.row].org
  /\ q.change # 0 /\ q.pc \in Reconciling \cup {"record"} => latest >= q.change

(* The reference of the latest change that was acted on. *)
LatestRef == IF latest = 0 THEN 0 ELSE told[latest].ref

RowsKnown ==
  /\ latest \in 0 .. Len(told)
  /\ \A i \in DOMAIN row : row[i].ref <= LatestRef
  /\ \A v \in recorded : v <= latest

(* A claim that looks for the row of its reference has left none behind. *)
NoneBehind ==
  ~overtaken /\ ~skipped =>
    /\ Len(row) <= 1
    /\ \A p \in Handlers : proc[p].change = 0 /\ proc[p].pc \in {"find", "insert"} =>
         /\ proc[p].ref > 1 => latest >= proc[p].ver
         /\ \A i \in DOMAIN row : row[i].ref >= proc[p].ref

(* The delivery of a change has written its row, or found none to write. *)
Applied(v) ==
  v \in recorded \/ \E p \in Handlers : proc[p].change = v /\ proc[p].pc \in Reconciling \cup {"record"}

AllApplied == \A v \in DOMAIN told : Applied(v)

Linked(v) == Applied(v) \/ \E p \in Handlers : proc[p].change = v /\ proc[p].pc = "update"

(* Once the link of a token is followed no row is known by what it replaced. *)
LinksFollowed ==
  ~overtaken =>
    \A v \in DOMAIN told : told[v].status # "revoked" /\ Linked(v) =>
      /\ told[v].ref > 1 => LatestRef >= told[v].ref
      /\ \A i \in DOMAIN row : row[i].ref # told[v].ref - 1

(* When every delivery is applied, rows are entitled as the store has it. *)
RowsFit ==
  ~overtaken /\ AllApplied =>
    \A i \in DOMAIN row : Entitled(row[i].status) <=> Entitled(Current.status)

(* Tenures are numbered as they begin; no row or handler has an operator's. *)
TenuresApart ==
  /\ \A o \in Orgs : active[o].n <= tenures /\ (active[o].by = "nobody" <=> active[o].n = 0)
  /\ \A p \in Handlers :
       /\ proc[p].sub <= tenures /\ proc[p].seen <= tenures /\ proc[p].tenure <= tenures
       /\ proc[p].pc = "link" => proc[p].tenure > 0
       /\ proc[p].pc \in {"check", "end"} => proc[p].sub > 0
  /\ \A o \in Orgs : active[o].by = "operator" =>
       /\ \A i \in DOMAIN row : row[i].sub # active[o].n
       /\ \A p \in Handlers :
            /\ proc[p].sub # active[o].n
            /\ proc[p].pc = "link" => proc[p].tenure # active[o].n
            /\ proc[p].pc = "end" /\ proc[p].org = o => proc[p].seen < active[o].n

OnRow(p, i) == proc[p].pc \in Reconciling /\ proc[p].row = i

OneAtATime == ~collided => \A p, x \in Handlers, i \in DOMAIN row : OnRow(p, i) /\ OnRow(x, i) => p = x

(* How far the one that reconciles row i is. *)
Reconciles(p, i) ==
  /\ proc[p].sub = row[i].sub
  /\ proc[p].pc \in {"grant", "link"} => Entitled(row[i].status) /\ row[i].sub = 0
  /\ proc[p].pc \in {"check", "end", "unlink"} => ~Entitled(row[i].status)
  /\ proc[p].pc = "link" => active[row[i].org].n = proc[p].tenure \/ overridden
  /\ proc[p].pc = "unlink" => active[row[i].org].by # "store"

Agrees(i) == Entitled(row[i].status) <=> row[i].sub # 0

(* The one row's plan, but for handlers under way. *)
PlanFollows ==
  ~collided /\ ~cut /\ Len(row) <= 1 =>
    /\ \A p \in Handlers, i \in DOMAIN row : OnRow(p, i) => Reconciles(p, i)
    /\ \A i \in DOMAIN row :
         /\ row[i].sub # 0 => \/ active[row[i].org].n = row[i].sub \/ overridden
                              \/ \E p \in Handlers : OnRow(p, i) /\ proc[p].pc = "unlink"
         /\ ~overtaken /\ AllApplied => Agrees(i) \/ \E p \in Handlers : OnRow(p, i)
    /\ \A o \in Orgs : active[o].by = "store" =>
         \E i \in DOMAIN row :
           /\ row[i].org = o
           /\ \/ row[i].sub = active[o].n
              \/ \E p \in Handlers : OnRow(p, i) /\ proc[p].pc = "link" /\ proc[p].tenure = active[o].n

StoreInv ==
  /\ StoreTypeOK /\ ToldInOrder /\ (\A p \in Handlers : Knows(p)) /\ RowsKnown /\ NoneBehind
  /\ LinksFollowed /\ RowsFit /\ TenuresApart /\ OneAtATime /\ PlanFollows

-----------------------------------------------------------------------------
(* What the types say of the changes, the rows and the handlers. *)
LEMMA RowsMean ==
  ASSUME NEW t \in Nat, NEW r \in Seq(RowUpTo(t))
  PROVE  /\ Len(r) \in Nat /\ DOMAIN r = 1 .. Len(r)
         /\ \A i \in DOMAIN r : /\ r[i] \in RowUpTo(t)
                                /\ r[i].org \in Orgs /\ r[i].ref \in Nat /\ r[i].ref > 0
                                /\ r[i].status \in Statuses /\ r[i].sub \in Nat /\ r[i].sub <= t
<1>1. Len(r) \in Nat /\ DOMAIN r = 1 .. Len(r) /\ \A i \in DOMAIN r : r[i] \in RowUpTo(t)
  BY LenProperties, ElementOfSeq
<1> QED BY <1>1 DEF RowUpTo

LEMMA ToldMeans ==
  ASSUME StoreTypeOK
  PROVE  /\ Len(told) \in Nat /\ DOMAIN told = 1 .. Len(told)
         /\ \A v \in DOMAIN told : told[v].ref \in Nat /\ told[v].ref > 0 /\ told[v].status \in Statuses
<1>1. told \in Seq(Change)
  BY DEF StoreTypeOK, Change
<1>2. Len(told) \in Nat /\ DOMAIN told = 1 .. Len(told) /\ \A v \in DOMAIN told : told[v] \in Change
  BY <1>1, LenProperties, ElementOfSeq
<1> QED BY <1>2 DEF Change

LEMMA TypesMean ==
  ASSUME StoreTypeOK
  PROVE  /\ tenures \in Nat /\ acts \in Nat /\ latest \in Nat /\ row \in Seq(RowUpTo(tenures))
         /\ active \in [Orgs -> [by : {"nobody", "store", "operator"}, n : Nat]]
         /\ proc \in [Handlers -> HandlerType]
         /\ \A p \in Handlers :
              /\ proc[p] \in HandlerType
              /\ proc[p].pc \in Points /\ proc[p].org \in Orgs \cup {0}
              /\ proc[p].change \in Nat /\ proc[p].ref \in Nat /\ proc[p].ver \in Nat /\ proc[p].row \in Nat
              /\ proc[p].sub \in Nat /\ proc[p].tenure \in Nat /\ proc[p].seen \in Nat
              /\ proc[p].status \in Statuses
         /\ \A o \in Orgs : active[o].n \in Nat /\ active[o].by \in {"nobody", "store", "operator"}
<1>1. proc \in [Handlers -> HandlerType] /\ row \in Seq(RowUpTo(tenures))
  BY DEF StoreTypeOK, HandlerType, RowUpTo, Points
<1>2. \A p \in Handlers : proc[p] \in HandlerType
  BY <1>1
<1> QED BY <1>1, <1>2 DEF StoreTypeOK, HandlerType

(* One row is written over. *)
LEMMA RowWritten ==
  ASSUME NEW t \in Nat, NEW r \in Seq(RowUpTo(t)), NEW i \in DOMAIN r, NEW e \in RowUpTo(t)
  PROVE  LET h == [r EXCEPT ![i] = e] IN
         /\ h \in Seq(RowUpTo(t)) /\ Len(h) = Len(r) /\ DOMAIN h = DOMAIN r
         /\ h[i] = e /\ \A j \in DOMAIN r \ {i} : h[j] = r[j]
<1>1. i \in 1 .. Len(r) /\ DOMAIN r = 1 .. Len(r)
  BY RowsMean
<1> QED BY <1>1, ExceptSeq

(* A later tenure makes room in the type of rows. *)
LEMMA RowsOfMore ==
  ASSUME NEW t \in Nat, NEW u \in Nat, t <= u, NEW r \in Seq(RowUpTo(t))
  PROVE  r \in Seq(RowUpTo(u))
<1>1. RowUpTo(t) \subseteq RowUpTo(u)
  BY DEF RowUpTo
<1> QED BY <1>1, SeqMonotonic

LEMMA AtRestTyped == AtRest \in HandlerType
BY DEF AtRest, HandlerType, Points, Statuses

(* The last change made under a reference, and what else bears it. *)
LEMMA LastOfRef ==
  ASSUME StoreTypeOK, ToldInOrder, NEW r \in 1 .. Current.ref
  PROVE  /\ LastOf(r) \in DOMAIN told /\ told[LastOf(r)].ref = r
         /\ \A w \in DOMAIN told : told[w].ref = r => w <= LastOf(r)
<1> DEFINE T == {v \in DOMAIN told : told[v].ref = r}
           L == {Len(told) - v : v \in T}
           R == {p \in Nat \X Nat : p[1] < p[2]}
<1>1. Len(told) \in Nat /\ DOMAIN told = 1 .. Len(told)
  BY ToldMeans
<1>2. T # {}
  BY DEF ToldInOrder
<1>3. L \subseteq Nat /\ L # {}
  BY <1>1, <1>2
<1>4. PICK d \in L : \A e \in L : ~(<<e, d>> \in R)
  <2>1. IsWellFoundedOn(R, Nat)
    BY NatLessThanWellFounded DEF OpToRel
  <2> HIDE DEF L, R
  <2> QED BY <1>3, <2>1, WFMin
<1>5. PICK v \in T : d = Len(told) - v
  OBVIOUS
<1>6. ASSUME NEW w \in T PROVE w <= v
  <2>1. ~(Len(told) - w < Len(told) - v)
    <3>1. Len(told) - w \in L /\ Len(told) - w \in Nat /\ d \in Nat
      BY <1>3
    <3>2. ~(<<Len(told) - w, d>> \in R)
      BY <1>4, <3>1
    <3> QED BY <1>5, <3>1, <3>2
  <2> QED BY <1>1, <2>1
<1> QED BY <1>5, <1>6 DEF LastOf

-----------------------------------------------------------------------------
(* The customer and the store; a handler begins, fails or is recorded.     *)

(* Handler p changes, the others do not. *)
LEMMA HandlerSet ==
  ASSUME StoreTypeOK, NEW p \in Handlers, NEW e \in HandlerType, proc' = [proc EXCEPT ![p] = e]
  PROVE  /\ proc' \in [Handlers -> HandlerType] /\ proc'[p] = e
         /\ \A x \in Handlers \ {p} : proc'[x] = proc[x]
BY TypesMean

(* A change at the store: nobody has acted on it, and no delivery of it is *)
(* applied. *)
LEMMA TellStep ==
  ASSUME StoreInv, NEW ref, NEW status \in Statuses, Tell(ref, status),
         ref = Current.ref \/ (ref = Current.ref + 1 /\ store = "google" /\ status = "active")
  PROVE  StoreInv'
<1> USE DEF environment, storeHistory
<1>0. /\ StoreTypeOK /\ ToldInOrder /\ (\A p \in Handlers : Knows(p)) /\ RowsKnown /\ NoneBehind
      /\ LinksFollowed /\ TenuresApart /\ OneAtATime /\ PlanFollows
  BY DEF StoreInv
<1>u. UNCHANGED <<store, recorded, row, active, tenures, proc, acts, latest, overtaken, skipped, collided, cut,
                 overridden>>
  BY DEF Tell
<1>n. PICK n : n = Len(told)
  OBVIOUS
<1>1. /\ n \in Nat /\ n > 0 /\ n = Len(told) /\ DOMAIN told = 1 .. n
      /\ \A v \in DOMAIN told : told[v].ref \in Nat /\ told[v].ref > 0
  BY <1>0, <1>n, ToldMeans DEF ToldInOrder
<1>2. [ref |-> ref, status |-> status] \in Change
  BY <1>1 DEF Change, Current
<1>3. told \in Seq(Change)
  BY <1>0 DEF StoreTypeOK, Change
<1>4. /\ told' \in Seq(Change) /\ Len(told') = n + 1 /\ DOMAIN told' = 1 .. n + 1
      /\ \A v \in 1 .. n : told'[v] = told[v]
      /\ told'[n + 1] = [ref |-> ref, status |-> status]
  <2>1. told' = Append(told, [ref |-> ref, status |-> status])
    BY DEF Tell
  <2>2. /\ told' \in Seq(Change) /\ Len(told') = n + 1
        /\ \A v \in 1 .. n : told'[v] = told[v]
        /\ told'[n + 1] = [ref |-> ref, status |-> status]
    BY <1>1, <1>2, <1>3, <2>1, AppendProperties
  <2> QED BY <2>2, LenProperties
<1>5. Current'.ref = ref /\ Current.ref <= ref /\ Current.ref \in Nat /\ ref \in Nat /\ Current = told[n]
  BY <1>1, <1>4 DEF Current
<1>6. StoreTypeOK'
  <2>1. recorded' \subseteq DOMAIN told'
    BY <1>0, <1>1, <1>4, <1>u DEF StoreTypeOK
  <2> QED BY <1>0, <1>4, <1>u, <2>1 DEF StoreTypeOK, Change
<1>7. ToldInOrder'
  <2>1. Len(told') > 0 /\ told'[1].ref = 1
    BY <1>0, <1>1, <1>4 DEF ToldInOrder
  <2>2. \A v \in 1 .. n : told[v].ref <= Current.ref
    BY <1>0, <1>1, <1>5 DEF ToldInOrder
  <2>3. \A v, w \in DOMAIN told' : v <= w => told'[v].ref <= told'[w].ref
    <3> SUFFICES ASSUME NEW v \in DOMAIN told', NEW w \in DOMAIN told', v <= w
                 PROVE  told'[v].ref <= told'[w].ref
      OBVIOUS
    <3>1. CASE w \in 1 .. n
      BY <1>0, <1>1, <1>4, <3>1 DEF ToldInOrder
    <3>2. CASE w = n + 1 /\ v \in 1 .. n
      <4>1. told[v].ref <= Current.ref /\ told[v].ref \in Nat /\ told'[v] = told[v] /\ told'[w].ref = ref
        BY <1>1, <1>4, <2>2, <3>2
      <4> QED BY <1>5, <4>1
    <3>3. CASE w = n + 1 /\ v = n + 1
      BY <1>4, <1>5, <3>3
    <3> QED BY <1>1, <1>4, <3>1, <3>2, <3>3
  <2>4. \A r \in 1 .. Current'.ref : \E v \in DOMAIN told' : told'[v].ref = r /\ told'[v].status # "revoked"
    <3> SUFFICES ASSUME NEW r \in 1 .. ref
                 PROVE  \E v \in DOMAIN told' : told'[v].ref = r /\ told'[v].status # "revoked"
      BY <1>5
    <3>1. CASE r \in 1 .. Current.ref
      <4>1. PICK v \in DOMAIN told : told[v].ref = r /\ told[v].status # "revoked"
        BY <1>0, <3>1 DEF ToldInOrder
      <4> QED BY <1>1, <1>4, <4>1
    <3>2. CASE r = Current.ref + 1 /\ r = ref /\ status = "active"
      <4>1. n + 1 \in DOMAIN told'
        BY <1>1, <1>4
      <4> QED BY <1>4, <3>2, <4>1
    <3> QED BY <1>5, <3>1, <3>2
  <2>5. store' = "apple" => Current'.ref = 1
    BY <1>0, <1>5, <1>u DEF ToldInOrder
  <2> QED BY <2>1, <2>3, <2>4, <2>5 DEF ToldInOrder
<1>8. ASSUME NEW p \in Handlers PROVE Knows(p)'
  <2>1. Knows(p) /\ proc'[p] = proc[p] /\ proc[p].ver \in Nat
    BY <1>0, <1>u, TypesMean
  <2>2. proc[p].change # 0 => told'[proc[p].change] = told[proc[p].change] /\ proc[p].change \in 1 .. n
    BY <1>1, <1>4, <2>1 DEF Knows
  <2>3. proc[p].pc \in Working => /\ proc[p].ver \in 1 .. n /\ told'[proc[p].ver] = told[proc[p].ver]
                                  /\ proc[p].ver # Len(told')
    BY <1>1, <1>4, <2>1 DEF Knows
  <2> QED BY <1>1, <1>4, <1>u, <2>1, <2>2, <2>3 DEF Knows
<1>9. latest \in 0 .. n /\ LatestRef' = LatestRef
  BY <1>0, <1>1, <1>4, <1>u DEF RowsKnown, LatestRef
<1>10. RowsKnown'
  BY <1>0, <1>1, <1>4, <1>u, <1>9 DEF RowsKnown
<1>11. NoneBehind'
  BY <1>0, <1>u DEF NoneBehind
<1>12. ~Linked(n + 1)' /\ ~Applied(n + 1)'
  <2>1. n + 1 \notin recorded
    BY <1>0, <1>1 DEF StoreTypeOK
  <2>2. \A p \in Handlers : proc[p].change # n + 1
    BY <1>0, <1>1 DEF Knows
  <2> QED BY <1>u, <2>1, <2>2 DEF Linked, Applied
<1>13. ~AllApplied'
  BY <1>1, <1>4, <1>12 DEF AllApplied
<1>14. LinksFollowed'
  <2> SUFFICES ASSUME ~overtaken', NEW v \in DOMAIN told', told'[v].status # "revoked", Linked(v)'
               PROVE  /\ told'[v].ref > 1 => LatestRef' >= told'[v].ref
                      /\ \A i \in DOMAIN row' : row'[i].ref # told'[v].ref - 1
    BY DEF LinksFollowed
  <2>1. v \in 1 .. n
    BY <1>1, <1>4, <1>12
  <2>2. Linked(v)
    BY <1>u DEF Linked, Applied
  <2> QED BY <1>0, <1>1, <1>4, <1>9, <1>u, <2>1, <2>2 DEF LinksFollowed
<1>15. TenuresApart' /\ OneAtATime'
  BY <1>0, <1>u DEF TenuresApart, OneAtATime, OnRow
<1>16. PlanFollows'
  BY <1>0, <1>13, <1>u DEF PlanFollows, OnRow, Reconciles
<1> QED BY <1>6, <1>7, <1>8, <1>10, <1>11, <1>13, <1>14, <1>15, <1>16 DEF StoreInv, RowsFit

(* Whatever the customer and the store do. *)
LEMMA StoreTells ==
  ASSUME StoreInv, Renew \/ Lapse \/ Refund \/ Reissue
  PROVE  StoreInv'
<1>1. Current.ref \in Nat
  BY ToldMeans DEF StoreInv, ToldInOrder, Current
<1> QED BY <1>1, TellStep DEF Renew, Lapse, Refund, Reissue, Statuses

(* A handler that begins: with a purchase that was never replaced it goes  *)
(* straight to the row, else it follows the link first.                    *)
LEMMA BeginStep ==
  ASSUME StoreInv, NEW p \in Handlers, NEW e \in HandlerType,
         proc[p] = AtRest, proc' = [proc EXCEPT ![p] = e],
         UNCHANGED <<environment, recorded, row, active, tenures, storeHistory>>, acts' \in Nat,
         e.sub = 0, e.tenure = 0, e.seen = 0,
         e.ver \in DOMAIN told, told[e.ver].ref = e.ref,
         e.change # 0 => e.change \in DOMAIN told /\ e.ver >= e.change /\ told[e.change].ref = e.ref,
         e.change = 0 => e.org \in Orgs /\ e.status = "active",
         e.ver = Len(told) => (Entitled(e.status) <=> Entitled(Current.status)),
         \/ e.pc = "rekey" /\ e.ref > 1
         \/ e.pc = "find" /\ (IF e.change = 0 THEN e.ref = 1
                              ELSE told[e.change].status = "revoked" /\ e.status = "revoked")
         \/ e.pc = "update" /\ e.ref = 1
  PROVE  StoreInv'
<1> USE DEF environment, storeHistory
<1>0. /\ StoreTypeOK /\ ToldInOrder /\ (\A x \in Handlers : Knows(x)) /\ RowsKnown /\ NoneBehind
      /\ LinksFollowed /\ RowsFit /\ TenuresApart /\ OneAtATime /\ PlanFollows
  BY DEF StoreInv
<1>1. /\ proc' \in [Handlers -> HandlerType] /\ proc'[p] = e
      /\ \A x \in Handlers \ {p} : proc'[x] = proc[x]
  BY <1>0, HandlerSet
<1>2. proc[p].pc = "idle" /\ proc[p].change = 0
  BY DEF AtRest
<1>3. \A v : v # 0 => (Applied(v)' <=> Applied(v))
  BY <1>1, <1>2 DEF Applied, Reconciling
<1>4. \A i : \A x \in Handlers : /\ OnRow(x, i)' <=> OnRow(x, i)
                                 /\ OnRow(x, i) => proc'[x] = proc[x]
  BY <1>1, <1>2 DEF OnRow, Reconciling
<1>5. /\ Len(told) \in Nat /\ DOMAIN told = 1 .. Len(told) /\ Len(row) \in Nat /\ DOMAIN row = 1 .. Len(row)
      /\ \A i \in DOMAIN row : row[i].ref \in Nat /\ row[i].ref > 0
      /\ \A v \in DOMAIN told : told[v].ref \in Nat /\ told[v].ref > 0
  <2>1. tenures \in Nat /\ row \in Seq(RowUpTo(tenures))
    BY <1>0, TypesMean
  <2> QED BY <1>0, <2>1, ToldMeans, RowsMean
<1>6. StoreTypeOK'
  BY <1>0, <1>1 DEF StoreTypeOK, HandlerType, Points
<1>7. ToldInOrder'
  BY <1>0 DEF ToldInOrder, Current
<1>8. ASSUME NEW x \in Handlers PROVE Knows(x)'
  <2>1. CASE x = p
    BY <1>1, <1>5, <2>1 DEF Knows, Working, Reconciling, Current
  <2>2. CASE x # p
    BY <1>0, <1>1, <2>2 DEF Knows, Current
  <2> QED BY <2>1, <2>2
<1>9. RowsKnown'
  BY <1>0 DEF RowsKnown, LatestRef
<1>10. NoneBehind'
  BY <1>0, <1>1, <1>5 DEF NoneBehind
<1>11. LinksFollowed'
  <2> SUFFICES ASSUME ~overtaken, NEW v \in DOMAIN told, told[v].status # "revoked", Linked(v)'
               PROVE  /\ told[v].ref > 1 => LatestRef >= told[v].ref
                      /\ \A i \in DOMAIN row : row[i].ref # told[v].ref - 1
    BY DEF LinksFollowed, LatestRef
  <2>1. CASE Linked(v)
    BY <1>0, <2>1 DEF LinksFollowed
  <2>2. CASE ~Linked(v)
    <3>1. e.pc = "update" /\ e.change = v
      BY <1>1, <1>3, <1>5, <2>2 DEF Linked
    <3>2. told[v].ref = 1
      BY <1>5, <3>1
    <3> QED BY <1>5, <3>2
  <2> QED BY <2>1, <2>2
<1>12. AllApplied' <=> AllApplied
  BY <1>3, <1>5 DEF AllApplied
<1>13. RowsFit'
  BY <1>0, <1>12 DEF RowsFit, Current
<1>14. TenuresApart'
  <2>1. e.pc \notin {"link", "check", "end"}
    OBVIOUS
  <2> QED BY <1>0, <1>1, <2>1, TypesMean DEF TenuresApart
<1>15. OneAtATime'
  BY <1>0, <1>4 DEF OneAtATime
<1>16. PlanFollows'
  <2> SUFFICES ASSUME ~collided, ~cut, Len(row) <= 1 PROVE PlanFollows'
    BY DEF PlanFollows
  <2>1. ASSUME NEW x \in Handlers, NEW i \in DOMAIN row, OnRow(x, i)' PROVE Reconciles(x, i)'
    BY <1>0, <1>4, <2>1 DEF PlanFollows, Reconciles
  <2>2. ASSUME NEW i \in DOMAIN row, row[i].sub # 0
        PROVE  \/ active[row[i].org].n = row[i].sub \/ overridden
               \/ \E x \in Handlers : OnRow(x, i)' /\ proc'[x].pc = "unlink"
    BY <1>0, <1>4, <2>2 DEF PlanFollows
  <2>3. ASSUME NEW i \in DOMAIN row, ~overtaken, AllApplied' PROVE Agrees(i)' \/ \E x \in Handlers : OnRow(x, i)'
    BY <1>0, <1>4, <1>12, <2>3 DEF PlanFollows, Agrees
  <2>4. ASSUME NEW o \in Orgs, active[o].by = "store"
        PROVE  \E i \in DOMAIN row :
                 /\ row[i].org = o
                 /\ \/ row[i].sub = active[o].n
                    \/ \E x \in Handlers : OnRow(x, i)' /\ proc'[x].pc = "link" /\ proc'[x].tenure = active[o].n
    BY <1>0, <1>4, <2>4 DEF PlanFollows
  <2> QED BY <2>1, <2>2, <2>3, <2>4 DEF PlanFollows
<1> QED BY <1>6, <1>7, <1>8, <1>9, <1>10, <1>11, <1>13, <1>14, <1>15, <1>16 DEF StoreInv

(* A claim is let in on an entitled answer. *)
LEMMA ClaimStep ==
  ASSUME StoreInv, NEW p \in Handlers, NEW o \in Orgs, NEW ref \in 1 .. Current.ref, Claim(p, o, ref)
  PROVE  StoreInv'
<1> DEFINE q == [AtRest EXCEPT !.org = o, !.ref = ref, !.status = "active", !.ver = LastOf(ref)]
           e == FollowLink(q)
<1>0. StoreTypeOK /\ ToldInOrder
  BY DEF StoreInv
<1>1. /\ Len(told) \in Nat /\ Len(told) > 0 /\ DOMAIN told = 1 .. Len(told)
      /\ \A v \in DOMAIN told : told[v].ref \in Nat /\ told[v].ref > 0
  BY <1>0, ToldMeans DEF ToldInOrder
<1>2. LastOf(ref) \in DOMAIN told /\ told[LastOf(ref)].ref = ref
  BY <1>0, LastOfRef
<1>3. ref \in Nat /\ ref > 0 /\ LastOf(ref) \in Nat
  BY <1>1, <1>2
<1>4. LastOf(ref) = Len(told) => Entitled(Current.status)
  BY <1>2 DEF Claim, Reads, Current, Entitled
<1> HIDE DEF q
<1>5. /\ q \in HandlerType /\ q.org = o /\ q.ref = ref /\ q.status = "active" /\ q.ver = LastOf(ref)
      /\ q.change = 0 /\ q.sub = 0 /\ q.tenure = 0 /\ q.seen = 0
  BY <1>3 DEF q, AtRest, HandlerType, Points, Statuses
<1>6. e = [q EXCEPT !.pc = IF ref > 1 THEN "rekey" ELSE "find"]
  BY <1>3, <1>5 DEF FollowLink, Supersedes, IsClaim
<1> HIDE DEF e
<1>7. /\ e \in HandlerType /\ e.org = o /\ e.ref = ref /\ e.status = "active" /\ e.ver = LastOf(ref)
      /\ e.change = 0 /\ e.sub = 0 /\ e.tenure = 0 /\ e.seen = 0
      /\ e.pc = IF ref > 1 THEN "rekey" ELSE "find"
  BY <1>5, <1>6 DEF HandlerType, Points
<1>8. proc[p] = AtRest /\ proc' = [proc EXCEPT ![p] = e] /\ acts' \in Nat
      /\ UNCHANGED <<environment, recorded, row, active, tenures, storeHistory>>
  BY <1>0, TypesMean DEF Claim, e, q
<1>9. \/ e.pc = "rekey" /\ e.ref > 1
      \/ e.pc = "find" /\ e.ref = 1
  BY <1>3, <1>7
<1>10. e.ver = Len(told) => (Entitled(e.status) <=> Entitled(Current.status))
  BY <1>4, <1>7 DEF Entitled
<1> QED BY <1>2, <1>7, <1>8, <1>9, <1>10, BeginStep

(* A delivery says what the store says when it is taken. *)
LEMMA DeliverStep ==
  ASSUME StoreInv, NEW p \in Handlers, NEW v \in DOMAIN told, Deliver(p, v)
  PROVE  StoreInv'
<1>0. StoreTypeOK /\ ToldInOrder /\ store \in {"apple", "google"}
  BY DEF StoreInv, StoreTypeOK
<1>1. /\ Len(told) \in Nat /\ Len(told) > 0 /\ DOMAIN told = 1 .. Len(told)
      /\ \A w \in DOMAIN told : told[w].ref \in Nat /\ told[w].ref > 0 /\ told[w].status \in Statuses
  BY <1>0, ToldMeans DEF ToldInOrder
<1>p. PICK ref : ref = told[v].ref
  OBVIOUS
<1>2. v \in Nat /\ v # 0 /\ v <= Len(told) /\ ref \in Nat /\ ref > 0 /\ ref <= Current.ref
  <2>1. Len(told) \in DOMAIN told
    BY <1>1
  <2> QED BY <1>0, <1>1, <1>p, <2>1 DEF ToldInOrder, Current
<1>3. ref \in 1 .. Current.ref
  BY <1>1, <1>2 DEF Current
<1>4. LastOf(ref) \in DOMAIN told /\ told[LastOf(ref)].ref = ref /\ v <= LastOf(ref)
  BY <1>0, <1>3, <1>p, LastOfRef
<1>s. PICK s \in Carries(v) :
        LET q == [AtRest EXCEPT !.change = v, !.ref = told[v].ref, !.status = s]
        IN proc' = [proc EXCEPT ![p] =
             IF store = "apple" THEN FollowLink([q EXCEPT !.ver = v])
             ELSE IF s = "revoked" THEN [q EXCEPT !.pc = "find", !.ver = v]
             ELSE FollowLink([q EXCEPT !.ver = LastOf(q.ref)])]
  BY DEF Deliver
<1>5. /\ s \in Statuses
      /\ store = "apple" /\ v = Len(told) => (Entitled(s) <=> Entitled(Current.status))
      /\ store = "google" /\ s = "revoked" => told[v].status = "revoked"
      /\ store = "google" /\ s # "revoked" /\ ref = Current.ref => (Entitled(s) <=> Entitled(Current.status))
  <2>1. Current.status \in Statuses /\ Current = told[Len(told)]
    BY <1>1 DEF Current
  <2>2. CASE store = "apple"
    BY <1>1, <2>1, <2>2 DEF Carries, Derives, Statuses
  <2>3. CASE store = "google"
    BY <1>1, <1>p, <2>1, <2>3 DEF Carries, Reads, Statuses, Entitled
  <2> QED BY <1>0, <2>2, <2>3
<1>6. proc[p] = AtRest /\ UNCHANGED <<environment, recorded, row, active, tenures, storeHistory>> /\ acts' \in Nat
  BY <1>0, TypesMean DEF Deliver
<1>q. PICK ver \in {v, LastOf(ref)} :
        /\ store = "apple" => ver = v
        /\ store = "google" => ver = IF s = "revoked" THEN v ELSE LastOf(ref)
  BY <1>0
<1> DEFINE q == [AtRest EXCEPT !.change = v, !.ref = ref, !.status = s, !.ver = ver]
           e == IF store = "google" /\ s = "revoked" THEN [q EXCEPT !.pc = "find"] ELSE FollowLink(q)
<1> HIDE DEF q
<1>7. /\ q \in HandlerType /\ q.ref = ref /\ q.status = s /\ q.ver = ver
      /\ q.change = v /\ q.sub = 0 /\ q.tenure = 0 /\ q.seen = 0
  <2>1. ver \in Nat
    BY <1>1, <1>2, <1>4, <1>q
  <2>2. q \in HandlerType /\ q.ref = ref /\ q.status = s /\ q.ver = ver /\ q.change = v
    BY <1>2, <1>5, <2>1, AtRestTyped DEF q, HandlerType
  <2>3. q.sub = AtRest.sub /\ q.tenure = AtRest.tenure /\ q.seen = AtRest.seen
    BY AtRestTyped DEF q, HandlerType
  <2> QED BY <2>2, <2>3 DEF AtRest
<1>8. e = [q EXCEPT !.pc = IF store = "google" /\ s = "revoked" THEN "find"
                           ELSE IF ref > 1 THEN "rekey" ELSE "update"]
  BY <1>2, <1>7 DEF FollowLink, Supersedes, IsClaim
<1>9. proc' = [proc EXCEPT ![p] = e]
  <2>1. CASE store = "apple"
    BY <1>0, <1>p, <1>q, <1>s, <2>1 DEF q, AtRest
  <2>2. CASE store = "google"
    BY <1>0, <1>p, <1>q, <1>s, <2>2 DEF q, AtRest
  <2> QED BY <1>0, <2>1, <2>2
<1> HIDE DEF e
<1>10. /\ e \in HandlerType /\ e.ref = ref /\ e.status = s /\ e.ver = ver
       /\ e.change = v /\ e.sub = 0 /\ e.tenure = 0 /\ e.seen = 0
       /\ e.pc = IF store = "google" /\ s = "revoked" THEN "find" ELSE IF ref > 1 THEN "rekey" ELSE "update"
  BY <1>7, <1>8 DEF HandlerType, Points
<1>11. e.ver \in DOMAIN told /\ told[e.ver].ref = ref /\ e.ver >= v
  BY <1>1, <1>2, <1>4, <1>p, <1>q, <1>10
<1>12. e.ver = Len(told) => (Entitled(e.status) <=> Entitled(Current.status))
  <2> SUFFICES ASSUME ver = Len(told) PROVE Entitled(s) <=> Entitled(Current.status)
    BY <1>10
  <2>1. Current.ref = ref
    BY <1>10, <1>11 DEF Current
  <2>2. CASE store = "google" /\ s = "revoked"
    BY <1>5, <1>q, <2>2 DEF Current, Entitled
  <2> QED BY <1>0, <1>5, <1>q, <2>1, <2>2
<1>13. \/ e.pc = "rekey" /\ e.ref > 1
       \/ e.pc = "find" /\ told[e.change].status = "revoked" /\ e.status = "revoked"
       \/ e.pc = "update" /\ e.ref = 1
  BY <1>2, <1>5, <1>10
<1>14. e.change # 0
  BY <1>2, <1>10
<1> QED BY <1>2, <1>6, <1>9, <1>10, <1>11, <1>12, <1>13, <1>14, <1>p, BeginStep

(* Sizes and domains. *)
LEMMA Shapes ==
  ASSUME StoreTypeOK
  PROVE  /\ Len(told) \in Nat /\ DOMAIN told = 1 .. Len(told) /\ Len(row) \in Nat /\ DOMAIN row = 1 .. Len(row)
         /\ \A i \in DOMAIN row : /\ row[i].org \in Orgs /\ row[i].ref \in Nat /\ row[i].ref > 0
                                  /\ row[i].sub \in Nat /\ row[i].sub <= tenures
         /\ \A v \in DOMAIN told : told[v].ref \in Nat /\ told[v].ref > 0
<1>1. tenures \in Nat /\ row \in Seq(RowUpTo(tenures))
  BY TypesMean
<1> QED BY <1>1, ToldMeans, RowsMean

(* A handler that ends in the middle forgets what it read; where it was    *)
(* reconciling, its delivery is made again or the row is cut.              *)
LEMMA ForgetStep ==
  ASSUME StoreInv, NEW p \in Handlers, proc' = [proc EXCEPT ![p] = AtRest],
         UNCHANGED <<environment, recorded, row, active, tenures, latest, overtaken, skipped, collided, overridden>>,
         acts' \in Nat, cut' \in BOOLEAN, cut => cut',
         proc[p].pc \in {"link", "unlink"} => cut',
         proc[p].pc \in Reconciling => cut' \/ Repeated(p)
  PROVE  StoreInv'
<1> USE DEF environment
<1>0. /\ StoreTypeOK /\ ToldInOrder /\ (\A x \in Handlers : Knows(x)) /\ RowsKnown /\ NoneBehind
      /\ LinksFollowed /\ RowsFit /\ TenuresApart /\ OneAtATime /\ PlanFollows
  BY DEF StoreInv
<1>1. /\ proc' \in [Handlers -> HandlerType] /\ proc'[p] = AtRest
      /\ \A x \in Handlers \ {p} : proc'[x] = proc[x]
  BY <1>0, AtRestTyped, HandlerSet
<1>2. proc'[p].pc = "idle" /\ proc'[p].change = 0 /\ proc'[p].sub = 0 /\ proc'[p].tenure = 0 /\ proc'[p].seen = 0
  BY <1>1 DEF AtRest
<1>3. \A v : /\ Applied(v)' => Applied(v)
             /\ Linked(v)' => Linked(v)
  BY <1>1, <1>2 DEF Applied, Linked, Reconciling
<1>4. \A i : \A x \in Handlers : /\ OnRow(x, i)' => OnRow(x, i) /\ x # p /\ proc'[x] = proc[x]
                                 /\ OnRow(x, i) /\ x # p => OnRow(x, i)'
  BY <1>1, <1>2 DEF OnRow, Reconciling
<1>6. StoreTypeOK'
  BY <1>0, <1>1 DEF StoreTypeOK, HandlerType, Points
<1>7. ToldInOrder' /\ RowsKnown'
  BY <1>0 DEF ToldInOrder, Current, RowsKnown, LatestRef
<1>8. ASSUME NEW x \in Handlers PROVE Knows(x)'
  <2>1. CASE x = p
    BY <1>1, <1>2, <2>1 DEF Knows, Working, Reconciling
  <2>2. CASE x # p
    BY <1>0, <1>1, <2>2 DEF Knows, Current
  <2> QED BY <2>1, <2>2
<1>10. NoneBehind'
  BY <1>0, <1>1, <1>2 DEF NoneBehind
<1>11. LinksFollowed'
  BY <1>0, <1>3 DEF LinksFollowed, LatestRef
<1>12. AllApplied' => AllApplied
  BY <1>3 DEF AllApplied
<1>13. RowsFit'
  BY <1>0, <1>12 DEF RowsFit, Current
<1>14. TenuresApart'
  <2>1. \A o \in Orgs : active[o].by = "operator" => active[o].n # 0
    BY <1>0, TypesMean DEF TenuresApart
  <2>2. ASSUME NEW x \in Handlers
        PROVE  /\ proc'[x].sub <= tenures /\ proc'[x].seen <= tenures /\ proc'[x].tenure <= tenures
               /\ proc'[x].pc = "link" => proc'[x].tenure > 0
               /\ proc'[x].pc \in {"check", "end"} => proc'[x].sub > 0
    BY <1>0, <1>1, <1>2, TypesMean DEF TenuresApart
  <2>3. ASSUME NEW o \in Orgs, active[o].by = "operator", NEW x \in Handlers
        PROVE  /\ proc'[x].sub # active[o].n
               /\ proc'[x].pc = "link" => proc'[x].tenure # active[o].n
               /\ proc'[x].pc = "end" /\ proc'[x].org = o => proc'[x].seen < active[o].n
    BY <1>0, <1>1, <1>2, <2>1, <2>3 DEF TenuresApart
  <2> QED BY <1>0, <2>2, <2>3 DEF TenuresApart
<1>15. OneAtATime'
  BY <1>0, <1>4 DEF OneAtATime
<1>16. PlanFollows'
  <2> SUFFICES ASSUME ~collided, ~cut', Len(row) <= 1 PROVE PlanFollows'
    BY DEF PlanFollows
  <2>1. ASSUME NEW x \in Handlers, NEW i \in DOMAIN row, OnRow(x, i)' PROVE Reconciles(x, i)'
    BY <1>0, <1>4, <2>1 DEF PlanFollows, Reconciles
  <2>2. ASSUME NEW i \in DOMAIN row, row[i].sub # 0
        PROVE  \/ active[row[i].org].n = row[i].sub \/ overridden
               \/ \E x \in Handlers : OnRow(x, i)' /\ proc'[x].pc = "unlink"
    BY <1>0, <1>4, <2>2 DEF PlanFollows
  <2>3. ASSUME NEW i \in DOMAIN row, ~overtaken, AllApplied' PROVE Agrees(i)' \/ \E x \in Handlers : OnRow(x, i)'
    <3>1. Agrees(i) \/ \E x \in Handlers : OnRow(x, i)
      BY <1>0, <1>12, <2>3 DEF PlanFollows
    <3>2. ~OnRow(p, i)
      <4> SUFFICES ASSUME OnRow(p, i) PROVE FALSE
        OBVIOUS
      <4>1. Repeated(p)
        BY DEF OnRow
      <4>2. Knows(p)
        BY <1>0
      <4>v. PICK v : v = proc[p].change
        OBVIOUS
      <4>3. v \notin recorded /\ v \in DOMAIN told /\ \A x \in Handlers \ {p} : proc[x].change # v
        BY <4>1, <4>2, <4>v DEF Repeated, Knows
      <4>4. v # 0
        BY <4>1, <4>v DEF Repeated
      <4>5. ~Applied(v)'
        BY <1>1, <1>2, <4>3, <4>4 DEF Applied
      <4> QED BY <2>3, <4>3, <4>5 DEF AllApplied
    <3> QED BY <1>4, <3>1, <3>2 DEF Agrees
  <2>4. ASSUME NEW o \in Orgs, active[o].by = "store"
        PROVE  \E i \in DOMAIN row :
                 /\ row[i].org = o
                 /\ \/ row[i].sub = active[o].n
                    \/ \E x \in Handlers : OnRow(x, i)' /\ proc'[x].pc = "link" /\ proc'[x].tenure = active[o].n
    BY <1>0, <1>4, <2>4 DEF PlanFollows
  <2> QED BY <2>1, <2>2, <2>3, <2>4 DEF PlanFollows
<1> QED BY <1>6, <1>7, <1>8, <1>10, <1>11, <1>13, <1>14, <1>15, <1>16 DEF StoreInv

LEMMA ThrowStep ==
  ASSUME StoreInv, NEW p \in Handlers, Throw(p)
  PROVE  StoreInv'
<1>1. proc' = [proc EXCEPT ![p] = AtRest] /\ recorded' = recorded
  BY DEF Throw, Errs, AfterError
<1>2. cut \in BOOLEAN /\ acts \in Nat
  BY DEF StoreInv, StoreTypeOK
<1>3. cut' = (cut \/ proc[p].pc \in {"link", "unlink"} \/ (proc[p].pc \in Reconciling /\ ~Repeated(p)))
  BY DEF Throw
<1>4. acts' = acts + 1 /\ acts' \in Nat
  BY <1>2 DEF Throw
<1>5. cut' \in BOOLEAN /\ (cut => cut')
  BY <1>2, <1>3
<1>6. /\ proc[p].pc \in {"link", "unlink"} => cut'
      /\ proc[p].pc \in Reconciling => cut' \/ Repeated(p)
  BY <1>3
<1>7. UNCHANGED <<environment, row, active, tenures, latest, overtaken, skipped, collided, overridden>>
  BY DEF Throw
<1> QED BY <1>1, <1>4, <1>5, <1>6, <1>7, ForgetStep

(* A handler that is not reconciling may fail: its statement was refused. *)
LEMMA ErrsStep ==
  ASSUME StoreInv, NEW p \in Handlers, proc[p].pc \in {"rekey", "insert", "find"}, proc' = [proc EXCEPT ![p] = AtRest],
         UNCHANGED <<environment, recorded, row, active, tenures, acts, storeHistory>>
  PROVE  StoreInv'
<1>1. cut \in BOOLEAN /\ acts \in Nat
  BY DEF StoreInv, StoreTypeOK
<1> QED BY <1>1, ForgetStep DEF storeHistory, Reconciling

(* The delivery is recorded when all that follows from it is done. *)
LEMMA RecordStep ==
  ASSUME StoreInv, NEW p \in Handlers, Record(p)
  PROVE  StoreInv'
<1> USE DEF environment, storeHistory
<1>0. /\ StoreTypeOK /\ ToldInOrder /\ (\A x \in Handlers : Knows(x)) /\ RowsKnown /\ NoneBehind
      /\ LinksFollowed /\ RowsFit /\ TenuresApart /\ OneAtATime /\ PlanFollows
  BY DEF StoreInv
<1>u. UNCHANGED <<environment, row, active, tenures, acts, storeHistory>> /\ proc' = [proc EXCEPT ![p] = AtRest]
      /\ proc[p].pc = "record"
  BY DEF Record
<1>1. /\ proc' \in [Handlers -> HandlerType] /\ proc'[p] = AtRest
      /\ \A x \in Handlers \ {p} : proc'[x] = proc[x]
  BY <1>0, <1>u, AtRestTyped, HandlerSet
<1>2. proc'[p].pc = "idle" /\ proc'[p].change = 0 /\ proc'[p].sub = 0 /\ proc'[p].tenure = 0 /\ proc'[p].seen = 0
  BY <1>1 DEF AtRest
<1>v. PICK v \in DOMAIN told : v = proc[p].change
  BY <1>0, <1>u DEF Knows
<1>3. recorded' = recorded \cup {v} /\ v <= latest /\ v # 0
  BY <1>0, <1>u, <1>v, Shapes DEF Record, Knows
<1>4. \A w : w # 0 => (Applied(w)' <=> Applied(w)) /\ (Linked(w)' <=> Linked(w))
  <2> SUFFICES ASSUME NEW w, w # 0 PROVE (Applied(w)' <=> Applied(w)) /\ (Linked(w)' <=> Linked(w))
    OBVIOUS
  <2>1. CASE w = v
    BY <1>3, <1>u, <1>v, <2>1 DEF Applied, Linked
  <2>2. CASE w # v
    BY <1>1, <1>2, <1>3, <1>u, <1>v, <2>2 DEF Applied, Linked, Reconciling
  <2> QED BY <2>1, <2>2
<1>5. \A i : \A x \in Handlers : /\ OnRow(x, i)' <=> OnRow(x, i)
                                 /\ OnRow(x, i) => proc'[x] = proc[x]
  BY <1>1, <1>2, <1>u DEF OnRow, Reconciling
<1>6. StoreTypeOK'
  BY <1>0, <1>1, <1>3, <1>u DEF StoreTypeOK, HandlerType, Points
<1>7. ToldInOrder' /\ RowsKnown'
  BY <1>0, <1>3, <1>u DEF ToldInOrder, Current, RowsKnown, LatestRef
<1>8. ASSUME NEW x \in Handlers PROVE Knows(x)'
  <2>1. CASE x = p
    BY <1>1, <1>2, <2>1 DEF Knows, Working, Reconciling
  <2>2. CASE x # p
    BY <1>0, <1>1, <1>u, <2>2 DEF Knows, Current
  <2> QED BY <2>1, <2>2
<1>10. NoneBehind'
  BY <1>0, <1>1, <1>2, <1>u DEF NoneBehind
<1>11. 0 \notin DOMAIN told
  BY <1>0, Shapes
<1>12. LinksFollowed'
  BY <1>0, <1>4, <1>11, <1>u DEF LinksFollowed, LatestRef
<1>13. AllApplied' <=> AllApplied
  BY <1>4, <1>11, <1>u DEF AllApplied
<1>14. RowsFit'
  BY <1>0, <1>13, <1>u DEF RowsFit, Current
<1>15. TenuresApart'
  <2>1. \A o \in Orgs : active[o].by = "operator" => active[o].n # 0
    BY <1>0, TypesMean DEF TenuresApart
  <2>2. ASSUME NEW x \in Handlers
        PROVE  /\ proc'[x].sub <= tenures /\ proc'[x].seen <= tenures /\ proc'[x].tenure <= tenures
               /\ proc'[x].pc = "link" => proc'[x].tenure > 0
               /\ proc'[x].pc \in {"check", "end"} => proc'[x].sub > 0
    BY <1>0, <1>1, <1>2, TypesMean DEF TenuresApart
  <2>3. ASSUME NEW o \in Orgs, active[o].by = "operator", NEW x \in Handlers
        PROVE  /\ proc'[x].sub # active[o].n
               /\ proc'[x].pc = "link" => proc'[x].tenure # active[o].n
               /\ proc'[x].pc = "end" /\ proc'[x].org = o => proc'[x].seen < active[o].n
    BY <1>0, <1>1, <1>2, <2>1, <2>3 DEF TenuresApart
  <2> QED BY <1>0, <1>u, <2>2, <2>3 DEF TenuresApart
<1>16. OneAtATime'
  BY <1>0, <1>5, <1>u DEF OneAtATime
<1>17. PlanFollows'
  <2> SUFFICES ASSUME ~collided, ~cut, Len(row) <= 1 PROVE PlanFollows'
    BY <1>u DEF PlanFollows
  <2>1. ASSUME NEW x \in Handlers, NEW i \in DOMAIN row, OnRow(x, i)' PROVE Reconciles(x, i)'
    BY <1>0, <1>5, <1>u, <2>1 DEF PlanFollows, Reconciles
  <2>2. ASSUME NEW i \in DOMAIN row
        PROVE  /\ row[i].sub # 0 => \/ active[row[i].org].n = row[i].sub \/ overridden
                                    \/ \E x \in Handlers : OnRow(x, i)' /\ proc'[x].pc = "unlink"
               /\ ~overtaken /\ AllApplied' => Agrees(i)' \/ \E x \in Handlers : OnRow(x, i)'
    BY <1>0, <1>5, <1>13, <1>u DEF PlanFollows, Agrees
  <2>3. ASSUME NEW o \in Orgs, active[o].by = "store"
        PROVE  \E i \in DOMAIN row :
                 /\ row[i].org = o
                 /\ \/ row[i].sub = active[o].n
                    \/ \E x \in Handlers : OnRow(x, i)' /\ proc'[x].pc = "link" /\ proc'[x].tenure = active[o].n
    BY <1>0, <1>5, <2>3 DEF PlanFollows
  <2> QED BY <1>u, <2>1, <2>2, <2>3 DEF PlanFollows
<1> QED BY <1>6, <1>7, <1>8, <1>10, <1>12, <1>14, <1>15, <1>16, <1>17 DEF StoreInv

(* A handler that is through has only its delivery to record. *)
LEMMA ThroughMeans ==
  ASSUME NEW q \in HandlerType
  PROVE  /\ Through(q) \in HandlerType
         /\ Through(q).sub = 0 /\ Through(q).tenure = 0 /\ Through(q).seen = 0
         /\ Through(q).change = q.change /\ Through(q).pc \in {"idle", "record"}
         /\ IF q.change = 0 THEN Through(q) = AtRest /\ Through(q).pc = "idle" ELSE Through(q).pc = "record"
<1>1. CASE q.change = 0
  BY <1>1, AtRestTyped DEF Through, IsClaim, AtRest
<1>2. CASE q.change # 0
  <2>1. Through(q) = [AtRest EXCEPT !.pc = "record", !.change = q.change]
    BY <1>2 DEF Through, IsClaim
  <2>2. q.change \in Nat
    BY DEF HandlerType
  <2>3. /\ Through(q) \in HandlerType /\ Through(q).pc = "record" /\ Through(q).change = q.change
        /\ Through(q).sub = AtRest.sub /\ Through(q).tenure = AtRest.tenure /\ Through(q).seen = AtRest.seen
    BY <2>1, <2>2, AtRestTyped DEF HandlerType, Points
  <2> QED BY <1>2, <2>3 DEF AtRest
<1> QED BY <1>1, <1>2

-----------------------------------------------------------------------------
(* The operator, and the steps of reconciling.                             *)

(* What the operator sets is no purchase's. *)
LEMMA OverrideStep ==
  ASSUME StoreInv, NEW o \in Orgs, NEW given \in BOOLEAN, Override(o, given)
  PROVE  StoreInv'
<1> USE DEF environment
<1>0. /\ StoreTypeOK /\ ToldInOrder /\ (\A x \in Handlers : Knows(x)) /\ RowsKnown /\ NoneBehind
      /\ LinksFollowed /\ RowsFit /\ TenuresApart /\ OneAtATime /\ PlanFollows
  BY DEF StoreInv
<1>u. /\ UNCHANGED <<environment, recorded, row, proc, latest, overtaken, skipped, collided, cut>>
      /\ overridden' = TRUE /\ acts' = acts + 1
      /\ tenures' = IF given THEN tenures + 1 ELSE tenures
      /\ active' = [active EXCEPT ![o] = IF given THEN [by |-> "operator", n |-> tenures'] ELSE NoPlan]
  BY DEF Override
<1>1. tenures \in Nat /\ tenures' \in Nat /\ tenures <= tenures' /\ acts' \in Nat /\ row \in Seq(RowUpTo(tenures))
  BY <1>0, <1>u, TypesMean
<1>2. /\ active'[o] = IF given THEN [by |-> "operator", n |-> tenures'] ELSE NoPlan
      /\ \A a \in Orgs \ {o} : active'[a] = active[a]
      /\ active' \in [Orgs -> [by : {"nobody", "store", "operator"}, n : Nat]]
  BY <1>0, <1>1, <1>u, TypesMean DEF NoPlan
<1>3. row' \in Seq(RowUpTo(tenures'))
  BY <1>1, <1>u, RowsOfMore
<1>4. StoreTypeOK'
  BY <1>0, <1>1, <1>2, <1>3, <1>u DEF StoreTypeOK, RowUpTo
<1>5. ToldInOrder' /\ RowsKnown' /\ NoneBehind' /\ OneAtATime'
  BY <1>0, <1>u DEF ToldInOrder, Current, RowsKnown, LatestRef, NoneBehind, OneAtATime, OnRow
<1>6. ASSUME NEW x \in Handlers PROVE Knows(x)'
  BY <1>0, <1>u DEF Knows, Current
<1>7. LinksFollowed' /\ RowsFit'
  BY <1>0, <1>u DEF LinksFollowed, Linked, Applied, RowsFit, AllApplied, Current, LatestRef
<1>8. TenuresApart'
  <2>1. ASSUME NEW a \in Orgs PROVE active'[a].n <= tenures' /\ (active'[a].by = "nobody" <=> active'[a].n = 0)
    BY <1>0, <1>1, <1>2, <1>u, TypesMean DEF TenuresApart, NoPlan
  <2>2. ASSUME NEW x \in Handlers
        PROVE  /\ proc[x].sub <= tenures' /\ proc[x].seen <= tenures' /\ proc[x].tenure <= tenures'
               /\ proc[x].pc = "link" => proc[x].tenure > 0
               /\ proc[x].pc \in {"check", "end"} => proc[x].sub > 0
    BY <1>0, <1>1, TypesMean DEF TenuresApart
  <2>3. ASSUME NEW a \in Orgs, active'[a].by = "operator"
        PROVE  /\ \A i \in DOMAIN row : row[i].sub # active'[a].n
               /\ \A x \in Handlers :
                    /\ proc[x].sub # active'[a].n
                    /\ proc[x].pc = "link" => proc[x].tenure # active'[a].n
                    /\ proc[x].pc = "end" /\ proc[x].org = a => proc[x].seen < active'[a].n
    <3>1. CASE a = o
      <4>1. active'[a].n = tenures + 1
        BY <1>2, <1>u, <2>3, <3>1 DEF NoPlan
      <4> QED BY <1>0, <1>1, <4>1, TypesMean, Shapes DEF TenuresApart
    <3>2. CASE a # o
      BY <1>0, <1>2, <2>3, <3>2 DEF TenuresApart
    <3> QED BY <3>1, <3>2
  <2> QED BY <1>u, <2>1, <2>2, <2>3 DEF TenuresApart
<1>9. PlanFollows'
  <2> SUFFICES ASSUME ~collided, ~cut, Len(row) <= 1 PROVE PlanFollows'
    BY <1>u DEF PlanFollows
  <2>1. ASSUME NEW a \in Orgs, active'[a].by = "store" PROVE active[a].by = "store" /\ active'[a] = active[a]
    BY <1>2, <2>1 DEF NoPlan
  <2>2. ASSUME NEW x \in Handlers, NEW i \in DOMAIN row, OnRow(x, i) PROVE Reconciles(x, i)'
    BY <1>0, <1>u, <2>1, <2>2, Shapes DEF PlanFollows, Reconciles
  <2>3. ASSUME NEW i \in DOMAIN row, ~overtaken, AllApplied' PROVE Agrees(i) \/ \E x \in Handlers : OnRow(x, i)
    BY <1>0, <1>u, <2>3 DEF PlanFollows, AllApplied, Applied
  <2>4. ASSUME NEW a \in Orgs, active'[a].by = "store"
        PROVE  \E i \in DOMAIN row :
                 /\ row[i].org = a
                 /\ \/ row[i].sub = active'[a].n
                    \/ \E x \in Handlers : OnRow(x, i) /\ proc[x].pc = "link" /\ proc[x].tenure = active'[a].n
    BY <1>0, <2>1, <2>4 DEF PlanFollows
  <2> QED BY <1>u, <2>2, <2>3, <2>4 DEF PlanFollows, OnRow, Agrees
<1> QED BY <1>4, <1>5, <1>6, <1>7, <1>8, <1>9 DEF StoreInv

(* A step of reconciling leaves what rows say of the purchase alone, and   *)
(* only the plan and its tenure are in question.                           *)
LEMMA ReconcilingStep ==
  ASSUME StoreInv, NEW p \in Handlers, NEW e \in HandlerType,
         proc[p].pc \in Reconciling, proc' = [proc EXCEPT ![p] = e],
         \/ e.pc \in Reconciling /\ e.change = proc[p].change /\ e.row = proc[p].row /\ e.org = proc[p].org
         \/ e = Through(proc[p]),
         UNCHANGED <<environment, recorded, acts, storeHistory>>,
         tenures' \in Nat, active' \in [Orgs -> [by : {"nobody", "store", "operator"}, n : Nat]],
         row' \in Seq(RowUpTo(tenures')), DOMAIN row' = DOMAIN row, Len(row') = Len(row),
         \A i \in DOMAIN row : row'[i].ref = row[i].ref /\ row'[i].org = row[i].org /\ row'[i].status = row[i].status,
         TenuresApart', PlanFollows'
  PROVE  StoreInv'
<1> USE DEF environment, storeHistory
<1>0. /\ StoreTypeOK /\ ToldInOrder /\ (\A x \in Handlers : Knows(x)) /\ RowsKnown /\ NoneBehind
      /\ LinksFollowed /\ RowsFit /\ TenuresApart /\ OneAtATime
  BY DEF StoreInv
<1>1. /\ proc' \in [Handlers -> HandlerType] /\ proc'[p] = e
      /\ \A x \in Handlers \ {p} : proc'[x] = proc[x]
  BY <1>0, HandlerSet
<1>2. /\ \/ e.pc \in Reconciling /\ e.change = proc[p].change /\ e.row = proc[p].row /\ e.org = proc[p].org
         \/ e.pc = "record" /\ e.change = proc[p].change /\ e.change # 0
         \/ e = AtRest /\ e.pc = "idle" /\ e.change = 0 /\ proc[p].change = 0
  BY <1>0, ThroughMeans, TypesMean
<1>3. \A v : v # 0 => (Applied(v)' <=> Applied(v)) /\ (Linked(v)' <=> Linked(v))
  <2> SUFFICES ASSUME NEW v, v # 0 PROVE (Applied(v)' <=> Applied(v)) /\ (Linked(v)' <=> Linked(v))
    OBVIOUS
  <2>1. CASE v = proc[p].change
    <3>1. Applied(v)
      BY <2>1 DEF Applied
    <3>2. Applied(v)'
      BY <1>1, <1>2, <2>1 DEF Applied
    <3> QED BY <3>1, <3>2 DEF Linked
  <2>2. CASE v # proc[p].change
    BY <1>1, <1>2, <2>2 DEF Applied, Linked
  <2> QED BY <2>1, <2>2
<1>4. \A i : \A x \in Handlers : OnRow(x, i)' => OnRow(x, i)
  BY <1>1, <1>2 DEF OnRow, Reconciling
<1>5. StoreTypeOK'
  BY <1>0, <1>1 DEF StoreTypeOK, RowUpTo, HandlerType, Points
<1>6. ToldInOrder' /\ RowsKnown'
  BY <1>0 DEF ToldInOrder, Current, RowsKnown, LatestRef
<1>7. ASSUME NEW x \in Handlers PROVE Knows(x)'
  <2>1. CASE x = p
    <3>1. Knows(p)
      BY <1>0
    <3> QED BY <1>1, <1>2, <2>1, <3>1 DEF Knows, Working, Reconciling
  <2>2. CASE x # p
    BY <1>0, <1>1, <2>2 DEF Knows, Current
  <2> QED BY <2>1, <2>2
<1>8. NoneBehind'
  BY <1>0, <1>1, <1>2 DEF NoneBehind, Reconciling
<1>9. 0 \notin DOMAIN told
  BY <1>0, Shapes
<1>10. LinksFollowed'
  BY <1>0, <1>3, <1>9 DEF LinksFollowed, LatestRef
<1>11. RowsFit'
  BY <1>0, <1>3, <1>9 DEF RowsFit, AllApplied, Current
<1>12. OneAtATime'
  BY <1>0, <1>4 DEF OneAtATime
<1> QED BY <1>5, <1>6, <1>7, <1>8, <1>10, <1>11, <1>12 DEF StoreInv

(* The only row, and the only handler on it. *)
LEMMA OneRow ==
  ASSUME StoreTypeOK, OneAtATime, NEW p \in Handlers, NEW k \in DOMAIN row, OnRow(p, k), ~collided, Len(row) <= 1
  PROVE  /\ \A i \in DOMAIN row : i = k
         /\ \A x \in Handlers : OnRow(x, k) <=> x = p
<1>1. \A i \in DOMAIN row : i = k
  BY Shapes
<1>2. \A x \in Handlers : OnRow(x, k) <=> x = p
  BY DEF OneAtATime
<1> QED BY <1>1, <1>2

(* Tenures stay apart: the store begins new ones, and takes no operator's. *)
LEMMA TenuresKept ==
  ASSUME StoreTypeOK, TenuresApart, NEW p \in Handlers, NEW e \in HandlerType, proc' = [proc EXCEPT ![p] = e],
         tenures' \in Nat, tenures <= tenures',
         \A o \in Orgs : \/ active'[o] = active[o]
                         \/ active'[o] = NoPlan
                         \/ active'[o].by = "store" /\ active'[o].n > 0 /\ active'[o].n <= tenures',
         \A i \in DOMAIN row' : \/ row'[i].sub = 0
                                \/ i \in DOMAIN row /\ row'[i].sub = row[i].sub
                                \/ proc[p].pc = "link" /\ row'[i].sub = proc[p].tenure,
         e.sub = 0 \/ e.sub = proc[p].sub \/ \E i \in DOMAIN row : e.sub = row[i].sub,
         e.seen <= tenures', e.tenure <= tenures',
         e.pc = "link" => e.tenure > tenures,
         e.pc \in {"check", "end"} => e.sub > 0,
         e.pc = "end" => active[e.org].n = e.sub
  PROVE  TenuresApart'
<1>1. /\ proc'[p] = e /\ \A x \in Handlers \ {p} : proc'[x] = proc[x]
  BY HandlerSet
<1>2. tenures \in Nat /\ e.sub \in Nat /\ e.seen \in Nat /\ e.tenure \in Nat
  BY TypesMean DEF HandlerType
<1>3. ASSUME NEW o \in Orgs PROVE active'[o].n <= tenures' /\ (active'[o].by = "nobody" <=> active'[o].n = 0)
  BY <1>2, TypesMean DEF TenuresApart, NoPlan
<1>4. ASSUME NEW x \in Handlers
      PROVE  /\ proc'[x].sub <= tenures' /\ proc'[x].seen <= tenures' /\ proc'[x].tenure <= tenures'
             /\ proc'[x].pc = "link" => proc'[x].tenure > 0
             /\ proc'[x].pc \in {"check", "end"} => proc'[x].sub > 0
  <2>1. proc[x].sub <= tenures /\ proc[x].seen <= tenures /\ proc[x].tenure <= tenures
    BY DEF TenuresApart
  <2>2. CASE x = p
    <3>1. e.sub <= tenures'
      BY <1>2, <2>1, <2>2, Shapes
    <3> QED BY <1>1, <1>2, <2>2, <3>1
  <2>3. CASE x # p
    BY <1>1, <1>2, <2>1, <2>3, TypesMean DEF TenuresApart
  <2> QED BY <2>2, <2>3
<1>5. ASSUME NEW o \in Orgs, active'[o].by = "operator"
      PROVE  /\ \A i \in DOMAIN row' : row'[i].sub # active'[o].n
             /\ \A x \in Handlers :
                  /\ proc'[x].sub # active'[o].n
                  /\ proc'[x].pc = "link" => proc'[x].tenure # active'[o].n
                  /\ proc'[x].pc = "end" /\ proc'[x].org = o => proc'[x].seen < active'[o].n
  <2>1. active'[o] = active[o] /\ active[o].by = "operator"
    BY <1>5 DEF NoPlan
  <2>2. active[o].n # 0 /\ active[o].n <= tenures /\ active[o].n \in Nat
    BY <2>1, TypesMean DEF TenuresApart
  <2>3. ASSUME NEW i \in DOMAIN row' PROVE row'[i].sub # active[o].n
    BY <2>1, <2>2 DEF TenuresApart
  <2>4. ASSUME NEW x \in Handlers
        PROVE  /\ proc'[x].sub # active[o].n
               /\ proc'[x].pc = "link" => proc'[x].tenure # active[o].n
               /\ proc'[x].pc = "end" /\ proc'[x].org = o => proc'[x].seen < active[o].n
    <3>1. CASE x = p
      <4>1. e.sub # active[o].n
        BY <2>1, <2>2 DEF TenuresApart
      <4>2. e.pc = "link" => e.tenure # active[o].n
        BY <1>2, <2>2
      <4> QED BY <1>1, <3>1, <4>1, <4>2
    <3>2. CASE x # p
      BY <1>1, <2>1, <3>2 DEF TenuresApart
    <3> QED BY <3>1, <3>2
  <2> QED BY <2>1, <2>3, <2>4
<1> QED BY <1>3, <1>4, <1>5 DEF TenuresApart

(* The plan is assigned; until the link the handler alone knows of it. *)
LEMMA GrantStep ==
  ASSUME StoreInv, NEW p \in Handlers, Grant(p)
  PROVE  StoreInv'
<1>k. PICK k : k = proc[p].row
  OBVIOUS
<1>e. PICK e : e = [proc[p] EXCEPT !.pc = "link", !.tenure = tenures']
  OBVIOUS
<1>0. StoreTypeOK /\ Knows(p) /\ TenuresApart /\ OneAtATime /\ PlanFollows
  BY DEF StoreInv
<1>1. /\ tenures \in Nat /\ tenures' = tenures + 1 /\ proc[p].pc = "grant" /\ row \in Seq(RowUpTo(tenures))
      /\ proc[p] \in HandlerType
      /\ k \in DOMAIN row /\ proc[p].org = row[k].org /\ row[k].org \in Orgs
      /\ UNCHANGED <<environment, recorded, row, acts, storeHistory>>
  BY <1>0, <1>k, TypesMean, Shapes DEF Grant, Knows, Reconciling
<1>2. /\ proc' = [proc EXCEPT ![p] = e]
      /\ active' = [active EXCEPT ![row[k].org] = [by |-> "store", n |-> tenures']]
  BY <1>1, <1>e, <1>k DEF Grant
<1>3. /\ e \in HandlerType /\ e.pc = "link" /\ e.tenure = tenures' /\ e.sub = proc[p].sub /\ e.seen = proc[p].seen
      /\ e.change = proc[p].change /\ e.row = k /\ e.org = proc[p].org
  <2>q. PICK q : q = proc[p]
    OBVIOUS
  <2>t. PICK t : t = tenures'
    OBVIOUS
  <2>1. q \in HandlerType /\ t \in Nat /\ e = [q EXCEPT !.pc = "link", !.tenure = t]
    BY <1>1, <1>e, <2>q, <2>t
  <2>2. /\ e \in HandlerType /\ e.pc = "link" /\ e.tenure = t /\ e.sub = q.sub /\ e.seen = q.seen
        /\ e.change = q.change /\ e.row = q.row /\ e.org = q.org
    BY <2>1 DEF HandlerType, Points, Reconciling
  <2> QED BY <1>k, <2>q, <2>t, <2>2
<1>4. /\ active'[row[k].org] = [by |-> "store", n |-> tenures']
      /\ \A o \in Orgs \ {row[k].org} : active'[o] = active[o]
      /\ active' \in [Orgs -> [by : {"nobody", "store", "operator"}, n : Nat]]
  BY <1>0, <1>1, <1>2, TypesMean
<1>5. TenuresApart'
  <2>1. e.seen <= tenures' /\ e.seen \in Nat
    BY <1>0, <1>1, <1>3, TypesMean DEF TenuresApart
  <2>2. tenures' \in Nat /\ tenures <= tenures' /\ e.tenure > tenures /\ e.tenure <= tenures' /\ row' = row
    BY <1>1, <1>3
  <2>3. \A o \in Orgs : \/ active'[o] = active[o]
                         \/ (active'[o].by = "store" /\ active'[o].n > 0 /\ active'[o].n <= tenures')
    BY <1>1, <1>4
  <2> QED BY <1>0, <1>2, <1>3, <2>1, <2>2, <2>3, TenuresKept
<1>6. PlanFollows'
  <2> SUFFICES ASSUME ~collided, ~cut, Len(row) <= 1 PROVE PlanFollows'
    BY <1>1 DEF PlanFollows, storeHistory
  <2>1. OnRow(p, k)
    BY <1>1, <1>k DEF OnRow, Reconciling
  <2>2. (\A i \in DOMAIN row : i = k) /\ (\A x \in Handlers : OnRow(x, k) <=> x = p) /\ Reconciles(p, k)
    BY <1>0, <1>1, <2>1, OneRow DEF PlanFollows
  <2>3. Entitled(row[k].status) /\ row[k].sub = 0 /\ proc[p].sub = row[k].sub
    BY <1>1, <2>2 DEF Reconciles
  <2>4. proc'[p] = e /\ \A x \in Handlers \ {p} : proc'[x] = proc[x]
    BY <1>0, <1>2, <1>3, HandlerSet
  <2>5. \A x \in Handlers : OnRow(x, k)' <=> x = p
    BY <1>3, <2>2, <2>4 DEF OnRow, Reconciling
  <2>6. Reconciles(p, k)'
    BY <1>1, <1>3, <1>4, <2>3, <2>4 DEF Reconciles
  <2>7. \A o \in Orgs : active'[o].by = "store" => o = row[k].org
    BY <1>0, <1>4, <2>2 DEF PlanFollows
  <2> QED BY <1>1, <1>3, <1>4, <2>2, <2>3, <2>4, <2>5, <2>6, <2>7 DEF PlanFollows
<1>7. tenures' \in Nat /\ row' \in Seq(RowUpTo(tenures')) /\ row' = row
  BY <1>1, RowsOfMore
<1>8. proc[p].pc \in Reconciling /\ e.pc \in Reconciling
  BY <1>1, <1>3 DEF Reconciling
<1>9. UNCHANGED <<environment, recorded, acts, storeHistory>>
  BY <1>1
<1> QED BY <1>2, <1>3, <1>4, <1>5, <1>6, <1>7, <1>8, <1>9, <1>k, ReconcilingStep

(* The row points at the tenure that was begun. *)
LEMMA LinkStep ==
  ASSUME StoreInv, NEW p \in Handlers, Link(p)
  PROVE  StoreInv'
<1>k. PICK k : k = proc[p].row
  OBVIOUS
<1>e. PICK e : e = Through(proc[p])
  OBVIOUS
<1>m. PICK m : m = [row[k] EXCEPT !.sub = proc[p].tenure]
  OBVIOUS
<1>0. StoreTypeOK /\ Knows(p) /\ TenuresApart /\ OneAtATime /\ PlanFollows
  BY DEF StoreInv
<1>1. /\ tenures \in Nat /\ proc[p].pc = "link" /\ row \in Seq(RowUpTo(tenures))
      /\ proc[p] \in HandlerType /\ proc[p].tenure \in 0 .. tenures /\ proc[p].tenure > 0
      /\ k \in DOMAIN row /\ row[k].org \in Orgs /\ row[k] \in RowUpTo(tenures)
      /\ UNCHANGED <<environment, recorded, active, tenures, acts, storeHistory>>
      /\ proc' = [proc EXCEPT ![p] = e]
  BY <1>0, <1>e, <1>k, TypesMean, RowsMean DEF Link, Knows, Reconciling, TenuresApart
<1>2. row' = [row EXCEPT ![k] = m]
  BY <1>1, <1>k, <1>m DEF Link
<1>3. m \in RowUpTo(tenures) /\ m.sub = proc[p].tenure /\ m.org = row[k].org /\ m.ref = row[k].ref
      /\ m.status = row[k].status
  BY <1>1, <1>m DEF RowUpTo
<1>4. e \in HandlerType /\ e.sub = 0 /\ e.tenure = 0 /\ e.seen = 0 /\ e.pc \in {"idle", "record"}
  BY <1>1, <1>e, ThroughMeans
<1>5. /\ row' \in Seq(RowUpTo(tenures)) /\ Len(row') = Len(row) /\ DOMAIN row' = DOMAIN row
      /\ row'[k] = m /\ \A j \in DOMAIN row \ {k} : row'[j] = row[j]
  BY <1>1, <1>2, <1>3, RowWritten
<1>6. TenuresApart'
  <2>1. tenures' = tenures /\ tenures' \in Nat /\ tenures <= tenures' /\ active' = active
    BY <1>1
  <2>2. \A i \in DOMAIN row' : (row'[i].sub = row[i].sub /\ i \in DOMAIN row) \/ row'[i].sub = proc[p].tenure
    BY <1>3, <1>5
  <2>3. e.seen <= tenures' /\ e.tenure <= tenures' /\ e.pc \notin {"link", "check", "end"}
    BY <1>4, <2>1
  <2> QED BY <1>0, <1>1, <1>4, <2>1, <2>2, <2>3, TenuresKept
<1>7. PlanFollows'
  <2> SUFFICES ASSUME ~collided, ~cut, Len(row) <= 1 PROVE PlanFollows'
    BY <1>1, <1>5 DEF PlanFollows, storeHistory
  <2>1. OnRow(p, k)
    BY <1>1, <1>k DEF OnRow, Reconciling
  <2>2. (\A i \in DOMAIN row : i = k) /\ (\A x \in Handlers : OnRow(x, k) <=> x = p) /\ Reconciles(p, k)
    BY <1>0, <1>1, <2>1, OneRow DEF PlanFollows
  <2>3. Entitled(row[k].status) /\ row[k].sub = 0 /\ (active[row[k].org].n = proc[p].tenure \/ overridden)
    BY <1>1, <2>2 DEF Reconciles
  <2>4. proc'[p] = e /\ \A x \in Handlers \ {p} : proc'[x] = proc[x]
    BY <1>0, <1>1, <1>4, HandlerSet
  <2>5. \A x \in Handlers : ~OnRow(x, k)'
    BY <1>4, <2>2, <2>4 DEF OnRow, Reconciling
  <2>6. Agrees(k)' /\ (active'[row'[k].org].n = row'[k].sub \/ overridden')
    BY <1>1, <1>3, <1>5, <2>3 DEF Agrees, Entitled, storeHistory
  <2>7. ASSUME NEW o \in Orgs, active[o].by = "store" PROVE o = row[k].org /\ active[o].n = proc[p].tenure
    <3>1. active[o].n # 0
      BY <1>0, <2>7, TypesMean DEF TenuresApart
    <3> QED BY <1>0, <2>2, <2>3, <2>7, <3>1 DEF PlanFollows
  <2> QED BY <1>1, <1>3, <1>5, <2>2, <2>5, <2>6, <2>7 DEF PlanFollows
<1>8. \A i \in DOMAIN row : row'[i].ref = row[i].ref /\ row'[i].org = row[i].org /\ row'[i].status = row[i].status
  BY <1>3, <1>5
<1>9. active' \in [Orgs -> [by : {"nobody", "store", "operator"}, n : Nat]] /\ tenures' = tenures
  BY <1>0, <1>1, TypesMean
<1> QED BY <1>1, <1>4, <1>5, <1>6, <1>7, <1>8, <1>9, ReconcilingStep, <1>e DEF Reconciling

(* Of the plan in force only the row's own tenure is to be ended. *)
LEMMA CheckStep ==
  ASSUME StoreInv, NEW p \in Handlers, Check(p)
  PROVE  StoreInv'
<1>k. PICK k : k = proc[p].row
  OBVIOUS
<1>e. PICK e : e = [proc[p] EXCEPT !.pc = IF OwnTenure(proc[p]) THEN "end" ELSE "unlink", !.seen = tenures]
  OBVIOUS
<1>0. StoreTypeOK /\ Knows(p) /\ TenuresApart /\ OneAtATime /\ PlanFollows
  BY DEF StoreInv
<1>1. /\ tenures \in Nat /\ proc[p].pc = "check" /\ row \in Seq(RowUpTo(tenures))
      /\ proc[p] \in HandlerType /\ proc[p].sub > 0 /\ proc[p].tenure <= tenures
      /\ k \in DOMAIN row /\ proc[p].org = row[k].org /\ row[k].org \in Orgs
      /\ UNCHANGED <<environment, recorded, row, active, tenures, acts, storeHistory>>
      /\ proc' = [proc EXCEPT ![p] = e]
  BY <1>0, <1>e, <1>k, TypesMean, Shapes DEF Check, Knows, Reconciling, TenuresApart
<1>2. /\ e \in HandlerType /\ e.seen = tenures /\ e.sub = proc[p].sub /\ e.tenure = proc[p].tenure
      /\ e.change = proc[p].change /\ e.row = k /\ e.org = row[k].org
      /\ e.pc \in {"end", "unlink"} /\ (e.pc = "end" <=> active[row[k].org].n = proc[p].sub)
  <2>q. PICK q : q = proc[p]
    OBVIOUS
  <2>s. PICK s \in {"end", "unlink"} : s = IF OwnTenure(proc[p]) THEN "end" ELSE "unlink"
    OBVIOUS
  <2>1. q \in HandlerType /\ e = [q EXCEPT !.pc = s, !.seen = tenures]
    BY <1>1, <1>e, <2>q, <2>s
  <2>2. /\ e \in HandlerType /\ e.pc = s /\ e.seen = tenures /\ e.tenure = q.tenure /\ e.sub = q.sub
        /\ e.change = q.change /\ e.row = q.row /\ e.org = q.org
    BY <1>1, <2>1 DEF HandlerType, Points, Reconciling
  <2>3. s = "end" <=> active[row[k].org].n = proc[p].sub
    BY <1>1, <2>s DEF OwnTenure
  <2> QED BY <1>1, <1>k, <2>q, <2>s, <2>2, <2>3
<1>3. tenures' = tenures /\ tenures' \in Nat /\ tenures <= tenures' /\ active' = active /\ row' = row
  BY <1>1
<1>4. TenuresApart'
  BY <1>0, <1>1, <1>2, <1>3, TenuresKept
<1>5. PlanFollows'
  <2> SUFFICES ASSUME ~collided, ~cut, Len(row) <= 1 PROVE PlanFollows'
    BY <1>1 DEF PlanFollows, storeHistory
  <2>1. OnRow(p, k)
    BY <1>1, <1>k DEF OnRow, Reconciling
  <2>2. (\A i \in DOMAIN row : i = k) /\ (\A x \in Handlers : OnRow(x, k) <=> x = p) /\ Reconciles(p, k)
    BY <1>0, <1>1, <2>1, OneRow DEF PlanFollows
  <2>3. ~Entitled(row[k].status) /\ proc[p].sub = row[k].sub
    BY <1>1, <2>2 DEF Reconciles
  <2>4. proc'[p] = e /\ \A x \in Handlers \ {p} : proc'[x] = proc[x]
    BY <1>0, <1>1, <1>2, HandlerSet
  <2>5. \A x \in Handlers : OnRow(x, k)' <=> x = p
    BY <1>2, <2>2, <2>4 DEF OnRow, Reconciling
  <2>6. \A o \in Orgs : active[o].by = "store" => row[k].org = o /\ row[k].sub = active[o].n
    BY <1>0, <1>1, <2>2 DEF PlanFollows
  <2>7. row[k].sub # 0 => active[row[k].org].n = row[k].sub \/ overridden
    BY <1>0, <1>1, <2>2 DEF PlanFollows
  <2>8. Reconciles(p, k)'
    BY <1>1, <1>2, <1>3, <2>3, <2>4, <2>6 DEF Reconciles
  <2> QED BY <1>1, <1>3, <2>2, <2>5, <2>6, <2>7, <2>8 DEF PlanFollows, storeHistory
<1>6. active' \in [Orgs -> [by : {"nobody", "store", "operator"}, n : Nat]] /\ row' \in Seq(RowUpTo(tenures'))
  BY <1>0, <1>1, <1>3, TypesMean
<1>7. proc[p].pc \in Reconciling /\ e.pc \in Reconciling /\ UNCHANGED <<environment, recorded, acts, storeHistory>>
  BY <1>1, <1>2 DEF Reconciling
<1> QED BY <1>1, <1>2, <1>3, <1>4, <1>5, <1>6, <1>7, <1>k, ReconcilingStep

(* The plan in force is ended; the row is to be pointed at nothing. *)
LEMMA EndStep ==
  ASSUME StoreInv, NEW p \in Handlers, End(p)
  PROVE  StoreInv'
<1>k. PICK k : k = proc[p].row
  OBVIOUS
<1>e. PICK e : e = [proc[p] EXCEPT !.pc = "unlink"]
  OBVIOUS
<1>0. StoreTypeOK /\ Knows(p) /\ TenuresApart /\ OneAtATime /\ PlanFollows
  BY DEF StoreInv
<1>1. /\ tenures \in Nat /\ proc[p].pc = "end" /\ row \in Seq(RowUpTo(tenures))
      /\ proc[p] \in HandlerType /\ proc[p].tenure <= tenures /\ proc[p].seen <= tenures
      /\ k \in DOMAIN row /\ proc[p].org = row[k].org /\ row[k].org \in Orgs
      /\ UNCHANGED <<environment, recorded, row, tenures, acts, storeHistory>>
      /\ proc' = [proc EXCEPT ![p] = e]
      /\ active' = [active EXCEPT ![proc[p].org] = NoPlan]
  BY <1>0, <1>e, <1>k, TypesMean, Shapes DEF End, Knows, Reconciling, TenuresApart
<1>2. /\ e \in HandlerType /\ e.seen = proc[p].seen /\ e.sub = proc[p].sub /\ e.tenure = proc[p].tenure
      /\ e.change = proc[p].change /\ e.row = k /\ e.org = row[k].org /\ e.pc = "unlink"
  <2>q. PICK q : q = proc[p]
    OBVIOUS
  <2>1. q \in HandlerType /\ e = [q EXCEPT !.pc = "unlink"]
    BY <1>1, <1>e, <2>q
  <2>2. /\ e \in HandlerType /\ e.pc = "unlink" /\ e.seen = q.seen /\ e.tenure = q.tenure /\ e.sub = q.sub
        /\ e.change = q.change /\ e.row = q.row /\ e.org = q.org
    BY <2>1 DEF HandlerType, Points, Reconciling
  <2> QED BY <1>1, <1>k, <2>q, <2>2
<1>3. tenures' = tenures /\ tenures' \in Nat /\ tenures <= tenures' /\ row' = row
  BY <1>1
<1>4. /\ active'[row[k].org] = NoPlan /\ \A o \in Orgs \ {row[k].org} : active'[o] = active[o]
      /\ active' \in [Orgs -> [by : {"nobody", "store", "operator"}, n : Nat]]
  BY <1>0, <1>1, TypesMean DEF NoPlan
<1>5. TenuresApart'
  <2>1. \A o \in Orgs : active'[o] = active[o] \/ active'[o] = NoPlan
    BY <1>4
  <2> QED BY <1>0, <1>1, <1>2, <1>3, <2>1, TenuresKept
<1>6. PlanFollows'
  <2> SUFFICES ASSUME ~collided, ~cut, Len(row) <= 1 PROVE PlanFollows'
    BY <1>1 DEF PlanFollows, storeHistory
  <2>1. OnRow(p, k)
    BY <1>1, <1>k DEF OnRow, Reconciling
  <2>2. (\A i \in DOMAIN row : i = k) /\ (\A x \in Handlers : OnRow(x, k) <=> x = p) /\ Reconciles(p, k)
    BY <1>0, <1>1, <2>1, OneRow DEF PlanFollows
  <2>3. ~Entitled(row[k].status) /\ proc[p].sub = row[k].sub
    BY <1>1, <2>2 DEF Reconciles
  <2>4. proc'[p] = e /\ \A x \in Handlers \ {p} : proc'[x] = proc[x]
    BY <1>0, <1>1, <1>2, HandlerSet
  <2>5. \A x \in Handlers : OnRow(x, k)' <=> x = p
    BY <1>2, <2>2, <2>4 DEF OnRow, Reconciling
  <2>6. \A o \in Orgs : active'[o].by # "store"
    BY <1>0, <1>1, <1>4, <2>2 DEF PlanFollows, NoPlan
  <2>7. Reconciles(p, k)'
    BY <1>1, <1>2, <1>3, <2>3, <2>4, <2>6 DEF Reconciles
  <2>8. \E x \in Handlers : OnRow(x, k)' /\ proc'[x].pc = "unlink"
    BY <1>2, <2>4, <2>5
  <2> QED BY <1>1, <1>3, <2>2, <2>5, <2>6, <2>7, <2>8 DEF PlanFollows, storeHistory
<1>7. row' \in Seq(RowUpTo(tenures'))
  BY <1>1, <1>3
<1>8. proc[p].pc \in Reconciling /\ e.pc \in Reconciling /\ UNCHANGED <<environment, recorded, acts, storeHistory>>
  BY <1>1, <1>2 DEF Reconciling
<1> QED BY <1>1, <1>2, <1>3, <1>4, <1>5, <1>6, <1>7, <1>8, <1>k, ReconcilingStep

(* The row points at nothing. *)
LEMMA UnlinkStep ==
  ASSUME StoreInv, NEW p \in Handlers, Unlink(p)
  PROVE  StoreInv'
<1>k. PICK k : k = proc[p].row
  OBVIOUS
<1>e. PICK e : e = Through(proc[p])
  OBVIOUS
<1>m. PICK m : m = [row[k] EXCEPT !.sub = 0]
  OBVIOUS
<1>0. StoreTypeOK /\ Knows(p) /\ TenuresApart /\ OneAtATime /\ PlanFollows
  BY DEF StoreInv
<1>1. /\ tenures \in Nat /\ proc[p].pc = "unlink" /\ row \in Seq(RowUpTo(tenures))
      /\ proc[p] \in HandlerType
      /\ k \in DOMAIN row /\ row[k].org \in Orgs /\ row[k] \in RowUpTo(tenures)
      /\ UNCHANGED <<environment, recorded, active, tenures, acts, storeHistory>>
      /\ proc' = [proc EXCEPT ![p] = e]
  BY <1>0, <1>e, <1>k, TypesMean, RowsMean DEF Unlink, Knows, Reconciling
<1>2. row' = [row EXCEPT ![k] = m]
  BY <1>1, <1>k, <1>m DEF Unlink, Unpointed
<1>3. m \in RowUpTo(tenures) /\ m.sub = 0 /\ m.org = row[k].org /\ m.ref = row[k].ref /\ m.status = row[k].status
  <2>r. PICK r : r = row[k]
    OBVIOUS
  <2>1. r \in RowUpTo(tenures) /\ 0 \in 0 .. tenures /\ m = [r EXCEPT !.sub = 0]
    BY <1>1, <1>m, <2>r
  <2>2. m \in RowUpTo(tenures) /\ m.sub = 0 /\ m.org = r.org /\ m.ref = r.ref /\ m.status = r.status
    BY <2>1 DEF RowUpTo
  <2> QED BY <2>r, <2>2
<1>4. e \in HandlerType /\ e.sub = 0 /\ e.tenure = 0 /\ e.seen = 0 /\ e.pc \in {"idle", "record"}
  BY <1>1, <1>e, ThroughMeans
<1>5. /\ row' \in Seq(RowUpTo(tenures)) /\ Len(row') = Len(row) /\ DOMAIN row' = DOMAIN row
      /\ row'[k] = m /\ \A j \in DOMAIN row \ {k} : row'[j] = row[j]
  BY <1>1, <1>2, <1>3, RowWritten
<1>6. TenuresApart'
  <2>1. tenures' = tenures /\ tenures' \in Nat /\ tenures <= tenures' /\ active' = active
    BY <1>1
  <2>2. \A i \in DOMAIN row' : (row'[i].sub = row[i].sub /\ i \in DOMAIN row) \/ row'[i].sub = 0
    BY <1>3, <1>5
  <2>3. e.seen <= tenures' /\ e.tenure <= tenures' /\ e.pc \notin {"link", "check", "end"}
    BY <1>4, <2>1
  <2> QED BY <1>0, <1>1, <1>4, <2>1, <2>2, <2>3, TenuresKept
<1>7. PlanFollows'
  <2> SUFFICES ASSUME ~collided, ~cut, Len(row) <= 1 PROVE PlanFollows'
    BY <1>1, <1>5 DEF PlanFollows, storeHistory
  <2>1. OnRow(p, k)
    BY <1>1, <1>k DEF OnRow, Reconciling
  <2>2. (\A i \in DOMAIN row : i = k) /\ (\A x \in Handlers : OnRow(x, k) <=> x = p) /\ Reconciles(p, k)
    BY <1>0, <1>1, <2>1, OneRow DEF PlanFollows
  <2>3. ~Entitled(row[k].status) /\ active[row[k].org].by # "store"
    BY <1>1, <2>2 DEF Reconciles
  <2>4. proc'[p] = e /\ \A x \in Handlers \ {p} : proc'[x] = proc[x]
    BY <1>0, <1>1, <1>4, HandlerSet
  <2>5. \A x \in Handlers : ~OnRow(x, k)'
    BY <1>4, <2>2, <2>4 DEF OnRow, Reconciling
  <2>6. Agrees(k)' /\ row'[k].sub = 0
    BY <1>3, <1>5, <2>3 DEF Agrees, Entitled
  <2>7. \A o \in Orgs : active[o].by # "store"
    BY <1>0, <2>2, <2>3 DEF PlanFollows
  <2> QED BY <1>1, <1>5, <2>2, <2>5, <2>6, <2>7 DEF PlanFollows
<1>8. \A i \in DOMAIN row : row'[i].ref = row[i].ref /\ row'[i].org = row[i].org /\ row'[i].status = row[i].status
  BY <1>3, <1>5
<1>9. active' \in [Orgs -> [by : {"nobody", "store", "operator"}, n : Nat]] /\ tenures' = tenures
  BY <1>0, <1>1, TypesMean
<1> QED BY <1>1, <1>4, <1>5, <1>6, <1>7, <1>8, <1>9, ReconcilingStep, <1>e DEF Reconciling

-----------------------------------------------------------------------------
(* The steps as far as the row.                                            *)

(* Every handler knows what its point says it knows. *)
KnowsAll == \A p \in Handlers : Knows(p)

(* All that was told is in the rows. *)
CaughtUp ==
  ~overtaken /\ AllApplied =>
    /\ latest = Len(told) /\ \A i \in DOMAIN row : row[i].ref = Current.ref
    /\ \A i, j \in DOMAIN row : i = j

(* Where every delivery is applied and none out of order, the latest change *)
(* has been acted on, and one row at most is left, by the reference of it.  *)
LEMMA RowsCaughtUp == StoreTypeOK /\ ToldInOrder /\ KnowsAll /\ RowsKnown /\ LinksFollowed => CaughtUp
<1> SUFFICES ASSUME StoreTypeOK, ToldInOrder, \A p \in Handlers : Knows(p), RowsKnown, LinksFollowed,
                    ~overtaken, AllApplied
             PROVE  /\ latest = Len(told) /\ \A i \in DOMAIN row : row[i].ref = Current.ref
                    /\ \A i, j \in DOMAIN row : i = j
  BY DEF CaughtUp, KnowsAll
<1>1. /\ Len(told) \in Nat /\ Len(told) > 0 /\ DOMAIN told = 1 .. Len(told)
      /\ \A v \in DOMAIN told : told[v].ref \in Nat /\ told[v].ref > 0
      /\ \A i \in DOMAIN row : row[i].ref \in Nat /\ row[i].ref > 0
  BY Shapes DEF ToldInOrder
<1>2. latest = Len(told)
  <2>n. PICK n : n = Len(told)
    OBVIOUS
  <2>0. n \in Nat /\ n \in DOMAIN told /\ n # 0 /\ latest \in 0 .. n
    BY <1>1, <2>n DEF RowsKnown
  <2>1. Applied(n)
    BY <2>0 DEF AllApplied
  <2>2. ASSUME n \in recorded PROVE n <= latest
    BY <2>2 DEF RowsKnown
  <2>3. ASSUME NEW p \in Handlers, proc[p].change = n, proc[p].pc \in Reconciling \cup {"record"} PROVE latest >= n
    BY <2>0, <2>3 DEF Knows
  <2> QED BY <2>n, <2>0, <2>1, <2>2, <2>3 DEF Applied
<1>3. LatestRef = Current.ref
  BY <1>1, <1>2 DEF LatestRef, Current
<1>4. ASSUME NEW i \in DOMAIN row PROVE row[i].ref = Current.ref
  <2> SUFFICES ASSUME row[i].ref # Current.ref PROVE FALSE
    OBVIOUS
  <2>1. row[i].ref + 1 \in 1 .. Current.ref
    BY <1>1, <1>3 DEF RowsKnown, Current
  <2>2. PICK v \in DOMAIN told : told[v].ref = row[i].ref + 1 /\ told[v].status # "revoked"
    BY <2>1 DEF ToldInOrder
  <2>3. Linked(v)
    BY DEF AllApplied, Linked
  <2>4. row[i].ref # told[v].ref - 1
    BY <2>2, <2>3 DEF LinksFollowed
  <2> QED BY <1>1, <2>2, <2>4
<1>5. \A i, j \in DOMAIN row : i = j
  BY <1>4 DEF StoreTypeOK
<1> QED BY <1>2, <1>4, <1>5

(* What follows for the record of the latest change. *)
LEMMA ActsOnMeans ==
  ASSUME StoreInv, NEW p \in Handlers, proc[p].pc \in Working, told' = told,
         ActsOn(proc[p]) \/ UNCHANGED <<latest, overtaken>>
  PROVE  /\ latest \in Nat /\ latest' \in 0 .. Len(told) /\ latest <= latest' /\ overtaken' \in BOOLEAN
         /\ LatestRef \in Nat /\ LatestRef' \in Nat /\ LatestRef <= LatestRef'
         /\ ~overtaken' => ~overtaken
         /\ ActsOn(proc[p]) => /\ latest' >= proc[p].ver /\ LatestRef' >= proc[p].ref
                               /\ ~overtaken' => /\ latest' = proc[p].ver /\ LatestRef <= proc[p].ref
                                                 /\ latest <= proc[p].ver
<1> DEFINE Ref(n) == IF n = 0 THEN 0 ELSE told[n].ref
<1>v. PICK v : v = proc[p].ver
  OBVIOUS
<1>0. StoreTypeOK /\ ToldInOrder /\ Knows(p) /\ RowsKnown /\ overtaken \in BOOLEAN
  BY DEF StoreInv, StoreTypeOK
<1>1. /\ Len(told) \in Nat /\ DOMAIN told = 1 .. Len(told) /\ latest \in 0 .. Len(told)
      /\ v \in 1 .. Len(told) /\ told[v].ref = proc[p].ref
      /\ \A w \in DOMAIN told : told[w].ref \in Nat /\ told[w].ref > 0
  BY <1>0, <1>v, Shapes DEF RowsKnown, Knows
<1>2. \A n \in 0 .. Len(told) : Ref(n) \in Nat
  BY <1>1
<1>3. \A n, m \in 0 .. Len(told) : n <= m => Ref(n) <= Ref(m)
  <2> SUFFICES ASSUME NEW n \in 0 .. Len(told), NEW m \in 0 .. Len(told), n <= m PROVE Ref(n) <= Ref(m)
    OBVIOUS
  <2>1. CASE n = 0
    BY <1>2, <2>1
  <2>2. CASE n # 0
    BY <1>0, <1>1, <2>2 DEF ToldInOrder
  <2> QED BY <2>1, <2>2
<1>4. LatestRef = Ref(latest) /\ LatestRef' = Ref(latest') /\ Ref(v) = proc[p].ref
  BY <1>1 DEF LatestRef
<1> HIDE DEF Ref
<1>5. CASE ActsOn(proc[p])
  <2>1. /\ latest' = (IF v > latest THEN v ELSE latest)
        /\ overtaken' = (overtaken \/ v < latest)
    BY <1>5, <1>v DEF ActsOn
  <2>2. latest' \in 0 .. Len(told) /\ latest <= latest' /\ latest' >= v
    BY <1>1, <2>1
  <2>3. overtaken' \in BOOLEAN /\ (~overtaken' => ~overtaken /\ ~(v < latest))
    BY <1>0, <2>1
  <2>4. ~overtaken' => latest <= v /\ latest' = v
    BY <1>1, <2>1, <2>3
  <2> QED BY <1>1, <1>2, <1>3, <1>4, <1>v, <2>2, <2>3, <2>4
<1>6. CASE ~ActsOn(proc[p])
  BY <1>0, <1>1, <1>2, <1>3, <1>4, <1>6
<1> QED BY <1>5, <1>6

(* A row that is written or moved bears the reference of a change no       *)
(* earlier than those whose links were followed. *)
LEMMA LinksKept ==
  ASSUME StoreInv, NEW p \in Handlers, proc[p].pc \in Working, told' = told,
         ActsOn(proc[p]) \/ UNCHANGED <<latest, overtaken>>,
         \A i \in DOMAIN row' : \/ i \in DOMAIN row /\ row'[i].ref = row[i].ref
                                \/ ActsOn(proc[p]) /\ row'[i].ref = proc[p].ref,
         \A v \in DOMAIN told : told[v].status # "revoked" /\ Linked(v)' =>
           \/ Linked(v)
           \/ /\ ActsOn(proc[p]) /\ told[v].ref = proc[p].ref
              /\ \A i \in DOMAIN row' : row'[i].ref # proc[p].ref - 1
  PROVE  LinksFollowed' /\ (\A i \in DOMAIN row' : row'[i].ref <= LatestRef')
<1>0. StoreTypeOK /\ LinksFollowed /\ RowsKnown /\ Knows(p)
  BY DEF StoreInv
<1>1. /\ LatestRef \in Nat /\ LatestRef' \in Nat /\ LatestRef <= LatestRef' /\ (~overtaken' => ~overtaken)
      /\ ActsOn(proc[p]) => LatestRef' >= proc[p].ref /\ (~overtaken' => LatestRef <= proc[p].ref)
  BY ActsOnMeans
<1>2. /\ \A v \in DOMAIN told : told[v].ref \in Nat /\ told[v].ref > 0
      /\ \A i \in DOMAIN row : row[i].ref \in Nat
      /\ proc[p].ref \in Nat
  BY <1>0, Shapes, TypesMean
<1>3. \A i \in DOMAIN row' : row'[i].ref <= LatestRef'
  BY <1>0, <1>1, <1>2 DEF RowsKnown
<1>4. ASSUME ~overtaken', NEW v \in DOMAIN told, told[v].status # "revoked", Linked(v)'
      PROVE  /\ told[v].ref > 1 => LatestRef' >= told[v].ref
             /\ \A i \in DOMAIN row' : row'[i].ref # told[v].ref - 1
  <2>1. CASE Linked(v)
    <3>1. /\ told[v].ref > 1 => LatestRef >= told[v].ref
          /\ \A i \in DOMAIN row : row[i].ref # told[v].ref - 1
      BY <1>0, <1>1, <1>4, <2>1 DEF LinksFollowed
    <3>2. told[v].ref > 1 => LatestRef' >= told[v].ref
      BY <1>1, <1>2, <3>1
    <3>3. ASSUME NEW i \in DOMAIN row', row'[i].ref = told[v].ref - 1 PROVE FALSE
      <4>1. ActsOn(proc[p]) /\ row'[i].ref = proc[p].ref
        BY <3>1, <3>3
      <4>2. proc[p].ref > 0
        BY <1>0, <1>2 DEF Knows
      <4> QED BY <1>1, <1>2, <1>4, <3>1, <3>3, <4>1, <4>2
    <3> QED BY <3>2, <3>3
  <2>2. CASE ~Linked(v)
    BY <1>1, <1>2, <1>4, <2>2
  <2> QED BY <2>1, <2>2
<1> QED BY <1>3, <1>4 DEF LinksFollowed

(* No claim that looks for its row has left one behind. *)
LEMMA NoneBehindKept ==
  ASSUME StoreInv, NEW p \in Handlers, NEW e \in HandlerType, proc' = [proc EXCEPT ![p] = e],
         proc[p].pc \in Working, told' = told,
         ActsOn(proc[p]) \/ UNCHANGED <<latest, overtaken>>, skipped => skipped',
         \A i \in DOMAIN row' : \/ i \in DOMAIN row /\ row'[i].ref = row[i].ref
                                \/ ActsOn(proc[p]) /\ row'[i].ref = proc[p].ref,
         ~overtaken' /\ ~skipped' => Len(row') <= 1,
         e.change = 0 /\ e.pc \in {"find", "insert"} /\ ~overtaken' /\ ~skipped' =>
           /\ e.ref > 1 => latest' >= e.ver
           /\ \A i \in DOMAIN row' : row'[i].ref >= e.ref
  PROVE  NoneBehind'
<1>0. StoreTypeOK /\ ToldInOrder /\ NoneBehind /\ Knows(p)
  BY DEF StoreInv
<1>1. /\ latest \in Nat /\ latest' \in Nat /\ latest <= latest' /\ (~overtaken' => ~overtaken)
      /\ ActsOn(proc[p]) => (~overtaken' => latest <= proc[p].ver)
  BY ActsOnMeans, Shapes, <1>0
<1>2. proc'[p] = e /\ \A x \in Handlers \ {p} : proc'[x] = proc[x]
  BY <1>0, HandlerSet
<1>3. ASSUME ~overtaken', ~skipped', NEW x \in Handlers, proc'[x].change = 0, proc'[x].pc \in {"find", "insert"}
      PROVE  /\ proc'[x].ref > 1 => latest' >= proc'[x].ver
             /\ \A i \in DOMAIN row' : row'[i].ref >= proc'[x].ref
  <2>1. CASE x = p
    BY <1>2, <1>3, <2>1
  <2>2. CASE x # p
    <3>1. /\ proc'[x] = proc[x] /\ proc[x].ref \in Nat /\ proc[x].ver \in Nat
          /\ proc[x].ver \in DOMAIN told /\ told[proc[x].ver].ref = proc[x].ref
      <4>1. Knows(x) /\ proc[x].pc \in Working
        BY <1>2, <1>3, <2>2 DEF StoreInv, Working
      <4> QED BY <1>0, <1>2, <2>2, <4>1, TypesMean DEF Knows
    <3>2. /\ proc[x].ref > 1 => latest >= proc[x].ver
          /\ \A i \in DOMAIN row : row[i].ref >= proc[x].ref
      BY <1>0, <1>1, <1>3, <3>1 DEF NoneBehind
    <3>3. proc[x].ref > 1 => latest' >= proc[x].ver
      BY <1>1, <3>1, <3>2
    <3>4. ASSUME ActsOn(proc[p]) PROVE proc[p].ref >= proc[x].ref
      <4>1. /\ proc[p].ver \in DOMAIN told /\ told[proc[p].ver].ref = proc[p].ref /\ proc[p].ver \in Nat
            /\ proc[p].ref \in Nat /\ proc[p].ref > 0
        BY <1>0, TypesMean, Shapes DEF Knows
      <4>2. CASE proc[x].ref > 1
        <5>1. proc[x].ver <= proc[p].ver
          BY <1>1, <1>3, <3>1, <3>2, <3>4, <4>1, <4>2
        <5> QED BY <1>0, <3>1, <4>1, <5>1 DEF ToldInOrder
      <4>3. CASE ~(proc[x].ref > 1)
        BY <3>1, <4>1, <4>3
      <4> QED BY <4>2, <4>3
    <3> QED BY <3>1, <3>2, <3>3, <3>4
  <2> QED BY <2>1, <2>2
<1> QED BY <1>3 DEF NoneBehind

(* What every step of a working handler keeps. *)
LEMMA WorkTypes ==
  ASSUME StoreInv, NEW p \in Handlers, NEW e \in HandlerType, proc' = [proc EXCEPT ![p] = e],
         proc[p].pc \in Working,
         ActsOn(proc[p]) \/ UNCHANGED <<latest, overtaken>>,
         UNCHANGED <<environment, recorded, active, tenures, acts, cut, overridden>>,
         skipped' \in BOOLEAN, collided' \in BOOLEAN,
         row' \in Seq(RowUpTo(tenures)), \A i, j \in DOMAIN row' : row'[i].ref = row'[j].ref => i = j,
         \A i \in DOMAIN row : i \in DOMAIN row' /\ row'[i].org = row[i].org,
         \A i \in DOMAIN row' : row'[i].ref <= LatestRef',
         Knows(p)'
  PROVE  StoreTypeOK' /\ ToldInOrder' /\ (\A x \in Handlers : Knows(x)') /\ RowsKnown'
<1> USE DEF environment
<1>0. StoreTypeOK /\ ToldInOrder /\ (\A x \in Handlers : Knows(x)) /\ RowsKnown
  BY DEF StoreInv
<1>1. /\ latest \in Nat /\ latest' \in 0 .. Len(told) /\ latest <= latest' /\ overtaken' \in BOOLEAN
  BY ActsOnMeans
<1>2. /\ proc' \in [Handlers -> HandlerType] /\ \A x \in Handlers \ {p} : proc'[x] = proc[x]
  BY <1>0, HandlerSet
<1>3. StoreTypeOK'
  <2>1. latest' \in Nat
    BY <1>0, <1>1, Shapes
  <2> QED BY <1>0, <1>1, <1>2, <2>1 DEF StoreTypeOK, RowUpTo, HandlerType, Points
<1>4. ToldInOrder'
  BY <1>0 DEF ToldInOrder, Current
<1>5. ASSUME NEW x \in Handlers, x # p PROVE Knows(x)'
  <2>1. Knows(x) /\ proc'[x] = proc[x] /\ proc[x].change \in Nat
    BY <1>0, <1>2, <1>5, TypesMean
  <2>2. proc[x].change # 0 /\ proc[x].pc \in Reconciling \cup {"record"} => latest' >= proc[x].change
    BY <1>1, <2>1 DEF Knows
  <2> QED BY <2>1, <2>2 DEF Knows, Current
<1>6. \A v \in recorded' : v <= latest'
  BY <1>0, <1>1, Shapes DEF RowsKnown, StoreTypeOK
<1>7. RowsKnown'
  BY <1>1, <1>6 DEF RowsKnown
<1> QED BY <1>3, <1>4, <1>5, <1>7

(* A handler that goes on without writing a row's status: what it leaves   *)
(* applied had no row to be written. *)
LEMMA MoveStep ==
  ASSUME StoreInv, NEW p \in Handlers, NEW e \in HandlerType, proc' = [proc EXCEPT ![p] = e],
         proc[p].pc \in Working,
         ActsOn(proc[p]) \/ UNCHANGED <<latest, overtaken>>,
         UNCHANGED <<environment, recorded, active, tenures, acts, collided, cut, overridden>>,
         skipped' \in BOOLEAN, skipped => skipped',
         row' \in Seq(RowUpTo(tenures)), \A i, j \in DOMAIN row' : row'[i].ref = row'[j].ref => i = j,
         DOMAIN row' = DOMAIN row, Len(row') = Len(row),
         \A i \in DOMAIN row : /\ row'[i].org = row[i].org /\ row'[i].status = row[i].status
                               /\ row'[i].sub = row[i].sub
                               /\ \/ row'[i].ref = row[i].ref
                                  \/ ActsOn(proc[p]) /\ row'[i].ref = proc[p].ref,
         e.pc \notin Reconciling, e.sub = 0 \/ e.sub = proc[p].sub, e.seen <= tenures, e.tenure <= tenures,
         e.pc = "record" => /\ row' = row /\ RowsAt(proc[p].ref) = {} /\ ActsOn(proc[p])
                            /\ e.change = proc[p].change
                            /\ told[e.change].status = "revoked" \/ proc[p].pc = "update",
         e.pc = "update" /\ e.change # 0 =>
           /\ ActsOn(proc[p]) /\ told[e.change].ref = proc[p].ref
           /\ \A i \in DOMAIN row' : row'[i].ref # proc[p].ref - 1,
         e.change = 0 /\ e.pc \in {"find", "insert"} /\ ~overtaken' /\ ~skipped' =>
           /\ e.ref > 1 => latest' >= e.ver
           /\ \A i \in DOMAIN row' : row'[i].ref >= e.ref,
         Knows(p)'
  PROVE  StoreInv'
<1> USE DEF environment
<1>0. /\ StoreTypeOK /\ ToldInOrder /\ (\A x \in Handlers : Knows(x)) /\ RowsKnown /\ NoneBehind
      /\ LinksFollowed /\ RowsFit /\ TenuresApart /\ OneAtATime /\ PlanFollows
  BY DEF StoreInv
<1>1. /\ proc' \in [Handlers -> HandlerType] /\ proc'[p] = e
      /\ \A x \in Handlers \ {p} : proc'[x] = proc[x]
  BY <1>0, HandlerSet
<1>2. proc[p].pc \notin Reconciling /\ proc[p].pc \notin {"record", "idle"}
  BY DEF Working, Reconciling
<1>3. \A v \in DOMAIN told : v # 0
  BY <1>0, Shapes
<1>4. ASSUME NEW v \in DOMAIN told
      PROVE  /\ Applied(v) => Applied(v)'
             /\ Applied(v)' => Applied(v) \/ (e.pc = "record" /\ e.change = v)
  BY <1>1, <1>2 DEF Applied
<1>5. LinksFollowed' /\ (\A i \in DOMAIN row' : row'[i].ref <= LatestRef')
  <2>1. ASSUME NEW v \in DOMAIN told, told[v].status # "revoked", Linked(v)'
        PROVE  \/ Linked(v)
               \/ /\ ActsOn(proc[p]) /\ told[v].ref = proc[p].ref
                  /\ \A i \in DOMAIN row' : row'[i].ref # proc[p].ref - 1
    <3>1. CASE Applied(v)'
      BY <1>4, <2>1, <3>1 DEF Linked
    <3>2. CASE e.pc = "update" /\ e.change = v
      BY <1>3, <3>2
    <3>3. CASE \E x \in Handlers \ {p} : proc[x].change = v /\ proc[x].pc = "update"
      BY <3>3 DEF Linked
    <3> QED BY <1>1, <2>1, <3>1, <3>2, <3>3 DEF Linked
  <2> QED BY <2>1, LinksKept
<1>6. StoreTypeOK' /\ ToldInOrder' /\ (\A x \in Handlers : Knows(x)') /\ RowsKnown'
  <2>1. collided' \in BOOLEAN
    BY <1>0 DEF StoreTypeOK
  <2> QED BY <1>5, <2>1, WorkTypes
<1>7. NoneBehind'
  <2>1. ~overtaken' /\ ~skipped' => Len(row') <= 1
    BY <1>0, ActsOnMeans DEF NoneBehind
  <2> QED BY <2>1, NoneBehindKept
<1>8. ~overtaken' => ~overtaken
  BY ActsOnMeans
<1>9. ASSUME ~overtaken', AllApplied', ~AllApplied PROVE DOMAIN row = {}
  <2>1. e.pc = "record"
    BY <1>4, <1>9 DEF AllApplied
  <2>2. /\ latest' = Len(told') /\ \A i \in DOMAIN row' : row'[i].ref = Current'.ref
    <3>1. KnowsAll'
      BY <1>6 DEF KnowsAll
    <3>2. CaughtUp'
      BY <1>5, <1>6, <3>1, RowsCaughtUp, PTL
    <3> QED BY <1>9, <3>2 DEF CaughtUp
  <2>3. latest' = proc[p].ver /\ told[proc[p].ver].ref = proc[p].ref
    BY <1>0, <1>9, <2>1, ActsOnMeans DEF Knows
  <2>4. Current'.ref = proc[p].ref
    BY <2>2, <2>3 DEF Current
  <2> QED BY <2>1, <2>2, <2>4 DEF RowsAt
<1>10. RowsFit'
  <2>1. CASE DOMAIN row = {}
    BY <2>1 DEF RowsFit
  <2>2. CASE ~overtaken' /\ AllApplied' => AllApplied
    BY <1>0, <1>8, <2>2 DEF RowsFit, Current
  <2> QED BY <1>9, <2>1, <2>2
<1>11. TenuresApart'
  <2>1. tenures' \in Nat /\ tenures' = tenures /\ tenures <= tenures' /\ active' = active
    BY <1>0, TypesMean
  <2>2. e.pc \notin {"link", "check", "end"}
    BY DEF Reconciling
  <2> QED BY <1>0, <2>1, <2>2, TenuresKept
<1>12. \A i : \A x \in Handlers : /\ OnRow(x, i)' <=> OnRow(x, i)
                                  /\ OnRow(x, i) => proc'[x] = proc[x]
  BY <1>1, <1>2 DEF OnRow
<1>13. OneAtATime'
  BY <1>0, <1>12 DEF OneAtATime
<1>14. PlanFollows'
  <2> SUFFICES ASSUME ~collided, ~cut, Len(row) <= 1 PROVE PlanFollows'
    BY DEF PlanFollows
  <2>1. ASSUME NEW x \in Handlers, NEW i \in DOMAIN row, OnRow(x, i)' PROVE Reconciles(x, i)'
    BY <1>0, <1>12, <2>1 DEF PlanFollows, Reconciles
  <2>2. ASSUME NEW i \in DOMAIN row, row[i].sub # 0
        PROVE  \/ active[row[i].org].n = row[i].sub \/ overridden
               \/ \E x \in Handlers : OnRow(x, i)' /\ proc'[x].pc = "unlink"
    BY <1>0, <1>12, <2>2 DEF PlanFollows
  <2>3. ASSUME NEW i \in DOMAIN row, ~overtaken', AllApplied' PROVE Agrees(i)' \/ \E x \in Handlers : OnRow(x, i)'
    BY <1>0, <1>8, <1>9, <1>12, <2>3 DEF PlanFollows, Agrees
  <2>4. ASSUME NEW o \in Orgs, active[o].by = "store"
        PROVE  \E i \in DOMAIN row :
                 /\ row[i].org = o
                 /\ \/ row[i].sub = active[o].n
                    \/ \E x \in Handlers : OnRow(x, i)' /\ proc'[x].pc = "link" /\ proc'[x].tenure = active[o].n
    BY <1>0, <1>12, <2>4 DEF PlanFollows
  <2> QED BY <2>1, <2>2, <2>3, <2>4 DEF PlanFollows
<1> QED BY <1>5, <1>6, <1>7, <1>10, <1>11, <1>13, <1>14 DEF StoreInv

(* The row of the token that was replaced is known by the new one. *)
LEMMA RekeyStep ==
  ASSUME StoreInv, NEW p \in Handlers, Rekey(p)
  PROVE  StoreInv'
<1>r. PICK r : r = proc[p].ref
  OBVIOUS
<1>e. PICK e : e = [proc[p] EXCEPT !.pc = IF IsClaim(proc[p]) THEN "find" ELSE "update"]
  OBVIOUS
<1>0. StoreTypeOK /\ Knows(p) /\ TenuresApart
  BY DEF StoreInv
<1>1. /\ proc[p].pc = "rekey" /\ proc[p].pc \in Working /\ proc[p] \in HandlerType
      /\ r \in Nat /\ r > 1 /\ Supersedes(r) = r - 1
      /\ tenures \in Nat /\ row \in Seq(RowUpTo(tenures))
      /\ UNCHANGED <<environment, active, tenures, acts, collided, cut, overridden>>
  BY <1>0, <1>r, TypesMean DEF Rekey, Knows, Working, Supersedes
<1>2. CASE RowsAt(r - 1) # {} /\ Taken(r)
  <2>1. Errs(p) /\ UNCHANGED <<row, latest, overtaken, skipped>>
    BY <1>1, <1>2, <1>r DEF Rekey
  <2>2. proc' = [proc EXCEPT ![p] = AtRest] /\ recorded' = recorded
    BY <2>1 DEF Errs, AfterError
  <2> QED BY <1>1, <2>1, <2>2, ErrsStep DEF storeHistory
<1>3. CASE ~(RowsAt(r - 1) # {} /\ Taken(r))
  <2>1. /\ row' = [i \in DOMAIN row |-> IF i \in RowsAt(r - 1) THEN [row[i] EXCEPT !.ref = r] ELSE row[i]]
        /\ proc' = [proc EXCEPT ![p] = e]
        /\ skipped' = (skipped \/ \E i \in DOMAIN row : row[i].ref < r - 1)
        /\ ActsOn(proc[p]) /\ recorded' = recorded
    BY <1>1, <1>3, <1>e, <1>r DEF Rekey
  <2>2. /\ e \in HandlerType /\ e.pc \in {"find", "update"} /\ (e.pc = "find" <=> e.change = 0)
        /\ e.sub = proc[p].sub /\ e.seen = proc[p].seen /\ e.tenure = proc[p].tenure /\ e.change = proc[p].change
        /\ e.ref = r /\ e.ver = proc[p].ver /\ e.org = proc[p].org /\ e.status = proc[p].status
    <3>q. PICK q : q = proc[p]
      OBVIOUS
    <3>s. PICK s \in {"find", "update"} : s = IF IsClaim(proc[p]) THEN "find" ELSE "update"
      OBVIOUS
    <3>1. q \in HandlerType /\ e = [q EXCEPT !.pc = s] /\ (s = "find" <=> q.change = 0)
      BY <1>1, <1>e, <3>q, <3>s DEF IsClaim
    <3>2. /\ e \in HandlerType /\ e.pc = s /\ e.sub = q.sub /\ e.seen = q.seen /\ e.tenure = q.tenure
          /\ e.change = q.change /\ e.ref = q.ref /\ e.ver = q.ver /\ e.org = q.org /\ e.status = q.status
      BY <3>1 DEF HandlerType, Points
    <3> QED BY <1>r, <3>q, <3>s, <3>1, <3>2
  <2>3. /\ Len(row) \in Nat /\ DOMAIN row = 1 .. Len(row)
        /\ \A i \in DOMAIN row : row[i] \in RowUpTo(tenures) /\ row[i].ref \in Nat
    BY <1>1, RowsMean
  <2>4. ASSUME NEW i \in DOMAIN row
        PROVE  /\ row'[i] \in RowUpTo(tenures)
               /\ row'[i].org = row[i].org /\ row'[i].status = row[i].status /\ row'[i].sub = row[i].sub
               /\ row'[i].ref = IF row[i].ref = r - 1 THEN r ELSE row[i].ref
    <3>1. CASE row[i].ref = r - 1
      <4>m. PICK m : m = row[i]
        OBVIOUS
      <4>1. row'[i] = [m EXCEPT !.ref = r] /\ m \in RowUpTo(tenures) /\ r \in Nat \ {0}
        BY <1>1, <2>1, <2>3, <3>1, <4>m DEF RowsAt
      <4>2. /\ row'[i] \in RowUpTo(tenures) /\ row'[i].ref = r
            /\ row'[i].org = m.org /\ row'[i].status = m.status /\ row'[i].sub = m.sub
        BY <4>1 DEF RowUpTo
      <4> QED BY <3>1, <4>m, <4>2
    <3>2. CASE row[i].ref # r - 1
      BY <2>1, <2>3, <3>2 DEF RowsAt
    <3> QED BY <3>1, <3>2
  <2>5. row' \in Seq(RowUpTo(tenures)) /\ Len(row') = Len(row) /\ DOMAIN row' = DOMAIN row
    <3>1. row' \in [1 .. Len(row) -> RowUpTo(tenures)]
      BY <2>1, <2>3, <2>4
    <3>2. row' \in Seq(RowUpTo(tenures))
      BY <2>3, <3>1, SeqDef
    <3> QED BY <2>3, <3>1, <3>2, LenProperties
  <2>6. \A i, j \in DOMAIN row' : row'[i].ref = row'[j].ref => i = j
    <3> SUFFICES ASSUME NEW i \in DOMAIN row, NEW j \in DOMAIN row, row'[i].ref = row'[j].ref PROVE i = j
      BY <2>5
    <3>1. \A a, b \in DOMAIN row : row[a].ref = row[b].ref => a = b
      BY <1>0 DEF StoreTypeOK
    <3>2. CASE RowsAt(r - 1) = {}
      BY <2>4, <3>1, <3>2 DEF RowsAt
    <3>3. CASE ~Taken(r)
      BY <2>4, <3>1, <3>3 DEF Taken, RowsAt
    <3> QED BY <1>3, <3>2, <3>3
  <2>7. skipped' \in BOOLEAN /\ (skipped => skipped')
    BY <1>0, <2>1 DEF StoreTypeOK
  <2>8. Knows(p)'
    <3>1. proc'[p] = e
      BY <1>0, <2>1, <2>2, HandlerSet
    <3> QED BY <1>0, <1>1, <1>r, <2>2, <3>1 DEF Knows, Working, Reconciling, Current, environment
  <2>9. \A i \in DOMAIN row' : row'[i].ref # proc[p].ref - 1
    BY <1>1, <1>r, <2>3, <2>4, <2>5
  <2>10. e.seen <= tenures /\ e.tenure <= tenures
    BY <1>0, <2>2 DEF TenuresApart
  <2>11. told' = told /\ e.pc \notin Reconciling /\ e.pc # "record" /\ e.pc # "insert"
    BY <1>1, <2>2 DEF Reconciling, environment
  <2>12. e.change # 0 => told[e.change].ref = proc[p].ref
    BY <1>0, <1>1, <2>2 DEF Knows
  <2>13. ~skipped' => \A i \in DOMAIN row' : row'[i].ref >= e.ref
    <3> SUFFICES ASSUME ~skipped', NEW i \in DOMAIN row PROVE row'[i].ref >= r
      BY <2>2, <2>5
    <3>1. ~(row[i].ref < r - 1)
      BY <2>1
    <3> QED BY <1>1, <2>3, <2>4, <3>1
  <2>14. latest' >= e.ver
    BY <1>1, <2>1, <2>2, <2>11, ActsOnMeans
  <2>15. \A i \in DOMAIN row : \/ row'[i].ref = row[i].ref
                               \/ ActsOn(proc[p]) /\ row'[i].ref = proc[p].ref
    BY <1>r, <2>1, <2>4
  <2> QED BY <1>1, <2>1, <2>2, <2>4, <2>5, <2>6, <2>7, <2>8, <2>9, <2>10, <2>11, <2>12, <2>13, <2>14, <2>15, MoveStep
<1> QED BY <1>2, <1>3

(* A handler that goes on with the rows as they are. *)
LEMMA GoesOn ==
  ASSUME StoreInv, NEW p \in Handlers, NEW e \in HandlerType, proc' = [proc EXCEPT ![p] = e],
         proc[p].pc \in Working,
         ActsOn(proc[p]) \/ UNCHANGED <<latest, overtaken>>,
         UNCHANGED <<environment, recorded, row, active, tenures, acts, skipped, collided, cut, overridden>>,
         e.sub = 0 \/ e.sub = proc[p].sub, e.seen <= tenures, e.tenure <= tenures,
         e.pc \in {"idle", "record", "insert", "mark"} \/ (e.pc = "update" /\ e.change = 0),
         e.pc = "record" => /\ RowsAt(proc[p].ref) = {} /\ ActsOn(proc[p])
                            /\ e.change = proc[p].change
                            /\ told[e.change].status = "revoked" \/ proc[p].pc = "update",
         e.pc = "insert" => /\ e.change = 0 /\ proc[p].change = 0 /\ proc[p].pc = "find"
                            /\ e.ref = proc[p].ref /\ e.ver = proc[p].ver,
         Knows(p)'
  PROVE  StoreInv'
<1>0. StoreTypeOK /\ NoneBehind /\ tenures \in Nat /\ row \in Seq(RowUpTo(tenures)) /\ skipped \in BOOLEAN
  BY TypesMean DEF StoreInv, StoreTypeOK
<1>1. row' \in Seq(RowUpTo(tenures)) /\ \A i, j \in DOMAIN row' : row'[i].ref = row'[j].ref => i = j
  BY <1>0 DEF StoreTypeOK
<1>2. e.pc \notin Reconciling /\ told' = told /\ e.pc # "find"
  BY DEF Reconciling, environment
<1>3. ASSUME e.change = 0, e.pc = "insert", ~overtaken', ~skipped'
      PROVE  /\ e.ref > 1 => latest' >= e.ver
             /\ \A i \in DOMAIN row' : row'[i].ref >= e.ref
  <2>1. latest \in Nat /\ latest' \in Nat /\ latest <= latest' /\ ~overtaken /\ ~skipped
    BY <1>0, <1>2, <1>3, ActsOnMeans, Shapes
  <2>2. /\ proc[p].ref > 1 => latest >= proc[p].ver
        /\ \A i \in DOMAIN row : row[i].ref >= proc[p].ref
    BY <1>0, <1>3, <2>1 DEF NoneBehind
  <2>3. proc[p].ver \in Nat
    BY <1>0, TypesMean
  <2> QED BY <1>3, <2>1, <2>2, <2>3
<1> QED BY <1>0, <1>1, <1>2, <1>3, MoveStep

(* A handler that goes on keeps what it has read. *)
LEMMA Turned ==
  ASSUME NEW q \in HandlerType, NEW s \in Points, NEW e, e = [q EXCEPT !.pc = s]
  PROVE  /\ e \in HandlerType /\ e.pc = s /\ e.org = q.org /\ e.change = q.change /\ e.ref = q.ref
         /\ e.status = q.status /\ e.ver = q.ver /\ e.sub = q.sub /\ e.tenure = q.tenure /\ e.seen = q.seen
BY DEF HandlerType

(* Whose the row is, or whether there is one. *)
LEMMA FindStep ==
  ASSUME StoreInv, NEW p \in Handlers, Find(p)
  PROVE  StoreInv'
<1>q. PICK q : q = proc[p]
  OBVIOUS
<1>0. StoreTypeOK /\ Knows(p) /\ TenuresApart
  BY DEF StoreInv
<1>1. /\ q.pc = "find" /\ q.pc \in Working /\ q \in HandlerType /\ q.change \in Nat /\ q.seen <= tenures
      /\ q.tenure <= tenures /\ tenures \in Nat
      /\ UNCHANGED <<environment, recorded, row, active, tenures, acts, skipped, collided, cut, overridden>>
  BY <1>0, <1>q, TypesMean DEF Find, Working, TenuresApart
<1>2. told' = told /\ row' = row
  BY <1>1 DEF environment
<1>3. /\ q.ver \in DOMAIN told /\ told[q.ver].ref = q.ref
      /\ q.change # 0 => /\ q.change \in DOMAIN told /\ q.ver >= q.change /\ told[q.change].ref = q.ref
                         /\ told[q.change].status = "revoked" /\ q.status = "revoked"
      /\ q.change = 0 => q.org \in Orgs /\ q.status = "active"
      /\ q.ver = Len(told) => (Entitled(q.status) <=> Entitled(Current.status))
  BY <1>0, <1>1, <1>q DEF Knows
<1>4. ASSUME RowsAt(q.ref) = {}, ActsOn(q), q.change = 0, proc' = [proc EXCEPT ![p] = [q EXCEPT !.pc = "insert"]]
      PROVE  StoreInv'
  <2>e. PICK e : e = [q EXCEPT !.pc = "insert"]
    OBVIOUS
  <2>1. /\ e \in HandlerType /\ e.pc = "insert" /\ e.org = q.org /\ e.change = q.change /\ e.ref = q.ref
        /\ e.status = q.status /\ e.ver = q.ver /\ e.sub = q.sub /\ e.tenure = q.tenure /\ e.seen = q.seen
    <3>1. "insert" \in Points
      BY DEF Points
    <3> QED BY <1>1, <2>e, <3>1, Turned
  <2>2. proc' = [proc EXCEPT ![p] = e] /\ proc'[p] = e
    BY <1>0, <1>4, <2>1, <2>e, HandlerSet
  <2>3. Knows(p)'
    BY <1>2, <1>3, <1>4, <2>1, <2>2 DEF Knows, Working, Reconciling, Current
  <2> QED BY <1>1, <1>4, <1>q, <2>1, <2>2, <2>3, GoesOn
<1>5. ASSUME RowsAt(q.ref) = {}, ActsOn(q), q.change # 0, proc' = [proc EXCEPT ![p] = Through(q)]
      PROVE  StoreInv'
  <2>e. PICK e : e = Through(q)
    OBVIOUS
  <2>1. e \in HandlerType /\ e.pc = "record" /\ e.change = q.change /\ e.sub = 0 /\ e.tenure = 0 /\ e.seen = 0
    BY <1>1, <1>5, <2>e, ThroughMeans
  <2>2. proc' = [proc EXCEPT ![p] = e] /\ proc'[p] = e
    BY <1>0, <1>5, <2>1, <2>e, HandlerSet
  <2>3. latest' >= q.change
    <3>1. latest' >= q.ver /\ latest' \in 0 .. Len(told)
      BY <1>1, <1>2, <1>5, <1>q, ActsOnMeans
    <3>2. q.ver \in Nat /\ Len(told) \in Nat
      BY <1>0, <1>3, Shapes
    <3> QED BY <1>1, <1>3, <1>5, <3>1, <3>2
  <2>4. Knows(p)'
    BY <1>2, <1>3, <1>5, <2>1, <2>2, <2>3 DEF Knows, Working, Reconciling
  <2>5. /\ ActsOn(proc[p]) /\ RowsAt(proc[p].ref) = {} /\ proc[p].pc \in Working
        /\ e.change = proc[p].change /\ told[e.change].status = "revoked"
    BY <1>1, <1>3, <1>5, <1>q, <2>1
  <2>6. e.seen <= tenures /\ e.tenure <= tenures
    BY <1>1, <2>1
  <2> QED BY <1>1, <2>1, <2>2, <2>4, <2>5, <2>6, GoesOn
<1>6. ASSUME NEW i \in RowsAt(q.ref), q.change # 0, proc' = [proc EXCEPT ![p] = [q EXCEPT !.pc = "mark", !.row = i]],
             UNCHANGED <<latest, overtaken>>
      PROVE  StoreInv'
  <2>e. PICK e : e = [q EXCEPT !.pc = "mark", !.row = i]
    OBVIOUS
  <2>0. i \in DOMAIN row /\ i \in Nat
    BY <1>0, Shapes DEF RowsAt
  <2>1. /\ e \in HandlerType /\ e.pc = "mark" /\ e.org = q.org /\ e.change = q.change /\ e.ref = q.ref
        /\ e.status = q.status /\ e.ver = q.ver /\ e.sub = q.sub /\ e.tenure = q.tenure /\ e.seen = q.seen
        /\ e.row = i
    <3>1. "mark" \in Points
      BY DEF Points
    <3> QED BY <1>1, <2>0, <2>e, <3>1 DEF HandlerType
  <2>2. proc' = [proc EXCEPT ![p] = e] /\ proc'[p] = e
    BY <1>0, <1>6, <2>1, <2>e, HandlerSet
  <2>3. Knows(p)'
    BY <1>2, <1>3, <1>6, <2>0, <2>1, <2>2 DEF Knows, Working, Reconciling, Current
  <2> QED BY <1>1, <1>6, <1>q, <2>1, <2>2, <2>3, GoesOn
<1>7. ASSUME q.change = 0, proc' = [proc EXCEPT ![p] = [q EXCEPT !.pc = "update"]], UNCHANGED <<latest, overtaken>>
      PROVE  StoreInv'
  <2>e. PICK e : e = [q EXCEPT !.pc = "update"]
    OBVIOUS
  <2>1. /\ e \in HandlerType /\ e.pc = "update" /\ e.org = q.org /\ e.change = q.change /\ e.ref = q.ref
        /\ e.status = q.status /\ e.ver = q.ver /\ e.sub = q.sub /\ e.tenure = q.tenure /\ e.seen = q.seen
    <3>1. "update" \in Points
      BY DEF Points
    <3> QED BY <1>1, <2>e, <3>1, Turned
  <2>2. proc' = [proc EXCEPT ![p] = e] /\ proc'[p] = e
    BY <1>0, <1>7, <2>1, <2>e, HandlerSet
  <2>3. Knows(p)'
    BY <1>2, <1>3, <1>7, <2>1, <2>2 DEF Knows, Working, Reconciling, Current
  <2> QED BY <1>1, <1>7, <1>q, <2>1, <2>2, <2>3, GoesOn
<1>8. ASSUME q.change = 0, proc' = [proc EXCEPT ![p] = AtRest], UNCHANGED <<latest, overtaken>>
      PROVE  StoreInv'
  BY <1>1, <1>8, <1>q, ErrsStep DEF storeHistory
<1>9. \/ /\ RowsAt(q.ref) = {}
         /\ proc' = [proc EXCEPT ![p] = IF IsClaim(q) THEN [q EXCEPT !.pc = "insert"] ELSE Through(q)]
         /\ ActsOn(q)
      \/ /\ \E i \in RowsAt(q.ref) :
              proc' = [proc EXCEPT ![p] =
                IF ~IsClaim(q) THEN [q EXCEPT !.pc = "mark", !.row = i]
                ELSE IF row[i].org = q.org THEN [q EXCEPT !.pc = "update"] ELSE AtRest]
         /\ UNCHANGED <<latest, overtaken>>
  BY <1>q DEF Find
<1> QED BY <1>4, <1>5, <1>6, <1>7, <1>8, <1>9 DEF IsClaim

(* The row is written: either it agrees with the plan, or the handler is   *)
(* to reconcile it. *)
LEMMA ReconcileMeans ==
  ASSUME NEW q \in HandlerType, NEW s \in Nat
  PROVE  LET e == Reconcile(q, s) IN
         /\ e \in HandlerType /\ e.change = q.change /\ e.seen \in {0, q.seen} /\ e.tenure \in {0, q.tenure}
         /\ IF Entitled(q.status) <=> s # 0 THEN e.sub = 0 /\ e.pc = IF q.change = 0 THEN "idle" ELSE "record"
            ELSE /\ e.sub = s /\ e.row = q.row /\ e.org = q.org
                 /\ e.pc = IF Entitled(q.status) THEN "grant" ELSE "check"
         /\ e.pc = "idle" => e = AtRest
<1>1. CASE Entitled(q.status) <=> s # 0
  <2>1. Reconcile(q, s) = Through(q)
    BY <1>1 DEF Reconcile, Entitled
  <2> QED BY <1>1, <2>1, ThroughMeans
<1>2. CASE ~(Entitled(q.status) <=> s # 0)
  <2>p. PICK c \in {"grant", "check"} : c = IF Entitled(q.status) THEN "grant" ELSE "check"
    OBVIOUS
  <2>e. PICK e : e = Reconcile(q, s)
    OBVIOUS
  <2>1. e = [q EXCEPT !.ref = 0, !.status = "lapsed", !.ver = 0, !.sub = s, !.pc = c]
    BY <1>2, <2>e, <2>p DEF Reconcile, Entitled
  <2>2. "lapsed" \in Statuses /\ c \in Points
    BY DEF Statuses, Points, Reconciling
  <2>3. /\ e \in HandlerType /\ e.change = q.change /\ e.seen = q.seen /\ e.tenure = q.tenure
        /\ e.sub = s /\ e.row = q.row /\ e.org = q.org /\ e.pc = c
    BY <2>1, <2>2 DEF HandlerType
  <2> QED BY <1>2, <2>e, <2>p, <2>3
<1> QED BY <1>1, <1>2

(* Row k is written, as it was but for its status, or it is a new one. *)
Writes(p, k) ==
  /\ Written(p, k) /\ proc[p].pc \in {"insert", "update", "mark"}
  /\ UNCHANGED <<environment, recorded, active, tenures, acts, skipped, cut, overridden>>
  /\ k \in DOMAIN row' /\ row' \in Seq(RowUpTo(tenures))
  /\ \A i, j \in DOMAIN row' : row'[i].ref = row'[j].ref => i = j
  /\ \A i \in DOMAIN row : i \in DOMAIN row' /\ row'[i].org = row[i].org
  /\ \A i \in DOMAIN row' \ {k} : i \in DOMAIN row /\ row'[i] = row[i]
  /\ row'[k].status = proc[p].status
  /\ IF k \in DOMAIN row THEN row'[k].ref = row[k].ref /\ row'[k].sub = row[k].sub /\ Len(row') = Len(row)
     ELSE row'[k].ref = proc[p].ref /\ row'[k].sub = 0 /\ Len(row') = Len(row) + 1
  /\ ~overtaken' /\ ~skipped => Len(row') <= 1
  /\ proc[p].pc = "insert" <=> k \notin DOMAIN row

(* A working handler has written row k. *)
LEMMA WrittenStep ==
  ASSUME StoreInv, NEW p \in Handlers, NEW k, Writes(p, k)
  PROVE  StoreInv'
<1>a. /\ UNCHANGED <<store, told, recorded, active, tenures, acts, skipped, cut, overridden>>
      /\ UNCHANGED environment
      /\ Written(p, k) /\ proc[p].pc \in {"insert", "update", "mark"}
  BY DEF Writes, environment
<1>b. /\ k \in DOMAIN row' /\ row' \in Seq(RowUpTo(tenures))
      /\ \A i, j \in DOMAIN row' : row'[i].ref = row'[j].ref => i = j
      /\ \A i \in DOMAIN row : i \in DOMAIN row' /\ row'[i].org = row[i].org
      /\ \A i \in DOMAIN row' \ {k} : i \in DOMAIN row /\ row'[i] = row[i]
  BY DEF Writes
<1>c. row'[k].status = proc[p].status /\ (proc[p].pc = "insert" <=> k \notin DOMAIN row)
  BY DEF Writes
<1>d. /\ k \in DOMAIN row => row'[k].ref = row[k].ref /\ row'[k].sub = row[k].sub /\ Len(row') = Len(row)
      /\ k \notin DOMAIN row => row'[k].ref = proc[p].ref /\ row'[k].sub = 0 /\ Len(row') = Len(row) + 1
  BY DEF Writes
<1>q. PICK q : q = [proc[p] EXCEPT !.row = k, !.org = row'[k].org]
  OBVIOUS
<1>s. PICK s : s = row'[k].sub
  OBVIOUS
<1>e. PICK e : e = Reconcile(q, s)
  OBVIOUS
<1>0. /\ StoreTypeOK /\ ToldInOrder /\ (\A x \in Handlers : Knows(x)) /\ RowsKnown /\ NoneBehind
      /\ LinksFollowed /\ RowsFit /\ TenuresApart /\ OneAtATime /\ PlanFollows
  BY DEF StoreInv
<1>1. /\ tenures \in Nat /\ Len(row') \in Nat /\ DOMAIN row' = 1 .. Len(row')
      /\ k \in Nat /\ s \in Nat /\ s <= tenures /\ row'[k].org \in Orgs /\ row'[k].ref \in Nat
      /\ proc[p] \in HandlerType /\ collided \in BOOLEAN
      /\ Len(row) \in Nat /\ DOMAIN row = 1 .. Len(row)
  <2>1. tenures \in Nat /\ proc[p] \in HandlerType
    BY <1>0, TypesMean
  <2>2. /\ Len(row') \in Nat /\ DOMAIN row' = 1 .. Len(row')
        /\ s \in Nat /\ s <= tenures /\ row'[k].org \in Orgs /\ row'[k].ref \in Nat
    BY <1>b, <1>s, <2>1, RowsMean
  <2>3. k \in Nat
    BY <1>b, <2>2
  <2> QED BY <1>0, <2>1, <2>2, <2>3, Shapes DEF StoreTypeOK
<1>2. /\ q \in HandlerType /\ q.row = k /\ q.org = row'[k].org /\ q.change = proc[p].change
      /\ q.status = proc[p].status /\ q.ver = proc[p].ver /\ q.tenure = proc[p].tenure /\ q.seen = proc[p].seen
  BY <1>1, <1>q DEF HandlerType
<1>3. /\ proc' = [proc EXCEPT ![p] = e] /\ ActsOn(proc[p])
      /\ collided' = (collided \/ \E x \in Handlers \ {p} : proc[x].pc \in Reconciling /\ proc[x].row = k)
  <2>1. /\ proc' = [proc EXCEPT ![p] = Reconcile([proc[p] EXCEPT !.row = k, !.org = row'[k].org], row'[k].sub)]
        /\ collided' = (collided \/ \E x \in Handlers \ {p} : proc[x].pc \in Reconciling /\ proc[x].row = k)
        /\ ActsOn(proc[p])
    <3>1. Written(p, k)
      BY <1>a
    <3>2. collided' = (collided \/ \E x \in Handlers \ {p} : proc[x].pc \in Reconciling /\ proc[x].row = k)
      BY <3>1 DEF Written
    <3>3. ActsOn(proc[p])
      <4>1. ActsOn([proc[p] EXCEPT !.row = k, !.org = row'[k].org])
        BY <3>1, Zenon DEF Written
      <4>2. ActsOn(q)
        BY <1>q, <4>1, Zenon
      <4> QED BY <1>2, <4>2 DEF ActsOn
    <3>4. proc' = [proc EXCEPT ![p] = Reconcile([proc[p] EXCEPT !.row = k, !.org = row'[k].org], row'[k].sub)]
      BY <3>1, Zenon DEF Written
    <3> QED BY <3>2, <3>3, <3>4, Zenon
  <2>2. e = Reconcile([proc[p] EXCEPT !.row = k, !.org = row'[k].org], row'[k].sub)
    BY <1>q, <1>s, <1>e, Zenon
  <2> QED BY <2>1, <2>2, Zenon
<1>4. /\ e \in HandlerType /\ e.change = proc[p].change
      /\ e.seen \in {0, proc[p].seen} /\ e.tenure \in {0, proc[p].tenure}
      /\ IF Entitled(proc[p].status) <=> s # 0 THEN e.sub = 0 /\ e.pc = IF e.change = 0 THEN "idle" ELSE "record"
         ELSE /\ e.sub = s /\ e.row = k /\ e.org = row'[k].org
              /\ e.pc = IF Entitled(proc[p].status) THEN "grant" ELSE "check"
      /\ e.pc = "idle" => e = AtRest
  <2>1. LET f == Reconcile(q, s) IN
        /\ f \in HandlerType /\ f.change = q.change /\ f.seen \in {0, q.seen} /\ f.tenure \in {0, q.tenure}
        /\ IF Entitled(q.status) <=> s # 0 THEN f.sub = 0 /\ f.pc = IF q.change = 0 THEN "idle" ELSE "record"
           ELSE /\ f.sub = s /\ f.row = q.row /\ f.org = q.org
                /\ f.pc = IF Entitled(q.status) THEN "grant" ELSE "check"
        /\ f.pc = "idle" => f = AtRest
    BY <1>1, <1>2, ReconcileMeans
  <2> QED BY <1>2, <1>e, <2>1
<1>5. /\ proc' \in [Handlers -> HandlerType] /\ proc'[p] = e
      /\ \A x \in Handlers \ {p} : proc'[x] = proc[x]
  BY <1>0, <1>3, <1>4, HandlerSet
<1>6. /\ proc[p].pc \in Working /\ proc[p].pc \notin Reconciling
      /\ e.pc \in {"idle", "record", "grant", "check"}
  BY <1>4, <1>a DEF Working, Reconciling
<1>7. /\ ~overtaken' => ~overtaken
      /\ latest' >= proc[p].ver /\ latest' \in 0 .. Len(told) /\ (~overtaken' => latest' = proc[p].ver)
  BY <1>3, <1>6, <1>a, ActsOnMeans
<1>8. ASSUME NEW v \in DOMAIN told, proc[p].change # v
      PROVE  (Applied(v)' <=> Applied(v)) /\ (Linked(v)' <=> Linked(v))
  BY <1>4, <1>5, <1>8, <1>a DEF Applied, Linked
<1>9. \A i \in DOMAIN row' : \/ i \in DOMAIN row /\ row'[i].ref = row[i].ref
                             \/ ActsOn(proc[p]) /\ row'[i].ref = proc[p].ref
  BY <1>3, <1>b, <1>d
<1>10. LinksFollowed' /\ (\A i \in DOMAIN row' : row'[i].ref <= LatestRef')
  <2>1. ASSUME NEW v \in DOMAIN told, told[v].status # "revoked", Linked(v)' PROVE Linked(v)
    <3>1. CASE proc[p].change # v
      BY <1>8, <2>1, <3>1
    <3>2. CASE proc[p].change = v
      <4>1. v # 0 /\ Knows(p)
        BY <1>0, Shapes
      <4>2. proc[p].pc = "update"
        BY <1>a, <1>c, <2>1, <3>2, <4>1 DEF Knows
      <4> QED BY <3>2, <4>2 DEF Linked
    <3> QED BY <3>1, <3>2
  <2> QED BY <1>3, <1>6, <1>9, <1>a, <2>1, LinksKept
<1>11. Knows(p)'
  <2>1. Knows(p) /\ proc[p].change \in Nat /\ proc[p].ver \in Nat /\ Len(told) \in Nat
    BY <1>0, TypesMean, Shapes
  <2>2. proc[p].change # 0 => proc[p].change \in DOMAIN told /\ latest' >= proc[p].change
    BY <1>6, <1>7, <2>1 DEF Knows
  <2>3. /\ e.pc \notin Working /\ e.pc \notin {"rekey", "insert", "find", "mark"}
        /\ e.change = 0 => e.pc # "record"
    BY <1>4, <1>6 DEF Working
  <2>4. e.pc \in Reconciling => e.row = k /\ e.org = row'[k].org
    BY <1>4 DEF Reconciling
  <2> QED BY <1>4, <1>5, <1>a, <1>b, <2>2, <2>3, <2>4 DEF Knows
<1>12. StoreTypeOK' /\ ToldInOrder' /\ (\A x \in Handlers : Knows(x)') /\ RowsKnown'
  <2>1. collided' \in BOOLEAN
    BY <1>1, <1>3
  <2>2. skipped' \in BOOLEAN
    BY <1>0, <1>a DEF StoreTypeOK
  <2> QED BY <1>3, <1>4, <1>6, <1>10, <1>11, <1>a, <1>b, <2>1, <2>2, WorkTypes
<1>13. NoneBehind'
  <2>1. skipped' = skipped /\ told' = told /\ (~overtaken' /\ ~skipped => Len(row') <= 1)
    BY DEF Writes, environment
  <2>2. e.pc \notin {"find", "insert"}
    BY <1>6
  <2> QED BY <1>3, <1>4, <1>6, <1>9, <2>1, <2>2, NoneBehindKept
<1>14. ~overtaken' /\ AllApplied' =>
         /\ \A i \in DOMAIN row' : i = k
         /\ Entitled(row'[k].status) <=> Entitled(Current'.status)
  <2> SUFFICES ASSUME ~overtaken', AllApplied'
               PROVE  /\ \A i \in DOMAIN row' : i = k
                      /\ Entitled(row'[k].status) <=> Entitled(Current'.status)
    OBVIOUS
  <2>1. KnowsAll'
    BY <1>12 DEF KnowsAll
  <2>2. CaughtUp'
    BY <1>10, <1>12, <2>1, RowsCaughtUp, PTL
  <2>3. latest' = Len(told) /\ \A i, j \in DOMAIN row' : i = j
    BY <1>a, <2>2 DEF CaughtUp
  <2>4. proc[p].ver = Len(told) /\ Knows(p)
    BY <1>0, <1>7, <2>3
  <2>5. Entitled(proc[p].status) <=> Entitled(Current.status)
    BY <1>6, <2>4 DEF Knows
  <2> QED BY <1>a, <1>b, <1>c, <2>3, <2>5 DEF Current
<1>15. RowsFit'
  BY <1>14 DEF RowsFit
<1>16. TenuresApart'
  <2>1. tenures' = tenures /\ tenures' \in Nat /\ tenures <= tenures' /\ active' = active
    BY <1>1, <1>a
  <2>2. \A i \in DOMAIN row' : row'[i].sub = 0 \/ (i \in DOMAIN row /\ row'[i].sub = row[i].sub)
    BY <1>b, <1>d
  <2>3. e.sub = 0 \/ \E i \in DOMAIN row : e.sub = row[i].sub
    BY <1>4, <1>d, <1>s
  <2>4. e.seen <= tenures' /\ e.tenure <= tenures'
    BY <1>0, <1>1, <1>4, <2>1 DEF TenuresApart
  <2>5. e.pc = "check" => e.sub > 0
    BY <1>1, <1>4
  <2>6. e.pc \notin {"link", "end"}
    BY <1>6
  <2> QED BY <1>0, <1>3, <1>4, <2>1, <2>2, <2>3, <2>4, <2>5, <2>6, TenuresKept
<1>17. ~collided' => ~collided /\ \A x \in Handlers \ {p} : ~OnRow(x, k)
  BY <1>1, <1>3 DEF OnRow
<1>18. /\ \A x \in Handlers \ {p} : \A i : OnRow(x, i)' <=> OnRow(x, i)
       /\ \A i : OnRow(p, i)' => i = k
       /\ OnRow(p, k)' <=> ~(Entitled(proc[p].status) <=> s # 0)
  BY <1>4, <1>5 DEF OnRow, Reconciling
<1>19. OneAtATime'
  <2> SUFFICES ASSUME ~collided', NEW x \in Handlers, NEW y \in Handlers, NEW i \in DOMAIN row',
                      OnRow(x, i)', OnRow(y, i)', x # y
               PROVE  FALSE
    BY DEF OneAtATime
  <2>1. i # k
    BY <1>17, <1>18
  <2>2. x # p /\ y # p
    BY <1>18, <2>1
  <2> QED BY <1>0, <1>17, <1>18, <1>b, <2>1, <2>2 DEF OneAtATime
<1>20. PlanFollows'
  <2> SUFFICES ASSUME ~collided', ~cut, Len(row') <= 1 PROVE PlanFollows'
    BY <1>a DEF PlanFollows
  <2>1. \A i \in DOMAIN row' : i = k
    BY <1>1, <1>b
  <2>2. Len(row) <= 1 /\ (k \notin DOMAIN row => DOMAIN row = {})
    <3>1. CASE k \in DOMAIN row
      BY <1>d, <3>1
    <3>2. CASE k \notin DOMAIN row
      <4>1. Len(row') = Len(row) + 1
        BY <1>d, <3>2
      <4>2. \A m, n \in Nat : m = n + 1 /\ m <= 1 => n = 0
        OBVIOUS
      <4>3. Len(row) = 0
        BY <1>1, <4>1, <4>2
      <4> QED BY <1>1, <4>3
    <3> QED BY <3>1, <3>2
  <2>3. \A x \in Handlers : OnRow(x, k)' => x = p
    BY <1>17, <1>18
  <2>4. OnRow(p, k)' => Reconciles(p, k)'
    BY <1>4, <1>5, <1>18, <1>c, <1>s DEF Reconciles
  <2>5. row'[k].sub # 0 => active[row'[k].org].n = row'[k].sub \/ overridden
    <3> SUFFICES ASSUME row'[k].sub # 0 PROVE active[row'[k].org].n = row'[k].sub \/ overridden
      OBVIOUS
    <3>1. k \in DOMAIN row /\ row'[k].sub = row[k].sub /\ row'[k].org = row[k].org
      BY <1>b, <1>d
    <3>2. \A x \in Handlers : ~OnRow(x, k)
      BY <1>6, <1>17 DEF OnRow
    <3> QED BY <1>0, <1>17, <1>a, <2>2, <3>1, <3>2 DEF PlanFollows
  <2>6. Agrees(k)' \/ OnRow(p, k)'
    BY <1>18, <1>c, <1>s DEF Agrees
  <2>7. ASSUME NEW o \in Orgs, active[o].by = "store" PROVE row'[k].org = o /\ row'[k].sub = active[o].n
    <3>1. PICK i \in DOMAIN row :
            /\ row[i].org = o
            /\ \/ row[i].sub = active[o].n
               \/ \E x \in Handlers : OnRow(x, i) /\ proc[x].pc = "link" /\ proc[x].tenure = active[o].n
      BY <1>0, <1>17, <2>2, <2>7 DEF PlanFollows
    <3>2. i = k /\ k \in DOMAIN row /\ row'[k].sub = row[k].sub /\ row'[k].org = row[k].org
      BY <1>b, <1>d, <2>1, <3>1
    <3>3. \A x \in Handlers : ~OnRow(x, k)
      BY <1>6, <1>17 DEF OnRow
    <3> QED BY <3>1, <3>2, <3>3
  <2> QED BY <1>a, <1>b, <2>1, <2>3, <2>4, <2>5, <2>6, <2>7 DEF PlanFollows
<1> QED BY <1>10, <1>12, <1>13, <1>15, <1>16, <1>19, <1>20 DEF StoreInv

(* A claim's row, where there is none yet. *)
LEMMA InsertStep ==
  ASSUME StoreInv, NEW p \in Handlers, Insert(p)
  PROVE  StoreInv'
<1>n. PICK n : n = Len(row)
  OBVIOUS
<1>d. PICK d : d = [org |-> proc[p].org, ref |-> proc[p].ref, status |-> proc[p].status, sub |-> 0]
  OBVIOUS
<1>0. StoreTypeOK /\ ToldInOrder /\ Knows(p) /\ NoneBehind /\ RowsKnown
  BY DEF StoreInv
<1>1. /\ proc[p].pc = "insert" /\ proc[p].pc \in Working /\ proc[p].change = 0
      /\ proc[p].org \in Orgs /\ proc[p].ref \in Nat /\ proc[p].ref > 0 /\ proc[p].status \in Statuses
      /\ proc[p].ver \in DOMAIN told /\ told[proc[p].ver].ref = proc[p].ref
      /\ tenures \in Nat /\ row \in Seq(RowUpTo(tenures)) /\ skipped \in BOOLEAN
      /\ UNCHANGED <<environment, active, tenures, acts, skipped, cut, overridden>>
  <2>1. proc[p].pc = "insert" /\ proc[p].pc \in Working
    BY DEF Insert, Working
  <2>2. /\ proc[p].change = 0 /\ proc[p].org \in Orgs /\ proc[p].status = "active"
        /\ proc[p].ver \in DOMAIN told /\ told[proc[p].ver].ref = proc[p].ref
    BY <1>0, <2>1 DEF Knows
  <2>3. UNCHANGED <<environment, active, tenures, acts, skipped, cut, overridden>>
    BY DEF Insert
  <2>4. proc[p].ref \in Nat /\ proc[p].ref > 0
    BY <1>0, <2>2, Shapes
  <2>5. skipped \in BOOLEAN
    BY <1>0 DEF StoreTypeOK
  <2> QED BY <1>0, <2>1, <2>2, <2>3, <2>4, <2>5, TypesMean DEF Statuses
<1>2. /\ n \in Nat /\ n = Len(row) /\ DOMAIN row = 1 .. n
      /\ \A i \in DOMAIN row : row[i].ref \in Nat
  BY <1>0, <1>n, Shapes
<1>3. CASE Taken(proc[p].ref)
  <2>1. Errs(p) /\ UNCHANGED <<row, latest, overtaken, collided>>
    BY <1>3 DEF Insert
  <2>2. proc' = [proc EXCEPT ![p] = AtRest] /\ recorded' = recorded
    BY <2>1 DEF Errs, AfterError
  <2> QED BY <1>1, <2>1, <2>2, ErrsStep DEF storeHistory
<1>4. CASE ~Taken(proc[p].ref)
  <2>1. row' = Append(row, d) /\ Written(p, n + 1) /\ recorded' = recorded
    BY <1>4, <1>d, <1>n DEF Insert
  <2>2. /\ d \in RowUpTo(tenures) /\ d.org = proc[p].org /\ d.ref = proc[p].ref /\ d.status = proc[p].status
        /\ d.sub = 0
    BY <1>1, <1>d DEF RowUpTo
  <2>3. /\ row' \in Seq(RowUpTo(tenures)) /\ Len(row') = n + 1 /\ DOMAIN row' = 1 .. n + 1
        /\ row'[n + 1] = d /\ \A i \in 1 .. n : row'[i] = row[i]
    <3>1. /\ row' \in Seq(RowUpTo(tenures)) /\ Len(row') = n + 1
          /\ row'[n + 1] = d /\ \A i \in 1 .. n : row'[i] = row[i]
      BY <1>1, <1>2, <2>1, <2>2, AppendProperties
    <3> QED BY <3>1, LenProperties
  <2>4. \A i \in 1 .. n : row[i].ref # proc[p].ref
    BY <1>2, <1>4 DEF Taken, RowsAt
  <2>5. \A i, j \in DOMAIN row' : row'[i].ref = row'[j].ref => i = j
    <3>1. \A i, j \in DOMAIN row : row[i].ref = row[j].ref => i = j
      BY <1>0 DEF StoreTypeOK
    <3> SUFFICES ASSUME NEW i \in DOMAIN row', NEW j \in DOMAIN row', row'[i].ref = row'[j].ref, i # j PROVE FALSE
      OBVIOUS
    <3>2. CASE i \in 1 .. n /\ j \in 1 .. n
      BY <1>2, <2>3, <3>1, <3>2
    <3>3. CASE i = n + 1 /\ j \in 1 .. n
      BY <2>2, <2>3, <2>4, <3>3
    <3>4. CASE i \in 1 .. n /\ j = n + 1
      BY <2>2, <2>3, <2>4, <3>4
    <3> QED BY <1>2, <2>3, <3>2, <3>3, <3>4
  <2>6. ~overtaken' /\ ~skipped => Len(row') <= 1
    <3> SUFFICES ASSUME ~overtaken', ~skipped, n # 0 PROVE FALSE
      BY <1>2, <2>3
    <3>1. ActsOn(proc[p])
      <4>q. PICK q : q = [proc[p] EXCEPT !.row = n + 1, !.org = row'[n + 1].org]
        OBVIOUS
      <4>1. ActsOn([proc[p] EXCEPT !.row = n + 1, !.org = row'[n + 1].org])
        BY <2>1, Zenon DEF Written
      <4>2. ActsOn(q)
        BY <4>1, <4>q, Zenon
      <4>3. q.ver = proc[p].ver
        BY <1>0, <4>q, TypesMean DEF HandlerType
      <4> QED BY <4>2, <4>3 DEF ActsOn
    <3>2. ~overtaken /\ LatestRef \in Nat /\ LatestRef <= proc[p].ref
      BY <1>1, <3>1, ActsOnMeans DEF environment
    <3>3. 1 \in DOMAIN row /\ row[1].ref # proc[p].ref /\ row[1].ref \in Nat
      BY <1>2, <2>4
    <3>4. row[1].ref >= proc[p].ref
      BY <1>0, <1>1, <3>2, <3>3 DEF NoneBehind
    <3>5. row[1].ref <= LatestRef
      BY <1>0, <3>3 DEF RowsKnown
    <3> QED BY <1>1, <3>2, <3>3, <3>4, <3>5
  <2>7. Writes(p, n + 1)
    <3>1. /\ n + 1 \in DOMAIN row' /\ n + 1 \notin DOMAIN row
          /\ \A i \in DOMAIN row : i \in DOMAIN row' /\ row'[i] = row[i]
      BY <1>2, <2>3
    <3>2. \A i \in DOMAIN row' \ {n + 1} : i \in DOMAIN row /\ row'[i] = row[i]
      BY <1>2, <2>3
    <3>3. /\ row'[n + 1].status = proc[p].status /\ row'[n + 1].ref = proc[p].ref
          /\ row'[n + 1].sub = 0 /\ Len(row') = Len(row) + 1
      BY <1>2, <2>2, <2>3
    <3> QED BY <1>1, <2>1, <2>3, <2>5, <2>6, <3>1, <3>2, <3>3 DEF Writes
  <2> QED BY <2>7, WrittenStep
<1> QED BY <1>3, <1>4

(* The row of the reference, or of the id, gets its status. *)
LEMMA StatusStep ==
  ASSUME StoreInv, NEW p \in Handlers, proc[p].pc \in {"update", "mark"}, NEW k \in DOMAIN row,
         row' = [row EXCEPT ![k].status = proc[p].status], Written(p, k),
         UNCHANGED <<environment, recorded, active, tenures, acts, skipped, cut, overridden>>
  PROVE  StoreInv'
<1>d. PICK d : d = [row[k] EXCEPT !.status = proc[p].status]
  OBVIOUS
<1>r. PICK r : r = row[k]
  OBVIOUS
<1>0. StoreTypeOK /\ NoneBehind
  BY DEF StoreInv
<1>1. /\ proc[p].status \in Statuses /\ tenures \in Nat /\ row \in Seq(RowUpTo(tenures)) /\ r \in RowUpTo(tenures)
  BY <1>0, <1>r, TypesMean, RowsMean
<1>2. d \in RowUpTo(tenures) /\ d.org = r.org /\ d.ref = r.ref /\ d.sub = r.sub /\ d.status = proc[p].status
  BY <1>1, <1>d, <1>r DEF RowUpTo
<1>3. row' = [row EXCEPT ![k] = d]
  BY <1>d
<1>4. /\ row' \in Seq(RowUpTo(tenures)) /\ Len(row') = Len(row) /\ DOMAIN row' = DOMAIN row
      /\ row'[k] = d /\ \A j \in DOMAIN row \ {k} : row'[j] = row[j]
  BY <1>1, <1>2, <1>3, RowWritten
<1>5. \A i, j \in DOMAIN row' : row'[i].ref = row'[j].ref => i = j
  <2>1. \A i, j \in DOMAIN row : row[i].ref = row[j].ref => i = j
    BY <1>0 DEF StoreTypeOK
  <2> QED BY <1>2, <1>4, <1>r, <2>1
<1>6. ~overtaken' /\ ~skipped => Len(row') <= 1
  <2>1. ActsOn(proc[p])
    <3>q. PICK q : q = [proc[p] EXCEPT !.row = k, !.org = row'[k].org]
      OBVIOUS
    <3>1. ActsOn([proc[p] EXCEPT !.row = k, !.org = row'[k].org])
      BY Zenon DEF Written
    <3>2. ActsOn(q)
      BY <3>1, <3>q, Zenon
    <3>3. q.ver = proc[p].ver
      BY <1>0, <3>q, TypesMean DEF HandlerType
    <3> QED BY <3>2, <3>3 DEF ActsOn
  <2>2. proc[p].pc \in Working
    BY DEF Working
  <2>3. ~overtaken' => ~overtaken
    BY <2>1, <2>2, ActsOnMeans DEF environment
  <2> QED BY <1>0, <1>4, <2>3 DEF NoneBehind
<1>7. Writes(p, k)
  <2>1. proc[p].pc \in {"insert", "update", "mark"} /\ proc[p].pc # "insert"
    OBVIOUS
  <2>2. \A i \in DOMAIN row : i \in DOMAIN row' /\ row'[i].org = row[i].org
    BY <1>2, <1>4, <1>r
  <2>3. row'[k].ref = row[k].ref /\ row'[k].sub = row[k].sub /\ row'[k].status = proc[p].status
    BY <1>2, <1>4, <1>r
  <2> QED BY <1>4, <1>5, <1>6, <2>1, <2>2, <2>3 DEF Writes
<1> QED BY <1>7, WrittenStep

(* The row of the reference gets its status, if there is one. *)
LEMMA UpdateStep ==
  ASSUME StoreInv, NEW p \in Handlers, Update(p)
  PROVE  StoreInv'
<1>0. StoreTypeOK /\ Knows(p) /\ TenuresApart
  BY DEF StoreInv
<1>1. /\ proc[p].pc = "update" /\ proc[p].pc \in Working
      /\ UNCHANGED <<environment, recorded, active, tenures, acts, skipped, cut, overridden>>
  BY DEF Update, Working
<1>2. CASE RowsAt(proc[p].ref) = {}
  <2>e. PICK e : e = Through(proc[p])
    OBVIOUS
  <2>1. proc' = [proc EXCEPT ![p] = e] /\ ActsOn(proc[p]) /\ UNCHANGED <<row, collided>>
    BY <1>2, <2>e DEF Update
  <2>2. /\ e \in HandlerType /\ e.sub = 0 /\ e.tenure = 0 /\ e.seen = 0 /\ e.change = proc[p].change
        /\ IF e.change = 0 THEN e = AtRest /\ e.pc = "idle" ELSE e.pc = "record"
        /\ tenures \in Nat /\ proc[p].change \in Nat
    BY <1>0, <2>e, ThroughMeans, TypesMean
  <2>3. proc'[p] = e
    BY <1>0, <2>1, <2>2, HandlerSet
  <2>4. proc[p].change # 0 => proc[p].change \in DOMAIN told /\ latest' >= proc[p].change
    <3>1. latest' >= proc[p].ver /\ latest' \in 0 .. Len(told)
      BY <1>1, <2>1, ActsOnMeans DEF environment
    <3>2. proc[p].ver \in Nat /\ Len(told) \in Nat
      BY <1>0, Shapes, TypesMean
    <3> QED BY <1>0, <1>1, <2>2, <3>1, <3>2 DEF Knows
  <2>5. e.pc \in {"idle", "record"} /\ (e.pc = "record" => e.change # 0) /\ (e.pc = "idle" => e = AtRest)
    BY <2>2
  <2>6. Knows(p)'
    BY <1>1, <2>2, <2>3, <2>4, <2>5 DEF Knows, Working, Reconciling, environment
  <2>7. e.seen <= tenures /\ e.tenure <= tenures
    BY <2>2
  <2> QED BY <1>1, <1>2, <2>1, <2>2, <2>5, <2>6, <2>7, GoesOn
<1>3. CASE RowsAt(proc[p].ref) # {}
  <2>1. PICK i \in RowsAt(proc[p].ref) : row' = [row EXCEPT ![i].status = proc[p].status] /\ Written(p, i)
    BY <1>3 DEF Update
  <2>2. i \in DOMAIN row
    BY DEF RowsAt
  <2> QED BY <1>1, <2>1, <2>2, StatusStep
<1> QED BY <1>2, <1>3

(* The row that was found is marked as refunded. *)
LEMMA MarkRevokedStep ==
  ASSUME StoreInv, NEW p \in Handlers, MarkRevoked(p)
  PROVE  StoreInv'
<1>1. proc[p].pc = "mark" /\ Knows(p)
  BY DEF MarkRevoked, StoreInv
<1>2. proc[p].row \in DOMAIN row /\ proc[p].status = "revoked"
  BY <1>1 DEF Knows
<1>3. /\ row' = [row EXCEPT ![proc[p].row].status = proc[p].status] /\ Written(p, proc[p].row)
      /\ UNCHANGED <<environment, recorded, active, tenures, acts, skipped, cut, overridden>>
  BY <1>2 DEF MarkRevoked
<1> QED BY <1>1, <1>2, <1>3, StatusStep

-----------------------------------------------------------------------------
(* What always holds.                                                      *)

(* A purchase that nobody has heard of yet. *)
LEMMA StoreBegins == StoreInit => StoreInv
<1> SUFFICES ASSUME StoreInit PROVE StoreInv
  OBVIOUS
<1>1. /\ store \in {"apple", "google"} /\ recorded = {} /\ row = <<>> /\ acts = 0 /\ tenures = 0 /\ latest = 0
      /\ active = [o \in Orgs |-> NoPlan] /\ proc = [p \in Handlers |-> AtRest]
      /\ overtaken = FALSE /\ skipped = FALSE /\ collided = FALSE /\ cut = FALSE /\ overridden = FALSE
  BY DEF StoreInit
<1>d. PICK d : d = [ref |-> 1, status |-> "active"]
  OBVIOUS
<1>2. d \in Change /\ d.ref = 1 /\ d.status = "active"
  BY <1>d DEF Change, Statuses
<1>3. told = <<d>> /\ told \in Seq(Change) /\ Len(told) = 1 /\ DOMAIN told = {1} /\ told[1] = d
  BY <1>2, <1>d DEF StoreInit
<1>4. Current = d
  BY <1>3 DEF Current
<1>5. DOMAIN row = {} /\ Len(row) = 0 /\ row \in Seq(RowUpTo(tenures))
  BY <1>1
<1>6. /\ \A p \in Handlers : proc[p] = AtRest /\ AtRest \in HandlerType
      /\ AtRest.pc = "idle" /\ AtRest.change = 0 /\ AtRest.sub = 0 /\ AtRest.tenure = 0 /\ AtRest.seen = 0
  BY <1>1, AtRestTyped DEF AtRest
<1>7. /\ proc \in [Handlers -> HandlerType]
      /\ active \in [Orgs -> [by : {"nobody", "store", "operator"}, n : Nat]]
      /\ \A o \in Orgs : active[o].by = "nobody" /\ active[o].n = 0
  BY <1>1, <1>6 DEF NoPlan
<1>8. StoreTypeOK
  BY <1>1, <1>3, <1>5, <1>7 DEF StoreTypeOK, Change, RowUpTo, HandlerType, Points
<1>9. ToldInOrder
  BY <1>2, <1>3, <1>4 DEF ToldInOrder
<1>10. \A p \in Handlers : Knows(p)
  BY <1>6 DEF Knows, Working, Reconciling
<1>11. RowsKnown
  BY <1>1, <1>3, <1>5 DEF RowsKnown
<1>12. NoneBehind
  BY <1>5, <1>6 DEF NoneBehind
<1>13. \A p \in Handlers : \A i : ~OnRow(p, i)
  BY <1>6 DEF OnRow, Reconciling
<1>14. LinksFollowed /\ RowsFit
  BY <1>2, <1>3, <1>5 DEF LinksFollowed, RowsFit
<1>15. TenuresApart
  BY <1>1, <1>6, <1>7 DEF TenuresApart
<1>16. OneAtATime /\ PlanFollows
  BY <1>5, <1>7, <1>13 DEF OneAtATime, PlanFollows
<1> QED BY <1>8, <1>9, <1>10, <1>11, <1>12, <1>14, <1>15, <1>16 DEF StoreInv

(* Every step of the customer, the store, the operator and the handlers. *)
LEMMA StoreSteps == StoreInv /\ [StoreNext]_storeVars => StoreInv'
<1> SUFFICES ASSUME StoreInv, [StoreNext]_storeVars PROVE StoreInv'
  OBVIOUS
<1>1. CASE Renew \/ Lapse \/ Refund \/ Reissue
  BY <1>1, StoreTells
<1>2. ASSUME NEW o \in Orgs, NEW given \in BOOLEAN, Override(o, given) PROVE StoreInv'
  BY <1>2, OverrideStep
<1>3. ASSUME NEW p \in Handlers, NEW o \in Orgs, NEW ref \in 1 .. Current.ref, Claim(p, o, ref) PROVE StoreInv'
  BY <1>3, ClaimStep
<1>4. ASSUME NEW p \in Handlers, NEW v \in DOMAIN told, Deliver(p, v) PROVE StoreInv'
  BY <1>4, DeliverStep
<1>5. ASSUME NEW p \in Handlers, Step(p) PROVE StoreInv'
  <2>1. CASE Rekey(p)
    BY <2>1, RekeyStep
  <2>2. CASE Find(p)
    BY <2>2, FindStep
  <2>3. CASE Insert(p)
    BY <2>3, InsertStep
  <2>4. CASE Update(p)
    BY <2>4, UpdateStep
  <2>5. CASE MarkRevoked(p)
    BY <2>5, MarkRevokedStep
  <2>6. CASE Grant(p)
    BY <2>6, GrantStep
  <2>7. CASE Link(p)
    BY <2>7, LinkStep
  <2>8. CASE Check(p)
    BY <2>8, CheckStep
  <2>9. CASE End(p)
    BY <2>9, EndStep
  <2>10. CASE Unlink(p)
    BY <2>10, UnlinkStep
  <2>11. CASE Record(p)
    BY <2>11, RecordStep
  <2> QED BY <1>5, <2>1, <2>2, <2>3, <2>4, <2>5, <2>6, <2>7, <2>8, <2>9, <2>10, <2>11 DEF Step
<1>6. ASSUME NEW p \in Handlers, Throw(p) PROVE StoreInv'
  BY <1>6, ThrowStep
<1>7. CASE UNCHANGED storeVars
  BY <1>7 DEF storeVars, environment, storeHistory, StoreInv, StoreTypeOK, ToldInOrder, Knows, Current,
              RowsKnown, LatestRef, NoneBehind, LinksFollowed, Linked, Applied, AllApplied, RowsFit,
              TenuresApart, OneAtATime, OnRow, PlanFollows, Reconciles, Agrees
<1> QED BY <1>1, <1>2, <1>3, <1>4, <1>5, <1>6, <1>7 DEF StoreNext

(* The inductive invariant holds of every state. *)
LEMMA StoreInvAlways == StoreSpec => []StoreInv
BY StoreBegins, StoreSteps, PTL DEF StoreSpec

(* Every table and every handler stays within its type: no two rows of     *)
(* commerce_store_subscriptions bear the same reference, and a row points  *)
(* only at a tenure that was begun, whoever inserts, rekeys or links. *)
THEOREM StoreTypeCorrect == StoreSpec => []StoreTypeOK
<1>1. StoreInv => StoreTypeOK
  BY DEF StoreInv
<1> QED BY <1>1, StoreInvAlways, PTL

(* claimPurchase makes one purchase one organization's and one row, for    *)
(* any number of claims and replaced tokens, but for claims on an old word *)
(* of the store's or before the token they replace was known. *)
THEOREM OnePurchaseOneRow == StoreSpec => []OneRowPerPurchase
<1>1. StoreInv => OneRowPerPurchase
  BY DEF StoreInv, NoneBehind, OneRowPerPurchase
<1> QED BY <1>1, StoreInvAlways, PTL

(* Deliveries that are recorded are applied. *)
LEMMA SettledApplied == Settled => AllApplied /\ \A p \in Handlers : \A i : ~OnRow(p, i)
BY DEF Settled, AllApplied, Applied, OnRow, AtRest, Reconciling

(* applyNotification acknowledges no delivery for nothing: once every      *)
(* delivery is recorded, and none was acted on out of order, a row bears   *)
(* the purchase's present reference and is entitled as the store has it. *)
THEOREM RowsEndTrue == StoreSpec => []RowsAreTrue
<1>1. StoreInv => RowsAreTrue
  <2> SUFFICES ASSUME StoreInv, Settled, ~overtaken, NEW i \in DOMAIN row
               PROVE  row[i].ref = Current.ref /\ Entitled(row[i].status) = Entitled(Current.status)
    BY DEF RowsAreTrue
  <2>1. AllApplied
    BY SettledApplied
  <2>2. CaughtUp
    BY RowsCaughtUp DEF StoreInv, KnowsAll
  <2>3. Entitled(row[i].status) <=> Entitled(Current.status)
    BY <2>1 DEF StoreInv, RowsFit
  <2> QED BY <2>1, <2>2, <2>3 DEF CaughtUp, Entitled
<1> QED BY <1>1, StoreInvAlways, PTL

(* reconcileEntitlement ends where it should: once all is settled a row    *)
(* points at a plan exactly while it is entitled, that plan is in force    *)
(* unless the operator decided otherwise, and no plan of the store's is in *)
(* force without such a row. *)
THEOREM AccessFollows == StoreSpec => []AccessFollowsRow
<1>1. StoreInv => AccessFollowsRow
  <2> SUFFICES ASSUME StoreInv, Settled, ~collided, ~cut, ~overtaken
               PROVE  /\ \A i \in DOMAIN row :
                           /\ Entitled(row[i].status) = (row[i].sub # 0)
                           /\ Entitled(row[i].status) => active[row[i].org].n = row[i].sub \/ overridden
                      /\ \A o \in Orgs : active[o].by = "store" =>
                           \E i \in DOMAIN row : row[i].org = o /\ row[i].sub = active[o].n
    BY DEF AccessFollowsRow
  <2>1. StoreTypeOK /\ AllApplied /\ \A p \in Handlers : \A i : ~OnRow(p, i)
    BY SettledApplied DEF StoreInv
  <2>2. CaughtUp
    BY RowsCaughtUp DEF StoreInv, KnowsAll
  <2>3. Len(row) <= 1
    BY <2>1, <2>2, Shapes DEF CaughtUp
  <2>4. /\ \A i \in DOMAIN row :
             /\ row[i].sub # 0 => active[row[i].org].n = row[i].sub \/ overridden
             /\ Agrees(i)
        /\ \A o \in Orgs : active[o].by = "store" => \E i \in DOMAIN row : row[i].org = o /\ row[i].sub = active[o].n
    BY <2>1, <2>3 DEF StoreInv, PlanFollows
  <2> QED BY <2>4 DEF Agrees, Entitled
<1> QED BY <1>1, StoreInvAlways, PTL

(* A lapse takes away a plan the operator gave only if it was given        *)
(* between the handler's look at the plan in force and its end: a look     *)
(* never takes the operator's tenure for the purchase's own. *)
THEOREM OperatorSpared == StoreSpec => LapseSparesOperator
<1> DEFINE Spares == \A o \in Orgs :
             active[o].by = "operator" /\ active'[o] = NoPlan /\ acts' = acts =>
               \E p \in Handlers : proc[p].pc = "end" /\ proc[p].org = o /\ proc[p].seen < active[o].n
<1>1. StoreInv /\ [StoreNext]_storeVars => [Spares]_storeVars
  <2> SUFFICES ASSUME StoreInv, StoreNext, NEW o \in Orgs,
                      active[o].by = "operator", active'[o] = NoPlan, acts' = acts
               PROVE  \E p \in Handlers : proc[p].pc = "end" /\ proc[p].org = o /\ proc[p].seen < active[o].n
    OBVIOUS
  <2>0. StoreTypeOK /\ TenuresApart /\ acts \in Nat
    BY DEF StoreInv, StoreTypeOK
  <2>1. active'[o] # active[o]
    BY DEF NoPlan
  <2>2. ~(Renew \/ Lapse \/ Refund \/ Reissue)
    BY <2>1 DEF Renew, Lapse, Refund, Reissue, Tell
  <2>3. ASSUME NEW a \in Orgs, NEW given \in BOOLEAN, Override(a, given) PROVE FALSE
    BY <2>0, <2>3 DEF Override
  <2>4. ASSUME NEW p \in Handlers, NEW a \in Orgs, NEW ref, Claim(p, a, ref) PROVE FALSE
    BY <2>1, <2>4 DEF Claim
  <2>5. ASSUME NEW p \in Handlers, NEW v, Deliver(p, v) PROVE FALSE
    BY <2>1, <2>5 DEF Deliver
  <2>6. ASSUME NEW p \in Handlers, Throw(p) PROVE FALSE
    BY <2>1, <2>6 DEF Throw
  <2>7. PICK p \in Handlers : Step(p)
    BY <2>2, <2>3, <2>4, <2>5, <2>6 DEF StoreNext
  <2>8. ~Grant(p)
    <3> SUFFICES ASSUME Grant(p) PROVE FALSE
      OBVIOUS
    <3>1. active' = [active EXCEPT ![proc[p].org] = [by |-> "store", n |-> tenures']]
      BY DEF Grant
    <3> QED BY <2>0, <2>1, <3>1, TypesMean DEF NoPlan
  <2>9. End(p)
    BY <2>1, <2>7, <2>8 DEF Step, Rekey, Find, Insert, Update, MarkRevoked, Link, Check, Unlink, Record
  <2>10. proc[p].pc = "end" /\ active' = [active EXCEPT ![proc[p].org] = NoPlan]
    BY <2>9 DEF End
  <2>11. proc[p].org = o
    BY <2>0, <2>1, <2>10, TypesMean
  <2> QED BY <2>0, <2>10, <2>11 DEF TenuresApart
<1> QED BY <1>1, StoreInvAlways, PTL DEF StoreSpec, LapseSparesOperator
=============================================================================
