------------------------------ MODULE Tenancy ------------------------------
(***************************************************************************)
(* Who belongs to one organization and in which role: requireOrgMember,    *)
(* organizationService, organizationRepository, and accountDeletionService *)
(* where it leaves or deletes the organization.                            *)
(*                                                                         *)
(* A request reads the caller's role in the middleware, then the member,   *)
(* then perhaps the number of owners, and then writes; each is a statement *)
(* of its own and no transaction holds them together.  The deletion of an  *)
(* account looks first, revokes the account's grants at other companies,   *)
(* looks again and then deletes.  Accepting an invite and the deletes are  *)
(* each one transaction.                                                   *)
(***************************************************************************)
EXTENDS Naturals, FiniteSets

CONSTANTS Users,
          Founder,    \* who created the organization
          Requests,   \* bound: requests about members under way at a time
          MaxAtOnce,  \* bound: requests and deletions under way at a time
          Invites,    \* bound: invites ever asked for
          MaxJoins    \* bound: memberships ever created

ASSUME TenancyAssumption ==
  /\ IsFiniteSet(Users) /\ Founder \in Users /\ Users \cap Requests = {}
  /\ MaxJoins \in Nat \ {0} /\ MaxAtOnce \in Nat

(* The three roles below admin are treated alike. *)
Roles == {"owner", "admin", "viewer"}
NoRole == "none"

VARIABLES
  kind,        \* organizations.kind
  role,        \* org_members: each user's role, NoRole without a row
  membership,  \* the id of the user's latest row
  joins,       \* rows ever inserted
  request,     \* per request about a member: how far it is and what it read
  invite,      \* org_invites
  deletion,    \* per account: how far its deletion is and what it read
  (* history *)
  overlapped,  \* two who take an owner away had both counted
  stale        \* one wrote over what was no longer as it had read it

history == <<overlapped, stale>>
vars == <<kind, role, membership, joins, request, invite, deletion, history>>

Idle == [at |-> "idle", actorRole |-> NoRole, target |-> Founder, member |-> 0,
         seen |-> NoRole, to |-> NoRole, counted |-> FALSE]

NoInvite == [at |-> "none", by |-> Founder, to |-> Founder, role |-> NoRole, actorRole |-> NoRole]

(* Refused, accepted, revoked or deleted with who made it. *)
Over == [NoInvite EXCEPT !.at = "over"]

Stays == [at |-> "no", seen |-> NoRole, alone |-> FALSE, counted |-> FALSE, takesOrg |-> FALSE]

Init ==
  /\ kind = "individual"
  /\ role = [u \in Users |-> IF u = Founder THEN "owner" ELSE NoRole]
  /\ membership = [u \in Users |-> IF u = Founder THEN 1 ELSE 0]
  /\ joins = 1
  /\ request = [r \in Requests |-> Idle]
  /\ invite = [i \in Invites |-> NoInvite]
  /\ deletion = [u \in Users |-> Stays]
  /\ overlapped = FALSE /\ stale = FALSE

Owners == {u \in Users : role[u] = "owner"}

(* requireOrgMember("admin") *)
MayManage(u) == role[u] \in {"admin", "owner"}

(* assertMayAssignRole; a removal (NoRole) is nobody's promotion. *)
MayAssign(actorRole, target) == target = "owner" => actorRole = "owner"

(* POST /orgs/:orgId/convert; only its owner is in an individual org. *)
ConvertToBusiness ==
  /\ kind = "individual" /\ Owners # {}
  /\ kind' = "business"
  /\ UNCHANGED <<role, membership, joins, request, invite, deletion, history>>

(* One more may begin. *)
Room == Cardinality({r \in Requests : request[r] # Idle})
          + Cardinality({u \in Users : deletion[u].at \notin {"no", "gone"}}) < MaxAtOnce

-----------------------------------------------------------------------------
(* updateMemberRole and removeMember.                                      *)

(* The middleware lets the actor through with the role it has now. *)
Begin(r, actor, target, to) ==
  /\ request[r] = Idle /\ Room
  /\ MayManage(actor) /\ role[target] # NoRole
  /\ request' = [request EXCEPT ![r] = [Idle EXCEPT !.at = "find", !.actorRole = role[actor],
                                          !.target = target, !.member = membership[target],
                                          !.to = to]]
  /\ UNCHANGED <<kind, role, membership, joins, invite, deletion, history>>

(* The row the request names is still there. *)
Found(q) == role[q.target] # NoRole /\ membership[q.target] = q.member

TakesOwner(q) == q.seen = "owner" /\ q.to # "owner"

(* findMemberById, then the checks made on what it returned. *)
FindMember(r) ==
  /\ request[r].at = "find"
  /\ LET q == [request[r] EXCEPT !.seen = role[request[r].target]]
     IN request' = [request EXCEPT ![r] =
          IF Found(q) /\ MayAssign(q.actorRole, q.to) /\ MayAssign(q.actorRole, q.seen)
          THEN [q EXCEPT !.at = IF TakesOwner(q) THEN "count" ELSE "write"]
          ELSE Idle]
  /\ UNCHANGED <<kind, role, membership, joins, invite, deletion, history>>

(* Seeded defect: the one owner there is may go. *)
AnyOwner == Owners # {}

EnoughOwners == Cardinality(Owners) > 1

(* Another request, or the deletion of another's account, has counted. *)
CountedTogether(x) ==
  \/ \E r \in Requests \ {x} : request[r].counted
  \/ \E u \in Users \ {x} : deletion[u].counted

(* assertNotLastOwner *)
CountOwners(r) ==
  /\ request[r].at = "count"
  /\ IF EnoughOwners
     THEN /\ request' = [request EXCEPT ![r].at = "write", ![r].counted = TRUE]
          /\ overlapped' = (overlapped \/ CountedTogether(r))
     ELSE /\ request' = [request EXCEPT ![r] = Idle]
          /\ UNCHANGED overlapped
  /\ UNCHANGED <<kind, role, membership, joins, invite, deletion, stale>>

(* The update or the delete, by the row's id alone. *)
WriteMember(r) ==
  /\ request[r].at = "write"
  /\ request' = [request EXCEPT ![r] = Idle]
  /\ LET q == request[r]
     IN IF Found(q)
        THEN /\ role' = [role EXCEPT ![q.target] = q.to]
             /\ stale' = (stale \/ role[q.target] # q.seen)
        ELSE UNCHANGED <<role, stale>>
  /\ UNCHANGED <<kind, membership, joins, invite, deletion, overlapped>>

-----------------------------------------------------------------------------
(* Seeded defect: an admin invites an owner. *)
AnyRole(actorRole, target) == TRUE

MayInviteAs(actorRole, target) == MayAssign(actorRole, target)

(* createInvite up to its first await. *)
AskInvite(i, actor, to, as) ==
  /\ invite[i] = NoInvite
  /\ MayManage(actor) /\ MayInviteAs(role[actor], as)
  /\ invite' = [invite EXCEPT ![i] = [NoInvite EXCEPT !.at = "asked", !.by = actor, !.to = to,
                                        !.role = as, !.actorRole = role[actor]]]
  /\ UNCHANGED <<kind, role, membership, joins, request, deletion, history>>

(* findKind and the insert, which refers to the organization and to the   *)
(* inviter.                                                                *)
InsertInvite(i) ==
  /\ invite[i].at = "asked"
  /\ invite' = [invite EXCEPT ![i] = IF kind # "business" \/ deletion[invite[i].by].at = "gone"
                                     THEN Over
                                     ELSE [@ EXCEPT !.at = "pending"]]
  /\ UNCHANGED <<kind, role, membership, joins, request, deletion, history>>

Revoked(i) == IF invite[i].at = "pending" THEN Over ELSE invite[i]

(* The mail fails and the invite is revoked.  It may take any time over    *)
(* that, and the link may have arrived all the same, and been used.        *)
EmailFails(i) ==
  /\ invite[i].at = "pending"
  /\ invite' = [invite EXCEPT ![i] = Revoked(i)]
  /\ UNCHANGED <<kind, role, membership, joins, request, deletion, history>>

RevokeInvite(i) ==
  /\ invite[i].at = "pending"
  /\ \E u \in Users : MayManage(u)
  /\ invite' = [invite EXCEPT ![i] = Revoked(i)]
  /\ UNCHANGED <<kind, role, membership, joins, request, deletion, history>>

(* Who is a member already keeps the role it has.  An invite that expired  *)
(* is a pending one nobody accepts.                                        *)
AcceptInvite(i) ==
  /\ invite[i].at = "pending" /\ deletion[invite[i].to].at # "gone"
  /\ invite' = [invite EXCEPT ![i] = Over]
  /\ LET u == invite[i].to
     IN IF role[u] # NoRole THEN UNCHANGED <<role, membership, joins>>
        ELSE /\ joins < MaxJoins
             /\ joins' = joins + 1
             /\ membership' = [membership EXCEPT ![u] = joins + 1]
             /\ role' = [role EXCEPT ![u] = invite[i].role]
  /\ UNCHANGED <<kind, request, deletion, history>>

-----------------------------------------------------------------------------
(* Deleting one's account: AccountDeletionService.delete.                  *)

Alone(u) == \A v \in Users \ {u} : role[v] = NoRole

(* preview: the memberships of the user, *)
FindMemberships(u) ==
  /\ deletion[u].at = "no" /\ Room
  /\ deletion' = [deletion EXCEPT ![u] = [Stays EXCEPT !.seen = role[u], !.at =
                     IF role[u] = NoRole THEN "agreed" ELSE "members"]]
  /\ UNCHANGED <<kind, role, membership, joins, request, invite, history>>

(* the other members of the organization - without any it goes with the    *)
(* account -                                                               *)
FindOthers(u) ==
  /\ deletion[u].at = "members"
  /\ deletion' = [deletion EXCEPT ![u].alone = Alone(u), ![u].at =
                     IF deletion[u].seen = "owner" /\ ~Alone(u) THEN "count" ELSE "agreed"]
  /\ UNCHANGED <<kind, role, membership, joins, request, invite, history>>

(* and whether another owner stays; else the deletion is refused.          *)
CountOtherOwners(u) ==
  /\ deletion[u].at = "count"
  /\ IF EnoughOwners
     THEN /\ deletion' = [deletion EXCEPT ![u].at = "agreed", ![u].counted = TRUE]
          /\ overlapped' = (overlapped \/ CountedTogether(u))
     ELSE /\ deletion' = [deletion EXCEPT ![u] = Stays]
          /\ UNCHANGED overlapped
  /\ UNCHANGED <<kind, role, membership, joins, request, invite, stale>>

(* soleMemberOrgIds, after the grants were revoked; its two reads as one. *)
ListSoleOrgs(u) ==
  /\ deletion[u].at = "agreed"
  /\ deletion' = [deletion EXCEPT ![u].at = "deleting",
                                  ![u].takesOrg = role[u] # NoRole /\ Alone(u)]
  /\ UNCHANGED <<kind, role, membership, joins, request, invite, history>>

(* What the preview allowed the deletion for holds no more. *)
Overtaken(u) == role[u] # deletion[u].seen \/ (deletion[u].alone /\ ~deletion[u].takesOrg)

(* The transaction: the organization with all that refers to it, then the  *)
(* user with the membership and the invites they made.                     *)
DeleteAccount(u) ==
  /\ deletion[u].at = "deleting"
  /\ deletion' = [deletion EXCEPT ![u] = [Stays EXCEPT !.at = "gone"]]
  /\ LET org == deletion[u].takesOrg
     IN /\ kind' = IF org THEN "deleted" ELSE kind
        /\ role' = [v \in Users |-> IF org \/ v = u THEN NoRole ELSE role[v]]
        /\ invite' = [i \in Invites |-> IF org \/ invite[i].by = u THEN Revoked(i) ELSE invite[i]]
  /\ stale' = (stale \/ Overtaken(u))
  /\ UNCHANGED <<membership, joins, request, overlapped>>

Next ==
  \/ ConvertToBusiness
  \/ \E r \in Requests :
       \/ \E actor, target \in Users, to \in Roles \cup {NoRole} : Begin(r, actor, target, to)
       \/ FindMember(r) \/ CountOwners(r) \/ WriteMember(r)
  \/ \E i \in Invites :
       \/ \E actor, to \in Users, as \in Roles : AskInvite(i, actor, to, as)
       \/ InsertInvite(i) \/ EmailFails(i) \/ RevokeInvite(i)
       \/ AcceptInvite(i)
  \/ \E u \in Users : FindMemberships(u) \/ FindOthers(u) \/ CountOtherOwners(u)
                    \/ ListSoleOrgs(u) \/ DeleteAccount(u)

Spec == Init /\ [][Next]_vars
-----------------------------------------------------------------------------
TypeOK ==
  /\ kind \in {"individual", "business", "deleted"}
  /\ role \in [Users -> Roles \cup {NoRole}]
  /\ membership \in [Users -> Nat] /\ joins \in Nat
  /\ request \in [Requests -> [at : {"idle", "find", "count", "write"},
                               actorRole : Roles \cup {NoRole}, target : Users, member : Nat,
                               seen : Roles \cup {NoRole}, to : Roles \cup {NoRole},
                               counted : BOOLEAN]]
  /\ invite \in [Invites -> [at : {"none", "asked", "pending", "over"},
                             by : Users, to : Users, role : Roles \cup {NoRole},
                             actorRole : Roles \cup {NoRole}]]
  /\ deletion \in [Users -> [at : {"no", "members", "count", "agreed", "deleting", "gone"},
                             seen : Roles \cup {NoRole}, alone : BOOLEAN, counted : BOOLEAN,
                             takesOrg : BOOLEAN]]
  /\ overlapped \in BOOLEAN /\ stale \in BOOLEAN

(* An organization is left without an owner only when two - requests or    *)
(* deletions of accounts - that each take an owner away had counted before *)
(* either wrote, or when one wrote over what had changed after it looked.  *)
OwnerlessOnlyByRace == kind # "deleted" /\ Owners = {} => overlapped \/ stale

OwnershipMoves(u) == (role[u] = "owner") # (role'[u] = "owner")

(* Whoever gains or loses the owner role does so by a request or an invite *)
(* of one who was an owner when it was made, unless the member's role was  *)
(* changed after the request had looked at it; or by the deletion of the   *)
(* account, or of the organization with that of its only member.           *)
OwnersDecide ==
  [][\A u \in Users : OwnershipMoves(u) =>
       \/ \E r \in Requests : /\ request[r].at = "write" /\ request[r].target = u
                              /\ request[r].actorRole = "owner" \/ request[r].seen # role[u]
       \/ \E i \in Invites : /\ invite[i].at = "pending" /\ invite'[i].at = "over"
                             /\ invite[i].to = u /\ invite[i].actorRole = "owner"
       \/ \E v \in Users : /\ deletion[v].at = "deleting" /\ deletion'[v].at = "gone"
                           /\ v = u \/ deletion[v].takesOrg]_vars
=============================================================================
