--------------------------- MODULE OrgMembership ---------------------------
(***************************************************************************)
(* Membership of one organization (a tenant) in the control plane:         *)
(* creating and deleting it, inviting, accepting, revoking and removing    *)
(* (controlplane/service/org_service.go behind api/handlers/handlers.go),  *)
(* over the tables of store/users.go.                                      *)
(*                                                                         *)
(* A request is a goroutine that makes one store call after another; every *)
(* store call is one SQL statement and one step.  No two calls share a     *)
(* transaction, so other requests run between any two of them, and a       *)
(* request may end with an error at any of them, keeping what it has done. *)
(* A user is identified with his e-mail address.                           *)
(***************************************************************************)
EXTENDS Integers, FiniteSets

CONSTANTS
    Users,       \* users of the dashboard
    Platform,    \* the platform administrator: acts without a membership
    NoUser,      \* no user
    Requests,    \* requests under way at the same time
    InviteOnly,  \* NANCE_INVITE_ONLY: users do not create organizations
    Faults,      \* TRUE: also the store calls fail whose errors are ignored
    InviteRoles, \* the roles invites are made for
    MaxInvites   \* bound: invites created

Owner == "owner"
Admin == "admin"
Member == "member"
NoRole == "none"             \* not a member
Roles == {Owner, Admin, Member}

ASSUME UsersFinite == IsFiniteSet(Users)
ASSUME ActorsDistinct == Platform \notin Users /\ NoUser \notin Users /\ Platform # NoUser
ASSUME FlagsBoolean == InviteOnly \in BOOLEAN /\ Faults \in BOOLEAN
ASSUME InviteRolesType == InviteRoles \subseteq Roles
ASSUME MaxInvitesNat == MaxInvites \in Nat

InviteIds == 1..MaxInvites
NoInvite == 0
MaybeUser == Users \cup {Platform, NoUser}

VARIABLES
    exists,    \* the row of tenants is there
    role,      \* role[u]: u's row of organization_members
    invites,   \* invites[i]: row of organization_invites, user NoUser when absent
    created,   \* ids handed out
    codes,     \* users with a code for deleting this organization
    req,       \* req[p]: where request p is and what it has read
    owned,     \* history: the organization has had an owner
    overtaken, \* history: removals whose check is out of date
    excused,   \* history: such a removal was made, or an owner was demoted
    joined     \* history: invites that have made their user a member, those whose
               \* MarkInviteAccepted was lost excepted

vars == <<exists, role, invites, created, codes, req, owned, overtaken, excused,
          joined>>
history == <<owned, overtaken, excused, joined>>

Invite == [user : Users \cup {NoUser}, role : Roles, expired : BOOLEAN, accepted : BOOLEAN]
Absent == [user |-> NoUser, role |-> Member, expired |-> FALSE, accepted |-> FALSE]

\* at: the next store call.  as: the role the actor acts with.  inv: the invite
\* it has read (accept, revoke) or listed (invite).
Steps == {"idle", "inviter", "remover", "memberCheck", "list", "replace", "insert",
          "target", "count", "remove", "getInvite", "deleteInvite",
          "join", "mark", "createTenant", "addOwner",
          "setCode", "checkCode", "deleteTenant"}
Request == [at : Steps, actor : MaybeUser, user : Users \cup {NoUser},
            role : Roles, as : Roles, inv : {NoInvite} \cup InviteIds]
NoRequest == [at |-> "idle", actor |-> NoUser, user |-> NoUser,
              role |-> Member, as |-> Member, inv |-> NoInvite]

TypeOK ==
    /\ exists \in BOOLEAN
    /\ role \in [Users -> Roles \cup {NoRole}]
    /\ invites \in [InviteIds -> Invite]
    /\ created \in 0..MaxInvites
    /\ codes \subseteq MaybeUser
    /\ req \in [Requests -> Request]
    /\ owned \in BOOLEAN /\ excused \in BOOLEAN
    /\ overtaken \subseteq Requests
    /\ joined \subseteq {NoInvite} \cup InviteIds

Init ==
    /\ exists = FALSE
    /\ role = [u \in Users |-> NoRole]
    /\ invites = [i \in InviteIds |-> Absent]
    /\ created = 0
    /\ codes = {}
    /\ req = [p \in Requests |-> NoRequest]
    /\ owned = FALSE /\ excused = FALSE
    /\ overtaken = {}
    /\ joined = {}

-----------------------------------------------------------------------------
(* Steps of requests *)

Owners(r) == {u \in Users : r[u] = Owner}

\* RequireAdmin / ensureTenantAdmin, RequireOwner.
IsAdmin(u) == u = Platform \/ (u \in Users /\ role[u] \in {Owner, Admin})
IsOwner(u) == role[u] = Owner

\* Request p has made its call and goes on to the next one, or is over.
Start(p, r) == req[p] = NoRequest /\ req' = [req EXCEPT ![p] = r]
Goto(p, from, next) == req[p].at = from /\ req' = [req EXCEPT ![p].at = next]
End(p, from) == req[p].at = from /\ req' = [req EXCEPT ![p] = NoRequest]

\* A statement changes the rows of organization_members to new.  History: a
\* removal is overtaken when an owner is lost, or its user becomes an owner,
\* after it looked.
SetRoles(new) ==
    /\ role' = new
    /\ owned' = (owned \/ Owners(new) # {})
    /\ overtaken' = overtaken \cup
          {p \in Requests :
              /\ req[p].at = "remove"
              /\ \/ Owners(role) \ Owners(new) # {}
                 \/ req[p].user \in Owners(new) \ Owners(role)}

\* A store call failed, or the client went away: the request ends in an error.
Fail(p) ==
    /\ req[p] # NoRequest
    /\ req' = [req EXCEPT ![p] = NoRequest]
    /\ overtaken' = overtaken \ {p}
    /\ UNCHANGED <<exists, role, invites, created, codes, owned, excused, joined>>

-----------------------------------------------------------------------------
(* CreateOrganization *)

\* GetTenant: the id is free.
CreateOrganization(p, u) ==
    /\ ~InviteOnly
    /\ ~exists
    /\ Start(p, [NoRequest EXCEPT !.at = "createTenant", !.actor = u])
    /\ UNCHANGED <<exists, role, invites, created, codes, history>>

\* CreateTenant is ON CONFLICT DO NOTHING: a second request that found the id
\* free goes on with the organization that another one has created meanwhile.
CreateTenant(p) ==
    /\ exists' = TRUE
    /\ Goto(p, "createTenant", "addOwner")
    /\ UNCHANGED <<role, invites, created, codes, history>>

\* TenantService.Create, for the platform administrator: a tenant without
\* members, in one call (without effect if there is one).
PlatformCreate ==
    /\ ~exists
    /\ exists' = TRUE
    /\ UNCHANGED <<role, invites, created, codes, req, history>>

\* Mutant: the row is written without its organization.
AnyTenant == TRUE

\* The foreign key on tenants(id) of both child tables.
TenantRow == exists

\* AddMember(owner).
AddOwner(p) ==
    /\ TenantRow
    /\ End(p, "addOwner")
    /\ SetRoles([role EXCEPT ![req[p].actor] = Owner])
    /\ UNCHANGED <<exists, invites, created, codes, excused, joined>>

-----------------------------------------------------------------------------
(* InviteMember and RemoveMember: the handler's checks *)

\* ensureTenantAdmin, then the request waits to read the actor's role.
InviteMember(p, a, u, r) ==
    /\ IsAdmin(a)
    /\ Start(p, [NoRequest EXCEPT !.at = "inviter", !.actor = a, !.user = u,
                                  !.role = r])
    /\ UNCHANGED <<exists, role, invites, created, codes, history>>

RemoveMember(p, a, u) ==
    /\ IsAdmin(a)
    /\ Start(p, [NoRequest EXCEPT !.at = "remover", !.actor = a, !.user = u])
    /\ UNCHANGED <<exists, role, invites, created, codes, history>>

\* The role the handler passes on: owner for the platform administrator, and
\* also when RequireMember fails or finds no membership any more.
ActorRoles(a) ==
    IF a \in Users /\ role[a] # NoRole
    THEN {role[a]} \cup (IF Faults THEN {Owner} ELSE {})
    ELSE {Owner}

\* The hierarchy that InviteMember enforces.
MayInvite(as, r) == as = Owner \/ (as = Admin /\ r # Owner)

\* The second read of the membership: RemoveMember gets the role...
ReadRemover(p) ==
    /\ req[p].at = "remover"
    /\ \E as \in ActorRoles(req[p].actor) :
          req' = [req EXCEPT ![p].at = "target", ![p].actor = NoUser, ![p].as = as]
    /\ UNCHANGED <<exists, role, invites, created, codes, history>>

\* ...and InviteMember, which checks the hierarchy first.
ReadInviter(p) ==
    /\ req[p].at = "inviter"
    /\ \E as \in ActorRoles(req[p].actor) :
          IF MayInvite(as, req[p].role)
          THEN req' = [req EXCEPT ![p].at = "memberCheck"]
          ELSE req' = [req EXCEPT ![p] = NoRequest]
    /\ UNCHANGED <<exists, role, invites, created, codes, history>>

-----------------------------------------------------------------------------
(* InviteMember *)

\* GetUserByEmail and GetMember: a member is not invited.  An error of either
\* counts as "not a member".
MemberCheck(p) ==
    /\ \/ End(p, "memberCheck") /\ role[req[p].user] # NoRole
       \/ Goto(p, "memberCheck", "list") /\ (Faults \/ role[req[p].user] = NoRole)
    /\ UNCHANGED <<exists, role, invites, created, codes, history>>

\* accepted_at IS NULL: what the unique index covers.
Pending(i) == invites[i].user # NoUser /\ ~invites[i].accepted

\* ListPendingInvitesForTenant has accepted_at IS NULL AND expires_at > NOW().
Listed(u) == {i \in InviteIds : Pending(i) /\ invites[i].user = u /\ ~invites[i].expired}

\* The pending invite for this address, if it is listed; NoInvite also when the
\* list could not be read.
ListPendingInvites(p) ==
    /\ req[p].at = "list"
    /\ \E i \in Listed(req[p].user) \cup {NoInvite} :
       /\ i = NoInvite => Faults \/ Listed(req[p].user) = {}
       /\ req' = [req EXCEPT ![p].at = IF i = NoInvite THEN "insert" ELSE "replace",
                             ![p].inv = i]
    /\ UNCHANGED <<exists, role, invites, created, codes, history>>

\* DeleteInvite of the old one; its error is ignored.
ReplaceInvite(p) ==
    /\ Goto(p, "replace", "insert")
    /\ \/ invites' = [invites EXCEPT ![req[p].inv] = Absent]
       \/ Faults /\ UNCHANGED invites
    /\ UNCHANGED <<exists, role, created, codes, history>>

\* The unique index: no pending invite for u, expired or not.
NonePending(u) == ~\E j \in InviteIds : Pending(j) /\ invites[j].user = u

\* The foreign key on users(id) of invited_by.  The platform administrator's
\* requests say "admin", which is no user id.
InviterRow(a) == a \in Users

\* CreateInvite; a row that violates a constraint is an error (Fail).
CreateInvite(p) ==
    LET i == created + 1 IN
    /\ TenantRow
    /\ InviterRow(req[p].actor)
    /\ created < MaxInvites
    /\ NonePending(req[p].user)
    /\ End(p, "insert")
    /\ created' = i
    /\ invites' = [invites EXCEPT ![i] =
                      [Absent EXCEPT !.user = req[p].user, !.role = req[p].role]]
    /\ UNCHANGED <<exists, role, codes, history>>

\* ExpiresAt goes by (nobody looks at it once the invite is accepted).
ExpireInvite(i) ==
    /\ Pending(i)
    /\ ~invites[i].expired
    /\ invites' = [invites EXCEPT ![i].expired = TRUE]
    /\ UNCHANGED <<exists, role, created, codes, req, history>>

-----------------------------------------------------------------------------
(* AcceptInvite, RevokeInvite *)

\* GetInviteByID and the checks on what it returned.
AcceptInvite(p, i) ==
    /\ Pending(i)
    /\ ~invites[i].expired
    /\ Start(p, [NoRequest EXCEPT !.at = "join", !.actor = invites[i].user,
                                  !.role = invites[i].role, !.inv = i])
    /\ UNCHANGED <<exists, role, invites, created, codes, history>>

\* AddMember: an upsert, which overwrites the role of a member.
Join(p) ==
    LET u == req[p].actor IN
    /\ TenantRow
    /\ Goto(p, "join", "mark")
    /\ SetRoles([role EXCEPT ![u] = req[p].role])
    /\ excused' = (excused \/ (role[u] = Owner /\ req[p].role # Owner))
    /\ joined' = joined \cup {req[p].inv}
    /\ UNCHANGED <<exists, invites, created, codes>>

\* Mutant: accepted_at is not set.
NotMarked(i) == invites[i]

\* UPDATE ... SET accepted_at = NOW() WHERE id = i: no row, no effect.
Marked(i) == IF invites[i].user = NoUser THEN Absent ELSE [invites[i] EXCEPT !.accepted = TRUE]

\* MarkInviteAccepted.
MarkInviteAccepted(p) ==
    LET i == req[p].inv IN
    /\ End(p, "mark")
    /\ invites' = [invites EXCEPT ![i] = Marked(i)]
    /\ UNCHANGED <<exists, role, created, codes, history>>

\* MarkInviteAccepted failed or was never reached: the member has joined and
\* the invite is still pending.
MarkLost(p) ==
    /\ Faults
    /\ End(p, "mark")
    /\ joined' = joined \ {req[p].inv}
    /\ UNCHANGED <<exists, role, invites, created, codes, owned, overtaken, excused>>

\* ensureTenantAdmin, GetInviteByID (of any invite of the organization).
RevokeInvite(p, a) ==
    /\ IsAdmin(a)
    /\ Start(p, [NoRequest EXCEPT !.at = "getInvite"])
    /\ UNCHANGED <<exists, role, invites, created, codes, history>>

GetInvite(p, i) ==
    /\ req[p].at = "getInvite"
    /\ invites[i].user # NoUser
    /\ req' = [req EXCEPT ![p].at = "deleteInvite", ![p].inv = i]
    /\ UNCHANGED <<exists, role, invites, created, codes, history>>

DeleteInvite(p) ==
    /\ End(p, "deleteInvite")
    /\ invites' = [invites EXCEPT ![req[p].inv] = Absent]
    /\ UNCHANGED <<exists, role, created, codes, history>>

-----------------------------------------------------------------------------
(* RemoveMember *)

\* GetMember of the target: not a member, or an owner and the actor is not one,
\* is an error; only an owner's removal counts the owners.
GetTarget(p) ==
    LET r == role[req[p].user] IN
    /\ \/ End(p, "target") /\ (r = NoRole \/ (r = Owner /\ req[p].as # Owner))
       \/ Goto(p, "target", "count") /\ r = Owner /\ req[p].as = Owner
       \/ Goto(p, "target", "remove") /\ r \in {Admin, Member}
    /\ UNCHANGED <<exists, role, invites, created, codes, history>>

\* Mutant: off by one.
NoOwnerAtAll(n) == n < 1

LastOwner(n) == n <= 1

\* ListMembers and the count: ErrLastOwner, or go on.
CountOwners(p) ==
    /\ IF LastOwner(Cardinality(Owners(role)))
       THEN End(p, "count")
       ELSE Goto(p, "count", "remove")
    /\ UNCHANGED <<exists, role, invites, created, codes, history>>

\* DELETE of the row, whatever its role is by now.
DeleteMember(p) ==
    LET new == [role EXCEPT ![req[p].user] = NoRole]
        lost == Owners(role) \ Owners(new)
    IN
    /\ End(p, "remove")
    /\ role' = new
    /\ excused' = (excused \/ (p \in overtaken /\ lost # {}))
    /\ overtaken' = (overtaken \cup {q \in Requests : req[q].at = "remove" /\ lost # {}}) \ {p}
    /\ UNCHANGED <<exists, invites, created, codes, owned, joined>>

-----------------------------------------------------------------------------
(* RequestDeleteOrganization, ConfirmDeleteOrganization *)

\* RequireOwner; then the code is stored and mailed.
RequestDelete(p, u) ==
    /\ IsOwner(u)
    /\ Start(p, [NoRequest EXCEPT !.at = "setCode", !.actor = u])
    /\ UNCHANGED <<exists, role, invites, created, codes, history>>

SetCode(p) ==
    /\ End(p, "setCode")
    /\ codes' = codes \cup {req[p].actor}
    /\ UNCHANGED <<exists, role, invites, created, history>>

\* RequireOwner of ConfirmDeleteOrganization.
ConfirmDelete(p, u) ==
    /\ IsOwner(u)
    /\ Start(p, [NoRequest EXCEPT !.at = "checkCode", !.actor = u])
    /\ UNCHANGED <<exists, role, invites, created, codes, history>>

\* The code matches and is cleared (an error of the clearing is ignored).  The two calls
\* of the store are one step: requests that read one code between them do what a request
\* does whose clearing failed and the next one.  A wrong, expired or worn-out code ends
\* the request (Fail).
CheckCode(p) ==
    /\ req[p].actor \in codes
    /\ Goto(p, "checkCode", "deleteTenant")
    /\ \/ codes' = codes \ {req[p].actor}
       \/ Faults /\ UNCHANGED codes
    /\ UNCHANGED <<exists, role, invites, created, history>>

\* DeleteTenant: ON DELETE CASCADE takes members and invites along.
DeleteTenant(p) ==
    /\ exists
    /\ End(p, "deleteTenant")
    /\ exists' = FALSE
    /\ role' = [u \in Users |-> NoRole]
    /\ invites' = [i \in InviteIds |-> Absent]
    /\ overtaken' = {q \in Requests : req[q].at = "remove"}
    /\ owned' = FALSE
    /\ excused' = FALSE
    /\ UNCHANGED <<created, codes, joined>>

-----------------------------------------------------------------------------
RequestStart(p) ==
    \/ \E u \in Users : \/ CreateOrganization(p, u)
                        \/ RequestDelete(p, u) \/ ConfirmDelete(p, u)
    \/ \E a \in Users \cup {Platform}, u \in Users :
          RemoveMember(p, a, u) \/ \E r \in InviteRoles : InviteMember(p, a, u, r)
    \/ \E a \in Users \cup {Platform} : RevokeInvite(p, a)
    \/ \E i \in InviteIds : AcceptInvite(p, i)

RequestStep(p) ==
    \/ CreateTenant(p) \/ AddOwner(p)
    \/ ReadRemover(p) \/ ReadInviter(p) \/ MemberCheck(p) \/ ListPendingInvites(p) \/ ReplaceInvite(p)
    \/ CreateInvite(p)
    \/ Join(p) \/ MarkInviteAccepted(p)
    \/ \E i \in InviteIds : GetInvite(p, i)
    \/ DeleteInvite(p)
    \/ GetTarget(p) \/ CountOwners(p) \/ DeleteMember(p)
    \/ SetCode(p) \/ CheckCode(p) \/ DeleteTenant(p)

Next ==
    \/ \E p \in Requests :
          \/ RequestStart(p) \/ RequestStep(p)
          \/ IF req[p].at = "mark" THEN MarkLost(p) ELSE Fail(p)
    \/ PlatformCreate
    \/ \E i \in InviteIds : ExpireInvite(i)

Spec == Init /\ [][Next]_vars

-----------------------------------------------------------------------------
(* Properties *)

\* The last-owner rule of RemoveMember: an organization that has had an owner
\* has one, unless a removal went ahead on a check that another request had
\* made out of date, or an owner accepted an invite to a lower role.  Failing
\* requests, deletion and re-creation under the same id do not break it.
KeepsOwner ==
    exists /\ owned /\ ~excused => Owners(role) # {}

\* An invite makes its user a member once: after it has done so it is not
\* pending any more, unless the call that marks it is still to come or was lost.
InviteConsumed ==
    \A i \in joined :
        Pending(i) => \E p \in Requests : req[p].at = "mark" /\ req[p].inv = i

\* No members or invites without their organization, also when it is deleted
\* between the steps of a request that adds one: nobody is a member of an
\* organization created later under the same id unless he was added to it.
NoOrphans ==
    ~exists => /\ \A u \in Users : role[u] = NoRole
               /\ \A i \in InviteIds : invites[i] = Absent
=============================================================================
