------------------------ MODULE OrgMembershipProofs ------------------------
(***************************************************************************)
(* Proofs about OrgMembership, for any number of users, requests and       *)
(* invites: the types, that the last-owner rule is broken only in the two  *)
(* ways that KeepsOwner excuses, that an invite is consumed once and that  *)
(* no membership or invite outlives its organization.                      *)
(***************************************************************************)
EXTENDS OrgMembership, FiniteSetTheorems, TLAPS

-----------------------------------------------------------------------------
(* Types *)

\* A request is a record of its type, and so is one whose next call is another.
LEMMA RequestTypes ==
    /\ NoRequest \in Request
    /\ Absent \in Invite
  BY DEF NoRequest, Request, Steps, MaybeUser, Roles, Owner, Admin, Member, NoInvite,
         Absent, Invite

\* Starting a request, going on and ending keep the type of req.
LEMMA ReqStep ==
    ASSUME req \in [Requests -> Request], NEW p \in Requests, NEW from, NEW next \in Steps,
           Goto(p, from, next) \/ End(p, from)
    PROVE  req' \in [Requests -> Request]
<1>1. CASE Goto(p, from, next)
  <2>1. [req[p] EXCEPT !.at = next] \in Request
    BY DEF Request
  <2> QED
    BY <1>1, <2>1 DEF Goto
<1>2. CASE End(p, from)
  BY <1>2, RequestTypes DEF End
<1> QED
  BY <1>1, <1>2

\* The statements about members write roles only, and the history with them.
LEMMA SetRolesTypes ==
    ASSUME TypeOK, NEW u, NEW r \in Roles, SetRoles([role EXCEPT ![u] = r])
    PROVE  /\ role' \in [Users -> Roles \cup {NoRole}]
           /\ owned' \in BOOLEAN
           /\ overtaken' \subseteq Requests
  BY DEF TypeOK, SetRoles

\* Every store call keeps the types.
LEMMA TypeStep == TypeOK /\ [Next]_vars => TypeOK'
<1> SUFFICES ASSUME TypeOK, [Next]_vars PROVE TypeOK'
  OBVIOUS
<1> USE RequestTypes DEF TypeOK
<1>1. ASSUME NEW p \in Requests, Fail(p)
      PROVE TypeOK'
  BY <1>1 DEF Fail
<1>2. ASSUME NEW p \in Requests, NEW u \in Users,
             CreateOrganization(p, u) \/ RequestDelete(p, u) \/ ConfirmDelete(p, u)
      PROVE TypeOK'
  <2>1. \A s \in Steps : [NoRequest EXCEPT !.at = s, !.actor = u] \in Request
    BY DEF Request, MaybeUser
  <2> QED
    BY <1>2, <2>1 DEF CreateOrganization, RequestDelete, ConfirmDelete, Start, history, Steps
<1>3. ASSUME NEW p \in Requests, CreateTenant(p)
      PROVE TypeOK'
  BY <1>3, ReqStep DEF CreateTenant, history, Steps
<1>4. CASE PlatformCreate
  BY <1>4 DEF PlatformCreate, history
<1>5. ASSUME NEW p \in Requests, AddOwner(p)
      PROVE TypeOK'
  <2>1. req' \in [Requests -> Request]
    BY <1>5 DEF AddOwner, End
  <2> QED
    BY <1>5, <2>1, SetRolesTypes DEF AddOwner, Roles
<1>6. ASSUME NEW p \in Requests, NEW a \in Users \cup {Platform}, NEW u \in Users,
             RemoveMember(p, a, u)
      PROVE TypeOK'
  <2>1. [NoRequest EXCEPT !.at = "remover", !.actor = a, !.user = u] \in Request
    BY DEF Request, MaybeUser, Steps
  <2> QED
    BY <1>6, <2>1 DEF RemoveMember, Start, history
<1>7. ASSUME NEW p \in Requests, NEW a \in Users \cup {Platform}, NEW u \in Users,
             NEW r \in InviteRoles, InviteMember(p, a, u, r)
      PROVE TypeOK'
  <2>1. [NoRequest EXCEPT !.at = "inviter", !.actor = a, !.user = u, !.role = r] \in Request
    BY InviteRolesType DEF Request, MaybeUser, Steps
  <2> QED
    BY <1>7, <2>1 DEF InviteMember, Start, history
<1>8. ASSUME NEW p \in Requests, ReadRemover(p)
      PROVE TypeOK'
  <2>1. PICK as \in ActorRoles(req[p].actor) :
            req' = [req EXCEPT ![p].at = "target", ![p].actor = NoUser, ![p].as = as]
    BY <1>8 DEF ReadRemover
  <2>2. as \in Roles
    BY DEF ActorRoles, Roles
  <2>3. [req[p] EXCEPT !.at = "target", !.actor = NoUser, !.as = as] \in Request
    BY <2>2 DEF Request, Steps, MaybeUser
  <2>4. req' = [req EXCEPT ![p] = [req[p] EXCEPT !.at = "target", !.actor = NoUser, !.as = as]]
    BY <2>1
  <2> QED
    BY <1>8, <2>3, <2>4 DEF ReadRemover, history
<1>9. ASSUME NEW p \in Requests, ReadInviter(p)
      PROVE TypeOK'
  <2>1. [req[p] EXCEPT !.at = "memberCheck"] \in Request
    BY DEF Request, Steps
  <2>2. \/ req' = [req EXCEPT ![p] = [req[p] EXCEPT !.at = "memberCheck"]]
        \/ req' = [req EXCEPT ![p] = NoRequest]
    BY <1>9 DEF ReadInviter
  <2> QED
    BY <1>9, <2>1, <2>2 DEF ReadInviter, history
<1>10. ASSUME NEW p \in Requests, MemberCheck(p) \/ GetTarget(p) \/ CountOwners(p)
       PROVE TypeOK'
  <2>1. req' \in [Requests -> Request]
    BY <1>10, ReqStep DEF MemberCheck, GetTarget, CountOwners, Steps
  <2> QED
    BY <1>10, <2>1 DEF MemberCheck, GetTarget, CountOwners, history
<1>11. ASSUME NEW p \in Requests, ListPendingInvites(p)
       PROVE TypeOK'
  <2>1. PICK i \in Listed(req[p].user) \cup {NoInvite} :
            req' = [req EXCEPT ![p].at = IF i = NoInvite THEN "insert" ELSE "replace",
                               ![p].inv = i]
    BY <1>11 DEF ListPendingInvites
  <2> DEFINE next == IF i = NoInvite THEN "insert" ELSE "replace"
  <2>2. [req[p] EXCEPT !.at = next, !.inv = i] \in Request
    BY DEF Request, Steps, Listed
  <2>3. req' = [req EXCEPT ![p] = [req[p] EXCEPT !.at = next, !.inv = i]]
    BY <2>1
  <2> QED
    BY <1>11, <2>2, <2>3 DEF ListPendingInvites, history
<1>12. ASSUME NEW p \in Requests, ReplaceInvite(p) \/ DeleteInvite(p)
       PROVE TypeOK'
  <2>1. req' \in [Requests -> Request]
    BY <1>12, ReqStep DEF ReplaceInvite, DeleteInvite, Steps
  <2> QED
    BY <1>12, <2>1 DEF ReplaceInvite, DeleteInvite, history
<1>13. ASSUME NEW p \in Requests, CreateInvite(p)
       PROVE TypeOK'
  <2>1. req' \in [Requests -> Request]
    BY <1>13 DEF CreateInvite, End
  <2>2. req[p].user \in Users \cup {NoUser} /\ req[p].role \in Roles
    BY DEF Request
  <2>3. [Absent EXCEPT !.user = req[p].user, !.role = req[p].role] \in Invite
    BY <2>2 DEF Absent, Invite
  <2>4. created' \in 0..MaxInvites
    BY <1>13, MaxInvitesNat DEF CreateInvite
  <2> QED
    BY <1>13, <2>1, <2>3, <2>4 DEF CreateInvite, history
<1>14. ASSUME NEW i \in InviteIds, ExpireInvite(i)
       PROVE TypeOK'
  <2>1. [invites[i] EXCEPT !.expired = TRUE] \in Invite
    BY DEF Invite
  <2> QED
    BY <1>14, <2>1 DEF ExpireInvite, history
<1>15. ASSUME NEW p \in Requests, NEW i \in InviteIds, AcceptInvite(p, i)
       PROVE TypeOK'
  <2>1. invites[i].user \in MaybeUser /\ invites[i].role \in Roles
    BY DEF Invite, MaybeUser
  <2>2. [NoRequest EXCEPT !.at = "join", !.actor = invites[i].user,
                          !.role = invites[i].role, !.inv = i] \in Request
    BY <2>1 DEF Request, Steps
  <2> QED
    BY <1>15, <2>2 DEF AcceptInvite, Start, history
<1>16. ASSUME NEW p \in Requests, Join(p)
       PROVE TypeOK'
  <2>1. req' \in [Requests -> Request]
    BY <1>16, ReqStep DEF Join, Steps
  <2>2. req[p].role \in Roles
    BY DEF Request
  <2>3. joined' \subseteq {NoInvite} \cup InviteIds
    BY <1>16 DEF Join, Request
  <2> QED
    BY <1>16, <2>1, <2>2, <2>3, SetRolesTypes DEF Join
<1>17. ASSUME NEW p \in Requests, MarkInviteAccepted(p)
       PROVE TypeOK'
  <2> DEFINE i == req[p].inv
  <2>1. req' \in [Requests -> Request]
    BY <1>17 DEF MarkInviteAccepted, End
  <2>2. i \in InviteIds => Marked(i) \in Invite
    BY DEF Marked, Invite
  <2>3. invites' \in [InviteIds -> Invite]
    BY <1>17, <2>2 DEF MarkInviteAccepted
  <2> QED
    BY <1>17, <2>1, <2>3 DEF MarkInviteAccepted, End, history
<1>18. ASSUME NEW p \in Requests, MarkLost(p)
       PROVE TypeOK'
  BY <1>18 DEF MarkLost, End
<1>19. ASSUME NEW p \in Requests, NEW a \in Users \cup {Platform}, RevokeInvite(p, a)
       PROVE TypeOK'
  <2>1. [NoRequest EXCEPT !.at = "getInvite"] \in Request
    BY DEF Request, Steps
  <2> QED
    BY <1>19, <2>1 DEF RevokeInvite, Start, history
<1>20. ASSUME NEW p \in Requests, NEW i \in InviteIds, GetInvite(p, i)
       PROVE TypeOK'
  <2>1. [req[p] EXCEPT !.at = "deleteInvite", !.inv = i] \in Request
    BY DEF Request, Steps
  <2>2. req' = [req EXCEPT ![p] = [req[p] EXCEPT !.at = "deleteInvite", !.inv = i]]
    BY <1>20 DEF GetInvite
  <2> QED
    BY <1>20, <2>1, <2>2 DEF GetInvite, history
<1>21. ASSUME NEW p \in Requests, DeleteMember(p)
       PROVE TypeOK'
  <2>1. role' \in [Users -> Roles \cup {NoRole}]
    BY <1>21 DEF DeleteMember
  <2>2. excused' \in BOOLEAN /\ overtaken' \subseteq Requests
    BY <1>21 DEF DeleteMember
  <2>3. req' \in [Requests -> Request]
    BY <1>21 DEF DeleteMember, End
  <2> QED
    BY <1>21, <2>1, <2>2, <2>3 DEF DeleteMember
<1>22. ASSUME NEW p \in Requests, SetCode(p)
       PROVE TypeOK'
  BY <1>22 DEF SetCode, End, Request, history
<1>23. ASSUME NEW p \in Requests, CheckCode(p)
       PROVE TypeOK'
  <2>1. req' \in [Requests -> Request]
    BY <1>23, ReqStep DEF CheckCode, Steps
  <2> QED
    BY <1>23, <2>1 DEF CheckCode, history
<1>24. ASSUME NEW p \in Requests, DeleteTenant(p)
       PROVE TypeOK'
  <2>1. role' \in [Users -> Roles \cup {NoRole}] /\ invites' \in [InviteIds -> Invite]
    BY <1>24 DEF DeleteTenant
  <2>2. overtaken' \subseteq Requests
    BY <1>24 DEF DeleteTenant
  <2>3. req' \in [Requests -> Request]
    BY <1>24 DEF DeleteTenant, End
  <2> QED
    BY <1>24, <2>1, <2>2, <2>3 DEF DeleteTenant
<1>25. CASE UNCHANGED vars
  BY <1>25 DEF vars
<1> HIDE DEF TypeOK
<1> QED
  BY <1>1, <1>2, <1>3, <1>4, <1>5, <1>6, <1>7, <1>8, <1>9, <1>10, <1>11, <1>12, <1>13,
     <1>14, <1>15, <1>16, <1>17, <1>18, <1>19, <1>20, <1>21, <1>22, <1>23, <1>24, <1>25
     DEF Next, RequestStart, RequestStep

\* There is no organization yet.
LEMMA TypeInit == Init => TypeOK
<1> SUFFICES ASSUME Init PROVE TypeOK
  OBVIOUS
<1>1. created \in 0..MaxInvites
  BY MaxInvitesNat DEF Init
<1>2. /\ role \in [Users -> Roles \cup {NoRole}]
      /\ invites \in [InviteIds -> Invite]
      /\ req \in [Requests -> Request]
  BY RequestTypes DEF Init
<1> QED
  BY <1>1, <1>2 DEF Init, TypeOK

\* The rows of the tables and the state of every request keep their types.
THEOREM TypeCorrect == Spec => []TypeOK
  BY TypeInit, TypeStep, PTL DEF Spec

-----------------------------------------------------------------------------
(* The last-owner rule *)

\* Only an organization that exists has had an owner.
OwnedExists == owned => exists

\* A removal that is about to delete an owner and has not been overtaken still
\* leaves another owner: what CountOwners saw, or what GetTarget saw, holds.
CheckHolds ==
    \A p \in Requests :
        req[p].at = "remove" /\ p \notin overtaken /\ req[p].user \in Owners(role)
        => \E v \in Users : v # req[p].user /\ role[v] = Owner

OwnerInv == TypeOK /\ OwnedExists /\ CheckHolds /\ KeepsOwner

\* Steps that leave the organization, its members and the history alone keep the
\* rule if no request enters its DELETE by them.
LEMMA QuietStep ==
    ASSUME OwnerInv, UNCHANGED <<exists, role, owned, excused, overtaken>>,
           \A q \in Requests : req'[q].at = "remove" => req'[q] = req[q]
    PROVE  OwnedExists' /\ CheckHolds' /\ KeepsOwner'
  BY DEF OwnerInv, OwnedExists, CheckHolds, KeepsOwner, Owners

\* A member row is written: AddOwner and Join.
LEMMA SetRolesStep ==
    ASSUME OwnerInv, exists, NEW u, NEW r \in Roles,
           SetRoles([role EXCEPT ![u] = r]), UNCHANGED exists,
           excused' = (excused \/ (role[u] = Owner /\ r # Owner)),
           \A q \in Requests : req'[q].at = "remove" => req'[q] = req[q]
    PROVE  OwnedExists' /\ CheckHolds' /\ KeepsOwner'
<1> DEFINE new == [role EXCEPT ![u] = r]
<1> USE DEF OwnerInv, TypeOK, SetRoles, Owners
<1>1. OwnedExists'
  BY DEF OwnedExists
<1>2. CheckHolds'
  <2> SUFFICES ASSUME NEW q \in Requests, req'[q].at = "remove", q \notin overtaken',
                      req'[q].user \in Owners(role')
               PROVE  \E v \in Users : v # req'[q].user /\ role'[v] = Owner
    BY DEF CheckHolds
  <2>1. req'[q] = req[q] /\ q \notin overtaken
    OBVIOUS
  <2>2. Owners(role) \ Owners(new) = {} /\ req[q].user \notin Owners(new) \ Owners(role)
    BY <2>1
  <2> QED
    BY <2>1, <2>2 DEF CheckHolds
<1>3. KeepsOwner'
  BY DEF KeepsOwner
<1> QED
  BY <1>1, <1>2, <1>3

\* Another owner is left when more than one was counted.
LEMMA AnotherOwner ==
    ASSUME ~LastOwner(Cardinality(Owners(role))), NEW u \in Owners(role)
    PROVE  \E v \in Users : v # u /\ role[v] = Owner
<1>1. IsFiniteSet(Owners(role)) /\ Cardinality(Owners(role)) \in Nat
  <2>1. Owners(role) \in SUBSET Users
    BY DEF Owners
  <2>2. IsFiniteSet(Owners(role))
    BY <2>1, UsersFinite, FS_Subset
  <2> QED
    BY <2>2, FS_CardinalityType
<1>2. Cardinality(Owners(role)) # 1
  BY <1>1 DEF LastOwner
<1>3. Owners(role) # {u}
  BY <1>2, FS_Singleton
<1> QED
  BY <1>3 DEF Owners

\* Request p, with the role its target has now or with the count of the owners,
\* goes on to its DELETE.
LEMMA CheckedStep ==
    ASSUME OwnerInv, UNCHANGED <<exists, role, owned, excused, overtaken>>,
           NEW p \in Requests, NEW from, Goto(p, from, "remove"),
           req[p].user \in Owners(role) =>
               \E v \in Users : v # req[p].user /\ role[v] = Owner
    PROVE  OwnedExists' /\ CheckHolds' /\ KeepsOwner'
<1> USE DEF OwnerInv
<1>1. OwnedExists' /\ KeepsOwner'
  BY DEF OwnedExists, KeepsOwner, Owners
<1>2. CheckHolds'
  <2> SUFFICES ASSUME NEW q \in Requests, req'[q].at = "remove", q \notin overtaken',
                      req'[q].user \in Owners(role')
               PROVE  \E v \in Users : v # req'[q].user /\ role'[v] = Owner
    BY DEF CheckHolds
  <2>1. req'[q].user = req[q].user
    BY DEF Goto, TypeOK, Request
  <2>2. CASE q = p
    BY <2>1, <2>2
  <2>3. CASE q # p
    <3>1. req'[q] = req[q]
      BY <2>3 DEF Goto, TypeOK
    <3> QED
      BY <3>1 DEF CheckHolds
  <2> QED
    BY <2>2, <2>3
<1> QED
  BY <1>1, <1>2

\* Every store call keeps the last-owner rule and what it rests on.
LEMMA OwnerStep == OwnerInv /\ [Next]_vars => OwnedExists' /\ CheckHolds' /\ KeepsOwner'
<1> SUFFICES ASSUME OwnerInv, [Next]_vars PROVE OwnedExists' /\ CheckHolds' /\ KeepsOwner'
  OBVIOUS
<1> DEFINE Goal == OwnedExists' /\ CheckHolds' /\ KeepsOwner'
<1>t. TypeOK
  BY DEF OwnerInv
<1>r. req \in [Requests -> Request]
  BY <1>t DEF TypeOK
\* Calls that read, or write other tables, and do not lead to the DELETE.
<1>1. ASSUME NEW p \in Requests, NEW u \in Users,
             CreateOrganization(p, u) \/ RequestDelete(p, u) \/ ConfirmDelete(p, u)
      PROVE Goal
  <2>1. \A q \in Requests : req'[q].at = "remove" => req'[q] = req[q]
    BY <1>1, <1>r DEF CreateOrganization, RequestDelete, ConfirmDelete, Start, NoRequest
  <2> QED
    BY <1>1, <2>1, QuietStep DEF CreateOrganization, RequestDelete, ConfirmDelete, history
<1>2. ASSUME NEW p \in Requests, NEW a \in Users \cup {Platform}, NEW u \in Users,
             \/ RemoveMember(p, a, u)
             \/ \E r \in InviteRoles : InviteMember(p, a, u, r)
      PROVE Goal
  <2>1. \A q \in Requests : req'[q].at = "remove" => req'[q] = req[q]
    BY <1>2, <1>r DEF RemoveMember, InviteMember, Start, NoRequest
  <2> QED
    BY <1>2, <2>1, QuietStep DEF RemoveMember, InviteMember, history
<1>3. ASSUME NEW p \in Requests, NEW a \in Users \cup {Platform}, RevokeInvite(p, a)
      PROVE Goal
  <2>1. \A q \in Requests : req'[q].at = "remove" => req'[q] = req[q]
    BY <1>3, <1>r DEF RevokeInvite, Start, NoRequest
  <2> QED
    BY <1>3, <2>1, QuietStep DEF RevokeInvite, history
<1>4. ASSUME NEW p \in Requests, NEW i \in InviteIds, AcceptInvite(p, i) \/ GetInvite(p, i)
      PROVE Goal
  <2>1. CASE AcceptInvite(p, i)
    <3>1. \A q \in Requests : req'[q].at = "remove" => req'[q] = req[q]
      BY <2>1, <1>r DEF AcceptInvite, Start, NoRequest
    <3> QED
      BY <2>1, <3>1, QuietStep DEF AcceptInvite, history
  <2>2. CASE GetInvite(p, i)
    <3>1. \A q \in Requests : req'[q].at = "remove" => req'[q] = req[q]
      BY <2>2, <1>r DEF GetInvite, Request
    <3> QED
      BY <2>2, <3>1, QuietStep DEF GetInvite, history
  <2> QED
    BY <1>4, <2>1, <2>2
<1>5. ASSUME NEW p \in Requests, ReadRemover(p)
      PROVE Goal
  <2>1. \A q \in Requests : req'[q].at = "remove" => req'[q] = req[q]
    BY <1>5, <1>r DEF ReadRemover, Request
  <2> QED
    BY <1>5, <2>1, QuietStep DEF ReadRemover, history
<1>6. ASSUME NEW p \in Requests, ReadInviter(p)
      PROVE Goal
  <2>1. \A q \in Requests : req'[q].at = "remove" => req'[q] = req[q]
    <3>1. \/ req' = [req EXCEPT ![p].at = "memberCheck"]
          \/ req' = [req EXCEPT ![p] = NoRequest]
      BY <1>6 DEF ReadInviter
    <3> QED
      BY <3>1, <1>r DEF Request, NoRequest
  <2> QED
    BY <1>6, <2>1, QuietStep DEF ReadInviter, history
<1>7. ASSUME NEW p \in Requests, ListPendingInvites(p)
      PROVE Goal
  <2>1. \A q \in Requests : req'[q].at = "remove" => req'[q] = req[q]
    BY <1>7, <1>r DEF ListPendingInvites, Request
  <2> QED
    BY <1>7, <2>1, QuietStep DEF ListPendingInvites, history
<1>8. ASSUME NEW p \in Requests,
             \/ MemberCheck(p) \/ ReplaceInvite(p) \/ CreateInvite(p)
             \/ MarkInviteAccepted(p) \/ MarkLost(p) \/ DeleteInvite(p)
             \/ SetCode(p) \/ CheckCode(p)
      PROVE Goal
  <2>1. \A q \in Requests : req'[q].at = "remove" => req'[q] = req[q]
    <3>1. \/ \E from : End(p, from)
          \/ \E from : Goto(p, from, "list") \/ Goto(p, from, "insert")
                         \/ Goto(p, from, "deleteTenant")
      BY <1>8, Zenon DEF MemberCheck, ReplaceInvite, CreateInvite, MarkInviteAccepted,
         MarkLost, DeleteInvite, SetCode, CheckCode
    <3> QED
      BY <3>1, <1>r DEF Goto, End, NoRequest, Request
  <2>2. UNCHANGED <<exists, role, owned, excused, overtaken>>
    BY <1>8 DEF MemberCheck, ReplaceInvite, CreateInvite, MarkInviteAccepted, MarkLost,
       DeleteInvite, SetCode, CheckCode, history
  <2> QED
    BY <2>1, <2>2, QuietStep
<1>9. ASSUME NEW i \in InviteIds, ExpireInvite(i)
      PROVE Goal
  BY <1>9, QuietStep DEF ExpireInvite, history
\* The organization is created, and has had no owner, or it was there already.
<1>10. ASSUME \/ PlatformCreate
              \/ \E p \in Requests : CreateTenant(p)
       PROVE Goal
  <2>1. UNCHANGED <<role, owned, excused, overtaken>> /\ exists' = TRUE
    BY <1>10 DEF PlatformCreate, CreateTenant, history
  <2>2. \A q \in Requests : req'[q].at = "remove" => req'[q] = req[q]
    BY <1>10, <1>r DEF PlatformCreate, CreateTenant, Goto, Request
  <2>3. CASE exists
    BY <2>1, <2>2, <2>3, QuietStep
  <2>4. CASE ~exists
    <3>1. ~owned
      BY <2>4 DEF OwnerInv, OwnedExists
    <3> QED
      BY <2>1, <2>2, <3>1 DEF OwnerInv, OwnedExists, CheckHolds, KeepsOwner, Owners
  <2> QED
    BY <2>3, <2>4
\* A member row is written.
<1>11. ASSUME NEW p \in Requests, AddOwner(p)
       PROVE Goal
  <2>1. \A q \in Requests : req'[q].at = "remove" => req'[q] = req[q]
    BY <1>11, <1>r DEF AddOwner, End, NoRequest
  <2>2. excused' = (excused \/ (role[req[p].actor] = Owner /\ Owner # Owner))
    BY <1>11, <1>t DEF AddOwner, TypeOK
  <2>3. exists /\ UNCHANGED exists /\ Owner \in Roles
    BY <1>11 DEF AddOwner, TenantRow, Roles
  <2>4. SetRoles([role EXCEPT ![req[p].actor] = Owner])
    BY <1>11 DEF AddOwner
  <2> QED
    BY <2>1, <2>2, <2>3, <2>4, SetRolesStep
<1>12. ASSUME NEW p \in Requests, Join(p)
       PROVE Goal
  <2>1. \A q \in Requests : req'[q].at = "remove" => req'[q] = req[q]
    BY <1>12, <1>r DEF Join, Goto, Request
  <2>2. excused' = (excused \/ (role[req[p].actor] = Owner /\ req[p].role # Owner))
    BY <1>12 DEF Join
  <2>3. exists /\ UNCHANGED exists /\ req[p].role \in Roles
    BY <1>12, <1>r DEF Join, TenantRow, Request
  <2>4. SetRoles([role EXCEPT ![req[p].actor] = req[p].role])
    BY <1>12 DEF Join
  <2> QED
    BY <2>1, <2>2, <2>3, <2>4, SetRolesStep
\* The checks of a removal: the target is no owner, or is not the only one.
<1>13. ASSUME NEW p \in Requests, GetTarget(p)
       PROVE Goal
  <2>1. UNCHANGED <<exists, role, owned, excused, overtaken>>
    BY <1>13 DEF GetTarget, history
  <2>2. CASE End(p, "target") \/ Goto(p, "target", "count")
    <3>1. \A q \in Requests : req'[q].at = "remove" => req'[q] = req[q]
      BY <2>2, <1>r DEF Goto, End, NoRequest, Request
    <3> QED
      BY <2>1, <3>1, QuietStep
  <2>3. CASE Goto(p, "target", "remove") /\ role[req[p].user] \in {Admin, Member}
    <3>1. req[p].user \notin Owners(role)
      BY <2>3 DEF Owners, Owner, Admin, Member
    <3> QED
      BY <2>1, <2>3, <3>1, CheckedStep
  <2> QED
    BY <1>13, <2>2, <2>3 DEF GetTarget
<1>14. ASSUME NEW p \in Requests, CountOwners(p)
       PROVE Goal
  <2>1. UNCHANGED <<exists, role, owned, excused, overtaken>>
    BY <1>14 DEF CountOwners, history
  <2>2. CASE End(p, "count")
    <3>1. \A q \in Requests : req'[q].at = "remove" => req'[q] = req[q]
      BY <2>2, <1>r DEF End, NoRequest
    <3> QED
      BY <2>1, <3>1, QuietStep
  <2>3. CASE ~LastOwner(Cardinality(Owners(role))) /\ Goto(p, "count", "remove")
    <3>1. req[p].user \in Owners(role) =>
              \E v \in Users : v # req[p].user /\ role[v] = Owner
      BY <2>3, AnotherOwner
    <3> QED
      BY <2>1, <2>3, <3>1, CheckedStep
  <2> QED
    BY <1>14, <2>2, <2>3 DEF CountOwners
\* The DELETE itself, of a member and of the organization.
<1>15. ASSUME NEW p \in Requests, DeleteMember(p)
       PROVE Goal
  <2> DEFINE u == req[p].user
             new == [role EXCEPT ![u] = NoRole]
             lost == Owners(role) \ Owners(new)
  <2>1. /\ role' = new /\ UNCHANGED <<exists, owned>>
        /\ excused' = (excused \/ (p \in overtaken /\ lost # {}))
        /\ overtaken' = (overtaken \cup {q \in Requests : req[q].at = "remove" /\ lost # {}}) \ {p}
        /\ End(p, "remove")
    BY <1>15 DEF DeleteMember
  <2>2. Owners(new) = Owners(role) \ {u}
    BY <1>t DEF TypeOK, Owners, NoRole, Owner
  <2>3. OwnedExists'
    BY <2>1 DEF OwnerInv, OwnedExists
  <2>4. CheckHolds'
    <3> SUFFICES ASSUME NEW q \in Requests, req'[q].at = "remove", q \notin overtaken',
                        req'[q].user \in Owners(new)
                 PROVE  \E v \in Users : v # req'[q].user /\ new[v] = Owner
      BY <2>1 DEF CheckHolds
    <3>1. q # p /\ req'[q] = req[q]
      BY <2>1, <1>r DEF End, NoRequest
    <3>2. q \notin overtaken /\ lost = {}
      BY <2>1, <3>1
    <3>3. Owners(new) = Owners(role)
      BY <2>2, <3>2
    <3>4. PICK v \in Users : v # req[q].user /\ role[v] = Owner
      BY <3>1, <3>2, <3>3 DEF OwnerInv, CheckHolds
    <3>5. v \in Owners(new)
      BY <3>3, <3>4 DEF Owners
    <3> QED
      BY <3>1, <3>4, <3>5 DEF Owners
  <2>5. KeepsOwner'
    <3> SUFFICES ASSUME exists, owned, ~excused'
                 PROVE  Owners(new) # {}
      BY <2>1 DEF KeepsOwner
    <3>1. ~excused /\ (p \notin overtaken \/ lost = {})
      BY <2>1
    <3>2. Owners(role) # {}
      BY <3>1 DEF OwnerInv, KeepsOwner
    <3>3. CASE u \notin Owners(role)
      BY <2>2, <3>2, <3>3
    <3>4. CASE u \in Owners(role)
      <4>1. p \notin overtaken
        BY <2>2, <3>1, <3>4
      <4>2. PICK v \in Users : v # u /\ role[v] = Owner
        BY <2>1, <3>4, <4>1 DEF OwnerInv, CheckHolds, End
      <4> QED
        BY <2>2, <4>2 DEF Owners
    <3> QED
      BY <3>3, <3>4
  <2> QED
    BY <2>3, <2>4, <2>5
<1>16. ASSUME NEW p \in Requests, DeleteTenant(p)
       PROVE Goal
  <2>1. \A q \in Requests : req'[q].at = "remove" => req'[q] = req[q]
    BY <1>16, <1>r DEF DeleteTenant, End, NoRequest
  <2>2. CheckHolds'
    BY <1>16, <2>1 DEF DeleteTenant, CheckHolds
  <2> QED
    BY <1>16, <2>2 DEF DeleteTenant, OwnedExists, KeepsOwner
\* A request ends in an error.
<1>17. ASSUME NEW p \in Requests, Fail(p)
       PROVE Goal
  <2>1. \A q \in Requests : req'[q].at = "remove" => q # p /\ req'[q] = req[q]
    BY <1>17, <1>r DEF Fail, NoRequest
  <2>2. \A q \in Requests : q # p => (q \in overtaken' <=> q \in overtaken)
    BY <1>17 DEF Fail
  <2> QED
    BY <1>17, <2>1, <2>2 DEF Fail, OwnerInv, OwnedExists, CheckHolds, KeepsOwner, Owners
<1>18. CASE UNCHANGED vars
  BY <1>18, QuietStep DEF vars
<1> HIDE DEF Goal
<1> QED
  BY <1>1, <1>2, <1>3, <1>4, <1>5, <1>6, <1>7, <1>8, <1>9, <1>10, <1>11, <1>12, <1>13,
     <1>14, <1>15, <1>16, <1>17, <1>18
     DEF Next, RequestStart, RequestStep, Goal

\* Before there is an organization nobody owns it and nobody is being removed.
LEMMA OwnerInit == Init => OwnedExists /\ CheckHolds /\ KeepsOwner
  BY DEF Init, OwnedExists, CheckHolds, KeepsOwner, NoRequest

\* The last-owner rule of RemoveMember, for any number of users and of requests
\* racing each other: an organization loses its last owner only by a removal whose
\* check was overtaken, or by an owner who accepts an invite to a lower role.
THEOREM LastOwnerRule == Spec => []KeepsOwner
<1>1. Init => OwnerInv
  BY TypeInit, OwnerInit DEF OwnerInv
<1>2. OwnerInv /\ [Next]_vars => OwnerInv'
  BY TypeStep, OwnerStep DEF OwnerInv
<1>3. OwnerInv => KeepsOwner
  BY DEF OwnerInv
<1> QED
  BY <1>1, <1>2, <1>3, PTL DEF Spec

-----------------------------------------------------------------------------
(* Invites and orphans *)

\* Ids that have not been handed out have no row, and no request has seen one.
NotYet == \A i \in InviteIds : i > created => invites[i].user = NoUser
Accepting == \A p \in Requests : req[p].at \in {"join", "mark"} => req[p].inv \in 1..created

InviteInv ==
    /\ TypeOK /\ NotYet /\ Accepting /\ InviteConsumed /\ NoOrphans
    /\ joined \subseteq 1..created

\* What a step does to the row of an invite: CreateInvite makes the next one; any other
\* step leaves it, takes it away, or makes it expired or accepted.
Created(i) == i = created + 1 /\ created' = i /\ exists' /\ UNCHANGED joined
Ages(i) ==
    /\ invites'[i].user = NoUser \/ invites'[i].user = invites[i].user
    /\ invites'[i].user # NoUser /\ ~invites'[i].accepted => ~invites[i].accepted
    /\ invites[i] = Absent => invites'[i] = Absent

\* What a step does to the rows of invites: it creates the next one, or lets each age.
LEMMA InviteRows ==
    ASSUME TypeOK, [Next]_vars
    PROVE  /\ \A i \in InviteIds : Created(i) \/ Ages(i)
           /\ created' = created \/ (created' = created + 1 /\ Created(created + 1))
<1> USE DEF Ages
<1>1. ASSUME NEW p \in Requests, CreateInvite(p)
      PROVE  /\ Created(created + 1) /\ created' = created + 1
             /\ \A i \in InviteIds : i = created + 1 \/ Ages(i)
  BY <1>1 DEF CreateInvite, TenantRow, Created, TypeOK, history
<1>2. ASSUME NEW i \in InviteIds, ExpireInvite(i)
      PROVE  created' = created /\ \A j \in InviteIds : Ages(j)
  <2>1. invites[i] # Absent /\ created' = created
    BY <1>2 DEF ExpireInvite, Pending, Absent
  <2>2. /\ invites'[i].user = invites[i].user /\ invites'[i].accepted = invites[i].accepted
        /\ \A j \in InviteIds : j # i => invites'[j] = invites[j]
    BY <1>2 DEF ExpireInvite, TypeOK, Invite
  <2> QED
    BY <2>1, <2>2
<1>3. ASSUME NEW p \in Requests, MarkInviteAccepted(p)
      PROVE  created' = created /\ \A j \in InviteIds : Ages(j)
  <2>0. created' = created
    BY <1>3 DEF MarkInviteAccepted
  <2>1. \A j \in InviteIds : invites'[j] = invites[j] \/ invites'[j] = Marked(j)
    BY <1>3 DEF MarkInviteAccepted, TypeOK
  <2>2. \A j \in InviteIds : /\ Marked(j).user = invites[j].user
                             /\ Marked(j).user # NoUser => Marked(j).accepted = TRUE
                             /\ invites[j] = Absent => Marked(j) = Absent
    BY DEF Marked, Absent, TypeOK, Invite
  <2> QED
    BY <2>0, <2>1, <2>2
<1>4. ASSUME created' = created,
             \A j \in InviteIds : invites'[j] = invites[j] \/ invites'[j] = Absent
      PROVE  \A j \in InviteIds : Ages(j)
  <2>1. Absent.user = NoUser
    BY DEF Absent
  <2> QED
    BY <1>4, <2>1
<1>5. ASSUME NEW p \in Requests, ReplaceInvite(p) \/ DeleteInvite(p) \/ DeleteTenant(p)
      PROVE  created' = created /\ \A j \in InviteIds : Ages(j)
  <2>1. created' = created /\ \A j \in InviteIds : invites'[j] = invites[j] \/ invites'[j] = Absent
    BY <1>5 DEF ReplaceInvite, DeleteInvite, DeleteTenant, TypeOK
  <2> QED
    BY <1>4, <2>1
<1>6. CASE UNCHANGED <<invites, created>>
  BY <1>6
<1> HIDE DEF Ages
<1>7. \/ \E p \in Requests : CreateInvite(p)
      \/ \E i \in InviteIds : ExpireInvite(i)
      \/ \E p \in Requests : \/ MarkInviteAccepted(p)
                             \/ ReplaceInvite(p) \/ DeleteInvite(p) \/ DeleteTenant(p)
      \/ UNCHANGED <<invites, created>>
  BY DEF Next, vars, RequestStart, RequestStep, CreateOrganization, RequestDelete, ConfirmDelete,
         RemoveMember, InviteMember, RevokeInvite, AcceptInvite, CreateTenant, AddOwner,
         ReadRemover, ReadInviter, MemberCheck, ListPendingInvites, Join, GetInvite, GetTarget,
         CountOwners, DeleteMember, SetCode, CheckCode, MarkLost, Fail, PlatformCreate
<1> QED
  BY <1>1, <1>2, <1>3, <1>5, <1>6, <1>7

\* What a step does to the requests that accept an invite: AcceptInvite starts one with
\* a pending invite, Join and MarkInviteAccepted move it on; no other step does.
NoAccepting ==
    /\ UNCHANGED joined
    /\ \A q \in Requests :
          req[q].at = "mark" \/ req'[q].at \in {"join", "mark"} => req'[q] = req[q]

\* A request that is not at the mark before its step goes where no invite is accepted.
LEMMA ElsewhereMoves ==
    ASSUME TypeOK, NEW p \in Requests, NEW r, req' = [req EXCEPT ![p] = r], req[p].at # "mark",
           r.at \notin {"join", "mark"}, UNCHANGED joined
    PROVE  NoAccepting
  BY DEF TypeOK, NoAccepting

\* The same of a request that goes on to its next call or ends.
LEMMA Elsewhere ==
    ASSUME TypeOK, NEW p \in Requests, NEW from \in Steps \ {"mark"},
           NEW next \in Steps \ {"join", "mark"}, Goto(p, from, next) \/ End(p, from),
           UNCHANGED joined
    PROVE  NoAccepting
<1>1. CASE Goto(p, from, next)
  <2>1. req' = [req EXCEPT ![p] = [req[p] EXCEPT !.at = next]] /\ req[p].at # "mark"
    BY <1>1 DEF Goto, TypeOK
  <2>2. [req[p] EXCEPT !.at = next].at = next
    BY DEF TypeOK, Request
  <2> QED
    BY <2>1, <2>2, ElsewhereMoves
<1>2. CASE End(p, from)
  BY <1>2, ElsewhereMoves DEF End, NoRequest
<1> QED
  BY <1>1, <1>2

\* Invites are accepted by the steps of AcceptInvite alone.
LEMMA AcceptSteps ==
    ASSUME TypeOK, [Next]_vars
    PROVE  \/ NoAccepting
           \/ \E p \in Requests, i \in InviteIds : AcceptInvite(p, i)
           \/ \E p \in Requests : Join(p) \/ MarkInviteAccepted(p) \/ MarkLost(p)
<1> USE DEF history
<1>1. ASSUME NEW p \in Requests, RequestStart(p)
      PROVE  NoAccepting \/ \E i \in InviteIds : AcceptInvite(p, i)
  <2>0. NoRequest.at = "idle"
    BY DEF NoRequest
  <2>1. ASSUME NEW r, Start(p, r), r.at \notin {"join", "mark"}, UNCHANGED joined
        PROVE  NoAccepting
    BY <2>0, <2>1, ElsewhereMoves DEF Start
  <2>2. \A u \in MaybeUser, s \in {"createTenant", "setCode", "checkCode"} :
           [NoRequest EXCEPT !.at = s, !.actor = u].at = s
    BY DEF NoRequest
  <2>3. ASSUME NEW u \in Users, CreateOrganization(p, u) \/ RequestDelete(p, u) \/ ConfirmDelete(p, u)
        PROVE  NoAccepting
    <3>1. PICK s \in {"createTenant", "setCode", "checkCode"} :
             Start(p, [NoRequest EXCEPT !.at = s, !.actor = u])
      BY <2>3 DEF CreateOrganization, RequestDelete, ConfirmDelete
    <3>2. UNCHANGED joined
      BY <2>3 DEF CreateOrganization, RequestDelete, ConfirmDelete
    <3> QED
      BY <2>1, <2>2, <3>1, <3>2 DEF MaybeUser
  <2>4. ASSUME NEW a, NEW u \in Users, RemoveMember(p, a, u)
        PROVE  NoAccepting
    BY <2>1, <2>4 DEF RemoveMember, NoRequest
  <2>5. ASSUME NEW a, NEW u \in Users, NEW r, InviteMember(p, a, u, r)
        PROVE  NoAccepting
    BY <2>1, <2>5 DEF InviteMember, NoRequest
  <2>6. ASSUME NEW a, RevokeInvite(p, a)
        PROVE  NoAccepting
    BY <2>1, <2>6 DEF RevokeInvite, NoRequest
  <2> QED
    BY <1>1, <2>3, <2>4, <2>5, <2>6 DEF RequestStart
<1>2. ASSUME NEW p \in Requests, ReadRemover(p)
      PROVE  NoAccepting
  <2>1. PICK as \in ActorRoles(req[p].actor) :
            req' = [req EXCEPT ![p].at = "target", ![p].actor = NoUser, ![p].as = as]
    BY <1>2 DEF ReadRemover
  <2>2. req' = [req EXCEPT ![p] = [req[p] EXCEPT !.at = "target", !.actor = NoUser, !.as = as]]
    BY <2>1
  <2>3. [req[p] EXCEPT !.at = "target", !.actor = NoUser, !.as = as].at = "target"
    BY DEF TypeOK, Request
  <2> QED
    BY <1>2, <2>2, <2>3, ElsewhereMoves DEF ReadRemover
<1>3. ASSUME NEW p \in Requests, ReadInviter(p)
      PROVE  NoAccepting
  <2>1. req[p].at = "inviter" /\ UNCHANGED joined
    BY <1>3 DEF ReadInviter
  <2>2. Goto(p, "inviter", "memberCheck") \/ End(p, "inviter")
    BY <1>3 DEF ReadInviter, Goto, End
  <2> QED
    BY <2>1, <2>2, Elsewhere DEF Steps
<1>4. ASSUME NEW p \in Requests, ListPendingInvites(p)
      PROVE  NoAccepting
  <2>1. PICK i \in Listed(req[p].user) \cup {NoInvite} :
            req' = [req EXCEPT ![p].at = IF i = NoInvite THEN "insert" ELSE "replace",
                               ![p].inv = i]
    BY <1>4 DEF ListPendingInvites
  <2> DEFINE next == IF i = NoInvite THEN "insert" ELSE "replace"
  <2>2. req' = [req EXCEPT ![p] = [req[p] EXCEPT !.at = next, !.inv = i]]
    BY <2>1
  <2>3. [req[p] EXCEPT !.at = next, !.inv = i].at = next
    BY DEF TypeOK, Request
  <2>4. next \notin {"join", "mark"}
    OBVIOUS
  <2>5. req[p].at # "mark" /\ UNCHANGED joined
    BY <1>4 DEF ListPendingInvites
  <2> HIDE DEF next
  <2> QED
    BY <2>2, <2>3, <2>4, <2>5, ElsewhereMoves
<1>5. ASSUME NEW p \in Requests, NEW i \in InviteIds, GetInvite(p, i)
      PROVE  NoAccepting
  <2>1. req' = [req EXCEPT ![p] = [req[p] EXCEPT !.at = "deleteInvite", !.inv = i]]
    BY <1>5 DEF GetInvite
  <2>2. [req[p] EXCEPT !.at = "deleteInvite", !.inv = i].at = "deleteInvite"
    BY DEF TypeOK, Request
  <2> QED
    BY <1>5, <2>1, <2>2, ElsewhereMoves DEF GetInvite
<1>6. ASSUME NEW p \in Requests,
             \/ CreateTenant(p) \/ AddOwner(p) \/ MemberCheck(p) \/ ReplaceInvite(p)
             \/ CreateInvite(p) \/ DeleteInvite(p) \/ GetTarget(p) \/ CountOwners(p)
             \/ DeleteMember(p) \/ SetCode(p) \/ CheckCode(p) \/ DeleteTenant(p)
      PROVE  NoAccepting
  <2>1. UNCHANGED joined
    BY <1>6 DEF CreateTenant, AddOwner, MemberCheck, ReplaceInvite, CreateInvite, DeleteInvite,
       GetTarget, CountOwners, DeleteMember, SetCode, CheckCode, DeleteTenant
  <2>2. \E from \in Steps \ {"mark"}, next \in Steps \ {"join", "mark"} :
           Goto(p, from, next) \/ End(p, from)
    <3>1. CASE CreateTenant(p) \/ AddOwner(p)
      BY <3>1 DEF CreateTenant, AddOwner, Steps
    <3>2. CASE MemberCheck(p) \/ ReplaceInvite(p)
      BY <3>2 DEF MemberCheck, ReplaceInvite, Steps
    <3>3. CASE CreateInvite(p) \/ DeleteInvite(p)
      BY <3>3 DEF CreateInvite, DeleteInvite, Steps
    <3>4. CASE GetTarget(p) \/ CountOwners(p)
      BY <3>4 DEF GetTarget, CountOwners, Steps
    <3>5. CASE DeleteMember(p) \/ SetCode(p)
      BY <3>5 DEF DeleteMember, SetCode, Steps
    <3>6. CASE CheckCode(p) \/ DeleteTenant(p)
      BY <3>6 DEF CheckCode, DeleteTenant, Steps
    <3> QED
      BY <1>6, <3>1, <3>2, <3>3, <3>4, <3>5, <3>6
  <2>3. PICK from \in Steps \ {"mark"}, next \in Steps \ {"join", "mark"} :
           Goto(p, from, next) \/ End(p, from)
    BY <2>2
  <2> QED
    BY <2>1, <2>3, Elsewhere
<1>7. ASSUME NEW p \in Requests, Fail(p), req[p].at # "mark"
      PROVE  NoAccepting
  BY <1>7, ElsewhereMoves DEF Fail, NoRequest
<1>8. CASE UNCHANGED <<req, joined>>
  BY <1>8 DEF NoAccepting
<1> QED
  BY <1>1, <1>2, <1>3, <1>4, <1>5, <1>6, <1>7, <1>8
     DEF Next, vars, RequestStep, PlatformCreate, ExpireInvite

\* Ids stay ahead of the rows and of the requests that accept.
LEMMA NotYetStep == InviteInv /\ [Next]_vars => NotYet' /\ Accepting' /\ joined' \subseteq 1..created'
<1> SUFFICES ASSUME InviteInv, [Next]_vars
             PROVE  NotYet' /\ Accepting' /\ joined' \subseteq 1..created'
  OBVIOUS
<1>0. TypeOK /\ created \in Nat /\ NotYet /\ Accepting /\ joined \subseteq 1..created
  BY MaxInvitesNat DEF InviteInv, TypeOK
<1>1. created' \in {created, created + 1} /\ created' \in Nat
  BY <1>0, InviteRows
<1>2. NotYet'
  <2> SUFFICES ASSUME NEW i \in InviteIds, i > created' PROVE invites'[i].user = NoUser
    BY DEF NotYet
  <2>1. i \in Nat /\ i > created /\ i # created'
    BY <1>0, <1>1 DEF InviteIds
  <2>2. Ages(i)
    BY <1>0, <2>1, InviteRows DEF Created
  <2> QED
    BY <1>0, <2>1, <2>2 DEF NotYet, Ages
<1>3. ASSUME NoAccepting
      PROVE  Accepting' /\ joined' \subseteq 1..created'
  BY <1>0, <1>1, <1>3 DEF NoAccepting, Accepting
<1>4. ASSUME NEW p \in Requests, NEW i \in InviteIds, AcceptInvite(p, i)
      PROVE  Accepting' /\ joined' \subseteq 1..created'
  <2>1. i \in 1..created
    BY <1>0, <1>4 DEF AcceptInvite, Pending, NotYet, InviteIds
  <2>2. UNCHANGED <<created, joined>>
    BY <1>4 DEF AcceptInvite, history
  <2>3. \A q \in Requests : req'[q] = req[q] \/ req'[q].inv = i
    BY <1>0, <1>4 DEF AcceptInvite, Start, NoRequest, TypeOK
  <2> QED
    BY <1>0, <2>1, <2>2, <2>3 DEF Accepting
<1>5. ASSUME NEW p \in Requests, Join(p)
      PROVE  Accepting' /\ joined' \subseteq 1..created'
  <2>1. req[p].inv \in 1..created
    BY <1>0, <1>5 DEF Join, Goto, Accepting
  <2>2. created' = created /\ joined' = joined \cup {req[p].inv}
    BY <1>5 DEF Join
  <2>3. \A q \in Requests : req'[q] = req[q] \/ req'[q].inv = req[p].inv
    BY <1>0, <1>5 DEF Join, Goto, TypeOK, Request
  <2> QED
    BY <1>0, <2>1, <2>2, <2>3 DEF Accepting
<1>6. ASSUME NEW p \in Requests, MarkInviteAccepted(p) \/ MarkLost(p)
      PROVE  Accepting' /\ joined' \subseteq 1..created'
  <2>1. created' = created /\ joined' \subseteq joined
    BY <1>6 DEF MarkInviteAccepted, MarkLost, history
  <2>2. \A q \in Requests : req'[q] = req[q] \/ req'[q].at = "idle"
    BY <1>0, <1>6 DEF MarkInviteAccepted, MarkLost, End, NoRequest, TypeOK
  <2> QED
    BY <1>0, <2>1, <2>2 DEF Accepting
<1> QED
  BY <1>0, <1>2, <1>3, <1>4, <1>5, <1>6, AcceptSteps

\* An invite that has made its user a member is marked before its request ends.
LEMMA ConsumedStep == InviteInv /\ [Next]_vars => InviteConsumed'
<1> SUFFICES ASSUME InviteInv, [Next]_vars, NEW i \in joined', Pending(i)'
             PROVE  \E p \in Requests : req'[p].at = "mark" /\ req'[p].inv = i
  BY DEF InviteConsumed
<1>0. /\ TypeOK /\ created \in Nat /\ InviteConsumed /\ joined \subseteq 1..created
      /\ Accepting /\ 1..created \subseteq InviteIds
  BY MaxInvitesNat DEF InviteInv, TypeOK, InviteIds
<1>1. ASSUME i \in joined
      PROVE  Pending(i)
  <2>1. i \in InviteIds /\ i # created + 1
    BY <1>0, <1>1
  <2>2. Ages(i)
    BY <1>0, <2>1, InviteRows DEF Created
  <2> QED
    BY <2>2 DEF Ages, Pending
<1>2. ASSUME i \in joined
      PROVE  \E p \in Requests : req[p].at = "mark" /\ req[p].inv = i
  BY <1>0, <1>1, <1>2 DEF InviteConsumed
<1>3. CASE NoAccepting
  BY <1>2, <1>3 DEF NoAccepting
<1>4. ASSUME NEW p \in Requests, NEW j \in InviteIds, AcceptInvite(p, j)
      PROVE  \E q \in Requests : req'[q].at = "mark" /\ req'[q].inv = i
  <2>1. i \in joined
    BY <1>4 DEF AcceptInvite, history
  <2>2. PICK q \in Requests : req[q].at = "mark" /\ req[q].inv = i
    BY <1>2, <2>1
  <2>3. req'[q] = req[q]
    BY <1>0, <1>4, <2>2 DEF AcceptInvite, Start, NoRequest, TypeOK
  <2> QED
    BY <2>2, <2>3
<1>5. ASSUME NEW p \in Requests, Join(p)
      PROVE  \E q \in Requests : req'[q].at = "mark" /\ req'[q].inv = i
  <2>1. req'[p].at = "mark" /\ req'[p].inv = req[p].inv
    BY <1>0, <1>5 DEF Join, Goto, TypeOK, Request
  <2>2. \A q \in Requests : q # p => req'[q] = req[q]
    BY <1>0, <1>5 DEF Join, Goto, TypeOK
  <2>3. i = req[p].inv \/ (i \in joined /\ req[p].at = "join")
    BY <1>5 DEF Join, Goto
  <2> QED
    BY <1>2, <2>1, <2>2, <2>3
\* What it marks is not pending any more.
<1>6. ASSUME NEW p \in Requests, MarkInviteAccepted(p)
      PROVE  \E q \in Requests : req'[q].at = "mark" /\ req'[q].inv = i
  <2>1. i \in joined /\ i \in InviteIds
    BY <1>0, <1>6 DEF MarkInviteAccepted, history
  <2>2. PICK q \in Requests : req[q].at = "mark" /\ req[q].inv = i
    BY <1>2, <2>1
  <2>3. CASE q # p
    BY <1>0, <1>6, <2>2, <2>3 DEF MarkInviteAccepted, End, TypeOK
  <2>4. CASE q = p
    <3>1. invites'[i] = Marked(i)
      BY <1>0, <1>6, <2>1, <2>2, <2>4 DEF MarkInviteAccepted, TypeOK
    <3>2. Marked(i).user = NoUser \/ Marked(i).accepted
      BY <1>0, <2>1 DEF Marked, Absent, TypeOK, Invite
    <3> QED
      BY <3>1, <3>2 DEF Pending
  <2> QED
    BY <2>3, <2>4
<1>7. ASSUME NEW p \in Requests, MarkLost(p)
      PROVE  \E q \in Requests : req'[q].at = "mark" /\ req'[q].inv = i
  <2>1. i \in joined /\ i # req[p].inv
    BY <1>7 DEF MarkLost
  <2> QED
    BY <1>0, <1>2, <1>7, <2>1 DEF MarkLost, End, TypeOK
<1> QED
  BY <1>0, <1>3, <1>4, <1>5, <1>6, <1>7, AcceptSteps

\* Rows are written only while their organization is there, and go with it.
LEMMA OrphansStep == InviteInv /\ [Next]_vars => NoOrphans'
<1> SUFFICES ASSUME InviteInv, [Next]_vars, ~exists'
             PROVE  /\ \A u \in Users : role'[u] = NoRole
                    /\ \A i \in InviteIds : invites'[i] = Absent
  BY DEF NoOrphans
<1>0. TypeOK /\ NoOrphans
  BY DEF InviteInv
<1>1. ASSUME NEW p \in Requests, DeleteTenant(p)
      PROVE  /\ \A u \in Users : role'[u] = NoRole
             /\ \A i \in InviteIds : invites'[i] = Absent
  BY <1>1 DEF DeleteTenant
<1>2. ASSUME ~exists
      PROVE  \A i \in InviteIds : invites'[i] = Absent
  BY <1>0, <1>2, InviteRows DEF NoOrphans, Created, Ages
<1>3. ASSUME NEW p \in Requests, DeleteMember(p)
      PROVE  ~exists /\ \A u \in Users : role[u] = NoRole => role'[u] = NoRole
  BY <1>0, <1>3 DEF DeleteMember, TypeOK
<1>4. ASSUME NEW p \in Requests, AddOwner(p) \/ Join(p)
      PROVE  FALSE
  BY <1>4 DEF AddOwner, Join, TenantRow
<1>5. ASSUME UNCHANGED exists
      PROVE  ~exists
  BY <1>5
<1>6. \/ \E p \in Requests : DeleteTenant(p) \/ DeleteMember(p) \/ AddOwner(p) \/ Join(p)
      \/ UNCHANGED <<exists, role>>
  BY DEF Next, vars, RequestStart, RequestStep, CreateOrganization, RequestDelete, ConfirmDelete,
         RemoveMember, InviteMember, RevokeInvite, AcceptInvite, CreateTenant, CreateInvite,
         ReplaceInvite, DeleteInvite, MarkInviteAccepted, ReadRemover, ReadInviter, MemberCheck,
         ListPendingInvites, GetInvite, GetTarget, CountOwners, SetCode, CheckCode, MarkLost,
         Fail, PlatformCreate, ExpireInvite
<1> QED
  BY <1>0, <1>1, <1>2, <1>3, <1>4, <1>5, <1>6 DEF NoOrphans

\* The invariant holds of the empty tables and through every step.
LEMMA InviteInitStep ==
    /\ Init => InviteInv
    /\ InviteInv /\ [Next]_vars => InviteInv'
<1>1. Init => InviteInv
  BY TypeInit DEF Init, InviteInv, NotYet, Accepting, InviteConsumed, NoOrphans, Absent, NoRequest
<1>2. InviteInv /\ [Next]_vars => InviteInv'
  BY TypeStep, NotYetStep, ConsumedStep, OrphansStep DEF InviteInv
<1> QED
  BY <1>1, <1>2

\* An invite makes its user a member once, unless MarkInviteAccepted is to come or was
\* lost (AcceptInvite, in its separate store calls).
THEOREM InviteOnce == Spec => []InviteConsumed
<1>1. InviteInv => InviteConsumed
  BY DEF InviteInv
<1> QED
  BY <1>1, InviteInitStep, PTL DEF Spec

\* No members and no invites without their organization, also when it is deleted between
\* the steps of a request that adds one (the foreign keys, ON DELETE CASCADE).
THEOREM NoOrphanRows == Spec => []NoOrphans
<1>1. InviteInv => NoOrphans
  BY DEF InviteInv
<1> QED
  BY <1>1, InviteInitStep, PTL DEF Spec
=============================================================================
