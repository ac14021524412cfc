----------------------------- MODULE TenantAdmin -----------------------------
(***************************************************************************)
(* One tenant, its members and its invitations: the tenant administration  *)
(* service, the older /api/invitations route, registration and acceptance. *)
(*                                                                         *)
(* Every operation reads and checks first and writes afterwards, in a      *)
(* transaction at the database's default isolation (read committed): what  *)
(* was read may have changed when the writes come.  An operation is two    *)
(* actions, Begin (all its reads and refusals) and Commit (its writes, all *)
(* or none).  A write to a row that has gone, or a second row under a      *)
(* unique key, fails and rolls back.  A refused Begin changes nothing and  *)
(* is no step.                                                             *)
(***************************************************************************)
EXTENDS AccountStore, TenantAccess, Naturals, FiniteSets

CONSTANTS
  Platform,   \* super administrators
  Named,      \* the people that administrators' requests name; others only sign in
  Requests,   \* requests being served
  Ids         \* row ids; an id nothing refers to any more may be given again

VARIABLES
  tenant,   \* Tenant.status, "ABSENT" before the row exists
  member,   \* Membership of each person: role and row id
  invite,   \* Invitation of each person (unique per tenant and address)
  grants,   \* history: <<person, role>> an authorised request has given or offered
  req       \* requests between their reads and their writes

adminVars == <<account, tenant, member, invite, grants, req>>

ASSUME AdminAssumption == Ids \subseteq Nat \ {0} /\ Named \subseteq People

\* Roles the request schemas accept for memberships and invitations; and the fault
\* that any role of the enumeration is accepted.
GivableRolesUnchecked == MemberRoles
GivableRoles == CanonicalRoles

RowIds == Ids \union {0}
NoMember == [role |-> NoRole, id |-> 0]
MemberRow == [role : MemberRoles \union {NoRole}, id : RowIds]
NoInvite == [state |-> "NONE", role |-> NoRole, id |-> 0]
InviteRow == [state : {"NONE", "PENDING", "EXPIRED", "ACCEPTED"},
              role : CanonicalRoles \union {NoRole}, id : RowIds]

AdminOps == {"createTenant", "changeStatus", "addMember", "changeRole", "removeMember",
             "createInvitation", "resend", "revoke", "routeInvite", "routeDelete",
             "register", "accept"}
\* What a request carries from its reads to its writes: the person it is about and the
\* one whose invitation it uses, the row id it found, the role it will write, and what
\* the person's account or membership was.
IdleRequest == [op |-> "idle", who |-> "nobody", link |-> "nobody", role |-> NoRole, id |-> 0,
                seen |-> "none"]

AdminTypeOK ==
  /\ AccountTypeOK
  /\ tenant \in TenantStatuses
  /\ member \in [People -> MemberRow]
  /\ invite \in [People -> InviteRow]
  /\ grants \subseteq People \X MemberRoles
  /\ \A r \in Requests :
       \/ req[r] = IdleRequest
       \/ /\ req[r].op \in AdminOps
          /\ {req[r].who, req[r].link} \subseteq People \union TenantStatuses
          /\ req[r].role \in MemberRoles \union {NoRole}
          /\ req[r].id \in RowIds

Super(a) == a \in Platform
RoleOf(a) == IF a \in People THEN member[a].role ELSE NoRole
Allowed(a, permission) == Resolves(Super(a), RoleOf(a), permission)
SomeoneAllowed(permission) == \E a \in People \union Platform : Allowed(a, permission)

BeginWith(r, op, who, link, role, id, seen) ==
  /\ req[r] = IdleRequest
  /\ req' = [req EXCEPT ![r] = [op |-> op, who |-> who, link |-> link, role |-> role, id |-> id,
                                seen |-> seen]]
  /\ UNCHANGED <<account, tenant, member, invite, grants>>
Begin(r, op, who, role, id, seen) == BeginWith(r, op, who, who, role, id, seen)

Finish(r) == req' = [req EXCEPT ![r] = IdleRequest]

\* The least id that no request on p's rows still refers to
Unreferenced(p, i) == \A r \in Requests : p \in {req[r].who, req[r].link} => req[r].id # i
IsFresh(p, i) == Unreferenced(p, i) /\ \A j \in Ids : Unreferenced(p, j) => i <= j

\* Insertions; the unique key refuses a second row.
NewMember(p, role) ==
  /\ member[p] = NoMember
  /\ \E i \in Ids : IsFresh(p, i) /\ member' = [member EXCEPT ![p] = [role |-> role, id |-> i]]
NewInvite(p, role) ==
  /\ invite[p] = NoInvite
  /\ \E i \in Ids :
       /\ IsFresh(p, i)
       /\ invite' = [invite EXCEPT ![p] = [state |-> "PENDING", role |-> role, id |-> i]]

-----------------------------------------------------------------------------
(* The tenant *)

BeginCreateTenant(r, p) ==
  /\ tenant = "ABSENT"
  /\ Platform # {}
  /\ Begin(r, "createTenant", p, "TENANT_ADMIN", 0, account[p])

\* Fault: an account that exists is reset to a placeholder.
OwnerAccountReset(state) == "placeholder"

\* The owner's account: created without a password, or found and left as it is.
OwnerAccount(state) == IF state = "none" THEN "placeholder" ELSE state

CommitCreateTenant(r) ==
  LET p == req[r].who IN
  /\ req[r].op = "createTenant"
  /\ tenant = "ABSENT"
  /\ account[p] # "none" => req[r].seen # "none"
  /\ tenant' = "PROVISIONING"
  /\ account' = [account EXCEPT ![p] = OwnerAccount(@)]
  /\ NewMember(p, "TENANT_ADMIN")
  /\ IF req[r].seen = "active" THEN UNCHANGED invite
     ELSE NewInvite(p, "TENANT_ADMIN")
  /\ grants' = grants \union {<<p, "TENANT_ADMIN">>}
  /\ Finish(r)

Transitions ==
  [s \in TenantStatuses |->
     CASE s = "PROVISIONING" -> {"ACTIVE", "ARCHIVED"}
       [] s = "ACTIVE"       -> {"SUSPENDED", "ARCHIVED"}
       [] s = "SUSPENDED"    -> {"ACTIVE", "ARCHIVED"}
       [] s = "ARCHIVED"     -> {"ACTIVE"}
       [] OTHER              -> {}]

BeginChangeStatus(r, new) ==
  /\ Platform # {}
  /\ new \in Transitions[tenant]
  /\ Begin(r, "changeStatus", new, NoRole, 0, "none")

CommitChangeStatus(r) ==
  /\ req[r].op = "changeStatus"
  /\ tenant' = req[r].who
  /\ Finish(r)
  /\ UNCHANGED <<account, member, invite, grants>>

-----------------------------------------------------------------------------
(* Members *)

BeginAddMember(r, p, role) ==
  /\ SomeoneAllowed("MEMBERS_ADD")
  /\ LifecycleAllows(tenant, "NORMAL_OPERATION")
  /\ account[p] = "active"
  /\ member[p] = NoMember
  /\ Begin(r, "addMember", p, role, 0, "none")

CommitAddMember(r) ==
  LET p == req[r].who IN
  /\ req[r].op = "addMember"
  /\ NewMember(p, req[r].role)
  /\ grants' = grants \union {<<p, req[r].role>>}
  /\ Finish(r)
  /\ UNCHANGED <<account, tenant, invite>>

BeginChangeRole(r, p, role) ==
  /\ SomeoneAllowed("MEMBERS_ROLE_UPDATE")
  /\ LifecycleAllows(tenant, "NORMAL_OPERATION")
  /\ member[p] # NoMember
  /\ Begin(r, "changeRole", p, role, member[p].id, "none")

CommitChangeRole(r) ==
  LET p == req[r].who IN
  /\ req[r].op = "changeRole"
  /\ member[p] # NoMember /\ member[p].id = req[r].id
  /\ member' = [member EXCEPT ![p].role = req[r].role]
  /\ grants' = grants \union {<<p, req[r].role>>}
  /\ Finish(r)
  /\ UNCHANGED <<account, tenant, invite>>

BeginRemoveMember(r, p) ==
  /\ SomeoneAllowed("MEMBERS_REMOVE")
  /\ LifecycleAllows(tenant, "NORMAL_OPERATION")
  /\ member[p] # NoMember
  /\ Begin(r, "removeMember", p, NoRole, member[p].id, "none")

CommitRemoveMember(r) ==
  LET p == req[r].who IN
  /\ req[r].op = "removeMember"
  /\ member[p] # NoMember /\ member[p].id = req[r].id
  /\ member' = [member EXCEPT ![p] = NoMember]
  /\ Finish(r)
  /\ UNCHANGED <<account, tenant, invite, grants>>

-----------------------------------------------------------------------------
(* Invitations: the service *)

BeginCreateInvitation(r, p, role) ==
  /\ SomeoneAllowed("INVITATIONS_CREATE")
  /\ LifecycleAllows(tenant, InvitationCapability(tenant, role))
  /\ invite[p].state # "PENDING"
  /\ Begin(r, "createInvitation", p, role, 0, "none")

\* An expired or accepted row of the same address makes the insertion fail.
CommitCreateInvitation(r) ==
  LET p == req[r].who IN
  /\ req[r].op = "createInvitation"
  /\ NewInvite(p, req[r].role)
  /\ grants' = grants \union {<<p, req[r].role>>}
  /\ Finish(r)
  /\ UNCHANGED <<account, tenant, member>>

OpenInvitation(p, permission) ==
  /\ SomeoneAllowed(permission)
  /\ invite[p].state \in {"PENDING", "EXPIRED"}
  /\ LifecycleAllows(tenant, InvitationCapability(tenant, invite[p].role))

BeginResend(r, p) ==
  /\ OpenInvitation(p, "INVITATIONS_REISSUE")
  /\ Begin(r, "resend", p, NoRole, invite[p].id, "none")

\* Fault: the row is updated by address, so that a later invitation serves as well.
StandsByAddress(r) == invite[req[r].link] # NoInvite

Stands(r) == invite[req[r].link] # NoInvite /\ invite[req[r].link].id = req[r].id

CommitResend(r) ==
  LET p == req[r].who IN
  /\ req[r].op = "resend"
  /\ Stands(r)
  /\ invite' = [invite EXCEPT ![p].state = IF @ = "EXPIRED" THEN "PENDING" ELSE @]
  /\ Finish(r)
  /\ UNCHANGED <<account, tenant, member, grants>>

BeginRevoke(r, p) ==
  /\ OpenInvitation(p, "INVITATIONS_REVOKE")
  /\ Begin(r, "revoke", p, NoRole, invite[p].id, "none")

CommitDelete(r) ==
  /\ req[r].op \in {"revoke", "routeDelete"}
  /\ Stands(r)
  /\ invite' = [invite EXCEPT ![req[r].who] = NoInvite]
  /\ Finish(r)
  /\ UNCHANGED <<account, tenant, member, grants>>

-----------------------------------------------------------------------------
(* Invitations: the older route, without lifecycle check *)

RouteAllowed == \E a \in People \union Platform :
                  CanonicalAccess(Super(a), RoleOf(a), {"TENANT_ADMIN"})

BeginRouteInvite(r, p, role) ==
  /\ tenant # "ABSENT"
  /\ RouteAllowed
  /\ Begin(r, "routeInvite", p, role, 0, "none")

CommitRouteInvite(r) ==
  LET p == req[r].who IN
  /\ req[r].op = "routeInvite"
  /\ IF invite[p] = NoInvite THEN NewInvite(p, req[r].role)
     ELSE invite' = [invite EXCEPT ![p].state = "PENDING", ![p].role = req[r].role]
  /\ grants' = grants \union {<<p, req[r].role>>}
  /\ Finish(r)
  /\ UNCHANGED <<account, tenant, member>>

BeginRouteDelete(r, p) ==
  /\ invite[p] # NoInvite
  /\ RouteAllowed
  /\ Begin(r, "routeDelete", p, NoRole, invite[p].id, "none")

-----------------------------------------------------------------------------
(* Registration and acceptance.  A link is good for the row's newest token; an older *)
(* link finds nothing, which is a refused Begin.                                     *)

\* acceptRegistrationInvitation: the address given must be the invited one, and
\* must not have a password yet.
BeginRegister(r, p) ==
  /\ invite[p].state = "PENDING"
  /\ account[p] # "active"
  /\ Begin(r, "register", p, invite[p].role, invite[p].id, account[p])

\* A placeholder that has a membership keeps it as it is.
CommitRegister(r) ==
  LET p == req[r].who IN
  /\ req[r].op = "register"
  /\ Stands(r)
  /\ account[p] # "none" => req[r].seen # "none"
  /\ account' = [account EXCEPT ![p] = "active"]
  /\ IF member[p] = NoMember
       THEN NewMember(p, req[r].role)
       ELSE UNCHANGED member
  /\ invite' = [invite EXCEPT ![p].state = "ACCEPTED"]
  /\ Finish(r)
  /\ UNCHANGED <<tenant, grants>>

\* Fault: the address of the invitation is not compared.
BeginAcceptAnyLink(r, q, p) ==
  /\ invite[p].state = "PENDING"
  /\ account[q] = "active"
  /\ BeginWith(r, "accept", q, p, invite[p].role, invite[p].id, member[q].role)

\* POST /api/invitations/accept: q is signed in and opens the link sent to p.
BeginAccept(r, q, p) ==
  /\ invite[p].state = "PENDING"
  /\ account[q] = "active"
  /\ q = p
  /\ BeginWith(r, "accept", q, p, invite[p].role, invite[p].id, member[q].role)

\* Without membership one is created, another role is updated, the same is left.
CommitAccept(r) ==
  LET p == req[r].who IN
  /\ req[r].op = "accept"
  /\ Stands(r)
  /\ CASE req[r].seen = NoRole ->
            NewMember(p, req[r].role)
       [] req[r].seen # NoRole /\ req[r].seen # req[r].role ->
            /\ member[p] # NoMember
            /\ member' = [member EXCEPT ![p].role = req[r].role]
       [] OTHER -> UNCHANGED member
  /\ invite' = [invite EXCEPT ![req[r].link].state = "ACCEPTED"]
  /\ Finish(r)
  /\ UNCHANGED <<account, tenant, grants>>

-----------------------------------------------------------------------------
\* The transaction fails or the process ends: nothing is written.  A write conflict
\* (P2034) is retried from the reads, which is a rollback and a new Begin.
Rollback(r) ==
  /\ req[r] # IdleRequest
  /\ Finish(r)
  /\ UNCHANGED <<account, tenant, member, invite, grants>>

\* Seven days pass.
Expire(p) ==
  /\ invite[p].state = "PENDING"
  /\ invite' = [invite EXCEPT ![p].state = "EXPIRED"]
  /\ UNCHANGED <<account, tenant, member, grants, req>>

BeginAny(r) ==
  \/ \E new \in TenantStatuses : BeginChangeStatus(r, new)
  \/ \E p \in Named :
       \/ BeginCreateTenant(r, p)
       \/ BeginRemoveMember(r, p)
       \/ BeginResend(r, p)
       \/ BeginRevoke(r, p)
       \/ BeginRouteDelete(r, p)
       \/ BeginRegister(r, p)
       \/ \E q \in People : BeginAccept(r, q, p)
       \/ \E role \in GivableRoles :
            \/ BeginAddMember(r, p, role)
            \/ BeginChangeRole(r, p, role)
            \/ BeginCreateInvitation(r, p, role)
            \/ BeginRouteInvite(r, p, role)

CommitAny(r) ==
  \/ CommitCreateTenant(r) \/ CommitChangeStatus(r)
  \/ CommitAddMember(r) \/ CommitChangeRole(r) \/ CommitRemoveMember(r)
  \/ CommitCreateInvitation(r) \/ CommitResend(r) \/ CommitDelete(r)
  \/ CommitRouteInvite(r) \/ CommitRegister(r) \/ CommitAccept(r)

AdminNext ==
  \/ \E r \in Requests : BeginAny(r) \/ CommitAny(r) \/ Rollback(r)
  \/ \E p \in Named : Expire(p)

\* Either nothing exists yet, or an active tenant dates from the older role model
\* and its members have a role that gives no permission.
AdminInit ==
  /\ \/ tenant = "ABSENT" /\ member = [p \in People |-> NoMember]
     \/ /\ tenant = "ACTIVE"
        /\ member \in [People -> {NoMember, [role |-> "OWNER", id |-> 0]}]
  /\ account \in [People -> {"none", "active"}]
  /\ \A p \in People : member[p] # NoMember \/ p \notin Named => account[p] = "active"
  /\ invite = [p \in People |-> NoInvite]
  /\ grants = {<<p, "OWNER">> : p \in {q \in People : member[q] # NoMember}}
  /\ req = [r \in Requests |-> IdleRequest]

AdminSpec == AdminInit /\ [][AdminNext]_adminVars

-----------------------------------------------------------------------------
(* Properties *)

\* Nobody holds a role that no authorised request gave or offered to that person,
\* however acceptance, removal, role changes and repeated invitations interleave.
HeldRolesWereGranted ==
  \A p \in People : member[p] # NoMember => <<p, member[p].role>> \in grants

\* invitation-acceptance-service.ts, api/invitations/accept: an invitation that is
\* withdrawn, or withdrawn and replaced, between the reads and the writes of an
\* acceptance admits nobody: only the row that was read lets its person in.
OnlyStandingInvitationsAdmit ==
  [][\A r \in Requests :
       req[r].op \in {"accept", "register"} /\ member' # member /\ req'[r] # req[r]
         => invite[req[r].link].id = req[r].id]_adminVars
=============================================================================
