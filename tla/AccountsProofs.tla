---------------------------- MODULE AccountsProofs ----------------------------
(***************************************************************************)
(* Proofs about Accounts: roles, invitations, passwords, reset links and   *)
(* mails, for any number of people, requests, row ids, links and mails.    *)
(***************************************************************************)
EXTENDS Accounts, FiniteSetTheorems, TLAPS

ReqRow == [op : AdminOps \union {"idle"},
           who : People \union TenantStatuses \union {"nobody"},
           link : People \union TenantStatuses \union {"nobody"},
           role : MemberRoles \union {NoRole},
           id : RowIds,
           seen : AccountStates \union MemberRoles \union {NoRole}]

\* What a request carries: it uses the invitation of the person it is about; one that
\* gives a role carries a role that may be given, one that uses an invitation carries a
\* role that was granted.
Carries(q) ==
  /\ q.op = "idle" => q = IdleRequest
  /\ q.link = q.who
  /\ q.op = "changeStatus" => q.who \in TenantStatuses
  /\ q.op \in AdminOps \ {"changeStatus"} => q.who \in People
  /\ q.op \in {"addMember", "changeRole", "createInvitation", "routeInvite"} =>
       q.role \in CanonicalRoles
  /\ q.op \in {"register", "accept"} => <<q.who, q.role>> \in grants

ReqInv == req \in [Requests -> ReqRow] /\ \A r \in Requests : Carries(req[r])

\* An invitation offers a role that was granted to its address.
InviteInv ==
  \A p \in People : invite[p] # NoInvite =>
    invite[p].role \in CanonicalRoles /\ <<p, invite[p].role>> \in grants

RowsOK ==
  /\ AccountTypeOK /\ tenant \in TenantStatuses
  /\ member \in [People -> MemberRow] /\ invite \in [People -> InviteRow]
  /\ grants \subseteq People \X MemberRoles

AInv == RowsOK /\ ReqInv /\ InviteInv /\ HeldRolesWereGranted

LEMMA AInvTypes == ASSUME AInv PROVE AdminTypeOK
<1>1. ASSUME NEW r \in Requests
      PROVE  \/ req[r] = IdleRequest
             \/ /\ req[r].op \in AdminOps
                /\ {req[r].who, req[r].link} \subseteq People \union TenantStatuses
                /\ req[r].role \in MemberRoles \union {NoRole}
                /\ req[r].id \in RowIds
  <2>1. req[r] \in ReqRow /\ Carries(req[r])
    BY DEF AInv, ReqInv
  <2> QED BY <2>1 DEF ReqRow, Carries
<1> QED BY <1>1 DEF AInv, RowsOK, AdminTypeOK

-----------------------------------------------------------------------------
(* Helpers *)

LEMMA Roles ==
  /\ CanonicalRoles \subseteq MemberRoles /\ "TENANT_ADMIN" \in CanonicalRoles
  /\ NoMember \in MemberRow /\ NoInvite \in InviteRow
  /\ IdleRequest \in ReqRow /\ Carries(IdleRequest)
BY DEF CanonicalRoles, MemberRoles, NoMember, MemberRow, NoInvite, InviteRow, RowIds, IdleRequest,
       ReqRow, Carries, AccountStates, AdminOps

LEMMA NewMemberFacts ==
  ASSUME member \in [People -> MemberRow], NEW p \in People,
         NEW role \in MemberRoles \union {NoRole}, NewMember(p, role)
  PROVE  /\ member' \in [People -> MemberRow]
         /\ member'[p].role = role
         /\ \A q \in People \ {p} : member'[q] = member[q]
BY DEF NewMember, MemberRow, RowIds

LEMMA NewInviteFacts ==
  ASSUME invite \in [People -> InviteRow], NEW p \in People, NEW role \in CanonicalRoles,
         NewInvite(p, role)
  PROVE  /\ invite' \in [People -> InviteRow]
         /\ invite'[p].role = role
         /\ \A q \in People \ {p} : invite'[q] = invite[q]
BY DEF NewInvite, InviteRow, RowIds

\* A request that ends leaves the others as they are.
LEMMA FinishFacts ==
  ASSUME ReqInv, NEW r \in Requests, Finish(r), grants \subseteq grants'
  PROVE  ReqInv'
<1>1. req' \in [Requests -> ReqRow]
  BY Roles DEF ReqInv, Finish
<1>2. ASSUME NEW s \in Requests PROVE Carries(req[s])'
  <2>1. CASE s = r
    <3>1. req'[s] = IdleRequest
      BY <2>1 DEF ReqInv, Finish
    <3> QED BY <3>1 DEF Carries, IdleRequest, AdminOps
  <2>2. CASE s # r
    BY <2>2 DEF ReqInv, Finish, Carries
  <2> QED BY <2>1, <2>2
<1> QED BY <1>1, <1>2 DEF ReqInv

\* A request that begins writes nothing yet.
LEMMA BeginFacts ==
  ASSUME AInv, NEW r \in Requests, NEW op, NEW who, NEW link, NEW role, NEW id, NEW was,
         BeginWith(r, op, who, link, role, id, was),
         LET q == [op |-> op, who |-> who, link |-> link, role |-> role, id |-> id, seen |-> was]
         IN q \in ReqRow /\ Carries(q)
  PROVE  AInv'
<1> DEFINE q == [op |-> op, who |-> who, link |-> link, role |-> role, id |-> id, seen |-> was]
<1>1. req' = [req EXCEPT ![r] = q] /\ UNCHANGED <<account, tenant, member, invite, grants>>
  BY DEF BeginWith
<1>2. q \in ReqRow /\ Carries(q)
  OBVIOUS
<1> HIDE DEF q
<1>3. ReqInv'
  <2>1. req' \in [Requests -> ReqRow]
    BY <1>1, <1>2 DEF AInv, ReqInv
  <2>2. ASSUME NEW s \in Requests PROVE Carries(req[s])'
    <3>1. Carries(req'[s])
      BY <1>1, <1>2 DEF AInv, ReqInv
    <3> QED BY <1>1, <3>1 DEF Carries
  <2> QED BY <2>1, <2>2 DEF ReqInv
<1> QED BY <1>1, <1>3 DEF AInv, RowsOK, AccountTypeOK, InviteInv, HeldRolesWereGranted

-----------------------------------------------------------------------------
(* Administration and registration begin *)

LEMMA BeginInv ==
  ASSUME AdminAssumption, AInv, NEW r \in Requests, BeginAny(r)
  PROVE  AInv'
<1> USE DEF ReqRow, Carries, AdminOps, IdleRequest
<1>1. /\ \A p \in People : /\ member[p].role \in MemberRoles \union {NoRole}
                           /\ member[p].id \in RowIds /\ account[p] \in AccountStates
                           /\ invite[p].role \in CanonicalRoles \union {NoRole}
                           /\ invite[p].id \in RowIds
      /\ 0 \in RowIds /\ CanonicalRoles \subseteq MemberRoles /\ "TENANT_ADMIN" \in CanonicalRoles
      /\ "none" \in AccountStates
  BY Roles DEF AInv, RowsOK, AccountTypeOK, AccountStates, MemberRow, InviteRow, RowIds
<1>2. CASE \E new \in TenantStatuses : BeginChangeStatus(r, new)
  <2>1. PICK new \in TenantStatuses : BeginChangeStatus(r, new)
    BY <1>2
  <2> QED BY <1>1, <2>1, BeginFacts DEF BeginChangeStatus, Begin
<1>3. ASSUME NEW p \in Named, BeginCreateTenant(r, p) PROVE AInv'
  BY <1>1, <1>3, BeginFacts DEF BeginCreateTenant, Begin, AdminAssumption
<1>4. ASSUME NEW p \in Named, BeginRemoveMember(r, p) PROVE AInv'
  BY <1>1, <1>4, BeginFacts DEF BeginRemoveMember, Begin, AdminAssumption
<1>5. ASSUME NEW p \in Named, BeginResend(r, p) PROVE AInv'
  BY <1>1, <1>5, BeginFacts DEF BeginResend, Begin, AdminAssumption
<1>6. ASSUME NEW p \in Named, BeginRevoke(r, p) PROVE AInv'
  BY <1>1, <1>6, BeginFacts DEF BeginRevoke, Begin, AdminAssumption
<1>7. ASSUME NEW p \in Named, BeginRouteDelete(r, p) PROVE AInv'
  BY <1>1, <1>7, BeginFacts DEF BeginRouteDelete, Begin, AdminAssumption
<1>8. ASSUME NEW p \in Named, BeginRegister(r, p) PROVE AInv'
  <2>1. p \in People /\ <<p, invite[p].role>> \in grants
    BY <1>8 DEF BeginRegister, AdminAssumption, AInv, InviteInv, NoInvite
  <2> QED BY <1>1, <1>8, <2>1, BeginFacts DEF BeginRegister, Begin
<1>9. ASSUME NEW p \in Named, NEW q \in People, BeginAccept(r, q, p) PROVE AInv'
  <2>1. p \in People /\ p = q /\ <<p, invite[p].role>> \in grants
    BY <1>9 DEF BeginAccept, AdminAssumption, AInv, InviteInv, NoInvite
  <2> QED BY <1>1, <1>9, <2>1, BeginFacts DEF BeginAccept
<1>10. ASSUME NEW p \in Named, NEW role \in GivableRoles, BeginAddMember(r, p, role) PROVE AInv'
  BY <1>1, <1>10, BeginFacts DEF BeginAddMember, Begin, AdminAssumption, GivableRoles
<1>11. ASSUME NEW p \in Named, NEW role \in GivableRoles, BeginChangeRole(r, p, role) PROVE AInv'
  BY <1>1, <1>11, BeginFacts DEF BeginChangeRole, Begin, AdminAssumption, GivableRoles
<1>12. ASSUME NEW p \in Named, NEW role \in GivableRoles, BeginCreateInvitation(r, p, role)
       PROVE  AInv'
  BY <1>1, <1>12, BeginFacts DEF BeginCreateInvitation, Begin, AdminAssumption, GivableRoles
<1>13. ASSUME NEW p \in Named, NEW role \in GivableRoles, BeginRouteInvite(r, p, role) PROVE AInv'
  BY <1>1, <1>13, BeginFacts DEF BeginRouteInvite, Begin, AdminAssumption, GivableRoles
<1> QED
  BY <1>2, <1>3, <1>4, <1>5, <1>6, <1>7, <1>8, <1>9, <1>10, <1>11, <1>12, <1>13 DEF BeginAny

-----------------------------------------------------------------------------
(* ... and commit *)

\* What a request whose time has come carries.
LEMMA Carried ==
  ASSUME AInv, NEW r \in Requests
  PROVE  /\ req[r].op = "changeStatus" => req[r].who \in TenantStatuses
         /\ req[r].op \in AdminOps \ {"changeStatus"} => req[r].who \in People
         /\ req[r].link = req[r].who
         /\ req[r].role \in MemberRoles \union {NoRole}
         /\ req[r].op \in {"addMember", "changeRole", "createInvitation", "routeInvite"} =>
              req[r].role \in CanonicalRoles
         /\ req[r].op \in {"register", "accept"} =>
              <<req[r].who, req[r].role>> \in grants
BY DEF AInv, ReqInv, ReqRow, Carries

\* A commit that changes the rows of one person, to roles that are granted.
LEMMA CommitFacts ==
  ASSUME AInv, NEW r \in Requests, Finish(r), NEW p \in People,
         AccountTypeOK', tenant' \in TenantStatuses,
         member' \in [People -> MemberRow], invite' \in [People -> InviteRow],
         grants \subseteq grants', grants' \subseteq People \X MemberRoles,
         \A q \in People \ {p} : member'[q] = member[q] /\ invite'[q] = invite[q],
         member'[p] # NoMember => <<p, member'[p].role>> \in grants',
         invite'[p] # NoInvite =>
           invite'[p].role \in CanonicalRoles /\ <<p, invite'[p].role>> \in grants'
  PROVE  AInv'
<1>1. ReqInv'
  BY FinishFacts DEF AInv
<1>2. InviteInv'
  BY DEF AInv, InviteInv
<1>3. HeldRolesWereGranted'
  BY DEF AInv, HeldRolesWereGranted
<1> QED BY <1>1, <1>2, <1>3 DEF AInv, RowsOK

\* The rows of p that a commit leaves alone
LEMMA Untouched ==
  ASSUME AInv, NEW p \in People, grants \subseteq grants'
  PROVE  /\ account \in [People -> AccountStates]
         /\ member[p] # NoMember => <<p, member[p].role>> \in grants'
         /\ invite[p] # NoInvite =>
              invite[p].role \in CanonicalRoles /\ <<p, invite[p].role>> \in grants'
BY DEF AInv, RowsOK, AccountTypeOK, InviteInv, HeldRolesWereGranted

LEMMA GrantFacts ==
  ASSUME AInv, NEW p \in People, NEW role \in CanonicalRoles,
         grants' = grants \union {<<p, role>>}
  PROVE  grants \subseteq grants' /\ grants' \subseteq People \X MemberRoles /\ <<p, role>> \in grants'
BY Roles DEF AInv, RowsOK

LEMMA CommitCreateTenantInv ==
  ASSUME AInv, NEW r \in Requests, CommitCreateTenant(r)
  PROVE  AInv'
<1> DEFINE p == req[r].who
<1>1. p \in People
  BY Carried DEF CommitCreateTenant, AdminOps
<1>2. /\ grants \subseteq grants' /\ grants' \subseteq People \X MemberRoles
      /\ <<p, "TENANT_ADMIN">> \in grants'
  BY <1>1, GrantFacts, Roles DEF CommitCreateTenant
<1>3. member \in [People -> MemberRow] /\ invite \in [People -> InviteRow]
  BY DEF AInv, RowsOK
<1>4. /\ member' \in [People -> MemberRow] /\ member'[p].role = "TENANT_ADMIN"
      /\ \A q \in People \ {p} : member'[q] = member[q]
  <2>1. NewMember(p, "TENANT_ADMIN")
    BY DEF CommitCreateTenant
  <2> QED BY <1>1, <1>3, <2>1, NewMemberFacts, Roles
<1>5. /\ invite' \in [People -> InviteRow]
      /\ \A q \in People \ {p} : invite'[q] = invite[q]
      /\ invite'[p] # NoInvite =>
           invite'[p].role \in CanonicalRoles /\ <<p, invite'[p].role>> \in grants'
  <2>1. CASE NewInvite(p, "TENANT_ADMIN")
    BY <1>1, <1>2, <1>3, <2>1, NewInviteFacts, Roles
  <2>2. CASE invite' = invite
    BY <1>1, <1>2, <1>3, <2>2, Untouched
  <2> QED BY <2>1, <2>2 DEF CommitCreateTenant
<1>6. AccountTypeOK'
  <2>1. OwnerAccount(account[p]) \in AccountStates
    BY <1>1, <1>2, Untouched DEF OwnerAccount, AccountStates
  <2> QED BY <1>1, <1>2, <2>1, Untouched DEF CommitCreateTenant, AccountTypeOK
<1>7. Finish(r) /\ tenant' \in TenantStatuses
  BY DEF CommitCreateTenant, TenantStatuses
<1> HIDE DEF p
<1> QED BY <1>1, <1>2, <1>4, <1>5, <1>6, <1>7, CommitFacts

LEMMA CommitChangeStatusInv ==
  ASSUME AInv, NEW r \in Requests, CommitChangeStatus(r)
  PROVE  AInv'
<1>1. ReqInv' /\ tenant' \in TenantStatuses
  BY Carried, FinishFacts DEF CommitChangeStatus, AInv
<1> QED
  BY <1>1 DEF CommitChangeStatus, AInv, RowsOK, AccountTypeOK, InviteInv, HeldRolesWereGranted

\* Changes of a membership
LEMMA CommitMemberInv ==
  ASSUME AInv, NEW r \in Requests,
         CommitAddMember(r) \/ CommitChangeRole(r) \/ CommitRemoveMember(r)
  PROVE  AInv'
<1> DEFINE p == req[r].who
           role == req[r].role
<1>1. p \in People
  BY Carried DEF CommitAddMember, CommitChangeRole, CommitRemoveMember, AdminOps
<1>2. member \in [People -> MemberRow] /\ invite' = invite /\ invite \in [People -> InviteRow]
  BY DEF AInv, RowsOK, CommitAddMember, CommitChangeRole, CommitRemoveMember
<1>3. Finish(r) /\ AccountTypeOK' /\ tenant' \in TenantStatuses
  BY DEF CommitAddMember, CommitChangeRole, CommitRemoveMember, AInv, RowsOK, AccountTypeOK
<1>4. CASE CommitRemoveMember(r)
  <2>1. member' = [member EXCEPT ![p] = NoMember] /\ grants' = grants
    BY <1>4 DEF CommitRemoveMember
  <2>2. /\ member' \in [People -> MemberRow] /\ member'[p] = NoMember
        /\ \A q \in People \ {p} : member'[q] = member[q]
    BY <1>1, <1>2, <2>1, Roles
  <2>3. grants \subseteq grants' /\ grants' \subseteq People \X MemberRoles
    BY <2>1 DEF AInv, RowsOK
  <2> HIDE DEF p
  <2> QED BY <1>1, <1>2, <1>3, <2>2, <2>3, Untouched, CommitFacts
<1>5. CASE CommitAddMember(r) \/ CommitChangeRole(r)
  <2>1. role \in CanonicalRoles /\ grants' = grants \union {<<p, role>>}
    BY <1>5, Carried DEF CommitAddMember, CommitChangeRole
  <2>2. /\ grants \subseteq grants' /\ grants' \subseteq People \X MemberRoles
        /\ <<p, role>> \in grants'
    BY <1>1, <2>1, GrantFacts
  <2>3. /\ member' \in [People -> MemberRow] /\ member'[p].role = role
        /\ \A q \in People \ {p} : member'[q] = member[q]
    <3>1. role \in MemberRoles \union {NoRole}
      BY <2>1, Roles
    <3>2. CASE NewMember(p, role)
      BY <1>1, <1>2, <3>1, <3>2, NewMemberFacts
    <3>3. CASE member' = [member EXCEPT ![p].role = role]
      BY <1>1, <1>2, <3>1, <3>3 DEF MemberRow
    <3> QED BY <1>5, <3>2, <3>3 DEF CommitAddMember, CommitChangeRole
  <2> HIDE DEF p, role
  <2> QED BY <1>1, <1>2, <1>3, <2>2, <2>3, Untouched, CommitFacts
<1> QED BY <1>4, <1>5

\* Changes of an invitation
LEMMA CommitInviteInv ==
  ASSUME AInv, NEW r \in Requests,
         \/ CommitCreateInvitation(r) \/ CommitRouteInvite(r)
         \/ CommitResend(r) \/ CommitDelete(r)
  PROVE  AInv'
<1> DEFINE p == req[r].who
           role == req[r].role
<1>1. p \in People
  BY Carried DEF CommitCreateInvitation, CommitRouteInvite, CommitResend, CommitDelete, AdminOps
<1>2. invite \in [People -> InviteRow] /\ member' = member /\ member \in [People -> MemberRow]
  BY DEF AInv, RowsOK, CommitCreateInvitation, CommitRouteInvite, CommitResend, CommitDelete
<1>3. Finish(r) /\ AccountTypeOK' /\ tenant' \in TenantStatuses
  BY DEF CommitCreateInvitation, CommitRouteInvite, CommitResend, CommitDelete,
         AInv, RowsOK, AccountTypeOK
<1>4. CASE CommitResend(r) \/ CommitDelete(r)
  <2>1. grants' = grants /\ grants' \subseteq People \X MemberRoles
    BY <1>4 DEF CommitResend, CommitDelete, AInv, RowsOK
  <2>2. CASE CommitResend(r)
    <3>1. PICK s : /\ invite' = [invite EXCEPT ![p].state = s]
                   /\ s = "PENDING" \/ s = invite[p].state
      BY <2>2 DEF CommitResend
    <3>2. invite[p] # NoInvite
      BY <2>2, Carried DEF CommitResend, Stands
    <3>3. /\ invite' \in [People -> InviteRow] /\ invite'[p].role = invite[p].role
          /\ \A q \in People \ {p} : invite'[q] = invite[q]
      BY <1>1, <1>2, <3>1 DEF InviteRow
    <3> HIDE DEF p
    <3> QED BY <1>1, <1>2, <1>3, <2>1, <3>2, <3>3, Untouched, CommitFacts
  <2>3. CASE CommitDelete(r)
    <3>1. /\ invite' \in [People -> InviteRow] /\ invite'[p] = NoInvite
          /\ \A q \in People \ {p} : invite'[q] = invite[q]
      BY <1>1, <1>2, <2>3, Roles DEF CommitDelete
    <3> HIDE DEF p
    <3> QED BY <1>1, <1>2, <1>3, <2>1, <3>1, Untouched, CommitFacts
  <2> QED BY <1>4, <2>2, <2>3
<1>5. CASE CommitCreateInvitation(r) \/ CommitRouteInvite(r)
  <2>1. role \in CanonicalRoles /\ grants' = grants \union {<<p, role>>}
    BY <1>5, Carried DEF CommitCreateInvitation, CommitRouteInvite
  <2>2. /\ grants \subseteq grants' /\ grants' \subseteq People \X MemberRoles
        /\ <<p, role>> \in grants'
    BY <1>1, <2>1, GrantFacts
  <2>3. /\ invite' \in [People -> InviteRow] /\ invite'[p].role = role
        /\ \A q \in People \ {p} : invite'[q] = invite[q]
    <3>1. CASE NewInvite(p, role)
      BY <1>1, <1>2, <2>1, <3>1, NewInviteFacts
    <3>2. CASE invite' = [invite EXCEPT ![p].state = "PENDING", ![p].role = role]
      BY <1>1, <1>2, <2>1, <3>2 DEF InviteRow
    <3> QED BY <1>5, <3>1, <3>2 DEF CommitCreateInvitation, CommitRouteInvite
  <2> HIDE DEF p, role
  <2> QED BY <1>1, <1>2, <1>3, <2>1, <2>2, <2>3, Untouched, CommitFacts
<1> QED BY <1>4, <1>5

\* Uses of an invitation
LEMMA CommitUseInv ==
  ASSUME AInv, NEW r \in Requests, CommitRegister(r) \/ CommitAccept(r)
  PROVE  AInv'
<1> DEFINE p == req[r].who
           role == req[r].role
<1>1. /\ p \in People /\ req[r].link = p /\ role \in MemberRoles \union {NoRole}
      /\ <<p, role>> \in grants /\ Stands(r)
  BY Carried DEF CommitRegister, CommitAccept, AdminOps
<1>2. invite \in [People -> InviteRow] /\ member \in [People -> MemberRow]
  BY DEF AInv, RowsOK
<1>3. Finish(r) /\ tenant' \in TenantStatuses /\ grants' = grants /\ grants' \subseteq People \X MemberRoles
  BY DEF CommitRegister, CommitAccept, AInv, RowsOK
<1>4. AccountTypeOK'
  <2>1. account \in [People -> AccountStates] /\ "active" \in AccountStates
    BY <1>1, <1>3, Untouched DEF AccountStates
  <2>2. account' = account \/ account' = [account EXCEPT ![p] = "active"]
    BY DEF CommitRegister, CommitAccept
  <2> QED BY <2>1, <2>2 DEF AccountTypeOK
<1>5. /\ invite' \in [People -> InviteRow] /\ invite'[p].role = invite[p].role
      /\ \A q \in People \ {p} : invite'[q] = invite[q]
  <2>1. invite' = [invite EXCEPT ![p].state = "ACCEPTED"]
    BY <1>1 DEF CommitRegister, CommitAccept
  <2> QED BY <1>1, <1>2, <2>1 DEF InviteRow
<1>6. invite[p] # NoInvite
  BY <1>1 DEF Stands
<1>7. /\ member' \in [People -> MemberRow]
      /\ \A q \in People \ {p} : member'[q] = member[q]
      /\ member'[p].role = role \/ member'[p] = member[p]
  <2>1. CASE NewMember(p, role)
    BY <1>1, <1>2, <2>1, NewMemberFacts
  <2>2. CASE member' = [member EXCEPT ![p].role = role]
    BY <1>1, <1>2, <2>2 DEF MemberRow
  <2>3. CASE member' = member
    BY <1>2, <2>3
  <2> QED BY <2>1, <2>2, <2>3 DEF CommitRegister, CommitAccept
<1> HIDE DEF p, role
<1> QED BY <1>1, <1>3, <1>4, <1>5, <1>6, <1>7, Untouched, CommitFacts

-----------------------------------------------------------------------------
(* The invariant of the administration *)

LEMMA AdminInitInv == AdminInit => AInv
<1> SUFFICES ASSUME AdminInit PROVE AInv
  OBVIOUS
<1>1. ReqInv
  BY Roles DEF AdminInit, ReqInv
<1>2. \A p \in People : invite[p] = NoInvite
  BY DEF AdminInit
<1>3. member \in [People -> {NoMember, [role |-> "OWNER", id |-> 0]}]
  BY DEF AdminInit
<1>4. [role |-> "OWNER", id |-> 0] \in MemberRow /\ "OWNER" \in MemberRoles
  BY DEF MemberRow, MemberRoles, LegacyRoles, RowIds
<1>5. RowsOK
  BY <1>3, <1>4, Roles DEF AdminInit, RowsOK, AccountTypeOK, AccountStates, TenantStatuses
<1>6. HeldRolesWereGranted
  BY <1>3 DEF AdminInit, HeldRolesWereGranted
<1> QED BY <1>1, <1>2, <1>5, <1>6 DEF AInv, InviteInv

LEMMA AdminStepInv == ASSUME AdminAssumption, AInv, AdminNext PROVE AInv'
<1>1. ASSUME NEW r \in Requests, Rollback(r) PROVE AInv'
  <2>1. ReqInv'
    BY <1>1, FinishFacts DEF Rollback, AInv
  <2> QED BY <1>1, <2>1 DEF Rollback, AInv, RowsOK, AccountTypeOK, InviteInv, HeldRolesWereGranted
<1>2. ASSUME NEW p \in Named, Expire(p) PROVE AInv'
  <2>1. p \in People /\ invite \in [People -> InviteRow]
    BY <1>2 DEF AdminAssumption, AInv, RowsOK
  <2>2. /\ invite' \in [People -> InviteRow] /\ invite'[p].role = invite[p].role
        /\ \A q \in People \ {p} : invite'[q] = invite[q]
        /\ invite[p] # NoInvite
    BY <1>2, <2>1 DEF Expire, InviteRow, NoInvite
  <2>3. InviteInv'
    BY <1>2, <2>1, <2>2 DEF Expire, AInv, InviteInv
  <2>4. ReqInv'
    BY <1>2 DEF Expire, AInv, ReqInv, Carries
  <2> QED BY <1>2, <2>2, <2>3, <2>4 DEF Expire, AInv, RowsOK, AccountTypeOK, HeldRolesWereGranted
<1>3. ASSUME NEW r \in Requests, CommitAny(r) PROVE AInv'
  BY <1>3, CommitCreateTenantInv, CommitChangeStatusInv, CommitMemberInv, CommitInviteInv,
     CommitUseInv DEF CommitAny
<1> QED BY <1>1, <1>2, <1>3, BeginInv DEF AdminNext

-----------------------------------------------------------------------------
(* Password resets *)

\* A token a request has in hand has an owner.
HandInv ==
  /\ \A i \in Issuers : \A t \in issuer[i].saw : token[t].owner \in People
  /\ \A r \in Resetters : resetter[r] # "none" => token[resetter[r]].owner \in People

\* A token sets its first password in the step that consumes it.
UsesInv == \A t \in Tokens : token[t].state # "CONSUMED" => uses[t] = 0

\* The requests for p that have read, and the tokens some of them will consume
Readers(p) == {i \in Issuers : issuer[i].pc = "read" /\ issuer[i].who = p}
SeenBy(S) == UNION {issuer[i].saw : i \in S}

\* The links that a set of requests will leave working are of the other requests.
LinkInvFor(p) ==
  /\ IsFiniteSet(LiveLinks(p))
  /\ \A S \in SUBSET Readers(p) :
       Cardinality(LiveLinks(p) \ SeenBy(S)) + Cardinality(S) <= Cardinality(Issuers)
LinkInv == \A p \in People : LinkInvFor(p)

PInv == ResetTypeOK /\ HandInv /\ UsesInv /\ ReuseNeedsOverlap /\ LinkInv

Holders(t) == {r \in Resetters : resetter[r] = t}

LEMMA ResetFacts ==
  ASSUME ResetAssumption, PInv
  PROVE  /\ token \in [Tokens -> {NoRow} \union [owner : People, state : {"LIVE", "EXPIRED", "CONSUMED"}]]
         /\ issuer \in [Issuers -> {IdleIssuer} \union [pc : {"read"}, who : People, saw : SUBSET Tokens]]
         /\ resetter \in [Resetters -> Tokens \union {"none"}]
         /\ uses \in [Tokens -> Nat]
         /\ Cardinality(Issuers) \in Nat /\ Cardinality(Resetters) \in Nat
         /\ \A t \in Tokens : IsFiniteSet(Holders(t)) /\ Cardinality(Holders(t)) \in Nat
                              /\ uses[t] + Cardinality(Holders(t)) <= Cardinality(Resetters)
<1>1. Cardinality(Issuers) \in Nat /\ Cardinality(Resetters) \in Nat
  BY FS_CardinalityType DEF ResetAssumption
<1>2. ASSUME NEW t \in Tokens
      PROVE  IsFiniteSet(Holders(t)) /\ Cardinality(Holders(t)) \in Nat
  <2>1. Holders(t) \in SUBSET Resetters
    BY DEF Holders
  <2> QED BY <2>1, FS_Subset, FS_CardinalityType DEF ResetAssumption
<1>3. \A t \in Tokens : uses[t] + Cardinality(Holders(t)) <= Cardinality(Resetters)
  BY DEF PInv, ReuseNeedsOverlap, Holders
<1> QED BY <1>1, <1>2, <1>3 DEF PInv, ResetTypeOK

\* Fewer links, and fewer requests that have read what they have read
LEMMA LinkShrinks ==
  ASSUME ResetAssumption, PInv, NEW p \in People,
         LiveLinks(p)' \subseteq LiveLinks(p), Readers(p)' \subseteq Readers(p),
         \A i \in Readers(p)' : issuer'[i] = issuer[i]
  PROVE  LinkInvFor(p)'
<1>1. IsFiniteSet(LiveLinks(p))
  BY DEF PInv, LinkInv, LinkInvFor
<1>2. IsFiniteSet(LiveLinks(p)')
  BY <1>1, FS_Subset
<1>3. ASSUME NEW S \in SUBSET Readers(p)'
      PROVE  Cardinality(LiveLinks(p)' \ SeenBy(S)') + Cardinality(S) <= Cardinality(Issuers)
  <2>1. SeenBy(S)' = SeenBy(S)
    <3>1. {issuer'[i].saw : i \in S} = {issuer[i].saw : i \in S}
      OBVIOUS
    <3> QED BY <3>1 DEF SeenBy
  <2>2. S \in SUBSET Readers(p) /\ S \in SUBSET Issuers
    BY DEF Readers
  <2>3. Cardinality(LiveLinks(p) \ SeenBy(S)) + Cardinality(S) <= Cardinality(Issuers)
    BY <2>2 DEF PInv, LinkInv, LinkInvFor
  <2>4. IsFiniteSet(LiveLinks(p) \ SeenBy(S))
    BY <1>1, FS_Subset
  <2>5. LiveLinks(p)' \ SeenBy(S)' \in SUBSET (LiveLinks(p) \ SeenBy(S))
    BY <2>1
  <2>6. Cardinality(LiveLinks(p)' \ SeenBy(S)') <= Cardinality(LiveLinks(p) \ SeenBy(S))
    BY <2>4, <2>5, FS_Subset
  <2>7. /\ Cardinality(LiveLinks(p) \ SeenBy(S)) \in Nat
        /\ Cardinality(LiveLinks(p)' \ SeenBy(S)') \in Nat
        /\ Cardinality(S) \in Nat /\ Cardinality(Issuers) \in Nat
    BY <2>2, <2>4, <2>5, FS_Subset, FS_CardinalityType DEF ResetAssumption
  <2> QED BY <2>3, <2>6, <2>7
<1> QED BY <1>2, <1>3 DEF LinkInvFor

LEMMA BeginIssueInv ==
  ASSUME ResetAssumption, PInv, NEW i \in Issuers, NEW p \in People, BeginIssue(i, p)
  PROVE  PInv'
<1>1. /\ token' = token /\ resetter' = resetter /\ uses' = uses
      /\ issuer[i] = IdleIssuer
      /\ issuer' = [issuer EXCEPT ![i] = [pc |-> "read", who |-> p, saw |-> Unconsumed(p)]]
      /\ \A k \in Issuers \ {i} : issuer'[k] = issuer[k]
      /\ issuer'[i].pc = "read" /\ issuer'[i].who = p /\ issuer'[i].saw = Unconsumed(p)
  BY ResetFacts DEF BeginIssue
<1>2. ResetTypeOK'
  BY <1>1, ResetFacts DEF ResetTypeOK, Unconsumed
<1>3. HandInv' /\ UsesInv' /\ ReuseNeedsOverlap'
  BY <1>1, ResetFacts DEF PInv, HandInv, UsesInv, ReuseNeedsOverlap, Unconsumed
<1>4. LinkInv'
  <2>1. \A q \in People : LiveLinks(q)' = LiveLinks(q)
    BY <1>1 DEF LiveLinks
  <2>2. ASSUME NEW q \in People, NEW S \in SUBSET Readers(q)'
        PROVE  Cardinality(LiveLinks(q)' \ SeenBy(S)') + Cardinality(S) <= Cardinality(Issuers)
    <3>1. CASE i \in S
      <4>1. q = p
        BY <1>1, <3>1 DEF Readers
      <4>2. LiveLinks(p) \subseteq issuer'[i].saw
        BY <1>1 DEF LiveLinks, Unconsumed
      <4>3. LiveLinks(q)' \ SeenBy(S)' = {}
        BY <2>1, <3>1, <4>1, <4>2 DEF SeenBy
      <4>4. Cardinality(LiveLinks(q)' \ SeenBy(S)') = 0
        BY <4>3, FS_EmptySet
      <4>5. S \in SUBSET Issuers
        BY DEF Readers
      <4>6. Cardinality(S) <= Cardinality(Issuers) /\ Cardinality(S) \in Nat
        BY <4>5, FS_Subset, FS_CardinalityType DEF ResetAssumption
      <4> QED BY <4>4, <4>6, ResetFacts
    <3>2. CASE i \notin S
      <4>1. S \in SUBSET Readers(q)
        BY <1>1, <3>2 DEF Readers
      <4>2. {issuer'[k].saw : k \in S} = {issuer[k].saw : k \in S}
        BY <1>1, <3>2, <4>1 DEF Readers
      <4> QED BY <2>1, <4>1, <4>2 DEF PInv, LinkInv, LinkInvFor, SeenBy
    <3> QED BY <3>1, <3>2
  <2> QED BY <2>1, <2>2 DEF PInv, LinkInv, LinkInvFor
<1> QED BY <1>2, <1>3, <1>4 DEF PInv

LEMMA CommitIssueInv ==
  ASSUME ResetAssumption, PInv, NEW i \in Issuers, CommitIssue(i)
  PROVE  PInv'
<1>1. PICK p \in People, saw \in SUBSET Tokens :
        issuer[i].pc = "read" /\ issuer[i].who = p /\ issuer[i].saw = saw
  BY ResetFacts DEF CommitIssue, IdleIssuer
<1>2. PICK t \in Tokens :
        /\ Spent(t)
        /\ token' = [[u \in Tokens |-> IF u \in saw THEN [token[u] EXCEPT !.state = "CONSUMED"] ELSE token[u]]
                       EXCEPT ![t] = [owner |-> p, state |-> "LIVE"]]
        /\ uses' = [uses EXCEPT ![t] = 0]
  BY <1>1 DEF CommitIssue
<1>3. issuer' = [issuer EXCEPT ![i] = IdleIssuer] /\ resetter' = resetter
  BY DEF CommitIssue
<1>4. /\ \A k \in Issuers : t \notin issuer[k].saw
      /\ \A r \in Resetters : resetter[r] # t
      /\ token[t].state # "LIVE"
  <2>1. Spent(t)
    BY <1>2
  <2> QED BY ONLY <2>1 DEF Spent
<1>5. /\ token'[t] = [owner |-> p, state |-> "LIVE"]
      /\ \A u \in Tokens \ {t} :
           token'[u] = IF u \in saw THEN [token[u] EXCEPT !.state = "CONSUMED"] ELSE token[u]
  BY <1>2
<1>5a. \A u \in saw : token[u].owner \in People
  BY <1>1 DEF PInv, HandInv
<1>6. \A u \in Tokens \ {t} :
        /\ token'[u].owner = token[u].owner
        /\ token'[u].state = token[u].state \/ token'[u].state = "CONSUMED"
        /\ u \in saw => token'[u].state = "CONSUMED"
        /\ token'[u] \in {NoRow} \union [owner : People, state : {"LIVE", "EXPIRED", "CONSUMED"}]
  <2>1. ASSUME NEW u \in Tokens \ {t}, u \in saw
        PROVE  /\ token'[u].owner = token[u].owner
               /\ token'[u].state = "CONSUMED"
               /\ token'[u] \in [owner : People, state : {"LIVE", "EXPIRED", "CONSUMED"}]
    <3>1. token[u].owner \in People
      BY <1>5a, <2>1
    <3>2. token'[u] = [token[u] EXCEPT !.state = "CONSUMED"]
      BY <1>5, <2>1
    <3> QED BY <3>1, <3>2, ResetFacts DEF NoRow
  <2>2. ASSUME NEW u \in Tokens \ {t}, u \notin saw
        PROVE  token'[u] = token[u]
    BY <1>5, <2>2
  <2> QED BY <2>1, <2>2, ResetFacts
<1>7. \A k \in Issuers \ {i} : issuer'[k] = issuer[k]
  BY <1>3, ResetFacts
<1>8. issuer'[i] = IdleIssuer
  BY <1>3, ResetFacts
<1>9. ResetTypeOK'
  <2>1. token' \in [Tokens -> {NoRow} \union [owner : People, state : {"LIVE", "EXPIRED", "CONSUMED"}]]
    BY <1>1, <1>2, <1>5, <1>6
  <2> QED BY <1>2, <1>3, <2>1, ResetFacts DEF ResetTypeOK
<1>10. HandInv'
  <2>1. \A k \in Issuers : \A u \in issuer'[k].saw : token'[u].owner \in People
    BY <1>4, <1>6, <1>7, <1>8, ResetFacts DEF PInv, HandInv, IdleIssuer
  <2>2. \A r \in Resetters : resetter'[r] # "none" => token'[resetter'[r]].owner \in People
    BY <1>3, <1>4, <1>6, ResetFacts DEF PInv, HandInv
  <2> QED BY <2>1, <2>2 DEF HandInv
<1>11. UsesInv'
  BY <1>2, <1>6, ResetFacts DEF PInv, UsesInv
<1>12. ReuseNeedsOverlap'
  <2>1. ASSUME NEW u \in Tokens
        PROVE  uses'[u] + Cardinality(Holders(u)) <= Cardinality(Resetters)
    <3>1. CASE u = t
      <4>1. Holders(u) = {}
        BY <1>4, <3>1 DEF Holders
      <4>2. uses'[u] = 0
        BY <1>2, <3>1, ResetFacts
      <4>3. Cardinality(Holders(u)) = 0
        BY <4>1, FS_EmptySet
      <4>4. Cardinality(Resetters) \in Nat
        BY ResetFacts
      <4> QED BY ONLY <4>2, <4>3, <4>4
    <3>2. CASE u # t
      <4>1. uses'[u] = uses[u]
        BY <1>2, <3>2, ResetFacts
      <4> QED BY <4>1, ResetFacts
    <3> QED BY <3>1, <3>2
  <2> QED BY <1>3, <2>1 DEF ReuseNeedsOverlap, Holders
<1>13. LinkInv'
  <2>1. \A q \in People : Readers(q)' = Readers(q) \ {i}
    BY <1>7, <1>8 DEF Readers, IdleIssuer
  <2>2. ASSUME NEW q \in People, q # p
        PROVE  LinkInvFor(q)'
    <3>1. LiveLinks(q)' \subseteq LiveLinks(q)
      <4>1. ASSUME NEW u \in LiveLinks(q)' PROVE u \in LiveLinks(q)
        <5>1. u \in Tokens /\ token'[u].owner = q /\ token'[u].state = "LIVE"
          BY DEF LiveLinks
        <5>2. u # t
          BY <1>5, <2>2, <5>1
        <5> QED BY <1>6, <5>1, <5>2 DEF LiveLinks
      <4> QED BY <4>1
    <3>2. Readers(q)' \subseteq Readers(q) /\ \A k \in Readers(q)' : issuer'[k] = issuer[k]
      BY <1>7, <2>1 DEF Readers
    <3> QED BY <3>1, <3>2, LinkShrinks
  <2>3. LinkInvFor(p)'
    <3>0. IsFiniteSet(LiveLinks(p))
      BY <1>1 DEF PInv, LinkInv, LinkInvFor
    <3>1. LiveLinks(p)' \subseteq (LiveLinks(p) \ saw) \union {t}
      <4>1. ASSUME NEW u \in LiveLinks(p)', u # t PROVE u \in LiveLinks(p) /\ u \notin saw
        <5>1. u \in Tokens /\ token'[u].owner = p /\ token'[u].state = "LIVE"
          BY DEF LiveLinks
        <5> QED BY <1>6, <4>1, <5>1 DEF LiveLinks
      <4> QED BY <4>1
    <3>3. IsFiniteSet(LiveLinks(p)')
      <4>1. IsFiniteSet(LiveLinks(p) \union {t})
        BY <3>0, FS_AddElement
      <4>2. LiveLinks(p)' \in SUBSET (LiveLinks(p) \union {t})
        BY <3>1
      <4> QED BY <4>1, <4>2, FS_Subset
    <3>4. ASSUME NEW S \in SUBSET Readers(p)'
          PROVE  Cardinality(LiveLinks(p)' \ SeenBy(S)') + Cardinality(S) <= Cardinality(Issuers)
      <4> DEFINE T == S \union {i}
                 A == LiveLinks(p) \ SeenBy(T)
                 B == LiveLinks(p)' \ SeenBy(S)'
      <4>1. S \in SUBSET Issuers /\ i \notin S /\ T \in SUBSET Readers(p)
        <5>1. i \in Readers(p)
          BY <1>1 DEF Readers
        <5> QED BY <1>1, <2>1, <5>1 DEF Readers
      <4>2. SeenBy(T) = SeenBy(S) \union saw /\ SeenBy(S)' = SeenBy(S)
        <5>1. {issuer'[k].saw : k \in S} = {issuer[k].saw : k \in S}
          BY <1>7, <4>1
        <5>2. SeenBy(S)' = SeenBy(S)
          BY <5>1 DEF SeenBy
        <5>3. SeenBy(T) = SeenBy(S) \union saw
          BY <1>1 DEF SeenBy
        <5> QED BY <5>2, <5>3
      <4>3. Cardinality(A) + Cardinality(T) <= Cardinality(Issuers)
        BY <1>1, <4>1 DEF PInv, LinkInv, LinkInvFor
      <4>4. IsFiniteSet(S) /\ Cardinality(S) \in Nat /\ Cardinality(T) = Cardinality(S) + 1
        BY <4>1, FS_Subset, FS_AddElement, FS_CardinalityType DEF ResetAssumption
      <4>5. IsFiniteSet(A)
        BY <3>0, FS_Subset
      <4>7. B \in SUBSET (A \union {t})
        BY <3>1, <4>2
      <4> HIDE DEF A, B, T
      <4>6. /\ IsFiniteSet(A \union {t}) /\ Cardinality(A \union {t}) <= Cardinality(A) + 1
            /\ Cardinality(A) \in Nat /\ Cardinality(A \union {t}) \in Nat
        <5>1. IsFiniteSet(A \union {t}) /\ Cardinality(A) \in Nat
          BY <4>5, FS_AddElement, FS_CardinalityType
        <5>2. CASE t \in A
          <6>1. A \union {t} = A
            BY <5>2
          <6>2. Cardinality(A) <= Cardinality(A) + 1
            BY <5>1
          <6>3. Cardinality(A \union {t}) = Cardinality(A)
            BY <6>1
          <6> QED BY ONLY <5>1, <6>2, <6>3
        <5>3. CASE t \notin A
          BY <4>5, <5>1, <5>3, FS_AddElement
        <5> QED BY <5>2, <5>3
      <4>8. Cardinality(B) <= Cardinality(A \union {t}) /\ Cardinality(B) \in Nat
        BY <4>6, <4>7, FS_Subset, FS_CardinalityType
      <4>9. Cardinality(Issuers) \in Nat
        BY ResetFacts
      <4>10. Cardinality(B) + Cardinality(S) <= Cardinality(Issuers)
        BY ONLY <4>3, <4>4, <4>6, <4>8, <4>9
      <4> QED BY <4>10 DEF B
    <3> QED BY <3>3, <3>4 DEF LinkInvFor
  <2> QED BY <2>2, <2>3 DEF LinkInv
<1> QED BY <1>9, <1>10, <1>11, <1>12, <1>13 DEF PInv

LEMMA CommitResetInv ==
  ASSUME ResetAssumption, PInv, NEW r \in Resetters, CommitReset(r)
  PROVE  PInv'
<1>1. PICK t \in Tokens : resetter[r] = t
  BY ResetFacts DEF CommitReset
<1>2. /\ token' = [token EXCEPT ![t].state = "CONSUMED"]
      /\ uses' = [uses EXCEPT ![t] = uses[t] + 1]
      /\ resetter' = [resetter EXCEPT ![r] = "none"]
      /\ issuer' = issuer
  BY <1>1 DEF CommitReset
<1>3. token[t].owner \in People
  BY <1>1 DEF PInv, HandInv, ResetAssumption
<1>4. /\ token[t] \in [owner : People, state : {"LIVE", "EXPIRED", "CONSUMED"}] \/ token[t] = NoRow
      /\ token'[t].owner = token[t].owner /\ token'[t].state = "CONSUMED"
      /\ token'[t] \in [owner : People, state : {"LIVE", "EXPIRED", "CONSUMED"}]
      /\ \A u \in Tokens \ {t} : token'[u] = token[u]
  BY <1>2, <1>3, ResetFacts DEF NoRow
<1>5. ResetTypeOK'
  <2>1. token' \in [Tokens -> {NoRow} \union [owner : People, state : {"LIVE", "EXPIRED", "CONSUMED"}]]
    BY <1>2, <1>4, ResetFacts
  <2> QED BY <1>2, <2>1, ResetFacts DEF ResetTypeOK
<1>6. HandInv'
  BY <1>2, <1>4, ResetFacts DEF PInv, HandInv
<1>7. UsesInv'
  BY <1>2, <1>4, ResetFacts DEF PInv, UsesInv
<1>8. ReuseNeedsOverlap'
  <2>1. ASSUME NEW u \in Tokens
        PROVE  uses'[u] + Cardinality(Holders(u)') <= Cardinality(Resetters)
    <3>1. CASE u = t
      <4>1. Holders(t)' = Holders(t) \ {r} /\ r \in Holders(t)
        BY <1>1, <1>2, ResetFacts DEF Holders, ResetAssumption
      <4>2. IsFiniteSet(Holders(t)) /\ Cardinality(Holders(t)) \in Nat
            /\ uses[t] + Cardinality(Holders(t)) <= Cardinality(Resetters)
            /\ uses[t] \in Nat /\ Cardinality(Resetters) \in Nat
        BY ResetFacts
      <4>3. Cardinality(Holders(t) \ {r}) = Cardinality(Holders(t)) - 1
        BY <4>1, <4>2, FS_RemoveElement
      <4>4. uses'[t] = uses[t] + 1 /\ Cardinality(Holders(t)') = Cardinality(Holders(t)) - 1
        BY <1>2, <4>1, <4>3, ResetFacts
      <4>5. uses'[t] + Cardinality(Holders(t)') <= Cardinality(Resetters)
        BY ONLY <4>2, <4>4
      <4> QED BY <3>1, <4>5
    <3>2. CASE u # t
      <4>1. Holders(u)' = Holders(u) /\ uses'[u] = uses[u]
        BY <1>1, <1>2, <3>2, ResetFacts DEF Holders, ResetAssumption
      <4> QED BY <4>1, ResetFacts
    <3> QED BY <3>1, <3>2
  <2> QED BY <2>1 DEF ReuseNeedsOverlap, Holders
<1>9. LinkInv'
  <2>1. ASSUME NEW q \in People PROVE LinkInvFor(q)'
    <3>1. LiveLinks(q)' \subseteq LiveLinks(q)
      BY <1>4 DEF LiveLinks
    <3>2. Readers(q)' \subseteq Readers(q) /\ \A k \in Readers(q)' : issuer'[k] = issuer[k]
      BY <1>2 DEF Readers
    <3> QED BY <3>1, <3>2, LinkShrinks
  <2> QED BY <2>1 DEF LinkInv
<1> QED BY <1>5, <1>6, <1>7, <1>8, <1>9 DEF PInv

LEMMA BeginResetInv ==
  ASSUME ResetAssumption, PInv, NEW r \in Resetters, NEW t \in Tokens, BeginReset(r, t)
  PROVE  PInv'
<1>1. /\ resetter[r] = "none" /\ token[t].state = "LIVE"
      /\ resetter' = [resetter EXCEPT ![r] = t]
      /\ token' = token /\ issuer' = issuer /\ uses' = uses
  BY DEF BeginReset
<1>2. ResetTypeOK'
  BY <1>1, ResetFacts DEF ResetTypeOK
<1>3. HandInv'
  <2>1. token[t].owner \in People
    BY <1>1, ResetFacts DEF NoRow
  <2> QED BY <1>1, <2>1, ResetFacts DEF PInv, HandInv
<1>4. UsesInv'
  BY <1>1 DEF PInv, UsesInv
<1>5. ReuseNeedsOverlap'
  <2>1. ASSUME NEW u \in Tokens
        PROVE  uses[u] + Cardinality(Holders(u)') <= Cardinality(Resetters)
    <3>1. CASE u = t
      <4>1. uses[u] = 0
        BY <1>1, <3>1 DEF PInv, UsesInv
      <4>2. Holders(u)' \in SUBSET Resetters
        BY DEF Holders
      <4>3. /\ Cardinality(Holders(u)') <= Cardinality(Resetters)
            /\ Cardinality(Holders(u)') \in Nat /\ Cardinality(Resetters) \in Nat
        BY <4>2, FS_Subset, FS_CardinalityType DEF ResetAssumption
      <4> QED BY ONLY <4>1, <4>3
    <3>2. CASE u # t
      <4>1. Holders(u)' \in SUBSET Holders(u)
        BY <1>1, <3>2, ResetFacts DEF Holders
      <4>2. IsFiniteSet(Holders(u)) /\ Cardinality(Holders(u)) \in Nat
            /\ uses[u] + Cardinality(Holders(u)) <= Cardinality(Resetters)
            /\ uses[u] \in Nat /\ Cardinality(Resetters) \in Nat
        BY ResetFacts
      <4>3. Cardinality(Holders(u)') <= Cardinality(Holders(u)) /\ Cardinality(Holders(u)') \in Nat
        BY <4>1, <4>2, FS_Subset, FS_CardinalityType
      <4> QED BY ONLY <4>2, <4>3
    <3> QED BY <3>1, <3>2
  <2> QED BY <1>1, <2>1 DEF ReuseNeedsOverlap, Holders
<1>6. LinkInv'
  <2>1. ASSUME NEW q \in People PROVE LinkInvFor(q)'
    <3>1. LiveLinks(q)' \subseteq LiveLinks(q) /\ Readers(q)' \subseteq Readers(q)
          /\ \A k \in Readers(q)' : issuer'[k] = issuer[k]
      BY <1>1 DEF LiveLinks, Readers
    <3> QED BY <3>1, LinkShrinks
  <2> QED BY <2>1 DEF LinkInv
<1> QED BY <1>2, <1>3, <1>4, <1>5, <1>6 DEF PInv

\* An hour passes, or a request fails: links and requests only become fewer.
LEMMA QuietStepInv ==
  ASSUME ResetAssumption, PInv, ResetFails \/ \E t \in Tokens : ExpireToken(t)
  PROVE  PInv'
<1>1. /\ uses' = uses
      /\ resetter' \in [Resetters -> Tokens \union {"none"}]
      /\ \A r \in Resetters : resetter'[r] \in {"none", resetter[r]}
      /\ issuer' \in [Issuers -> {IdleIssuer} \union [pc : {"read"}, who : People, saw : SUBSET Tokens]]
      /\ \A i \in Issuers : issuer'[i] \in {IdleIssuer, issuer[i]}
  BY ResetFacts DEF ResetFails, ExpireToken
<1>2. /\ token' \in [Tokens -> {NoRow} \union [owner : People, state : {"LIVE", "EXPIRED", "CONSUMED"}]]
      /\ \A u \in Tokens : /\ token'[u].owner = token[u].owner
                           /\ token'[u].state = "LIVE" => token[u].state = "LIVE"
                           /\ token'[u].state # "CONSUMED" => token[u].state # "CONSUMED"
  <2>1. CASE ResetFails
    BY <2>1, ResetFacts DEF ResetFails
  <2>2. ASSUME NEW t \in Tokens, ExpireToken(t)
        PROVE  <1>2!1 /\ <1>2!2
    <3>1. token[t] \in [owner : People, state : {"LIVE", "EXPIRED", "CONSUMED"}]
      BY <2>2, ResetFacts DEF ExpireToken, NoRow
    <3>2. token' = [token EXCEPT ![t].state = "EXPIRED"] /\ token[t].state = "LIVE"
      BY <2>2 DEF ExpireToken
    <3> QED BY <3>1, <3>2, ResetFacts
  <2> QED BY <2>1, <2>2
<1>3. ResetTypeOK'
  BY <1>1, <1>2, ResetFacts DEF ResetTypeOK
<1>4. HandInv'
  BY <1>1, <1>2, ResetFacts DEF PInv, HandInv, IdleIssuer
<1>5. UsesInv'
  BY <1>1, <1>2 DEF PInv, UsesInv
<1>6. ReuseNeedsOverlap'
  <2>1. ASSUME NEW u \in Tokens
        PROVE  uses[u] + Cardinality(Holders(u)') <= Cardinality(Resetters)
    <3>1. Holders(u)' \in SUBSET Holders(u)
      BY <1>1 DEF Holders, ResetAssumption
    <3>2. IsFiniteSet(Holders(u)) /\ Cardinality(Holders(u)) \in Nat
          /\ uses[u] + Cardinality(Holders(u)) <= Cardinality(Resetters)
          /\ uses[u] \in Nat /\ Cardinality(Resetters) \in Nat
      BY ResetFacts
    <3>3. Cardinality(Holders(u)') <= Cardinality(Holders(u)) /\ Cardinality(Holders(u)') \in Nat
      BY <3>1, <3>2, FS_Subset, FS_CardinalityType
    <3> QED BY ONLY <3>2, <3>3
  <2> QED BY <1>1, <2>1 DEF ReuseNeedsOverlap, Holders
<1>7. LinkInv'
  <2>1. ASSUME NEW q \in People PROVE LinkInvFor(q)'
    <3>1. LiveLinks(q)' \subseteq LiveLinks(q)
      BY <1>2 DEF LiveLinks
    <3>2. Readers(q)' \subseteq Readers(q) /\ \A k \in Readers(q)' : issuer'[k] = issuer[k]
      BY <1>1 DEF Readers, IdleIssuer
    <3> QED BY <3>1, <3>2, LinkShrinks
  <2> QED BY <2>1 DEF LinkInv
<1> QED BY <1>3, <1>4, <1>5, <1>6, <1>7 DEF PInv

LEMMA ResetStepInv ==
  ASSUME ResetAssumption, PInv, ResetNext
  PROVE  PInv'
BY CommitIssueInv, BeginIssueInv, CommitResetInv, BeginResetInv, QuietStepInv DEF ResetNext

LEMMA ResetStutterInv ==
  ASSUME PInv, UNCHANGED resetVars
  PROVE  PInv'
<1>1. token' = token /\ issuer' = issuer /\ resetter' = resetter /\ uses' = uses
  BY DEF resetVars
<1>2. ResetTypeOK' /\ HandInv' /\ UsesInv' /\ ReuseNeedsOverlap'
  BY <1>1 DEF PInv, ResetTypeOK, HandInv, UsesInv, ReuseNeedsOverlap
<1>3. ASSUME NEW q \in People PROVE LinkInvFor(q)'
  <2>1. LiveLinks(q)' = LiveLinks(q) /\ Readers(q)' = Readers(q)
    BY <1>1 DEF LiveLinks, Readers
  <2>2. LinkInvFor(q)
    BY DEF PInv, LinkInv
  <2>3. ASSUME NEW S \in SUBSET Readers(q) PROVE SeenBy(S)' = SeenBy(S)
    BY <1>1 DEF SeenBy
  <2> QED BY <2>1, <2>2, <2>3 DEF LinkInvFor
<1> QED BY <1>2, <1>3 DEF PInv, LinkInv

LEMMA ResetInitInv ==
  ASSUME ResetAssumption, ResetInit
  PROVE  PInv
<1>1. /\ token = [t \in Tokens |-> NoRow] /\ issuer = [i \in Issuers |-> IdleIssuer]
      /\ resetter = [r \in Resetters |-> "none"] /\ uses = [t \in Tokens |-> 0]
  BY DEF ResetInit
<1>2. ResetTypeOK /\ HandInv /\ UsesInv
  BY <1>1 DEF ResetTypeOK, HandInv, UsesInv, IdleIssuer
<1>3. ReuseNeedsOverlap
  <2>1. ASSUME NEW t \in Tokens
        PROVE  uses[t] + Cardinality(Holders(t)) <= Cardinality(Resetters)
    <3>1. Holders(t) = {} /\ uses[t] = 0
      BY <1>1 DEF Holders, ResetAssumption
    <3>2. Cardinality(Holders(t)) = 0 /\ Cardinality(Resetters) \in Nat
      BY <3>1, FS_EmptySet, FS_CardinalityType DEF ResetAssumption
    <3> QED BY <3>1, <3>2
  <2> QED BY <2>1 DEF ReuseNeedsOverlap, Holders
<1>4. ASSUME NEW q \in People PROVE LinkInvFor(q)
  <2>1. LiveLinks(q) = {} /\ Readers(q) = {}
    BY <1>1 DEF LiveLinks, Readers, NoRow, IdleIssuer
  <2>2. IsFiniteSet({}) /\ Cardinality({}) = 0 /\ Cardinality(Issuers) \in Nat
    BY FS_EmptySet, FS_CardinalityType DEF ResetAssumption
  <2>3. ASSUME NEW S \in SUBSET Readers(q)
        PROVE  Cardinality(LiveLinks(q) \ SeenBy(S)) + Cardinality(S) <= Cardinality(Issuers)
    <3>1. S = {} /\ LiveLinks(q) \ SeenBy(S) = {}
      BY <2>1
    <3> QED BY <2>2, <3>1
  <2> QED BY <2>1, <2>2, <2>3 DEF LinkInvFor
<1> QED BY <1>2, <1>3, <1>4 DEF PInv, LinkInv

-----------------------------------------------------------------------------
(* The two together *)

Inv == AInv /\ PInv

\* A use of a link changes nothing of the administration but the account it activates.
LEMMA ResetKeepsAdmin ==
  ASSUME ResetAssumption, Inv, ResetStep
  PROVE  AInv'
<1>1. tenant' = tenant /\ member' = member /\ invite' = invite /\ grants' = grants /\ req' = req
  BY DEF ResetStep
<1>2. account' \in [People -> AccountStates]
  <2>1. account \in [People -> AccountStates]
    BY DEF Inv, AInv, RowsOK, AccountTypeOK
  <2>2. account' = account \/ \E p : account' = [account EXCEPT ![p] = "active"]
    BY DEF ResetStep, ResetNext, CommitIssue, BeginIssue, CommitReset, BeginReset, ExpireToken,
           ResetFails
  <2> QED BY <2>1, <2>2 DEF AccountStates
<1> QED BY <1>1, <1>2 DEF Inv, AInv, RowsOK, AccountTypeOK, ReqInv, Carries, InviteInv,
                          HeldRolesWereGranted

\* The invariant holds at the start and every step keeps it.
THEOREM AccountsInvariance == AccountsSpec => []Inv
<1>1. AccountsInit => Inv
  BY AdminInitInv, ResetInitInv, ResetAssumption DEF AccountsInit, Inv
<1>2. Inv /\ [AccountsNext]_accountsVars => Inv'
  <2> SUFFICES ASSUME Inv, [AccountsNext]_accountsVars PROVE Inv'
    OBVIOUS
  <2>1. CASE AdminStep
    BY <2>1, AdminStepInv, ResetStutterInv, AdminAssumption DEF AdminStep, Inv
  <2>2. CASE ResetStep
    BY <2>2, ResetKeepsAdmin, ResetStepInv, ResetAssumption DEF ResetStep, Inv
  <2>3. CASE UNCHANGED accountsVars
    <3>1. PInv'
      BY <2>3, ResetStutterInv DEF accountsVars, Inv
    <3>2. UNCHANGED <<account, tenant, member, invite, grants, req>>
      BY <2>3 DEF accountsVars, adminVars
    <3> QED BY <3>1, <3>2 DEF Inv, AInv, RowsOK, AccountTypeOK, ReqInv, Carries, InviteInv,
                              HeldRolesWereGranted
  <2> QED BY <2>1, <2>2, <2>3 DEF AccountsNext
<1> QED BY <1>1, <1>2, PTL DEF AccountsSpec

\* TenantAdmin and PasswordReset keep their types when they share the accounts.
THEOREM AccountsTypes == AccountsSpec => [](AdminTypeOK /\ ResetTypeOK)
<1>1. Inv => AdminTypeOK /\ ResetTypeOK
  BY AInvTypes DEF Inv, PInv
<1> QED BY <1>1, AccountsInvariance, PTL

\* tenant-admin-service.ts, invitation-acceptance-service.ts: every role that is held was
\* given or offered to its holder by an authorised request.
THEOREM RolesWereGranted == AccountsSpec => []HeldRolesWereGranted
<1>1. Inv => HeldRolesWereGranted
  BY DEF Inv, AInv
<1> QED BY <1>1, AccountsInvariance, PTL

\* password-reset-service.ts: the uses of one link that set a password overlap.
THEOREM ReuseOverlaps == AccountsSpec => []ReuseNeedsOverlap
<1>1. Inv => ReuseNeedsOverlap
  BY DEF Inv, PInv
<1> QED BY <1>1, AccountsInvariance, PTL

\* password-reset-service.ts: a person never has more links that work than there are
\* requests in service.
THEOREM LinksConcurrent == AccountsSpec => []LinksAreOfConcurrentRequests
<1>1. ASSUME Inv, NEW p \in People
      PROVE  Cardinality(LiveLinks(p)) <= Cardinality(Issuers)
  <2>1. {} \in SUBSET Readers(p) /\ LiveLinks(p) \ SeenBy({}) = LiveLinks(p)
    BY DEF SeenBy
  <2>2. LinkInvFor(p)
    BY <1>1 DEF Inv, PInv, LinkInv
  <2>3. Cardinality(LiveLinks(p)) + Cardinality({}) <= Cardinality(Issuers)
    BY <2>1, <2>2 DEF LinkInvFor
  <2>4. Cardinality({}) = 0 /\ Cardinality(LiveLinks(p)) \in Nat
    BY <2>2, FS_EmptySet, FS_CardinalityType DEF LinkInvFor
  <2>5. Cardinality(Issuers) \in Nat
    BY ResetAssumption, FS_CardinalityType DEF ResetAssumption
  <2> QED BY ONLY <2>3, <2>4, <2>5
<1>2. Inv => LinksAreOfConcurrentRequests
  BY <1>1 DEF LinksAreOfConcurrentRequests
<1> QED BY <1>2, AccountsInvariance, PTL

\* An account changes from none to a placeholder or by getting a password.
LEMMA AccountChanges ==
  ASSUME Inv, AccountsNext
  PROVE  \/ account' = account
         \/ \E p : account' = [account EXCEPT ![p] = "active"]
         \/ \E p : account' = [account EXCEPT ![p] = OwnerAccount(@)]
<1>1. CASE ResetStep
  BY <1>1 DEF ResetStep, ResetNext, CommitIssue, BeginIssue, CommitReset, BeginReset, ExpireToken,
             ResetFails
<1>2. CASE AdminStep
  <2>1. ASSUME NEW r \in Requests, BeginAny(r) PROVE account' = account
    BY <2>1 DEF BeginAny, BeginChangeStatus, BeginCreateTenant, BeginRemoveMember, BeginResend,
                BeginRevoke, BeginRouteDelete, BeginRegister, BeginAccept, BeginAddMember,
                BeginChangeRole, BeginCreateInvitation, BeginRouteInvite, Begin, BeginWith
  <2>2. ASSUME NEW r \in Requests, CommitAny(r), ~CommitRegister(r), ~CommitCreateTenant(r)
        PROVE  account' = account
    BY <2>2 DEF CommitAny, CommitChangeStatus, CommitAddMember, CommitChangeRole,
                CommitRemoveMember, CommitCreateInvitation, CommitResend, CommitDelete,
                CommitRouteInvite, CommitAccept
  <2> QED BY <1>2, <2>1, <2>2 DEF AdminStep, AdminNext, Rollback, Expire, CommitRegister,
                                  CommitCreateTenant
<1> QED BY <1>1, <1>2 DEF AccountsNext

\* tenant-admin-service.ts createAdminTenant, invitation-acceptance-service.ts and
\* password-reset-service.ts: no account loses its row or its password.
THEOREM PasswordsStay == AccountsSpec => PasswordsAreKept
<1>1. ASSUME Inv, [AccountsNext]_accountsVars
      PROVE  [\A p \in People : AccountRank[account'[p]] >= AccountRank[account[p]]]_account
  <2>1. CASE account' = account
    BY <2>1
  <2>2. /\ account \in [People -> AccountStates]
        /\ AccountRank["none"] = 0 /\ AccountRank["placeholder"] = 1 /\ AccountRank["active"] = 2
    BY <1>1 DEF Inv, AInv, RowsOK, AccountTypeOK, AccountRank, AccountStates
  <2>3. ASSUME NEW q, account' = [account EXCEPT ![q] = "active"], NEW p \in People
        PROVE  AccountRank[account'[p]] >= AccountRank[account[p]]
    BY <2>2, <2>3 DEF AccountStates
  <2>4. ASSUME NEW q, account' = [account EXCEPT ![q] = OwnerAccount(@)], NEW p \in People
        PROVE  AccountRank[account'[p]] >= AccountRank[account[p]]
    BY <2>2, <2>4 DEF AccountStates, OwnerAccount
  <2> QED BY <1>1, <2>1, <2>3, <2>4, AccountChanges DEF accountsVars, adminVars
<1> QED BY <1>1, AccountsInvariance, PTL DEF AccountsSpec, PasswordsAreKept

\* invitation-acceptance-service.ts: only the row that was read lets its person in.
THEOREM StandingInvitations == AccountsSpec => OnlyStandingInvitationsAdmit
<1> DEFINE A == \A r \in Requests :
                  req[r].op \in {"accept", "register"} /\ member' # member /\ req'[r] # req[r]
                    => invite[req[r].link].id = req[r].id
<1>1. ASSUME Inv, [AccountsNext]_accountsVars PROVE [A]_adminVars
  <2>1. CASE member' = member
    BY <2>1
  <2>2. ASSUME NEW s \in Requests, CommitAny(s), NEW r \in Requests,
               req[r].op \in {"accept", "register"}, req'[r] # req[r]
        PROVE  invite[req[r].link].id = req[r].id
    <3>1. Finish(s)
      BY <2>2 DEF CommitAny, CommitCreateTenant, CommitChangeStatus, CommitAddMember,
                  CommitChangeRole, CommitRemoveMember, CommitCreateInvitation, CommitResend,
                  CommitDelete, CommitRouteInvite, CommitRegister, CommitAccept
    <3>2. r = s
      BY <1>1, <2>2, <3>1 DEF Finish, Inv, AInv, ReqInv
    <3>3. CommitRegister(s) \/ CommitAccept(s)
      BY <2>2, <3>2 DEF CommitAny, CommitCreateTenant, CommitChangeStatus, CommitAddMember,
                  CommitChangeRole, CommitRemoveMember, CommitCreateInvitation, CommitResend,
                  CommitDelete, CommitRouteInvite
    <3> QED BY <3>2, <3>3 DEF CommitRegister, CommitAccept, Stands
  <2>3. ASSUME NEW s \in Requests, BeginAny(s) PROVE member' = member
    BY <2>3 DEF BeginAny, BeginChangeStatus, BeginCreateTenant, BeginRemoveMember, BeginResend,
                BeginRevoke, BeginRouteDelete, BeginRegister, BeginAccept, BeginAddMember,
                BeginChangeRole, BeginCreateInvitation, BeginRouteInvite, Begin, BeginWith
  <2>4. CASE AdminStep
    BY <2>1, <2>2, <2>3, <2>4 DEF AdminStep, AdminNext, Rollback, Expire
  <2>5. CASE ResetStep \/ UNCHANGED accountsVars
    BY <2>1, <2>5 DEF ResetStep, accountsVars, adminVars
  <2> QED BY <1>1, <2>4, <2>5 DEF AccountsNext
<1> QED BY <1>1, AccountsInvariance, PTL DEF AccountsSpec, OnlyStandingInvitationsAdmit

-----------------------------------------------------------------------------
(* The mail of one key *)

\* While no calls of a key have overlapped or stopped before their record: one call at a
\* time is at work, nothing was sent before it calls the provider, and a mail that was
\* sent has its record or a call that is about to write it.
MessageInv == \A k \in Keys \ disturbed :
  /\ message[k].mails <= 1
  /\ \A c, d \in Working(k) : c = d
  /\ \A c \in Working(k) : caller[c].pc = "send" => message[k].mails = 0
  /\ delivery[k].status \in {"NONE", "PENDING"} /\ message[k].mails > 0 =>
       \E c \in Working(k) : caller[c].pc # "send"

\* A report being served is the report of one handler, and not on file yet.
ServedInv ==
  /\ \A h \in Handlers : handler[h].pc = "read" =>
       /\ handler[h].event \in Events \ seen
       /\ report[handler[h].event] # NoReport
  /\ \A h, g \in Handlers :
       handler[h].pc = "read" /\ handler[g].pc = "read" /\ handler[h].event = handler[g].event => h = g

\* A report is applied in the transaction that files it.
AppliedInv == \A e \in Events : applied[e] <= IF e \in seen THEN 1 ELSE 0

MInv == MailTypeOK /\ MessageInv /\ ServedInv /\ AppliedInv /\ ReportedStatusIsOnFile

-----------------------------------------------------------------------------
(* createAndSendEmail *)

CallerStep(c) ==
  \/ CreateRow(c) \/ DisableRow(c) \/ SendCall(c) \/ RecordSent(c) \/ RecordFailed(c) \/ Abandon(c)

LEMMA StatusType ==
  ASSUME MailTypeOK, NEW k \in Keys, NEW s \in DeliveryStatuses,
         delivery' = [delivery EXCEPT ![k].status = s]
  PROVE  delivery' \in [Keys -> [status : DeliveryStatuses, stored : Nat]]
BY DEF MailTypeOK

CallerRow == [pc : {"new", "disable", "send", "sent", "rejected", "done"}, key : Keys, mail : Nat]

\* One call moves on, with the key it has.
LEMMA GoFacts ==
  ASSUME MailTypeOK, NEW c \in Callers,
         NEW pc \in {"disable", "send", "sent", "rejected", "done"}, NEW mail \in Nat,
         caller' = [caller EXCEPT ![c].pc = pc, ![c].mail = mail] \/ Go(c, pc)
  PROVE  /\ caller' \in [Callers -> CallerRow]
         /\ caller'[c].pc = pc
         /\ \A d \in Callers : caller'[d].key = caller[d].key
         /\ \A d \in Callers \ {c} : caller'[d] = caller[d]
<1>1. caller \in [Callers -> CallerRow] /\ caller[c] \in CallerRow
  BY DEF MailTypeOK, CallerRow
<1>2. CASE caller' = [caller EXCEPT ![c].pc = pc, ![c].mail = mail]
  <2>1. caller' = [caller EXCEPT ![c] = [caller[c] EXCEPT !.pc = pc, !.mail = mail]]
    BY <1>1, <1>2 DEF CallerRow
  <2>2. [caller[c] EXCEPT !.pc = pc, !.mail = mail] \in CallerRow
    BY <1>1 DEF CallerRow
  <2> QED BY <1>1, <2>1, <2>2 DEF CallerRow
<1>3. CASE Go(c, pc)
  BY <1>1, <1>3 DEF Go, CallerRow
<1> QED BY <1>2, <1>3

LEMMA CallerType ==
  ASSUME MailTypeOK, NEW c \in Callers, CallerStep(c)
  PROVE  MailTypeOK'
<1>1. caller[c].key \in Keys /\ delivery[caller[c].key].status \in DeliveryStatuses
  BY DEF MailTypeOK
<1>4. message' \in [Keys -> [known : BOOLEAN, mails : Nat]]
  <2>1. CASE Accept(caller[c].key)
    BY <1>1, <2>1 DEF Accept, MailTypeOK
  <2>2. CASE UNCHANGED message
    BY <2>2 DEF MailTypeOK
  <2> QED
    BY <2>1, <2>2 DEF CallerStep, CreateRow, DisableRow, SendCall, RecordSent, RecordFailed, Abandon,
                      External
<1>2. caller' \in [Callers -> CallerRow]
  <2>1. CASE \E pc \in {"disable", "send", "sent", "rejected", "done"} : Go(c, pc)
    <3>1. 0 \in Nat
      OBVIOUS
    <3> QED BY <2>1, <3>1, GoFacts
  <2>2. CASE caller' = [caller EXCEPT ![c].pc = "sent", ![c].mail = message'[caller[c].key].mails]
    <3>1. message'[caller[c].key].mails \in Nat
      BY <1>1, <1>4
    <3> QED BY <2>2, <3>1, GoFacts
  <2> QED
    BY <2>1, <2>2 DEF CallerStep, CreateRow, DisableRow, SendCall, RecordSent, RecordFailed, Abandon
<1>3. delivery' \in [Keys -> [status : DeliveryStatuses, stored : Nat]]
  <2>1. CASE \E s \in DeliveryStatuses : delivery' = [delivery EXCEPT ![caller[c].key].status = s]
    BY <1>1, <2>1, StatusType
  <2>2. CASE delivery' = [delivery EXCEPT ![caller[c].key] = [status |-> "SENT", stored |-> caller[c].mail]]
    BY <1>1, <2>2 DEF MailTypeOK, DeliveryStatuses, ReportTypes
  <2>3. CASE UNCHANGED delivery
    BY <2>3 DEF MailTypeOK
  <2>4. {"DISABLED", "PENDING", "FAILED"} \subseteq DeliveryStatuses
    BY DEF DeliveryStatuses, ReportTypes
  <2> QED
    BY <1>1, <2>1, <2>2, <2>3, <2>4
       DEF CallerStep, CreateRow, DisableRow, SendCall, RecordSent, RecordFailed, Abandon
<1>5. UNCHANGED <<report, seen, handler, applied>> /\ provider' = provider /\ disturbed' \subseteq Keys
  BY <1>1 DEF CallerStep, CreateRow, DisableRow, SendCall, RecordSent, RecordFailed, Abandon, External,
              MailTypeOK
<1> QED BY <1>2, <1>3, <1>4, <1>5 DEF MailTypeOK, CallerRow

\* A call never writes a status that only a report can give.
LEMMA CallerStatus ==
  ASSUME MailTypeOK, NEW c \in Callers, CallerStep(c)
  PROVE  \A k \in Keys : delivery'[k].status \in {delivery[k].status, "PENDING", "DISABLED", "SENT", "FAILED"}
<1> SUFFICES ASSUME NEW k \in Keys
             PROVE  delivery'[k].status \in
                      {delivery[k].status, "PENDING", "DISABLED", "SENT", "FAILED"}
  OBVIOUS
<1>1. delivery \in [Keys -> [status : DeliveryStatuses, stored : Nat]] /\ caller[c].key \in Keys
  BY DEF MailTypeOK
<1>2. CASE CreateRow(c)
  BY <1>1, <1>2 DEF CreateRow
<1>3. CASE DisableRow(c) \/ RecordSent(c) \/ RecordFailed(c)
  BY <1>1, <1>3 DEF DisableRow, RecordSent, RecordFailed
<1>4. CASE SendCall(c) \/ Abandon(c)
  BY <1>4 DEF SendCall, Abandon
<1> QED BY <1>2, <1>3, <1>4 DEF CallerStep

\* Each step of a call keeps what is known of a key without disturbance.
LEMMA CallerMessages ==
  ASSUME MailTypeOK, MessageInv, NEW c \in Callers, CallerStep(c)
  PROVE  MessageInv'
<1> SUFFICES ASSUME NEW k \in Keys \ disturbed'
             PROVE  /\ message'[k].mails <= 1
                    /\ \A x, y \in Working(k)' : x = y
                    /\ \A x \in Working(k)' : caller'[x].pc = "send" => message'[k].mails = 0
                    /\ delivery'[k].status \in {"NONE", "PENDING"} /\ message'[k].mails > 0 =>
                         \E x \in Working(k)' : caller'[x].pc # "send"
  BY DEF MessageInv
<1> DEFINE at == caller[c].key
<1>1. /\ k \in Keys /\ k \notin disturbed /\ at \in Keys
      /\ message[k].mails \in Nat /\ message[at].mails \in Nat
      /\ delivery \in [Keys -> [status : DeliveryStatuses, stored : Nat]]
      /\ message \in [Keys -> [known : BOOLEAN, mails : Nat]]
  BY DEF MailTypeOK, CallerStep, CreateRow, DisableRow, SendCall, RecordSent, RecordFailed, Abandon
<1>2. /\ message[k].mails <= 1
      /\ \A x, y \in Working(k) : x = y
      /\ \A x \in Working(k) : caller[x].pc = "send" => message[k].mails = 0
      /\ delivery[k].status \in {"NONE", "PENDING"} /\ message[k].mails > 0 =>
           \E x \in Working(k) : caller[x].pc # "send"
  BY <1>1 DEF MessageInv
<1>3. /\ \A d \in Callers : caller'[d].key = caller[d].key
      /\ \A d \in Callers \ {c} : caller'[d] = caller[d]
  <2>1. CASE \E pc \in {"disable", "send", "sent", "rejected", "done"} : Go(c, pc)
    <3>1. 0 \in Nat
      OBVIOUS
    <3> QED BY <2>1, <3>1, GoFacts
  <2>2. CASE caller' = [caller EXCEPT ![c].pc = "sent", ![c].mail = message'[caller[c].key].mails]
    BY <2>2 DEF MailTypeOK
  <2> QED
    BY <2>1, <2>2 DEF CallerStep, CreateRow, DisableRow, SendCall, RecordSent, RecordFailed, Abandon
<1>4. CASE k # at
  <2>1. message'[k] = message[k] /\ delivery'[k] = delivery[k]
    BY <1>1, <1>4 DEF CallerStep, CreateRow, DisableRow, SendCall, RecordSent, RecordFailed, Abandon,
                      Accept, External
  <2>2. Working(k)' = Working(k) /\ \A x \in Working(k) : caller'[x] = caller[x]
    BY <1>3, <1>4 DEF Working
  <2> QED BY <1>2, <2>1, <2>2
<1>5. CASE k = at /\ CreateRow(c)
  <2>1. Working(k) = {} /\ message' = message
    BY <1>1, <1>5 DEF CreateRow, External
  <2>2. Working(k)' \subseteq {c}
    BY <1>3, <2>1 DEF Working
  <2>3. delivery[k].status \in {"NONE", "PENDING"} => message[k].mails = 0
    BY <1>1, <1>2, <2>1
  <2>4. CASE delivery[k].status \in {"NONE", "PENDING"}
    BY <1>2, <2>1, <2>2, <2>3, <2>4
  <2>5. CASE delivery[k].status \notin {"NONE", "PENDING"}
    <3>1. delivery'[k].status = delivery[k].status
      BY <1>1, <1>5, <2>5 DEF CreateRow
    <3>2. caller'[c].pc = "done"
      <4>1. Go(c, "done")
        BY <1>5, <2>5, <3>1 DEF CreateRow, Unsent
      <4> QED BY <4>1 DEF Go, MailTypeOK
    <3>3. Working(k)' = {}
      BY <2>2, <3>2 DEF Working
    <3> QED BY <1>2, <2>1, <2>5, <3>1, <3>3
  <2> QED BY <2>4, <2>5
<1>6. CASE k = at /\ SendCall(c)
  <2>1. c \in Working(k) /\ caller[c].pc = "send" /\ message[k].mails = 0
    BY <1>2, <1>6 DEF SendCall, Working
  <2>2. caller'[c].pc \in {"sent", "rejected"} /\ delivery' = delivery
    BY <1>6 DEF SendCall, Go, MailTypeOK
  <2>3. message'[k].mails \in {0, 1}
    BY <1>1, <1>6, <2>1 DEF SendCall, Accept
  <2>4. Working(k)' = {c}
    BY <1>2, <1>3, <2>1, <2>2 DEF Working
  <2> QED BY <2>2, <2>3, <2>4
<1>7. CASE k = at /\ (RecordSent(c) \/ RecordFailed(c))
  <2>1. c \in Working(k) /\ Working(k) = {c} /\ message' = message
    BY <1>2, <1>7 DEF RecordSent, RecordFailed, Working, External
  <2>2. caller'[c].pc = "done" /\ delivery'[k].status \in {"SENT", "FAILED"}
    BY <1>1, <1>7 DEF RecordSent, RecordFailed, Go, MailTypeOK
  <2>3. Working(k)' = {}
    BY <1>3, <2>1, <2>2 DEF Working
  <2> QED BY <1>2, <2>1, <2>2, <2>3
<1>8. CASE k = at /\ DisableRow(c)
  <2>1. caller'[c].pc = "done" /\ delivery'[k].status = "DISABLED" /\ message' = message
    BY <1>1, <1>8 DEF DisableRow, Go, MailTypeOK, External
  <2>2. Working(k)' = Working(k) /\ \A x \in Working(k) : caller'[x] = caller[x]
    BY <1>3, <1>8, <2>1 DEF Working, DisableRow
  <2> QED BY <1>2, <2>1, <2>2
<1>9. CASE k = at /\ Abandon(c)
  <2>1. caller[c].pc \in {"disable", "send"} /\ message' = message /\ delivery' = delivery
    BY <1>1, <1>9 DEF Abandon, External
  <2>2. caller'[c].pc = "done"
    BY <1>9 DEF Abandon, Go, MailTypeOK
  <2>3. Working(k)' = Working(k) \ {c} /\ \A x \in Working(k) \ {c} : caller'[x] = caller[x]
    BY <1>3, <2>2 DEF Working
  <2>4. \A x \in Working(k) : caller[x].pc # "send" => x # c
    BY <2>1 DEF Working
  <2>5. message'[k].mails = message[k].mails /\ delivery'[k] = delivery[k]
    BY <2>1
  <2> HIDE DEF at
  <2> QED BY <1>2, <2>3, <2>4, <2>5
<1> QED BY <1>4, <1>5, <1>6, <1>7, <1>8, <1>9 DEF CallerStep

LEMMA CallerInv ==
  ASSUME MInv, NEW c \in Callers, CallerStep(c)
  PROVE  MInv'
<1> USE DEF MInv
<1>1. MailTypeOK'
  BY CallerType
<1>2. UNCHANGED <<report, seen, handler, applied>>
  BY DEF CallerStep, CreateRow, DisableRow, SendCall, RecordSent, RecordFailed, Abandon, External
<1>3. MessageInv'
  BY CallerMessages
<1>4. ServedInv' /\ AppliedInv'
  BY <1>2 DEF ServedInv, AppliedInv
<1>5. ReportedStatusIsOnFile'
  BY <1>2, CallerStatus DEF ReportedStatusIsOnFile, TerminalStatuses
<1> QED BY <1>1, <1>3, <1>4, <1>5

-----------------------------------------------------------------------------
(* The webhook *)

LEMMA WebhookReadInv ==
  ASSUME MInv, NEW h \in Handlers, NEW e \in Events, WebhookRead(h, e)
  PROVE  MInv'
<1> USE DEF MInv
<1>1. /\ report[e] # NoReport /\ report[e] \in [key : Keys, mail : Nat, type : ReportTypes]
      /\ e \notin seen /\ \A g \in Handlers : handler[g].event # e
      /\ UNCHANGED <<provider, delivery, caller, message, report, applied, disturbed>>
  BY DEF WebhookRead, Unserved, MailTypeOK
<1>2. CASE /\ seen' = seen
           /\ handler' = [handler EXCEPT ![h] =
                [pc |-> "read", event |-> e, status |-> delivery[report[e].key].status]]
  <2>1. MailTypeOK'
    BY <1>1, <1>2 DEF MailTypeOK
  <2>2. ServedInv'
    BY <1>1, <1>2 DEF ServedInv, MailTypeOK
  <2>3. MessageInv' /\ AppliedInv' /\ ReportedStatusIsOnFile'
    BY <1>1, <1>2 DEF MessageInv, Working, AppliedInv, ReportedStatusIsOnFile
  <2> QED BY <2>1, <2>2, <2>3
<1>3. CASE seen' = seen \union {e} /\ handler' = handler
  <2>1. MailTypeOK'
    BY <1>1, <1>3 DEF MailTypeOK
  <2>2. ServedInv'
    BY <1>1, <1>3 DEF ServedInv
  <2>3. MessageInv' /\ ReportedStatusIsOnFile'
    BY <1>1, <1>3 DEF MessageInv, Working, ReportedStatusIsOnFile
  <2>4. AppliedInv'
    BY <1>1, <1>3 DEF AppliedInv, MailTypeOK
  <2> QED BY <2>1, <2>2, <2>3, <2>4
<1> QED BY <1>2, <1>3 DEF WebhookRead

LEMMA WebhookWriteInv ==
  ASSUME MInv, NEW h \in Handlers, WebhookWrite(h)
  PROVE  MInv'
<1> USE DEF MInv
<1> DEFINE e == handler[h].event
           k == report[e].key
           type == report[e].type
<1>1. /\ handler[h].pc = "read" /\ e \in Events \ seen
      /\ report[e] \in [key : Keys, mail : Nat, type : ReportTypes]
  BY DEF WebhookWrite, ServedInv, MailTypeOK
<1>2. report[e].key = k /\ report[e].type = type /\ k \in Keys /\ type \in ReportTypes
  BY <1>1
<1>3. /\ seen' = seen \union {e}
      /\ handler' = [handler EXCEPT ![h] = IdleHandler]
      /\ UNCHANGED <<provider, caller, message, report, disturbed>>
  BY DEF WebhookWrite
<1>4. IdleHandler \in [pc : {"idle", "read"}, event : Events \union {"none"}, status : DeliveryStatuses]
  BY DEF IdleHandler, DeliveryStatuses
<1>5. MessageInv'
  <2>1. /\ k \in Keys /\ type \notin {"NONE", "PENDING"}
        /\ delivery \in [Keys -> [status : DeliveryStatuses, stored : Nat]]
    BY <1>2 DEF ReportTypes, MailTypeOK
  <2>2. \A i \in Keys : delivery'[i].status \in {delivery[i].status, type}
    BY <2>1 DEF WebhookWrite
  <2> QED BY <1>3, <2>1, <2>2 DEF MessageInv, Working
<1>6. ServedInv'
  <2>1. /\ handler'[h].pc = "idle"
        /\ \A g \in Handlers \ {h} : handler'[g] = handler[g]
    BY <1>3 DEF MailTypeOK, IdleHandler
  <2>2. \A g \in Handlers \ {h} : handler[g].pc = "read" => handler[g].event # e
    BY <1>1 DEF ServedInv
  <2> QED BY <1>3, <2>1, <2>2 DEF ServedInv
<1>7. CASE UNCHANGED <<delivery, applied>>
  <2>1. MailTypeOK'
    BY <1>1, <1>3, <1>4, <1>7 DEF MailTypeOK
  <2>2. AppliedInv'
    BY <1>3, <1>7 DEF AppliedInv, MailTypeOK
  <2>3. ReportedStatusIsOnFile'
    BY <1>3, <1>7 DEF ReportedStatusIsOnFile
  <2> QED BY <1>5, <1>6, <2>1, <2>2, <2>3
<1>8. CASE /\ delivery' = [delivery EXCEPT ![k].status = type]
           /\ applied' = [applied EXCEPT ![e] = @ + 1]
  <2>1. delivery' \in [Keys -> [status : DeliveryStatuses, stored : Nat]]
    <3>1. type \in DeliveryStatuses
      BY <1>2 DEF DeliveryStatuses
    <3> QED BY <1>2, <1>8, <3>1, StatusType
  <2>2. MailTypeOK'
    BY <1>1, <1>3, <1>4, <1>8, <2>1 DEF MailTypeOK
  <2>3. AppliedInv'
    BY <1>1, <1>3, <1>8 DEF AppliedInv, MailTypeOK
  <2>4. delivery'[k].status = type /\ \A i \in Keys \ {k} : delivery'[i] = delivery[i]
    BY <1>2, <1>8 DEF MailTypeOK
  <2>5. ReportedStatusIsOnFile'
    BY <1>2, <1>3, <2>4 DEF ReportedStatusIsOnFile
  <2> QED BY <1>5, <1>6, <2>2, <2>3, <2>5
<1> QED BY <1>7, <1>8 DEF WebhookWrite

LEMMA WebhookAbortInv ==
  ASSUME MInv, NEW h \in Handlers, WebhookAbort(h)
  PROVE  MInv'
<1> USE DEF MInv
<1>1. IdleHandler \in [pc : {"idle", "read"}, event : Events \union {"none"}, status : DeliveryStatuses]
  BY DEF IdleHandler, DeliveryStatuses
<1>2. MailTypeOK'
  BY <1>1 DEF WebhookAbort, MailTypeOK
<1>3. ServedInv'
  BY DEF WebhookAbort, ServedInv, IdleHandler, MailTypeOK
<1> QED BY <1>2, <1>3 DEF WebhookAbort, MessageInv, Working, AppliedInv, ReportedStatusIsOnFile

\* A report the provider makes is new.
LEMMA EmitInv ==
  ASSUME MInv, NEW e \in Events, NEW k \in Keys, NEW type \in ReportTypes, Emit(e, k, type)
  PROVE  MInv'
<1> USE DEF MInv
<1>1. MailTypeOK'
  BY DEF Emit, MailTypeOK
<1>2. /\ report[e] = NoReport /\ \A f \in Events \ {e} : report'[f] = report[f]
      /\ UNCHANGED <<provider, delivery, caller, message, seen, handler, applied, disturbed>>
  BY DEF Emit, MailTypeOK
<1>3. ServedInv'
  BY <1>2 DEF ServedInv
<1>4. ReportedStatusIsOnFile'
  <2>1. seen \subseteq Events
    BY DEF MailTypeOK
  <2>2. NoReport.type \notin TerminalStatuses \union {"DELAYED"}
    BY DEF NoReport, TerminalStatuses
  <2> QED BY <1>2, <2>1, <2>2 DEF ReportedStatusIsOnFile
<1>5. MessageInv'
  BY <1>2 DEF MessageInv, Working
<1> QED BY <1>1, <1>2, <1>3, <1>4, <1>5 DEF AppliedInv

LEMMA ForgetInv ==
  ASSUME MInv, NEW k \in Keys, Forget(k)
  PROVE  MInv'
<1> USE DEF MInv
<1>1. MailTypeOK'
  BY DEF Forget, MailTypeOK
<1>2. \A i \in Keys : message'[i].mails = message[i].mails
  BY DEF Forget, MailTypeOK
<1>3. MessageInv'
  BY <1>2 DEF Forget, MessageInv, Working
<1> QED BY <1>1, <1>3 DEF Forget, ServedInv, AppliedInv, ReportedStatusIsOnFile

-----------------------------------------------------------------------------
(* The theorems *)

LEMMA MailInitInv ==
  ASSUME MailInit
  PROVE  MInv
<1>1. MailTypeOK
  BY DEF MailInit, MailTypeOK, DeliveryStatuses, IdleHandler, NoReport
<1>2. MessageInv /\ ServedInv /\ AppliedInv
  BY DEF MailInit, MessageInv, Working, ServedInv, AppliedInv, IdleHandler
<1>3. ReportedStatusIsOnFile
  BY DEF MailInit, ReportedStatusIsOnFile, TerminalStatuses
<1> QED BY <1>1, <1>2, <1>3 DEF MInv

LEMMA MailStepInv ==
  ASSUME MInv, [MailNext]_mailVars
  PROVE  MInv'
<1>1. CASE Redeploy
  BY <1>1 DEF Redeploy, External, MInv, MailTypeOK, MessageInv, Working, ServedInv, AppliedInv,
              ReportedStatusIsOnFile
<1>2. CASE UNCHANGED mailVars
  BY <1>2 DEF mailVars, MInv, MailTypeOK, MessageInv, Working, ServedInv, AppliedInv,
              ReportedStatusIsOnFile
<1> QED
  BY <1>1, <1>2, CallerInv, WebhookReadInv, WebhookWriteInv, WebhookAbortInv, EmitInv, ForgetInv
     DEF MailNext, CallerStep

\* The inductive invariant of mail delivery.
THEOREM MailInvariance == MailSpec => []MInv
BY MailInitInv, MailStepInv, PTL DEF MailSpec

\* Rows, calls, reports and requests have their types.
THEOREM MailTypeCorrect == MailSpec => []MailTypeOK
<1>1. MInv => MailTypeOK
  BY DEF MInv
<1> QED BY <1>1, MailInvariance, PTL

\* For any number of keys and calls, and however soon the provider forgets a key: a second
\* mail needs two calls that overlapped, or one that stopped before its record.
THEOREM SecondMails == MailSpec => []SecondMailNeedsOverlap
<1>1. MInv => SecondMailNeedsOverlap
  BY DEF MInv, MailTypeOK, MessageInv, SecondMailNeedsOverlap
<1> QED BY <1>1, MailInvariance, PTL

\* However often a report is delivered and whichever transactions fail, it is applied
\* at most once; a status only a report can give has its report on file.
THEOREM FaithfulReports == MailSpec => []ReportsAreFaithful
<1>1. MInv => EventAppliedOnce
  BY DEF MInv, MailTypeOK, AppliedInv, EventAppliedOnce
<1>2. MInv => ReportsAreFaithful
  BY <1>1 DEF MInv, ReportsAreFaithful
<1> QED BY <1>2, MailInvariance, PTL

-----------------------------------------------------------------------------
(* The three components *)

\* Requests, reset links and mails keep their types side by side.
THEOREM AccountsTypeCorrect == AccountsSpec /\ MailSpec => []AccountsTypeOK
<1>1. AdminTypeOK /\ ResetTypeOK /\ MailTypeOK => AccountsTypeOK
  BY DEF AccountsTypeOK
<1> QED BY <1>1, AccountsTypes, MailTypeCorrect, PTL
=============================================================================
