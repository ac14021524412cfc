---------------------------- MODULE TenantAccess ----------------------------
(***************************************************************************)
(* Who may do what in a tenant: the access decision of the server          *)
(* (tenant-access.ts), the lifecycle's say in it, and the narrower         *)
(* decision of the older routes.  The requests of TenantAdmin ask it.      *)
(***************************************************************************)

TenantStatuses == {"ABSENT", "PROVISIONING", "ACTIVE", "SUSPENDED", "ARCHIVED"}
CanonicalRoles == {"TENANT_ADMIN", "PUBLISHER"}
LegacyRoles == {"OWNER", "ADMIN", "STRATEGIST", "EDITOR", "ANALYST", "APPROVER", "VIEWER"}
MemberRoles == CanonicalRoles \union LegacyRoles
NoRole == "NONE"   \* no membership row

Permissions ==
  {"TENANT_READ", "TENANT_CONFIG_UPDATE", "TENANT_STATUS_CHANGE", "MEMBERS_READ",
   "MEMBERS_ADD", "MEMBERS_ROLE_UPDATE", "MEMBERS_REMOVE", "INVITATIONS_READ",
   "INVITATIONS_CREATE", "INVITATIONS_REISSUE", "INVITATIONS_REVOKE",
   "INTEGRATIONS_MANAGE", "SECURITY_MANAGE", "PROJECTS_WRITE", "CONTENT_WRITE",
   "CONTENT_APPROVE", "CONTENT_PUBLISH", "ANALYTICS_READ"}

PublisherPermissions ==
  {"TENANT_READ", "PROJECTS_WRITE", "CONTENT_WRITE", "CONTENT_APPROVE",
   "CONTENT_PUBLISH", "ANALYTICS_READ"}
TenantAdminPermissions == Permissions \ {"TENANT_STATUS_CHANGE", "SECURITY_MANAGE"}

\* getPermissionsForRole: a legacy role is not converted and has no permission.
RolePermissions(role) ==
  CASE role = "SUPER_ADMIN"  -> Permissions
    [] role = "TENANT_ADMIN" -> TenantAdminPermissions
    [] role = "PUBLISHER"    -> PublisherPermissions
    [] OTHER                 -> {}

\* resolveTenantAccess: a super administrator needs no membership.
Resolves(super, role, permission) ==
  super \/ (role # NoRole /\ permission \in RolePermissions(role))

\* assertTenantLifecycleAllowsMutation
LifecycleAllows(status, capability) ==
  \/ status = "ACTIVE"
  \/ status = "PROVISIONING" /\ capability # "NORMAL_OPERATION"

InvitationCapability(status, role) ==
  IF status = "PROVISIONING" /\ role = "TENANT_ADMIN" THEN "OWNER_INVITATION"
  ELSE "NORMAL_OPERATION"

\* hasCanonicalTenantAccess
CanonicalAccess(super, role, allowed) == super \/ role \in CanonicalRoles \intersect allowed
=============================================================================
