------------------------------ MODULE Accounts ------------------------------
(***************************************************************************)
(* Tenant administration, registration and password resets work on the     *)
(* same accounts.  A reset link gives a placeholder account a password, so *)
(* that its owner may come in before the invitation is used.  Invitations  *)
(* and resets are mailed; what becomes of a mail changes no account.       *)
(***************************************************************************)
EXTENDS TenantAdmin, PasswordReset, EmailDelivery

accountsVars == <<adminVars, resetVars>>

AdminStep == AdminNext /\ UNCHANGED resetVars
ResetStep == ResetNext /\ UNCHANGED <<tenant, member, invite, grants, req>>

AccountsInit == AdminInit /\ ResetInit
AccountsNext == AdminStep \/ ResetStep
AccountsSpec == AccountsInit /\ [][AccountsNext]_accountsVars

-----------------------------------------------------------------------------
(* Properties *)

\* The rows and requests of the three components are what their modules say.
AccountsTypeOK == AdminTypeOK /\ ResetTypeOK /\ MailTypeOK

AccountRank == [s \in AccountStates |-> CASE s = "none" -> 0 [] s = "placeholder" -> 1 [] OTHER -> 2]

\* tenant-admin-service.ts createAdminTenant, invitation-acceptance-service.ts and
\* password-reset-service.ts: whatever runs between the reads and the writes of one of
\* them, no account loses its row or its password.
PasswordsAreKept ==
  [][\A p \in People : AccountRank[account'[p]] >= AccountRank[account[p]]]_account
=============================================================================
