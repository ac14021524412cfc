---------------------------- MODULE AccountStore ----------------------------
(***************************************************************************)
(* The User table: a person (an e-mail address) has no row, a row without  *)
(* a password (created for the owner of a new tenant) or a row with one.   *)
(***************************************************************************)
CONSTANT People

VARIABLE account

AccountStates == {"none", "placeholder", "active"}
AccountTypeOK == account \in [People -> AccountStates]
=============================================================================
