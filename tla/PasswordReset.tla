---------------------------- MODULE PasswordReset ----------------------------
(***************************************************************************)
(* Requests for a password reset and the use of the links they send        *)
(* (password-reset-service.ts).  Both run in transactions at read          *)
(* committed: an issue consumes the tokens it saw and adds one; a use      *)
(* checks the token, hashes the password, which takes long, and then       *)
(* writes password and token without looking again.                        *)
(***************************************************************************)
EXTENDS AccountStore, Naturals, FiniteSets

CONSTANTS
  Tokens,     \* rows of PasswordResetToken; a row nothing needs may be issued again
  Issuers,    \* requests for a reset being served
  Resetters   \* requests that use a link

ASSUME ResetAssumption ==
  /\ IsFiniteSet(Issuers) /\ IsFiniteSet(Resetters)
  /\ "none" \notin Tokens

VARIABLES
  token,     \* each row: its owner and its state
  issuer,    \* [pc, who, saw]: whose reset is asked for, and the tokens read
  resetter,  \* the token each use has checked, or "none"
  uses       \* history: passwords set with each token

resetVars == <<token, issuer, resetter, uses>>

NoRow == [owner |-> "none", state |-> "NONE"]
IdleIssuer == [pc |-> "idle", who |-> "none", saw |-> {}]

ResetTypeOK ==
  /\ token \in [Tokens -> {NoRow} \union [owner : People, state : {"LIVE", "EXPIRED", "CONSUMED"}]]
  /\ issuer \in [Issuers -> {IdleIssuer} \union [pc : {"read"}, who : People, saw : SUBSET Tokens]]
  /\ resetter \in [Resetters -> Tokens \union {"none"}]
  /\ uses \in [Tokens -> Nat]

Unconsumed(p) == {t \in Tokens : token[t].owner = p /\ token[t].state # "CONSUMED"}

\* requestPasswordReset: an unknown address ends it; else updateMany sees the tokens
\* committed so far.
BeginIssue(i, p) ==
  /\ issuer[i] = IdleIssuer
  /\ account[p] # "none"
  /\ issuer' = [issuer EXCEPT ![i] = [pc |-> "read", who |-> p, saw |-> Unconsumed(p)]]
  /\ UNCHANGED <<account, token, resetter, uses>>

\* Rows that are still needed: a use has checked them, or they may still be checked.
Spent(t) ==
  /\ token[t].state \in {"NONE", "CONSUMED", "EXPIRED"}
  /\ \A r \in Resetters : resetter[r] # t
  /\ \A i \in Issuers : t \notin issuer[i].saw

\* Fault: the earlier tokens stay valid.
CommitIssueKeeping(i) ==
  /\ issuer[i].pc = "read"
  /\ \E t \in Tokens :
       /\ Spent(t)
       /\ token' = [token EXCEPT ![t] = [owner |-> issuer[i].who, state |-> "LIVE"]]
       /\ uses' = [uses EXCEPT ![t] = 0]
  /\ issuer' = [issuer EXCEPT ![i] = IdleIssuer]
  /\ UNCHANGED <<account, resetter>>

CommitIssue(i) ==
  /\ issuer[i].pc = "read"
  /\ LET kept == [t \in Tokens |->
                    IF t \in issuer[i].saw THEN [token[t] EXCEPT !.state = "CONSUMED"] ELSE token[t]]
     IN \E t \in Tokens :
          /\ Spent(t)
          /\ token' = [kept EXCEPT ![t] = [owner |-> issuer[i].who, state |-> "LIVE"]]
          /\ uses' = [uses EXCEPT ![t] = 0]
  /\ issuer' = [issuer EXCEPT ![i] = IdleIssuer]
  /\ UNCHANGED <<account, resetter>>

\* Fault: a consumed token is not refused.
BeginResetConsumed(r, t) ==
  /\ resetter[r] = "none"
  /\ token[t].state \in {"LIVE", "CONSUMED"}
  /\ resetter' = [resetter EXCEPT ![r] = t]
  /\ UNCHANGED <<account, token, issuer, uses>>

\* consumePasswordResetToken up to the hash
BeginReset(r, t) ==
  /\ resetter[r] = "none"
  /\ token[t].state = "LIVE"
  /\ resetter' = [resetter EXCEPT ![r] = t]
  /\ UNCHANGED <<account, token, issuer, uses>>

CommitReset(r) ==
  LET t == resetter[r] IN
  /\ t # "none"
  /\ account' = [account EXCEPT ![token[t].owner] = "active"]
  /\ token' = [token EXCEPT ![t].state = "CONSUMED"]
  /\ uses' = [uses EXCEPT ![t] = @ + 1]
  /\ resetter' = [resetter EXCEPT ![r] = "none"]
  /\ UNCHANGED issuer

\* A transaction fails or the process ends: nothing is written.
ResetFails ==
  /\ \/ \E i \in Issuers : issuer[i].pc = "read" /\ issuer' = [issuer EXCEPT ![i] = IdleIssuer]
                           /\ UNCHANGED resetter
     \/ \E r \in Resetters : resetter[r] # "none" /\ resetter' = [resetter EXCEPT ![r] = "none"]
                             /\ UNCHANGED issuer
  /\ UNCHANGED <<account, token, uses>>

\* An hour passes.
ExpireToken(t) ==
  /\ token[t].state = "LIVE"
  /\ token' = [token EXCEPT ![t].state = "EXPIRED"]
  /\ UNCHANGED <<account, issuer, resetter, uses>>

ResetNext ==
  \/ \E i \in Issuers : CommitIssue(i) \/ \E p \in People : BeginIssue(i, p)
  \/ \E r \in Resetters : CommitReset(r) \/ \E t \in Tokens : BeginReset(r, t)
  \/ \E t \in Tokens : ExpireToken(t)
  \/ ResetFails

ResetInit ==
  /\ token = [t \in Tokens |-> NoRow]
  /\ issuer = [i \in Issuers |-> IdleIssuer]
  /\ resetter = [r \in Resetters |-> "none"]
  /\ uses = [t \in Tokens |-> 0]

ResetSpec ==
  account \in [People -> AccountStates] /\ ResetInit /\ [][ResetNext]_<<account, resetVars>>

-----------------------------------------------------------------------------
(* Properties *)

LiveLinks(p) == {t \in Tokens : token[t].owner = p /\ token[t].state = "LIVE"}

\* Only requests served at the same time leave a person with several links that
\* work: each request in service accounts for one, and a later request ends them all.
LinksAreOfConcurrentRequests ==
  \A p \in People : Cardinality(LiveLinks(p)) <= Cardinality(Issuers)

\* A link sets a password more than once only for uses that overlap: each request in
\* service can do it once, and none that comes after one of them is done.
ReuseNeedsOverlap ==
  \A t \in Tokens :
    uses[t] + Cardinality({r \in Resetters : resetter[r] = t}) <= Cardinality(Resetters)
=============================================================================
