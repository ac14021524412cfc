---------------------------- MODULE JobLifecycle ----------------------------
(***************************************************************************)
(* What the publisher promises for one scheduled job, seen from the        *)
(* outside: how far it is and how often the provider was tried.  There are *)
(* no claim tokens, snapshots, leases or invocations here.                 *)
(*                                                                         *)
(* A job is tried at most MaxTries times; while an attempt is unresolved   *)
(* no second one begins; only a definite refusal sends it back to waiting; *)
(* published and failed are final.                                         *)
(***************************************************************************)
EXTENDS Naturals

CONSTANTS Jobs, MaxTries
VARIABLES phase, tries

vars == <<phase, tries>>

Move(j, from, to) == phase[j] = from /\ phase' = [phase EXCEPT ![j] = to]

Init ==
  /\ phase \in [Jobs -> {"absent", "waiting"}]
  /\ tries = [j \in Jobs |-> 0]

Create(j) == Move(j, "absent", "waiting") /\ UNCHANGED tries
Claim(j) == Move(j, "waiting", "claimed") /\ UNCHANGED tries
PutBack(j) == Move(j, "claimed", "waiting") /\ UNCHANGED tries
Abandon(j) == Move(j, "claimed", "failed") /\ UNCHANGED tries
Attempt(j) ==
  /\ tries[j] < MaxTries
  /\ Move(j, "claimed", "attempting")
  /\ tries' = [tries EXCEPT ![j] = @ + 1]
Refuse(j) ==
  /\ tries[j] < MaxTries
  /\ Move(j, "attempting", "waiting") /\ UNCHANGED tries
Fail(j) == Move(j, "attempting", "failed") /\ UNCHANGED tries
Publish(j) == Move(j, "attempting", "published") /\ UNCHANGED tries

Next == \E j \in Jobs :
  \/ Create(j) \/ Claim(j) \/ PutBack(j) \/ Abandon(j)
  \/ Attempt(j) \/ Refuse(j) \/ Fail(j) \/ Publish(j)

Spec == Init /\ [][Next]_vars
=============================================================================
