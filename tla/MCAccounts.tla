----------------------------- MODULE MCAccounts -----------------------------
(***************************************************************************)
(* Four questions in one state space, told apart by focus: two concurrent  *)
(* administration requests; one of them beside one request for a reset and *)
(* the use of its link; password resets alone; and the mail of one key.    *)
(* What is out of focus keeps its initial state.                           *)
(***************************************************************************)
EXTENDS Accounts, TLC
CONSTANTS ann, bob, root, q1, q2, t1, t2, t3, i1, i2, u1, u2, k1, c1, c2, h1, h2, e1, e2, Focus
VARIABLE focus

mcVars == <<focus, accountsVars, mailVars>>

RequestSymmetry == Permutations(Requests) \union Permutations(Issuers) \union Permutations(Resetters)

MCInit ==
  /\ focus \in Focus
  /\ AccountsInit
  /\ MailInit
  /\ focus \in {"resets", "mail"} => tenant = "ABSENT" /\ \A p \in People : account[p] = "active"
  /\ focus # "mail" => provider = "disabled"
  /\ focus = "admin" => member[bob] = NoMember

\* One request, one request for a reset, one use of a link, all of Named's rows
JointStep ==
  /\ AccountsNext
  /\ Cardinality({q \in Requests : req'[q] # IdleRequest}) <= 1
  /\ Cardinality({i \in Issuers : issuer'[i] # IdleIssuer}) <= 1
  /\ Cardinality({u \in Resetters : resetter'[u] # "none"}) <= 1
  /\ \A i \in Issuers : issuer'[i].who \in Named \union {"none"}
  /\ \A t \in {t2, t3} : token'[t] = token[t]

MCNext ==
  /\ UNCHANGED focus
  /\ \/ focus = "admin" /\ AdminStep /\ UNCHANGED mailVars
     \/ focus = "joint" /\ JointStep /\ UNCHANGED mailVars
     \/ focus = "resets" /\ ResetStep /\ UNCHANGED mailVars
     \/ focus = "mail" /\ MailNext /\ UNCHANGED accountsVars

MCSpec == MCInit /\ [][MCNext]_mcVars
=============================================================================
