----------------------------- MODULE MCOperations -----------------------------
(***************************************************************************)
(* Instances of the six components of Operations, in one state space: the  *)
(* focus is the component that moves, and for some of them which of its    *)
(* operations do.  What is out of focus keeps its initial state.           *)
(***************************************************************************)
EXTENDS Operations, TLC
CONSTANTS g1, g2, b1, b2, p1, p2, e1, e2, d1, d2, w1, w2, n1, j1, j2,
          v1, k1, k2, r1, r2, f1, f2, a1, a2, c1, c2, Focus
VARIABLE focus

mcVars == <<focus, runnerVars, fileWorkerVars, queueVars, deskVars, connectionVars, adapterVars>>

RequestSymmetry == Permutations(Commands) \union Permutations(Connectors) \union Permutations(QueueJobs)
Of == [e \in Entries |-> IF e = e1 THEN d1 ELSE d2]

\* One command at a time: on two branches without evidence and blocks, where the one
\* called g1 is never created on the one called b2, or one goal with gates and evidence;
\* or two commands on goals of one branch without evidence, none of them cut off.
RunnerStep ==
  /\ RunnerNext
  /\ validation'[g2] = validation[g2] /\ ~goal'[g2].gates
  /\ focus # "gates" => ~goal'[g1].gates
  /\ focus = "branches" => /\ validation' = validation /\ goal'[g1].branch # b2
                           /\ \A g \in Goals : goal'[g].status # "BLOCKED_EXTERNAL"
  /\ focus = "gates" => goal'[g2] = goal[g2] /\ branch' = branch
  /\ focus # "overlap" => Cardinality({p \in Commands : command'[p] # NoCommand}) <= 1
  /\ focus = "overlap" => /\ branch' = branch /\ validation' = validation
                          /\ "cut_off" \notin disturbed'
                          /\ \A g \in Goals : goal'[g].branch # b2

\* Behind a hindrance repeats are expected, and nothing is asked of them.
FileWorkerStep == hindered = {} /\ FileWorkerNext

\* Twice approved, or approved and given back.
QueueStep ==
  /\ QueueNext
  /\ \A d \in QueueDrafts :
       Cardinality(reviewed' \intersect {d}) + approvals'[d] + givenBack'[d] <= MaxApprovals

\* Settings and projects, one request at a time; generations that overlap; decisions.
DeskStep ==
  /\ DeskNext
  /\ focus = "settings" => desk'[r2] = NoRequest /\ paid' = 0 /\ campaign' = "absent"
  /\ focus = "calls" => \A r \in DeskRequests : desk'[r].op \in {"none", "generate", "log"}
  /\ focus = "decisions" => \A r \in DeskRequests : desk'[r].op \in {"none", "decide", "strategy"}

\* The secret changes once there is a credential and before there are three.
ConnectionStep ==
  /\ ConnectionsNext
  /\ secret' # secret => Len(vault) \in {1, 2}
  /\ secret' > 1 => Len(vault') < MaxCredentials

MCInit ==
  /\ focus \in Focus
  /\ RunnerInit /\ branch = b1
  /\ FileWorkerInit /\ QueueInit /\ DeskInit
  /\ ConnectionsInit /\ social[a2] = NoAccount /\ (focus # "connections" => social[a1] = NoAccount)
  /\ AdapterInit /\ (focus # "adapters" => call.format = "YOUTUBE")

MCNext ==
  /\ UNCHANGED focus
  /\ IF focus \in {"branches", "gates", "overlap"} THEN RunnerStep ELSE UNCHANGED runnerVars
  /\ IF focus = "files" THEN FileWorkerStep ELSE UNCHANGED fileWorkerVars
  /\ IF focus = "queue" THEN QueueStep ELSE UNCHANGED queueVars
  /\ IF focus \in {"settings", "calls", "decisions", "desk"} THEN DeskStep ELSE UNCHANGED deskVars
  /\ IF focus = "connections" THEN ConnectionStep ELSE UNCHANGED connectionVars
  /\ IF focus = "adapters" THEN AdapterNext ELSE UNCHANGED adapterVars

MCSpec == MCInit /\ [][MCNext]_mcVars
=============================================================================
