------------------------------ MODULE GoalRunner ------------------------------
(***************************************************************************)
(* The goal runner (scripts/goal-runner).  Goals, the lock of the worktree *)
(* and the index are files; a command is a process that reads some of them *)
(* and then writes one after the other.  Nothing keeps two commands apart, *)
(* and a command may be cut off anywhere.                                  *)
(***************************************************************************)
EXTENDS Naturals, Sequences, FiniteSets

CONSTANTS
  Goals,     \* goal ids
  Branches,  \* git branches a person works on
  Commands   \* command processes

VARIABLES
  goal,       \* state.json of every goal
  validation, \* validation.json of every goal
  lock,       \* .active-worktree.json
  index,      \* status of every goal in index.json
  branch,     \* the branch checked out
  command,    \* running commands
  disturbed   \* what has happened that a lone, finished command would not see

runnerVars == <<goal, validation, lock, index, branch, command, disturbed>>

GoalStatuses ==
  {"DRAFT", "READY", "ACTIVE", "PAUSED", "BLOCKED_EXTERNAL", "COMPLETED", "ABORTED_CRITICAL_DEVIATION"}
Terminal == {"COMPLETED", "ABORTED_CRITICAL_DEVIATION"}
Resumable == {"PAUSED", "BLOCKED_EXTERNAL"}
GateConfigurable == {"DRAFT", "READY"}

\* Fault: an abort is taken from anywhere.
AllowedOrAbort(from, to) == to = "ABORTED_CRITICAL_DEVIATION"

\* ALLOWED_TRANSITIONS
Allowed(from, to) ==
  \/ from = "DRAFT" /\ to = "READY"
  \/ from \in {"READY"} \union Resumable /\ to = "ACTIVE"
  \/ from = "ACTIVE" /\ to \in Resumable \union {"COMPLETED"}
  \/ from \in GoalStatuses \ Terminal /\ to = "ABORTED_CRITICAL_DEVIATION"

NoBranch == "none"
NoGoal == "none"
ASSUME RunnerAssumption == NoGoal \notin Goals

\* A directory without a readable state.json is "broken".
Missing(status) == [status |-> status, branch |-> NoBranch, gates |-> FALSE]
NoLock == [goal |-> NoGoal, branch |-> NoBranch]
NoValidation == [evidence |-> FALSE, gates |-> "none"]
\* seen and checked: the state and validation objects a command has in memory
NoCommand == [goal |-> NoGoal, seen |-> Missing("absent"), checked |-> NoValidation, todo |-> <<>>]
Steps == {"checkLock", "createLock", "removeLock", "writeState", "setGates", "verify",
          "runGates", "writeValidation", "reindex"}

Readable(g) == goal[g].status \in GoalStatuses
ActiveGoals == {g \in Goals : goal[g].status = "ACTIVE"}

RunnerTypeOK ==
  /\ \A g \in Goals :
       /\ goal[g] \in [status : GoalStatuses \union {"absent", "broken"},
                       branch : Branches \union {NoBranch}, gates : BOOLEAN]
       /\ Readable(g) => goal[g].branch \in Branches
       /\ validation[g] \in [evidence : BOOLEAN, gates : {"none", "passed", "failed"}]
       /\ index[g] \in GoalStatuses \union {"absent"}
  /\ lock = NoLock \/ lock \in [goal : Goals, branch : Branches]
  /\ branch \in Branches
  /\ \A p \in Commands :
       /\ command[p].goal \in Goals \union {NoGoal}
       /\ command[p].todo \in Seq(Steps)
       /\ command[p].todo = <<>> <=> command[p] = NoCommand
  /\ disturbed \subseteq {"overlap", "cut_off", "checkout"}

\* isLockStale
Stale ==
  \/ lock.branch # branch
  \/ goal[lock.goal].status # "ACTIVE"
  \/ goal[lock.goal].branch # lock.branch
Locked == lock # NoLock /\ ~Stale

-----------------------------------------------------------------------------
(* A command begins: it reads the goal, checks it and knows what to write. *)

Overlaps(p) == \E q \in Commands \ {p} : command[q] # NoCommand

Begin(p, g, new, todo) ==
  /\ command[p] = NoCommand
  /\ command' = [command EXCEPT ![p] = [goal |-> g, seen |-> new, checked |-> NoValidation, todo |-> todo]]
  /\ disturbed' = IF Overlaps(p) THEN disturbed \union {"overlap"} ELSE disturbed
  /\ UNCHANGED <<goal, validation, lock, index, branch>>

Moved(g, to) == [goal[g] EXCEPT !.status = to]

\* The new id is that of no directory; --branch may name any branch.
Create(p, g) ==
  /\ goal[g].status = "absent"
  /\ \E gates \in BOOLEAN, b \in Branches :
       Begin(p, g, [status |-> "DRAFT", branch |-> b, gates |-> gates], <<"writeState", "reindex">>)

PlanRecord(p, g) ==
  /\ Readable(g) /\ Allowed(goal[g].status, "READY")
  /\ Begin(p, g, Moved(g, "READY"), <<"writeState", "reindex">>)

\* Whether the transition is allowed is only asked behind the lock.
Activate(p, g) ==
  /\ Readable(g) /\ goal[g].status # "ACTIVE" /\ goal[g].branch = branch
  /\ Begin(p, g, goal[g], <<"checkLock", "createLock", "writeState", "reindex">>)

Resume(p, g) ==
  /\ goal[g].status \in Resumable /\ goal[g].branch = branch
  /\ Begin(p, g, goal[g], <<"checkLock", "writeState", "createLock", "reindex">>)

Pause(p, g) ==
  /\ goal[g].status = "ACTIVE"
  /\ Begin(p, g, Moved(g, "PAUSED"), <<"writeState", "removeLock", "reindex">>)

Block(p, g) ==
  /\ goal[g].status = "ACTIVE"
  /\ Begin(p, g, Moved(g, "BLOCKED_EXTERNAL"), <<"writeState", "removeLock", "reindex">>)

\* Fault: the required evidence is not asked for.
CompleteUnverified(p, g) ==
  /\ goal[g].status = "ACTIVE"
  /\ Begin(p, g, Moved(g, "COMPLETED"), <<"writeState", "removeLock", "reindex">>)

Complete(p, g) ==
  /\ goal[g].status = "ACTIVE"
  /\ Begin(p, g, Moved(g, "COMPLETED"), <<"verify", "writeState", "removeLock", "reindex">>)

Abort(p, g) ==
  /\ Readable(g) /\ Allowed(goal[g].status, "ABORTED_CRITICAL_DEVIATION")
  /\ Begin(p, g, Moved(g, "ABORTED_CRITICAL_DEVIATION"), <<"writeState", "removeLock", "reindex">>)

\* With a list the goal is read again before it is written, with --clear it is not.
GatesSet(p, g) ==
  \/ Readable(g) /\ Begin(p, g, goal[g], <<"setGates", "writeState", "reindex">>)
  \/ /\ goal[g].status \in GateConfigurable
     /\ Begin(p, g, [goal[g] EXCEPT !.gates = FALSE], <<"writeState", "reindex">>)

Validate(p, g) ==
  /\ Readable(g) /\ goal[g].gates
  /\ Begin(p, g, goal[g], <<"runGates", "writeValidation">>)

\* addEvidence adds one entry, of the required type or not.
EvidenceAdd(p, g) ==
  /\ command[p] = NoCommand /\ Readable(g)
  /\ \E required \in BOOLEAN :
       command' = [command EXCEPT ![p] =
         [goal |-> g, seen |-> goal[g], todo |-> <<"writeValidation">>,
          checked |-> [validation[g] EXCEPT !.evidence = @ \/ required]]]
  /\ disturbed' = IF Overlaps(p) THEN disturbed \union {"overlap"} ELSE disturbed
  /\ UNCHANGED <<goal, validation, lock, index, branch>>

\* reindex, and status without a goal
Reindex(p) == Begin(p, NoGoal, Missing("absent"), <<"reindex">>)

-----------------------------------------------------------------------------
(* The steps of a running command *)

Doing(p, step) == command[p] # NoCommand /\ Head(command[p].todo) = step
Rest(p) == Tail(command[p].todo)
Proceed(p) ==
  command' = IF Rest(p) = <<>> THEN [command EXCEPT ![p] = NoCommand]
             ELSE [command EXCEPT ![p].todo = Rest(p)]
Fail(p) == command' = [command EXCEPT ![p] = NoCommand]

\* A stale lock is removed; then applyTransition may throw.
CheckLock(p) ==
  /\ Doing(p, "checkLock")
  /\ IF Locked THEN Fail(p) /\ UNCHANGED lock
     ELSE /\ lock' = NoLock
          /\ IF Allowed(command[p].seen.status, "ACTIVE")
               THEN command' = [command EXCEPT ![p].todo = Rest(p), ![p].seen.status = "ACTIVE"]
               ELSE Fail(p)
  /\ UNCHANGED <<goal, validation, index, branch, disturbed>>

CreateLock(p) ==
  /\ Doing(p, "createLock")
  /\ IF Locked
       THEN Fail(p) /\ UNCHANGED lock
       ELSE /\ lock' = [goal |-> command[p].goal, branch |-> command[p].seen.branch]
            /\ Proceed(p)
  /\ UNCHANGED <<goal, validation, index, branch, disturbed>>

\* Fault: the lock stays.
RemoveLockNever(p) ==
  /\ Doing(p, "removeLock")
  /\ Proceed(p)
  /\ UNCHANGED <<goal, validation, lock, index, branch, disturbed>>

RemoveLock(p) ==
  /\ Doing(p, "removeLock")
  /\ lock' = IF lock.goal = command[p].goal THEN NoLock ELSE lock
  /\ Proceed(p)
  /\ UNCHANGED <<goal, validation, index, branch, disturbed>>

WriteState(p) ==
  /\ Doing(p, "writeState")
  /\ goal' = [goal EXCEPT ![command[p].goal] = command[p].seen]
  /\ Proceed(p)
  /\ UNCHANGED <<validation, lock, index, branch, disturbed>>

SetGates(p) ==
  LET g == command[p].goal IN
  /\ Doing(p, "setGates")
  /\ IF goal[g].status \in GateConfigurable
       THEN command' = [command EXCEPT ![p].seen = [goal[g] EXCEPT !.gates = TRUE], ![p].todo = Rest(p)]
       ELSE Fail(p)
  /\ UNCHANGED <<goal, validation, lock, index, branch, disturbed>>

\* The gates have run: validation.json is read, to be written with their outcome.
Checked(p, gates, todo) ==
  command' = [command EXCEPT ![p].todo = todo,
                             ![p].checked = [validation[command[p].goal] EXCEPT !.gates = gates]]

\* The evidence, then the gates of the goal as it was read
Verify(p) ==
  /\ Doing(p, "verify")
  /\ IF ~validation[command[p].goal].evidence THEN Fail(p)
     ELSE IF ~command[p].seen.gates THEN Proceed(p)
     ELSE \/ Checked(p, "passed", <<"writeValidation">> \o Rest(p))
          \/ Checked(p, "failed", <<"writeValidation">>)
  /\ UNCHANGED <<goal, validation, lock, index, branch, disturbed>>

RunGates(p) ==
  /\ Doing(p, "runGates")
  /\ \E gates \in {"passed", "failed"} : Checked(p, gates, Rest(p))
  /\ UNCHANGED <<goal, validation, lock, index, branch, disturbed>>

WriteValidation(p) ==
  /\ Doing(p, "writeValidation")
  /\ validation' = [validation EXCEPT ![command[p].goal] = command[p].checked]
  /\ Proceed(p)
  /\ UNCHANGED <<goal, lock, index, branch, disturbed>>

Indexed == [g \in Goals |-> IF Readable(g) THEN goal[g].status ELSE "absent"]

DoReindex(p) ==
  /\ Doing(p, "reindex")
  /\ index' = Indexed
  /\ Proceed(p)
  /\ UNCHANGED <<goal, validation, lock, branch, disturbed>>

\* readJson gives null for a file that writeJson has not finished: the next command sees
\* no lock, no validation or no index (DOCTOR-008 where DOCTOR-004 says so here).
TornState(p) ==
  /\ Doing(p, "writeState")
  /\ goal' = [goal EXCEPT ![command[p].goal] = Missing("broken")]
  /\ UNCHANGED <<validation, lock, index>>

TornLock(p) ==
  /\ Doing(p, "createLock") /\ ~Locked
  /\ lock' = NoLock
  /\ UNCHANGED <<goal, validation, index>>

TornValidation(p) ==
  /\ Doing(p, "writeValidation")
  /\ validation' = [validation EXCEPT ![command[p].goal] = NoValidation]
  /\ UNCHANGED <<goal, lock, index>>

TornIndex(p) ==
  /\ Doing(p, "reindex")
  /\ index' = [g \in Goals |-> "absent"]
  /\ UNCHANGED <<goal, validation, lock>>

\* A command is cut off, between two writes or in the middle of one.
CutOff(p) ==
  /\ command[p] # NoCommand
  /\ Fail(p)
  /\ \/ UNCHANGED <<goal, validation, lock, index>>
     \/ TornState(p) \/ TornLock(p) \/ TornValidation(p) \/ TornIndex(p)
  /\ disturbed' = disturbed \union {"cut_off"}
  /\ UNCHANGED branch

\* A person checks out another branch; the files of the runner are not in git.
Checkout ==
  /\ branch' \in Branches \ {branch}
  /\ disturbed' = IF ActiveGoals # {} \/ \E p \in Commands : command[p] # NoCommand
                    THEN disturbed \union {"checkout"} ELSE disturbed
  /\ UNCHANGED <<goal, validation, lock, index, command>>

CommandBegins(p) ==
  \/ Reindex(p)
  \/ \E g \in Goals :
       \/ Create(p, g) \/ PlanRecord(p, g) \/ Activate(p, g) \/ Resume(p, g) \/ Pause(p, g)
       \/ Block(p, g) \/ Complete(p, g) \/ Abort(p, g) \/ GatesSet(p, g) \/ Validate(p, g)
       \/ EvidenceAdd(p, g)

CommandStep(p) ==
  \/ CheckLock(p) \/ CreateLock(p) \/ RemoveLock(p) \/ WriteState(p) \/ SetGates(p)
  \/ Verify(p) \/ RunGates(p) \/ WriteValidation(p) \/ DoReindex(p)

RunnerInit ==
  /\ goal = [g \in Goals |-> Missing("absent")]
  /\ validation = [g \in Goals |-> NoValidation]
  /\ lock = NoLock
  /\ index = [g \in Goals |-> "absent"]
  /\ branch \in Branches
  /\ command = [p \in Commands |-> NoCommand]
  /\ disturbed = {}

RunnerNext ==
  \/ \E p \in Commands : CommandBegins(p) \/ CommandStep(p) \/ CutOff(p)
  \/ Checkout

RunnerSpec == RunnerInit /\ [][RunnerNext]_runnerVars

-----------------------------------------------------------------------------
(* doctor: what doctorCheck reports of these files *)

\* DOCTOR-002
Unlocked == {g \in Goals : index[g] = "ACTIVE" /\ lock.goal # g /\ goal[g].status = "ACTIVE"}

\* DOCTOR-003: a goal directory whose state cannot be read
Unreadable == {g \in Goals : goal[g].status = "broken"}

\* DOCTOR-004, a warning: the index does not say what the state says
Mismatched == {g \in Goals : Readable(g) /\ index[g] # goal[g].status}

DoctorErrors == (lock # NoLock /\ Stale) \/ Unlocked # {} \/ Unreadable # {}

-----------------------------------------------------------------------------
(* Properties *)

\* Commands that run alone, to their end and on the branch of the active goal leave
\* files in which the doctor finds no error and no mismatch (DOCTOR-W001, that a goal
\* can be resumed, it may still say).
CalmIsHealthy ==
  disturbed = {} /\ (\A p \in Commands : command[p] = NoCommand) => ~DoctorErrors /\ Mismatched = {}

\* jean-distributed-certification.md:24 "Un worktree puede tener solo un Goal ACTIVE":
\* whatever has happened, when the doctor finds no error and no mismatch, at most one
\* goal is active, and the lock is that goal's and holds on the current branch.
HealthyIsSound ==
  ~DoctorErrors /\ Mismatched = {} =>
    /\ Cardinality(ActiveGoals) <= 1
    /\ \A g \in ActiveGoals : Locked /\ lock.goal = g /\ goal[g].branch = branch

\* doctorCheck finds neither error nor mismatch when nothing has gone wrong, and when it
\* finds none, whatever has gone wrong, the one active goal is locked on its branch.
DoctorIsReliable == CalmIsHealthy /\ HealthyIsSound

\* "Status ... is terminal and immutable" (validateTransition), as long as no two
\* commands overlap: cut-off commands and checkouts do not matter.
TerminalIsFinal ==
  [][\A g \in Goals : goal[g].status \in Terminal /\ "overlap" \notin disturbed' => goal'[g] = goal[g]]_runnerVars

\* jean-distributed-certification.md:27 "`COMPLETED` requiere evidencia y gates verdes":
\* when a goal becomes completed, its files hold both.
CompletionIsEarned ==
  [][\A g \in Goals :
       /\ goal'[g].status = "COMPLETED" /\ goal[g].status # "COMPLETED"
       /\ "overlap" \notin disturbed
       => validation[g].evidence /\ (goal[g].gates => validation[g].gates = "passed")]_runnerVars
=============================================================================
