------------------------- MODULE CronPublisherProofs -------------------------
(***************************************************************************)
(* Proofs about CronPublisher: the inductive invariant and the theorems    *)
(* that follow from it, for every set of jobs and of invocations.          *)
(***************************************************************************)
EXTENDS CronPublisher, TLAPS

\* Control points at which a run has a job in hand, before its provider attempt
\* is marked and from then on.
Preparing == {"claimed", "reconciling"} \union Verdicts
Attempting == {"calling", "committing", "unfinalized"} \union Outcomes

CurInv ==
  \A r \in Runs :
    IF run[r].pc \in Preparing \union Attempting
      THEN run[r].cur \in ScheduledJobs
      ELSE run[r].cur = NoJob

\* What the columns of one job row say together.
RowInv ==
  \A j \in ScheduledJobs :
    /\ job[j].status = "SCHEDULED" => ~job[j].started
    /\ job[j].started => job[j].token # NoToken
    /\ job[j].token # NoToken => job[j].status \in {"IN_REVIEW", "PUBLISHED"}
    /\ ~job[j].started /\ job[j].status \in {"SCHEDULED", "IN_REVIEW"} => PostsOfJob(j) = {}
    /\ result[j] # {} => job[j].started

\* A run that marked the attempt owns the job until it records the outcome.
AttemptOK(r, j, pc) ==
  /\ Holds(r, j)
  /\ job[j].started
  /\ job[j].status = "IN_REVIEW"
  /\ result[j] = {}
  /\ pc \in {"calling", "retryable"} => PostsOfJob(j) = {}
  /\ pc \in {"success", "committing", "unfinalized"} => <<j, r>> \in posts
AttemptInv ==
  \A r \in Runs : run[r].pc \in Attempting => AttemptOK(r, run[r].cur, run[r].pc)

\* Before that it may have lost the claim, but nobody marked an attempt under it.
PrepareInv ==
  \A r \in Runs : run[r].pc \in Preparing =>
    /\ Holds(r, run[r].cur) => ~job[run[r].cur].started
    /\ run[r].pc \in {"reconcile", "reconciling"} => result[run[r].cur] # {}

\* Nobody has seen the token a run is going to claim a job with.
Fresh(r, j) == run[r].pc = "idle" \/ j \in Pending(r)
FreshInv ==
  \A r \in Runs, j \in ScheduledJobs : Fresh(r, j) =>
    /\ job[j].token # r
    /\ \A s \in Runs : run[s].snap[j].token # r

\* A snapshot of a marked attempt names its token, and as long as the row has
\* that token the attempt is still marked.
SnapInv ==
  \A s \in Runs, j \in ScheduledJobs : run[s].snap[j].started =>
    /\ run[s].snap[j].token # NoToken
    /\ job[j].token = run[s].snap[j].token => job[j].started

IInv ==
  /\ CronTypeOK /\ CurInv /\ RowInv /\ AttemptInv /\ PrepareInv
  /\ FreshInv /\ SnapInv /\ RecordsAreReal /\ OnePostPerScheduledJob

-----------------------------------------------------------------------------
(* How the steps change the runs *)

LEMMA PcFacts ==
  /\ Preparing \intersect Attempting = {}
  /\ Preparing \union Attempting = RunPcs \ {"idle", "next", "done"}
BY DEF Preparing, Attempting, Verdicts, Outcomes, RunPcs

\* Goto moves the control point of one run.
LEMMA GotoFacts ==
  ASSUME run \in [Runs -> RunRow], NEW r \in Runs, NEW pc \in RunPcs, Goto(r, pc)
  PROVE  /\ run' \in [Runs -> RunRow]
         /\ \A s \in Runs \ {r} : run'[s] = run[s]
         /\ run'[r].pc = pc /\ run'[r].cur = run[r].cur /\ run'[r].snap = run[r].snap
BY DEF Goto, RunRow

LEMMA NoRowType == NoRow \in JobRow
BY DEF NoRow, JobRow, JobStatuses, Never

\* Release empties the hand of one run and drops the snapshot of that job.
LEMMA ReleaseFacts ==
  ASSUME run \in [Runs -> RunRow], NEW r \in Runs, Release(r)
  PROVE  /\ run' \in [Runs -> RunRow]
         /\ \A s \in Runs \ {r} : run'[s] = run[s]
         /\ run'[r].pc = "next" /\ run'[r].cur = NoJob
         /\ \A j \in JobIds : run'[r].snap[j] =
              IF j = run[r].cur THEN NoRow ELSE run[r].snap[j]
BY NoRowType DEF Release, RunRow, RunPcs

\* A run that only goes on with what it has becomes fresh for no job and learns
\* of no token.
GoesOn(r) ==
  /\ \A s \in Runs \ {r} : run'[s] = run[s]
  /\ \A j \in JobIds : run'[r].snap[j] \in {run[r].snap[j], NoRow}
  /\ \A j \in ScheduledJobs : Fresh(r, j)' => Fresh(r, j)

\* Tokens are dropped at most, and an attempt stays marked while its token is there.
TokensKept ==
  \A j \in ScheduledJobs :
    /\ job'[j].token \in {job[j].token, NoToken}
    /\ job'[j].token = NoToken \/ (job[j].started => job'[j].started)

LEMMA FreshStep ==
  ASSUME StoreAssumption, CronTypeOK, FreshInv, SnapInv, CronTypeOK',
         NEW r \in Runs, GoesOn(r), TokensKept
  PROVE  FreshInv' /\ SnapInv'
<1>1. \A s \in Runs, j \in ScheduledJobs : run'[s].snap[j] \in {run[s].snap[j], NoRow}
  BY DEF GoesOn, JobIds
<1>2. \A s \in Runs, j \in ScheduledJobs : Fresh(s, j)' => Fresh(s, j)
  BY DEF GoesOn, Fresh, Pending
<1>3. NoRow.token = NoToken /\ ~NoRow.started /\ NoToken \notin Runs
  BY DEF NoRow, StoreAssumption
<1>4. FreshInv'
  BY <1>1, <1>2, <1>3 DEF FreshInv, TokensKept
<1>5. SnapInv'
  BY <1>1, <1>3 DEF SnapInv, TokensKept
<1> QED BY <1>4, <1>5

\* The rows, attempts and records only depend on the tables and on where the
\* runs are.
StateInv == CurInv /\ RowInv /\ AttemptInv /\ PrepareInv
              /\ RecordsAreReal /\ OnePostPerScheduledJob

\* Steps that leave the tables alone and put no run into the middle of a job
LEMMA IdleStep ==
  ASSUME StateInv, UNCHANGED storeVars,
         \A s \in Runs : \/ run'[s].pc = run[s].pc /\ run'[s].cur = run[s].cur
                         \/ run'[s].pc \in {"next", "done"} /\ run'[s].cur = NoJob
  PROVE  StateInv'
<1> USE DEF StateInv, storeVars
<1>1. {"next", "done"} \intersect (Preparing \union Attempting) = {}
  BY PcFacts
<1>2. CurInv'
  BY <1>1 DEF CurInv
<1>3. RowInv'
  BY DEF RowInv, PostsOfJob
<1>4. AttemptInv'
  <2> SUFFICES ASSUME NEW s \in Runs, run'[s].pc \in Attempting
               PROVE  run'[s].pc = run[s].pc /\ run'[s].cur = run[s].cur
    BY DEF AttemptInv, AttemptOK, Holds, PostsOfJob
  <2> QED BY <1>1
<1>5. PrepareInv'
  BY <1>1 DEF PrepareInv, Holds
<1>6. RecordsAreReal' /\ OnePostPerScheduledJob'
  BY DEF RecordsAreReal, PostsOfJob, PostsOfDraft, OnePostPerScheduledJob
<1> QED BY <1>2, <1>3, <1>4, <1>5, <1>6

-----------------------------------------------------------------------------
(* One lemma per step *)

THEOREM InitInv == ASSUME StoreAssumption, CronInit PROVE IInv
<1>1. CronTypeOK
  <2>1. NoRow \in JobRow /\ NewJob("SCHEDULED") \in JobRow
    BY NoRowType DEF NewJob, NoRow, JobRow, JobStatuses, Never
  <2>2. NewRun("idle") \in RunRow
    BY <2>1 DEF NewRun, RunRow, RunPcs, NoSnapshot
  <2>3. draft \in [Drafts -> DraftRow]
    BY DEF CronInit, CronInitWith, DraftRow, DraftStatuses, Optional
  <2> QED BY <2>1, <2>2, <2>3 DEF CronInit, CronInitWith, CronTypeOK, StoreTypeOK, Optional
<1>2. \A r \in Runs : run[r].pc = "idle" /\ run[r].cur = NoJob
                        /\ run[r].snap = [j \in JobIds |-> NoRow]
  BY DEF CronInit, CronInitWith, NewRun, NoSnapshot
<1>3. \A j \in ScheduledJobs :
        job[j].status = "SCHEDULED" /\ ~job[j].started /\ job[j].token = NoToken
  BY DEF CronInit, CronInitWith, JobIds, NewJob, NoRow
<1>4. NoRow.token = NoToken /\ ~NoRow.started
  BY DEF NoRow
<1>5. "idle" \notin Preparing \union Attempting
  BY PcFacts
<1>6. CurInv /\ AttemptInv /\ PrepareInv
  BY <1>2, <1>5 DEF CurInv, AttemptInv, AttemptOK, PrepareInv
<1>7. RowInv
  BY <1>3 DEF RowInv, CronInit, CronInitWith, PostsOfJob, JobIds
<1>8. FreshInv /\ SnapInv
  BY <1>2, <1>3, <1>4 DEF FreshInv, SnapInv, JobIds, StoreAssumption
<1>9. RecordsAreReal
  <2>1. \A j \in JobIds : job[j].status # "PUBLISHED"
    BY DEF CronInit, CronInitWith, NewJob, NoRow
  <2> QED BY <2>1 DEF RecordsAreReal, CronInit, CronInitWith
<1>10. OnePostPerScheduledJob
  BY DEF OnePostPerScheduledJob, CronInit, CronInitWith
<1> QED BY <1>1, <1>6, <1>7, <1>8, <1>9, <1>10 DEF IInv

LEMMA StartRunInv ==
  ASSUME StoreAssumption, IInv, NEW r \in Runs, StartRun(r)
  PROVE  IInv'
<1> USE DEF IInv
<1>1. PICK batch \in SUBSET Due :
        run' = [run EXCEPT ![r] = [NewRun("next") EXCEPT !.snap =
                  [j \in JobIds |-> IF j \in batch THEN job[j] ELSE NoRow]]]
  BY DEF StartRun
<1>2. UNCHANGED storeVars /\ run[r].pc = "idle"
  BY DEF StartRun
<1>3. run \in [Runs -> RunRow] /\ job \in [JobIds -> JobRow]
  BY DEF CronTypeOK, StoreTypeOK
<1>4. /\ \A s \in Runs \ {r} : run'[s] = run[s]
      /\ run'[r].pc = "next" /\ run'[r].cur = NoJob
      /\ run'[r].snap = [j \in JobIds |-> IF j \in batch THEN job[j] ELSE NoRow]
  BY <1>1, <1>3 DEF NewRun, RunRow
<1>5. CronTypeOK'
  <2>1. [j \in JobIds |-> IF j \in batch THEN job[j] ELSE NoRow] \in [JobIds -> JobRow]
    BY <1>3, NoRowType
  <2>2. [NewRun("next") EXCEPT !.snap =
           [j \in JobIds |-> IF j \in batch THEN job[j] ELSE NoRow]] \in RunRow
    BY <2>1 DEF NewRun, RunRow, RunPcs
  <2> QED BY <2>2, <1>1, <1>2, <1>3 DEF CronTypeOK, StoreTypeOK, storeVars
<1>6. \A s \in Runs : \/ run'[s].pc = run[s].pc /\ run'[s].cur = run[s].cur
                      \/ run'[s].pc \in {"next", "done"} /\ run'[s].cur = NoJob
  BY <1>4
<1>7. StateInv'
  BY <1>2, <1>6, IdleStep DEF StateInv
<1>8. NoRow.token = NoToken /\ ~NoRow.started /\ NoToken \notin Runs
  BY DEF NoRow, StoreAssumption
<1>9. FreshInv'
  BY <1>2, <1>4, <1>8 DEF FreshInv, Fresh, Pending, storeVars, JobIds
<1>10. SnapInv'
  BY <1>2, <1>4, <1>8 DEF SnapInv, RowInv, storeVars, JobIds
<1> QED BY <1>5, <1>7, <1>9, <1>10 DEF StateInv

LEMMA EndRunInv ==
  ASSUME StoreAssumption, IInv, NEW r \in Runs, EndRun(r)
  PROVE  IInv'
<1> USE DEF IInv
<1>1. /\ \A s \in Runs \ {r} : run'[s] = run[s]
      /\ run'[r].pc = "done" /\ run'[r].cur = NoJob
      /\ run'[r].snap = [j \in JobIds |-> NoRow]
      /\ UNCHANGED storeVars
  BY DEF EndRun, NewRun, NoSnapshot, CronTypeOK
<1>2. CronTypeOK'
  <2>1. NewRun("done") \in RunRow
    BY NoRowType DEF NewRun, NoSnapshot, RunRow, RunPcs
  <2> QED BY <2>1 DEF EndRun, CronTypeOK, StoreTypeOK, storeVars
<1>3. \A s \in Runs : \/ run'[s].pc = run[s].pc /\ run'[s].cur = run[s].cur
                      \/ run'[s].pc \in {"next", "done"} /\ run'[s].cur = NoJob
  BY <1>1
<1>4. StateInv'
  BY <1>1, <1>3, IdleStep DEF StateInv
<1>5. GoesOn(r)
  BY <1>1 DEF GoesOn, Fresh, Pending, NoRow, JobIds
<1>6. TokensKept
  BY <1>1 DEF TokensKept, storeVars
<1> QED BY <1>2, <1>4, <1>5, <1>6, FreshStep DEF StateInv

LEMMA ClaimInv ==
  ASSUME StoreAssumption, IInv, NEW r \in Runs, NEW j \in ScheduledJobs, Claim(r, j)
  PROVE  IInv'
<1> USE DEF IInv
<1>1. /\ run \in [Runs -> RunRow] /\ job \in [JobIds -> JobRow]
      /\ now \in Nat /\ j \in JobIds /\ r # NoToken
  BY DEF CronTypeOK, StoreTypeOK, JobIds, StoreAssumption
<1>2. /\ run[r].pc = "next" /\ j \in Pending(r)
      /\ UNCHANGED <<draft, result, posts, now>>
  BY DEF Claim, Turn
<1>3. ~job[j].started /\ job[j].status \in {"SCHEDULED", "IN_REVIEW"}
  BY DEF Claim, GetsClaim, Reclaimable, Claimable, RowInv
<1>4. /\ \A s \in Runs \ {r} : run'[s] = run[s]
      /\ run'[r].pc = "claimed" /\ run'[r].cur = j /\ run'[r].snap = run[r].snap
  BY <1>1 DEF Claim, RunRow
<1>5. /\ \A i \in JobIds \ {j} : job'[i] = job[i]
      /\ job'[j].status = "IN_REVIEW" /\ job'[j].token = r
      /\ job'[j].started = job[j].started
  BY <1>1 DEF Claim, JobRow
<1>6. CronTypeOK'
  <2>1. job' \in [JobIds -> JobRow]
    <3>1. [job[j] EXCEPT !.status = "IN_REVIEW", !.token = r, !.claimedAt = now] \in JobRow
      <4>1. job[j] \in JobRow /\ now \in Int /\ "IN_REVIEW" \in JobStatuses
        BY <1>1 DEF JobStatuses
      <4> QED BY <4>1 DEF JobRow
    <3>2. job' = [job EXCEPT ![j] = [job[j] EXCEPT !.status = "IN_REVIEW",
                                       !.token = r, !.claimedAt = now]]
      BY <1>1 DEF Claim, JobRow
    <3> QED BY <1>1, <3>1, <3>2
  <2>2. run' \in [Runs -> RunRow]
    <3>1. run' = [run EXCEPT ![r].pc = "claimed", ![r].cur = j]
      BY DEF Claim
    <3>2. run[r] \in RunRow /\ "claimed" \in RunPcs
      BY <1>1 DEF RunPcs
    <3>3. [run[r] EXCEPT !.pc = "claimed", !.cur = j] \in RunRow
      BY <1>1, <3>2 DEF RunRow
    <3>4. run' = [run EXCEPT ![r] = [run[r] EXCEPT !.pc = "claimed", !.cur = j]]
      BY <1>1, <3>1, <3>2 DEF RunRow
    <3> QED BY <1>1, <3>3, <3>4
  <2> QED BY <2>1, <2>2, <1>2 DEF CronTypeOK, StoreTypeOK
<1>7. "claimed" \in Preparing /\ "claimed" \notin Attempting /\ "claimed" # "reconcile"
  BY PcFacts DEF Preparing
<1>8. CurInv'
  BY <1>4, <1>7 DEF CurInv
<1>9. RowInv'
  BY <1>1, <1>2, <1>3, <1>5 DEF RowInv, PostsOfJob, JobIds
<1>10. AttemptInv'
  BY <1>2, <1>3, <1>4, <1>5, <1>7 DEF AttemptInv, AttemptOK, CurInv, Holds, PostsOfJob, JobIds
<1>11. PrepareInv'
  BY <1>2, <1>3, <1>4, <1>5, <1>7 DEF PrepareInv, CurInv, Holds, JobIds
<1>12. FreshInv'
  <2> SUFFICES ASSUME NEW s \in Runs, NEW i \in ScheduledJobs, Fresh(s, i)'
               PROVE  /\ job'[i].token # s
                      /\ \A u \in Runs : run'[u].snap[i].token # s
    BY DEF FreshInv
  <2>1. Fresh(s, i)
    <3>1. run[r].cur = NoJob /\ i # NoJob
      BY <1>2, PcFacts DEF CurInv, StoreAssumption, JobIds
    <3> QED BY <3>1, <1>2, <1>4 DEF Fresh, Pending
  <2>2. s # r \/ i # j
    BY <1>4 DEF Fresh, Pending
  <2>3. job'[i].token # s
    BY <2>1, <2>2, <1>5 DEF FreshInv, JobIds
  <2>4. \A u \in Runs : run'[u].snap = run[u].snap
    BY <1>4
  <2> QED BY <2>1, <2>3, <2>4 DEF FreshInv
<1>13. SnapInv'
  BY <1>2, <1>4, <1>5 DEF SnapInv, FreshInv, Fresh, JobIds
<1>14. RecordsAreReal' /\ OnePostPerScheduledJob'
  BY <1>2, <1>5 DEF RecordsAreReal, PostsOfJob, PostsOfDraft, OnePostPerScheduledJob
<1> QED BY <1>6, <1>8, <1>9, <1>10, <1>11, <1>12, <1>13, <1>14

\* Dropping the snapshot of one job
LEMMA DropFacts ==
  ASSUME run \in [Runs -> RunRow], NEW r \in Runs, NEW j \in JobIds,
         run' = [run EXCEPT ![r].snap[j] = NoRow]
  PROVE  /\ run' \in [Runs -> RunRow]
         /\ \A s \in Runs \ {r} : run'[s] = run[s]
         /\ run'[r].pc = run[r].pc /\ run'[r].cur = run[r].cur
         /\ \A i \in JobIds : run'[r].snap[i] = IF i = j THEN NoRow ELSE run[r].snap[i]
BY NoRowType DEF RunRow

LEMMA LoseClaimInv ==
  ASSUME StoreAssumption, IInv, NEW r \in Runs, NEW j \in ScheduledJobs, LoseClaim(r, j)
  PROVE  IInv'
<1> USE DEF IInv
<1>1. run \in [Runs -> RunRow] /\ j \in JobIds /\ UNCHANGED storeVars /\ run[r].pc = "next"
  BY DEF CronTypeOK, JobIds, LoseClaim, Turn
<1>2. /\ run' \in [Runs -> RunRow]
      /\ \A s \in Runs \ {r} : run'[s] = run[s]
      /\ run'[r].pc = run[r].pc /\ run'[r].cur = run[r].cur
      /\ \A i \in JobIds : run'[r].snap[i] = IF i = j THEN NoRow ELSE run[r].snap[i]
  BY <1>1, DropFacts DEF LoseClaim
<1>3. CronTypeOK'
  BY <1>1, <1>2 DEF CronTypeOK, StoreTypeOK, storeVars
<1>4. \A s \in Runs : run'[s].pc = run[s].pc /\ run'[s].cur = run[s].cur
  BY <1>2
<1>5. StateInv'
  BY <1>1, <1>4, IdleStep DEF StateInv
<1>6. GoesOn(r)
  BY <1>2 DEF GoesOn, Fresh, Pending, NoRow, JobIds
<1>7. TokensKept
  BY <1>1 DEF TokensKept, storeVars
<1> QED BY <1>3, <1>5, <1>6, <1>7, FreshStep DEF StateInv

\* markReconciliation changes no token and no attempt mark.
LEMMA SetInReviewFacts ==
  ASSUME job \in [JobIds -> JobRow], NEW j \in JobIds, NEW token, SetInReview(j, token)
  PROVE  /\ job' \in [JobIds -> JobRow]
         /\ \A i \in JobIds : /\ job'[i].token = job[i].token
                              /\ job'[i].started = job[i].started
         /\ \A i \in JobIds \ {j} : job'[i] = job[i]
         /\ job'[j].status \in {job[j].status, "IN_REVIEW"}
         /\ token # NoToken /\ job[j].token # token => job' = job
BY DEF SetInReview, JobRow, JobStatuses

LEMMA FlagAttemptedInv ==
  ASSUME StoreAssumption, IInv, NEW r \in Runs, NEW j \in ScheduledJobs, FlagAttempted(r, j)
  PROVE  IInv'
<1> USE DEF IInv
<1>1. /\ run \in [Runs -> RunRow] /\ job \in [JobIds -> JobRow] /\ j \in JobIds
      /\ UNCHANGED <<draft, result, posts, now>>
      /\ run[r].snap[j].started /\ SetInReview(j, run[r].snap[j].token)
  BY DEF CronTypeOK, StoreTypeOK, JobIds, FlagAttempted, SeenAttempted
<1>2. /\ run' \in [Runs -> RunRow]
      /\ \A s \in Runs \ {r} : run'[s] = run[s]
      /\ run'[r].pc = run[r].pc /\ run'[r].cur = run[r].cur
      /\ \A i \in JobIds : run'[r].snap[i] = IF i = j THEN NoRow ELSE run[r].snap[i]
  BY <1>1, DropFacts DEF FlagAttempted
<1>3. /\ job' \in [JobIds -> JobRow]
      /\ \A i \in JobIds : job'[i].token = job[i].token /\ job'[i].started = job[i].started
      /\ \A i \in JobIds \ {j} : job'[i] = job[i]
      /\ job'[j].status \in {job[j].status, "IN_REVIEW"}
  BY <1>1, SetInReviewFacts
<1>4. job' = job \/ job[j].started
  BY <1>1, SetInReviewFacts DEF SnapInv
<1>5. \A s \in Runs : run'[s].pc = run[s].pc /\ run'[s].cur = run[s].cur
  BY <1>2
<1>6. CronTypeOK'
  BY <1>1, <1>2, <1>3 DEF CronTypeOK, StoreTypeOK
<1>7. CurInv'
  BY <1>5 DEF CurInv
<1>8. RowInv'
  BY <1>1, <1>3, <1>4 DEF RowInv, PostsOfJob, JobIds
<1>9. AttemptInv'
  <2> SUFFICES ASSUME NEW s \in Runs, run[s].pc \in Attempting
               PROVE  /\ job'[run[s].cur].token = s
                      /\ job'[run[s].cur].started
                      /\ job'[run[s].cur].status = "IN_REVIEW"
    <3>1. result' = result /\ posts' = posts
      BY <1>1
    <3> QED BY <3>1, <1>5 DEF AttemptInv, AttemptOK, Holds, PostsOfJob
  <2>1. run[s].cur \in JobIds
    BY DEF CurInv, JobIds
  <2>2. job[run[s].cur].token = s /\ job[run[s].cur].started
          /\ job[run[s].cur].status = "IN_REVIEW"
    BY DEF AttemptInv, AttemptOK, Holds
  <2> QED BY <2>1, <2>2, <1>3
<1>10. PrepareInv'
  BY <1>1, <1>3, <1>5, PcFacts DEF PrepareInv, CurInv, Holds, JobIds
<1>11. RecordsAreReal' /\ OnePostPerScheduledJob'
  BY <1>1, <1>3 DEF RecordsAreReal, PostsOfJob, PostsOfDraft, OnePostPerScheduledJob
<1>12. GoesOn(r)
  BY <1>2 DEF GoesOn, Fresh, Pending, NoRow, JobIds
<1>13. TokensKept
  BY <1>3 DEF TokensKept, JobIds
<1> QED BY <1>6, <1>7, <1>8, <1>9, <1>10, <1>11, <1>12, <1>13, FreshStep

\* A run that moves on or releases its job goes on with what it has.
LEMMA GotoGoesOn ==
  ASSUME run \in [Runs -> RunRow], NEW r \in Runs, NEW pc \in RunPcs \ {"idle"},
         run[r].pc # "idle", Goto(r, pc)
  PROVE  GoesOn(r)
BY GotoFacts DEF GoesOn, Fresh, Pending

LEMMA ReleaseGoesOn ==
  ASSUME run \in [Runs -> RunRow], NEW r \in Runs, Release(r),
         StoreAssumption, run[r].pc # "idle"
  PROVE  GoesOn(r)
BY ReleaseFacts DEF GoesOn, Fresh, Pending, NoRow, JobIds

\* No second run is in an attempt of the same job, because both would hold it.
LEMMA AloneInAttempt ==
  ASSUME AttemptInv, NEW r \in Runs, NEW s \in Runs,
         run[r].pc \in Attempting, run[s].pc \in Attempting, run[r].cur = run[s].cur
  PROVE  r = s
BY DEF AttemptInv, AttemptOK, Holds

\* Attempts whose job and result a step leaves alone
LEMMA AttemptKept ==
  ASSUME AttemptInv, posts' = posts,
         \A s \in Runs : run'[s].pc \in Attempting =>
           /\ run'[s] = run[s]
           /\ job'[run[s].cur] = job[run[s].cur]
           /\ result'[run[s].cur] = result[run[s].cur]
  PROVE  AttemptInv'
<1> SUFFICES ASSUME NEW s \in Runs, run'[s].pc \in Attempting
             PROVE  AttemptOK(s, run[s].cur, run[s].pc)'
  BY DEF AttemptInv
<1>1. run'[s] = run[s] /\ AttemptOK(s, run[s].cur, run[s].pc)
  BY DEF AttemptInv
<1> QED BY <1>1 DEF AttemptOK, Holds, PostsOfJob

LEMMA LoadContextInv ==
  ASSUME StoreAssumption, IInv, NEW r \in Runs, LoadContext(r)
  PROVE  IInv'
<1> USE DEF IInv
<1>1. run \in [Runs -> RunRow] /\ UNCHANGED storeVars /\ run[r].pc = "claimed"
  BY DEF CronTypeOK, LoadContext
<1>2. PICK tenantOk \in BOOLEAN, gate \in {"go", "block_retry", "block_terminal"} :
        Goto(r, Verdict(r, run[r].cur, tenantOk, gate))
  BY DEF LoadContext
<1> DEFINE pc == Verdict(r, run[r].cur, tenantOk, gate)
<1>3. pc \in Verdicts /\ (pc \in {"reconcile", "reconciling"} => result[run[r].cur] # {})
  BY DEF Verdict, Verdicts, Succeeded
<1> HIDE DEF pc
<1>4. pc \in RunPcs \ {"idle"} /\ pc \in Preparing /\ pc \notin Attempting
  BY <1>3, PcFacts DEF Preparing, RunPcs
<1>5. Goto(r, pc)
  BY <1>2 DEF pc
<1>6. /\ run' \in [Runs -> RunRow]
      /\ \A s \in Runs \ {r} : run'[s] = run[s]
      /\ run'[r].pc = pc /\ run'[r].cur = run[r].cur
  BY <1>1, <1>4, <1>5, GotoFacts
<1>7. CronTypeOK'
  BY <1>1, <1>6 DEF CronTypeOK, StoreTypeOK, storeVars
<1>8. "claimed" \in Preparing
  BY DEF Preparing
<1>9. CurInv'
  BY <1>1, <1>4, <1>6, <1>8 DEF CurInv
<1>10. RowInv' /\ RecordsAreReal' /\ OnePostPerScheduledJob'
  BY <1>1 DEF RowInv, PostsOfJob, PostsOfDraft, RecordsAreReal, OnePostPerScheduledJob, storeVars
<1>11. AttemptInv'
  <2> SUFFICES ASSUME NEW s \in Runs, run'[s].pc \in Attempting PROVE run'[s] = run[s]
    BY <1>1, AttemptKept DEF storeVars
  <2> QED BY <1>4, <1>6
<1>12. PrepareInv'
  BY <1>1, <1>3, <1>6, <1>8 DEF PrepareInv, Holds, storeVars
<1>13. GoesOn(r)
  BY <1>1, <1>4, <1>5, GotoGoesOn
<1>14. TokensKept
  BY <1>1 DEF TokensKept, storeVars
<1> QED BY <1>7, <1>9, <1>10, <1>11, <1>12, <1>13, <1>14, FreshStep

\* Releasing a job after a change to its row.  What the step has to respect: the
\* row stays consistent, no other run's attempt is touched, tokens are kept.
LEMMA ReleaseStep ==
  ASSUME StoreAssumption, IInv, NEW r \in Runs, Release(r),
         run[r].pc \in Preparing \union Attempting,
         CronTypeOK', RowInv', RecordsAreReal', TokensKept, posts' = posts,
         \A j \in JobIds \ {run[r].cur} : job'[j] = job[j] /\ result'[j] = result[j],
         \A s \in Runs \ {r} : run[s].pc \in Attempting /\ run[s].cur = run[r].cur =>
           job'[run[r].cur] = job[run[r].cur] /\ result'[run[r].cur] = result[run[r].cur],
         result[run[r].cur] # {} => result'[run[r].cur] # {},
         job'[run[r].cur].started => job[run[r].cur].started
  PROVE  IInv'
<1> USE DEF IInv
<1>1. /\ \A s \in Runs \ {r} : run'[s] = run[s]
      /\ run'[r].pc = "next" /\ run'[r].cur = NoJob /\ run \in [Runs -> RunRow]
  BY ReleaseFacts DEF CronTypeOK
<1>2. "next" \notin Preparing \union Attempting /\ "idle" \notin Preparing \union Attempting
  BY PcFacts
<1>3. \A s \in Runs : run[s].pc \in Preparing \union Attempting => run[s].cur \in JobIds
  BY DEF CurInv, JobIds
<1>4. CurInv'
  BY <1>1, <1>2 DEF CurInv
<1>5. AttemptInv'
  <2> SUFFICES ASSUME NEW s \in Runs, run'[s].pc \in Attempting
               PROVE  /\ run'[s] = run[s]
                      /\ job'[run[s].cur] = job[run[s].cur]
                      /\ result'[run[s].cur] = result[run[s].cur]
    BY AttemptKept
  <2>1. s # r /\ run'[s] = run[s]
    BY <1>1, <1>2
  <2> QED BY <2>1, <1>3
<1>6. PrepareInv'
  <2> SUFFICES ASSUME NEW s \in Runs, run'[s].pc \in Preparing
               PROVE  /\ run'[s] = run[s]
                      /\ job'[run[s].cur].token = s => ~job'[run[s].cur].started
                      /\ run[s].pc \in {"reconcile", "reconciling"} => result'[run[s].cur] # {}
    BY DEF PrepareInv, Holds
  <2>1. s # r /\ run'[s] = run[s] /\ run[s].cur \in ScheduledJobs /\ s # NoToken
    BY <1>1, <1>2 DEF CurInv, StoreAssumption
  <2>2. job[run[s].cur].token = s => ~job[run[s].cur].started
    BY <2>1 DEF PrepareInv, Holds
  <2>3. run[s].pc \in {"reconcile", "reconciling"} => result[run[s].cur] # {}
    BY <2>1 DEF PrepareInv
  <2>4. job'[run[s].cur].token \in {job[run[s].cur].token, NoToken}
    BY <2>1 DEF TokensKept
  <2>5. CASE run[s].cur = run[r].cur
    BY <2>1, <2>2, <2>3, <2>4, <2>5
  <2>6. CASE run[s].cur # run[r].cur
    BY <2>1, <2>2, <2>3, <2>6, <1>3
  <2> QED BY <2>5, <2>6
<1>7. OnePostPerScheduledJob'
  BY DEF OnePostPerScheduledJob
<1>8. FreshInv' /\ SnapInv'
  BY <1>1, <1>2, ReleaseGoesOn, FreshStep
<1> QED BY <1>4, <1>5, <1>6, <1>7, <1>8

LEMMA BlockedType ==
  ASSUME NEW row \in JobRow, NEW status \in JobStatuses
  PROVE  /\ Blocked(row, status) \in JobRow
         /\ [Blocked(row, status) EXCEPT !.started = FALSE] \in JobRow
         /\ Blocked(row, status).status = status
         /\ Blocked(row, status).token = NoToken
         /\ Blocked(row, status).started = row.started
         /\ [Blocked(row, status) EXCEPT !.started = FALSE].status = status
         /\ [Blocked(row, status) EXCEPT !.started = FALSE].token = NoToken
         /\ ~[Blocked(row, status) EXCEPT !.started = FALSE].started
<1>1. Never \in Int
  BY DEF Never
<1>2. Blocked(row, status) \in JobRow
  BY <1>1 DEF Blocked, JobRow
<1>3. /\ Blocked(row, status).status = status
      /\ Blocked(row, status).token = NoToken
      /\ Blocked(row, status).started = row.started
  BY DEF Blocked, JobRow
<1>4. \A b \in JobRow : /\ [b EXCEPT !.started = FALSE] \in JobRow
                        /\ [b EXCEPT !.started = FALSE].status = b.status
                        /\ [b EXCEPT !.started = FALSE].token = b.token
                        /\ ~[b EXCEPT !.started = FALSE].started
  BY DEF JobRow
<1> QED BY <1>2, <1>3, <1>4

LEMMA CloseWithoutProviderInv ==
  ASSUME StoreAssumption, IInv, NEW r \in Runs, CloseWithoutProvider(r)
  PROVE  IInv'
<1> USE DEF IInv
<1> DEFINE j == run[r].cur
<1>1. /\ run \in [Runs -> RunRow] /\ job \in [JobIds -> JobRow]
      /\ draft \in [Drafts -> DraftRow] /\ result \in [JobIds -> Optional(PostIds)]
      /\ result' = result /\ posts' = posts /\ now' = now
      /\ run[r].pc \in {"block_terminal", "block_retry"}
      /\ Release(r)
  BY DEF CronTypeOK, StoreTypeOK, CloseWithoutProvider
<1>2. run[r].pc \in Preparing
  BY <1>1 DEF Preparing, Verdicts
<1>3. j \in ScheduledJobs /\ j \in JobIds /\ DraftOf[j] \in Drafts /\ r # NoToken
  BY <1>2 DEF CurInv, JobIds, StoreAssumption
<1>4. run' \in [Runs -> RunRow]
  BY <1>1, ReleaseFacts
<1>5. CASE Holds(r, j)
  <2> DEFINE status == IF run[r].pc = "block_terminal" THEN "FAILED" ELSE "SCHEDULED"
  <2>1. job' = [job EXCEPT ![j] = Blocked(job[j], status)] /\ draft' = draft
    BY <1>5 DEF CloseWithoutProvider
  <2>2. ~job[j].started /\ job[j].token = r
    BY <1>2, <1>5 DEF PrepareInv, Holds
  <2>3. job[j].status \in {"IN_REVIEW", "PUBLISHED"} /\ job[j].status # "PUBLISHED"
    BY <1>3, <2>2 DEF RowInv, RecordsAreReal
  <2>4. status \in JobStatuses /\ status # "PUBLISHED"
    BY DEF JobStatuses
  <2> HIDE DEF status
  <2>5. /\ job' \in [JobIds -> JobRow]
        /\ \A i \in JobIds \ {j} : job'[i] = job[i]
        /\ job'[j].token = NoToken /\ ~job'[j].started /\ job'[j].status = status
    <3>1. job[j] \in JobRow
      BY <1>1, <1>3
    <3>2. /\ Blocked(job[j], status) \in JobRow
          /\ Blocked(job[j], status).status = status
          /\ Blocked(job[j], status).token = NoToken
          /\ Blocked(job[j], status).started = job[j].started
      BY <3>1, <2>4, BlockedType
    <3> QED BY <1>1, <1>3, <2>1, <2>2, <3>2
  <2>6. CronTypeOK'
    BY <1>1, <1>4, <2>1, <2>5 DEF CronTypeOK, StoreTypeOK
  <2>7. PostsOfJob(j) = {} /\ result[j] = {}
    BY <1>3, <2>2, <2>3 DEF RowInv
  <2>8. RowInv'
    BY <1>1, <1>3, <2>5, <2>7 DEF RowInv, PostsOfJob, JobIds
  <2>9. RecordsAreReal'
    BY <1>1, <2>1, <2>4, <2>5 DEF RecordsAreReal, PostsOfJob, PostsOfDraft
  <2>10. TokensKept
    BY <1>3, <2>5 DEF TokensKept, JobIds
  <2>11. \A s \in Runs : run[s].pc \in Attempting => run[s].cur # j
    BY <2>2 DEF AttemptInv, AttemptOK
  <2> QED BY <1>1, <1>2, <2>5, <2>6, <2>8, <2>9, <2>10, <2>11, ReleaseStep
<1>6. CASE ~Holds(r, j)
  <2>1. job' = job /\ draft' = draft
    BY <1>6 DEF CloseWithoutProvider
  <2>2. CronTypeOK' /\ RowInv' /\ RecordsAreReal' /\ TokensKept
    BY <1>1, <1>4, <2>1 DEF CronTypeOK, StoreTypeOK, RowInv, RecordsAreReal,
       TokensKept, PostsOfJob, PostsOfDraft
  <2> QED BY <1>1, <1>2, <2>1, <2>2, ReleaseStep
<1> QED BY <1>5, <1>6

\* A run may go on with what it read: the job in hand and its row are in order.
LEMMA CheckReconcileInv ==
  ASSUME StoreAssumption, IInv, NEW r \in Runs, CheckReconcile(r)
  PROVE  IInv'
<1> USE DEF IInv
<1>1. /\ run \in [Runs -> RunRow] /\ UNCHANGED storeVars
      /\ run[r].pc = "reconcile" /\ run[r].pc \in Preparing
  BY DEF CronTypeOK, CheckReconcile, Preparing, Verdicts
<1>2. CASE Goto(r, "reconciling")
  <2>1. /\ "reconciling" \in RunPcs \ {"idle"}
        /\ "reconciling" \in Preparing /\ "reconciling" \notin Attempting
    BY PcFacts DEF RunPcs, Preparing
  <2>2. /\ run' \in [Runs -> RunRow]
        /\ \A s \in Runs \ {r} : run'[s] = run[s]
        /\ run'[r].pc = "reconciling" /\ run'[r].cur = run[r].cur
    BY <1>1, <1>2, <2>1, GotoFacts
  <2>3. CronTypeOK'
    BY <1>1, <2>2 DEF CronTypeOK, StoreTypeOK, storeVars
  <2>4. CurInv'
    BY <1>1, <2>1, <2>2 DEF CurInv
  <2>5. RowInv' /\ RecordsAreReal' /\ OnePostPerScheduledJob'
    BY <1>1 DEF RowInv, PostsOfJob, PostsOfDraft, RecordsAreReal, OnePostPerScheduledJob, storeVars
  <2>6. AttemptInv'
    <3> SUFFICES ASSUME NEW s \in Runs, run'[s].pc \in Attempting PROVE run'[s] = run[s]
      BY <1>1, AttemptKept DEF storeVars
    <3> QED BY <2>1, <2>2
  <2>7. PrepareInv'
    BY <1>1, <2>2 DEF PrepareInv, Holds, storeVars
  <2>8. GoesOn(r)
    BY <1>1, <1>2, <2>1, GotoGoesOn
  <2>9. TokensKept
    BY <1>1 DEF TokensKept, storeVars
  <2> QED BY <2>3, <2>4, <2>5, <2>6, <2>7, <2>8, <2>9, FreshStep
<1>3. CASE Release(r)
  <2>1. run' \in [Runs -> RunRow]
    BY <1>1, <1>3, ReleaseFacts
  <2>2. CronTypeOK' /\ RowInv' /\ RecordsAreReal' /\ TokensKept
    BY <1>1, <2>1 DEF CronTypeOK, StoreTypeOK, RowInv, RecordsAreReal,
       TokensKept, PostsOfJob, PostsOfDraft, storeVars
  <2> QED BY <1>1, <1>3, <2>2, ReleaseStep DEF storeVars
<1> QED BY <1>2, <1>3 DEF CheckReconcile

LEMMA ReconcileInv ==
  ASSUME StoreAssumption, IInv, NEW r \in Runs, Reconcile(r)
  PROVE  IInv'
<1> USE DEF IInv
<1> DEFINE j == run[r].cur
<1>1. /\ run \in [Runs -> RunRow] /\ job \in [JobIds -> JobRow]
      /\ draft \in [Drafts -> DraftRow] /\ result \in [JobIds -> Optional(PostIds)]
      /\ result' = result /\ posts' = posts /\ now' = now
      /\ run[r].pc = "reconciling" /\ Release(r)
  BY DEF CronTypeOK, StoreTypeOK, Reconcile
<1>2. run[r].pc \in Preparing
  BY <1>1 DEF Preparing
<1>3. j \in ScheduledJobs /\ j \in JobIds /\ DraftOf[j] \in Drafts /\ r # NoToken
  BY <1>2 DEF CurInv, JobIds, StoreAssumption
<1>4. run' \in [Runs -> RunRow]
  BY <1>1, ReleaseFacts
<1>5. result[j] # {}
  BY <1>1, <1>2 DEF PrepareInv
<1>6. /\ job' \in [JobIds -> JobRow]
      /\ \A i \in JobIds \ {j} : job'[i] = job[i]
      /\ job'[j].token = job[j].token /\ job'[j].started = job[j].started
      /\ job'[j].status \in {job[j].status, "PUBLISHED"}
  <2>1. [job[j] EXCEPT !.status = "PUBLISHED"] \in JobRow
    BY <1>1, <1>3 DEF JobRow, JobStatuses
  <2>2. job' = job \/ job' = [job EXCEPT ![j] = [job[j] EXCEPT !.status = "PUBLISHED"]]
    BY <1>1, <1>3 DEF Reconcile
  <2>3. CASE job' = job
    BY <1>1, <1>3, <2>3
  <2>4. CASE job' = [job EXCEPT ![j] = [job[j] EXCEPT !.status = "PUBLISHED"]]
    <3>1. job'[j] = [job[j] EXCEPT !.status = "PUBLISHED"] /\ job[j] \in JobRow
      BY <1>1, <1>3, <2>4
    <3>2. job'[j].token = job[j].token /\ job'[j].started = job[j].started
            /\ job'[j].status = "PUBLISHED"
      BY <3>1 DEF JobRow
    <3> QED BY <1>1, <1>3, <2>1, <2>4, <3>2
  <2> QED BY <2>2, <2>3, <2>4
<1>7. /\ draft' \in [Drafts -> DraftRow]
      /\ \A d \in Drafts : draft'[d].ext = draft[d].ext \/ (d = DraftOf[j] /\ draft'[d].ext = result[j])
  <2> DEFINE row == [status |-> "PUBLISHED", ext |-> result[j]]
  <2>1. draft[DraftOf[j]] \in DraftRow /\ result[j] \in Optional(PostIds)
    BY <1>1, <1>3
  <2>2. row \in DraftRow /\ row.ext = result[j]
    BY <2>1 DEF DraftRow, DraftStatuses
  <2>3. draft' = draft \/ draft' = [draft EXCEPT ![DraftOf[j]] = row]
    BY <1>1, <1>3 DEF Reconcile
  <2> HIDE DEF row
  <2>4. CASE draft' = draft
    BY <1>1, <2>4
  <2>5. CASE draft' = [draft EXCEPT ![DraftOf[j]] = row]
    BY <1>1, <1>3, <2>2, <2>5
  <2> QED BY <2>3, <2>4, <2>5
<1>8. CronTypeOK'
  BY <1>1, <1>4, <1>6, <1>7 DEF CronTypeOK, StoreTypeOK
<1>9. job[j].started /\ job[j].token # NoToken
  BY <1>5, <1>3 DEF RowInv
<1>10. RowInv'
  BY <1>1, <1>3, <1>6, <1>9 DEF RowInv, PostsOfJob, JobIds
<1>11. RecordsAreReal'
  <2>1. \A i \in JobIds : result'[i] \subseteq PostsOfJob(i)'
    BY <1>1 DEF RecordsAreReal, PostsOfJob
  <2>2. \A i \in JobIds : job'[i].status = "PUBLISHED" => result'[i] # {}
    BY <1>1, <1>5, <1>6 DEF RecordsAreReal
  <2>3. result[j] \subseteq PostsOfDraft(DraftOf[j])
    BY <1>3 DEF RecordsAreReal, PostsOfJob, PostsOfDraft
  <2>4. \A d \in Drafts : draft'[d].ext \subseteq PostsOfDraft(d)'
    BY <1>1, <1>7, <2>3 DEF RecordsAreReal, PostsOfDraft
  <2> QED BY <2>1, <2>2, <2>4 DEF RecordsAreReal
<1>12. TokensKept
  BY <1>3, <1>6 DEF TokensKept, JobIds
<1>13. \A s \in Runs : run[s].pc \in Attempting => run[s].cur # j
  BY <1>5 DEF AttemptInv, AttemptOK
<1> QED BY <1>1, <1>2, <1>5, <1>6, <1>8, <1>10, <1>11, <1>12, <1>13, ReleaseStep

LEMMA MarkReconciliationInv ==
  ASSUME StoreAssumption, IInv, NEW r \in Runs, MarkReconciliation(r)
  PROVE  IInv'
<1> USE DEF IInv
<1>1. /\ run \in [Runs -> RunRow] /\ job \in [JobIds -> JobRow]
      /\ draft' = draft /\ result' = result /\ posts' = posts /\ now' = now
      /\ run[r].pc \in Attempting
      /\ Release(r) /\ SetInReview(run[r].cur, r)
  BY DEF CronTypeOK, StoreTypeOK, MarkReconciliation, Attempting, Outcomes
<1>2. job[run[r].cur].status = "IN_REVIEW" /\ run[r].cur \in JobIds
  BY <1>1 DEF AttemptInv, AttemptOK, CurInv, JobIds
<1>3. job' = job
  BY <1>1, <1>2 DEF SetInReview, JobRow
<1>4. run' \in [Runs -> RunRow]
  BY <1>1, ReleaseFacts
<1>5. CronTypeOK' /\ RowInv' /\ RecordsAreReal' /\ TokensKept
  BY <1>1, <1>3, <1>4 DEF CronTypeOK, StoreTypeOK, RowInv, RecordsAreReal,
     TokensKept, PostsOfJob, PostsOfDraft
<1> QED BY <1>1, <1>3, <1>5, ReleaseStep

LEMMA RecordFailureInv ==
  ASSUME StoreAssumption, IInv, NEW r \in Runs, RecordFailure(r)
  PROVE  IInv'
<1> USE DEF IInv
<1> DEFINE j == run[r].cur
           status == IF CanRetry(r, j) THEN "SCHEDULED" ELSE "FAILED"
<1>1. /\ run \in [Runs -> RunRow] /\ job \in [JobIds -> JobRow]
      /\ draft \in [Drafts -> DraftRow]
      /\ result' = result /\ posts' = posts /\ now' = now
      /\ run[r].pc \in Attempting
      /\ Release(r)
  BY DEF CronTypeOK, StoreTypeOK, RecordFailure, Attempting, Outcomes
<1>2. Holds(r, j) /\ result[j] = {} /\ job[j].token = r
  BY <1>1 DEF AttemptInv, AttemptOK, Holds
<1>3. j \in ScheduledJobs /\ j \in JobIds /\ DraftOf[j] \in Drafts /\ job[j] \in JobRow
  BY <1>1 DEF CurInv, JobIds, StoreAssumption
<1>4. /\ job' = [job EXCEPT ![j] = [Blocked(job[j], status) EXCEPT !.started = FALSE]]
      /\ draft' = [draft EXCEPT ![DraftOf[j]].status = status]
  BY <1>2 DEF RecordFailure
<1>5. status \in JobStatuses /\ status \in DraftStatuses /\ status \in {"SCHEDULED", "FAILED"}
  BY DEF JobStatuses, DraftStatuses
<1>6. status = "SCHEDULED" => PostsOfJob(j) = {}
  BY <1>1 DEF CanRetry, AttemptInv, AttemptOK
<1> HIDE DEF status
<1>7. /\ [Blocked(job[j], status) EXCEPT !.started = FALSE] \in JobRow
      /\ [Blocked(job[j], status) EXCEPT !.started = FALSE].status = status
      /\ [Blocked(job[j], status) EXCEPT !.started = FALSE].token = NoToken
      /\ ~[Blocked(job[j], status) EXCEPT !.started = FALSE].started
  BY <1>3, <1>5, BlockedType
<1>8. /\ job' \in [JobIds -> JobRow]
      /\ \A i \in JobIds \ {j} : job'[i] = job[i]
      /\ job'[j].token = NoToken /\ ~job'[j].started /\ job'[j].status = status
  BY <1>1, <1>3, <1>4, <1>7
<1>9. draft' \in [Drafts -> DraftRow] /\ \A d \in Drafts : draft'[d].ext = draft[d].ext
  BY <1>1, <1>3, <1>4, <1>5 DEF DraftRow
<1>10. run' \in [Runs -> RunRow]
  BY <1>1, ReleaseFacts
<1>11. CronTypeOK'
  BY <1>1, <1>8, <1>9, <1>10 DEF CronTypeOK, StoreTypeOK
<1>12. RowInv'
  BY <1>1, <1>2, <1>3, <1>5, <1>6, <1>8 DEF RowInv, PostsOfJob, JobIds
<1>13. RecordsAreReal'
  BY <1>1, <1>5, <1>8, <1>9 DEF RecordsAreReal, PostsOfJob, PostsOfDraft
<1>14. TokensKept
  BY <1>3, <1>8 DEF TokensKept, JobIds
<1>15. \A s \in Runs \ {r} : run[s].pc \in Attempting => run[s].cur # j
  BY <1>1, AloneInAttempt
<1> QED BY <1>1, <1>8, <1>11, <1>12, <1>13, <1>14, <1>15, ReleaseStep

LEMMA StartAttemptInv ==
  ASSUME StoreAssumption, IInv, NEW r \in Runs, StartAttempt(r)
  PROVE  IInv'
<1> USE DEF IInv
<1> DEFINE j == run[r].cur
<1>1. /\ run \in [Runs -> RunRow] /\ job \in [JobIds -> JobRow]
      /\ draft' = draft /\ result' = result /\ posts' = posts /\ now' = now
      /\ run[r].pc = "go" /\ run[r].pc \in Preparing
  BY DEF CronTypeOK, StoreTypeOK, StartAttempt, Preparing, Verdicts
<1>2. j \in ScheduledJobs /\ j \in JobIds /\ r # NoToken /\ job[j] \in JobRow
  BY <1>1 DEF CurInv, JobIds, StoreAssumption
<1>3. CASE job[j].status = "IN_REVIEW" /\ Holds(r, j)
  <2>1. /\ job' = [job EXCEPT ![j] = [job[j] EXCEPT !.attempts = @ + 1, !.started = TRUE]]
        /\ Goto(r, "calling")
    BY <1>1, <1>2, <1>3 DEF StartAttempt, JobRow
  <2>2. ~job[j].started /\ job[j].token = r
    BY <1>1, <1>3 DEF PrepareInv, Holds
  <2>3. PostsOfJob(j) = {} /\ result[j] = {}
    BY <1>2, <1>3, <2>2 DEF RowInv
  <2>4. /\ job' \in [JobIds -> JobRow]
        /\ \A i \in JobIds \ {j} : job'[i] = job[i]
        /\ job'[j].token = r /\ job'[j].started /\ job'[j].status = "IN_REVIEW"
    <3> DEFINE row == [job[j] EXCEPT !.attempts = @ + 1, !.started = TRUE]
    <3>1. row \in JobRow /\ row.token = r /\ row.started /\ row.status = "IN_REVIEW"
      <4>1. /\ job[j].attempts + 1 \in Nat
            /\ job[j].token = r /\ job[j].status = "IN_REVIEW"
        BY <1>2, <1>3, <2>2 DEF JobRow
      <4> QED BY <1>2, <4>1 DEF JobRow
    <3> HIDE DEF row
    <3>2. job' = [job EXCEPT ![j] = row]
      BY <2>1 DEF row
    <3> QED BY <1>1, <1>2, <3>1, <3>2
  <2>5. /\ "calling" \in RunPcs \ {"idle"} /\ "calling" \in Attempting /\ "calling" \notin Preparing
        /\ "calling" \notin {"success", "committing", "unfinalized"}
    BY PcFacts DEF RunPcs, Attempting
  <2>6. /\ run' \in [Runs -> RunRow]
        /\ \A s \in Runs \ {r} : run'[s] = run[s]
        /\ run'[r].pc = "calling" /\ run'[r].cur = j
    BY <1>1, <2>1, <2>5, GotoFacts
  <2>7. CronTypeOK'
    BY <1>1, <2>4, <2>6 DEF CronTypeOK, StoreTypeOK
  <2>8. CurInv'
    BY <1>2, <2>5, <2>6 DEF CurInv
  <2>9. RowInv'
    BY <1>1, <1>2, <2>3, <2>4 DEF RowInv, PostsOfJob, JobIds
  <2>10. \A s \in Runs : run[s].pc \in Attempting => run[s].cur # j /\ run[s].cur \in JobIds
    BY <2>2 DEF AttemptInv, AttemptOK, CurInv, JobIds
  <2>11. AttemptInv'
    <3> SUFFICES ASSUME NEW s \in Runs, run'[s].pc \in Attempting
                 PROVE  AttemptOK(s, run[s].cur, run[s].pc)'
      BY DEF AttemptInv
    <3>1. CASE s = r
      BY <3>1, <1>1, <2>3, <2>4, <2>5, <2>6 DEF AttemptOK, Holds, PostsOfJob
    <3>2. CASE s # r
      <4>1. run'[s] = run[s] /\ job'[run[s].cur] = job[run[s].cur]
        BY <3>2, <2>4, <2>6, <2>10
      <4>2. AttemptOK(s, run[s].cur, run[s].pc)
        BY <4>1 DEF AttemptInv
      <4> QED BY <4>1, <4>2, <1>1 DEF AttemptOK, Holds, PostsOfJob
    <3> QED BY <3>1, <3>2
  <2>12. PrepareInv'
    <3> SUFFICES ASSUME NEW s \in Runs, run'[s].pc \in Preparing
                 PROVE  /\ job'[run'[s].cur].token = s => ~job'[run'[s].cur].started
                        /\ run'[s].pc \in {"reconcile", "reconciling"} => result[run'[s].cur] # {}
      BY <1>1 DEF PrepareInv, Holds
    <3>1. s # r /\ run'[s] = run[s] /\ run[s].cur \in JobIds
      BY <2>5, <2>6 DEF CurInv, JobIds
    <3> QED BY <3>1, <2>4 DEF PrepareInv, Holds
  <2>13. RecordsAreReal' /\ OnePostPerScheduledJob'
    BY <1>1, <1>3, <2>4 DEF RecordsAreReal, PostsOfJob, PostsOfDraft, OnePostPerScheduledJob
  <2>14. GoesOn(r)
    BY <1>1, <2>1, <2>5, GotoGoesOn
  <2>15. TokensKept
    BY <1>2, <2>2, <2>4 DEF TokensKept, JobIds
  <2> QED BY <2>7, <2>8, <2>9, <2>11, <2>12, <2>13, <2>14, <2>15, FreshStep
<1>4. CASE ~(job[j].status = "IN_REVIEW" /\ Holds(r, j))
  <2>1. job' = job /\ Release(r)
    BY <1>4 DEF StartAttempt
  <2>2. run' \in [Runs -> RunRow]
    BY <1>1, <2>1, ReleaseFacts
  <2>3. CronTypeOK' /\ RowInv' /\ RecordsAreReal' /\ TokensKept
    BY <1>1, <2>1, <2>2 DEF CronTypeOK, StoreTypeOK, RowInv, RecordsAreReal,
       TokensKept, PostsOfJob, PostsOfDraft
  <2> QED BY <1>1, <2>1, <2>3, ReleaseStep
<1> QED BY <1>3, <1>4

LEMMA CallProviderInv ==
  ASSUME StoreAssumption, IInv, NEW r \in Runs, CallProvider(r)
  PROVE  IInv'
<1> USE DEF IInv
<1> DEFINE j == run[r].cur
<1>1. /\ run \in [Runs -> RunRow]
      /\ draft' = draft /\ job' = job /\ result' = result /\ now' = now
      /\ run[r].pc = "calling" /\ run[r].pc \in Attempting
  BY DEF CronTypeOK, CallProvider, Attempting
<1>2. PICK outcome \in Outcomes : Call(j, r, outcome) /\ Goto(r, outcome)
  BY DEF CallProvider
<1>3. /\ posts' = posts \/ posts' = posts \union {<<j, r>>}
      /\ outcome = "success" => posts' = posts \union {<<j, r>>}
      /\ outcome = "retryable" => posts' = posts
  BY <1>2 DEF Call, MayHavePosted, Outcomes
<1>4. /\ outcome \in RunPcs \ {"idle"} /\ outcome \in Attempting /\ outcome \notin Preparing
      /\ outcome \notin {"calling", "committing", "unfinalized"}
  BY PcFacts DEF RunPcs, Attempting, Outcomes
<1>5. /\ run' \in [Runs -> RunRow]
      /\ \A s \in Runs \ {r} : run'[s] = run[s]
      /\ run'[r].pc = outcome /\ run'[r].cur = j
  BY <1>1, <1>2, <1>4, GotoFacts
<1>6. /\ j \in ScheduledJobs /\ j \in JobIds
      /\ PostsOfJob(j) = {} /\ job[j].started /\ job[j].status = "IN_REVIEW"
      /\ job[j].token = r /\ result[j] = {}
  BY <1>1 DEF CurInv, JobIds, AttemptInv, AttemptOK, Holds
<1>7. posts \subseteq posts' /\ \A i \in JobIds \ {j} : PostsOfJob(i)' = PostsOfJob(i)
  BY <1>3 DEF PostsOfJob
<1>8. CronTypeOK'
  <2>1. <<j, r>> \in PostIds
    BY <1>6 DEF PostIds, Actors
  <2> QED BY <1>1, <1>3, <1>5, <2>1 DEF CronTypeOK, StoreTypeOK
<1>9. CurInv'
  BY <1>1, <1>4, <1>5 DEF CurInv
<1>10. RowInv'
  BY <1>1, <1>6, <1>7 DEF RowInv, JobIds
<1>11. \A s \in Runs \ {r} : run[s].pc \in Attempting => run[s].cur # j /\ run[s].cur \in JobIds
  BY <1>1, AloneInAttempt DEF CurInv, JobIds
<1>12. AttemptInv'
  <2> SUFFICES ASSUME NEW s \in Runs, run'[s].pc \in Attempting
               PROVE  AttemptOK(s, run[s].cur, run[s].pc)'
    BY DEF AttemptInv
  <2>1. CASE s = r
    <3>1. outcome \in {"calling", "retryable"} => PostsOfJob(j)' = {}
      BY <1>3, <1>4, <1>5, <1>6 DEF PostsOfJob
    <3>2. outcome \in {"success", "committing", "unfinalized"} => <<j, r>> \in posts'
      BY <1>3, <1>4
    <3> QED BY <2>1, <3>1, <3>2, <1>1, <1>5, <1>6 DEF AttemptOK, Holds, PostsOfJob
  <2>2. CASE s # r
    <3>1. run'[s] = run[s] /\ run[s].cur # j /\ run[s].cur \in JobIds
      BY <2>2, <1>5, <1>11
    <3>2. AttemptOK(s, run[s].cur, run[s].pc)
      BY <3>1 DEF AttemptInv
    <3>3. {p \in posts' : p[1] = run[s].cur} = {p \in posts : p[1] = run[s].cur}
      BY <3>1, <1>3
    <3> QED BY <3>1, <3>2, <3>3, <1>1, <1>7 DEF AttemptOK, Holds, PostsOfJob
  <2> QED BY <2>1, <2>2
<1>13. PrepareInv'
  BY <1>1, <1>4, <1>5 DEF PrepareInv, Holds
<1>14. RecordsAreReal'
  BY <1>1, <1>7 DEF RecordsAreReal, PostsOfJob, PostsOfDraft
<1>15. OnePostPerScheduledJob'
  <2> SUFFICES ASSUME NEW p \in posts', NEW q \in posts', p[1] = q[1], p[1] \in ScheduledJobs
               PROVE  p = q
    BY DEF OnePostPerScheduledJob
  <2>1. CASE p[1] = j
    <3>1. p \notin posts /\ q \notin posts
      BY <2>1, <1>6 DEF PostsOfJob
    <3> QED BY <3>1, <1>3
  <2>2. CASE p[1] # j
    BY <2>2, <1>3 DEF OnePostPerScheduledJob
  <2> QED BY <2>1, <2>2
<1>16. GoesOn(r)
  BY <1>1, <1>2, <1>4, GotoGoesOn
<1>17. TokensKept
  BY <1>1 DEF TokensKept
<1> QED BY <1>8, <1>9, <1>10, <1>12, <1>13, <1>14, <1>15, <1>16, <1>17, FreshStep

\* A confirmed post on the way to its record: only the control point moves.
LEMMA GotoInAttempt ==
  ASSUME StoreAssumption, IInv, NEW r \in Runs, NEW pc \in {"committing", "unfinalized"},
         run[r].pc \in {"success", "committing"}, Goto(r, pc),
         UNCHANGED <<draft, job, result, posts, now>>
  PROVE  IInv'
<1> USE DEF IInv
<1>1. /\ run \in [Runs -> RunRow] /\ run[r].pc \in Attempting
      /\ pc \in RunPcs \ {"idle"} /\ pc \in Attempting /\ pc \notin Preparing
      /\ pc \notin {"calling", "retryable"}
  BY PcFacts DEF CronTypeOK, RunPcs, Attempting, Outcomes
<1>2. /\ run' \in [Runs -> RunRow]
      /\ \A s \in Runs \ {r} : run'[s] = run[s]
      /\ run'[r].pc = pc /\ run'[r].cur = run[r].cur
  BY <1>1, GotoFacts
<1>3. CronTypeOK'
  BY <1>2 DEF CronTypeOK, StoreTypeOK
<1>4. CurInv'
  BY <1>1, <1>2 DEF CurInv
<1>5. AttemptInv'
  <2> SUFFICES ASSUME NEW s \in Runs, run'[s].pc \in Attempting
               PROVE  AttemptOK(s, run[s].cur, run[s].pc)'
    BY DEF AttemptInv
  <2>1. CASE s = r
    <3>1. AttemptOK(r, run[r].cur, run[r].pc)
      BY <1>1 DEF AttemptInv
    <3> QED BY <2>1, <3>1, <1>1, <1>2 DEF AttemptOK, Holds, PostsOfJob
  <2>2. CASE s # r
    <3>1. run'[s] = run[s] /\ AttemptOK(s, run[s].cur, run[s].pc)
      BY <2>2, <1>2 DEF AttemptInv
    <3> QED BY <3>1 DEF AttemptOK, Holds, PostsOfJob
  <2> QED BY <2>1, <2>2
<1>6. PrepareInv'
  BY <1>1, <1>2 DEF PrepareInv, Holds
<1>7. RowInv' /\ RecordsAreReal' /\ OnePostPerScheduledJob' /\ TokensKept
  BY DEF RowInv, RecordsAreReal, PostsOfJob, PostsOfDraft, OnePostPerScheduledJob, TokensKept
<1>8. GoesOn(r)
  BY <1>1, GotoGoesOn
<1> QED BY <1>3, <1>4, <1>5, <1>6, <1>7, <1>8, FreshStep

LEMMA CheckFinalizeInv ==
  ASSUME StoreAssumption, IInv, NEW r \in Runs, CheckFinalize(r)
  PROVE  IInv'
<1>1. PICK pc \in {"committing", "unfinalized"} : Goto(r, pc)
  BY DEF CheckFinalize
<1> QED BY <1>1, GotoInAttempt DEF CheckFinalize, storeVars

LEMMA FinalizeSuccessInv ==
  ASSUME StoreAssumption, IInv, NEW r \in Runs, FinalizeSuccess(r)
  PROVE  IInv'
<1> USE DEF IInv
<1> DEFINE j == run[r].cur
           post == {<<j, r>>}
<1>1. /\ run \in [Runs -> RunRow] /\ job \in [JobIds -> JobRow]
      /\ draft \in [Drafts -> DraftRow] /\ result \in [JobIds -> Optional(PostIds)]
      /\ posts' = posts /\ now' = now
      /\ run[r].pc = "committing" /\ run[r].pc \in Attempting
  BY DEF CronTypeOK, StoreTypeOK, FinalizeSuccess, Attempting
<1>2. j \in ScheduledJobs /\ j \in JobIds /\ DraftOf[j] \in Drafts /\ job[j] \in JobRow
  BY <1>1 DEF CurInv, JobIds, StoreAssumption
<1>3. <<j, r>> \in posts /\ job[j].started /\ job[j].token = r /\ r # NoToken
  BY <1>1 DEF AttemptInv, AttemptOK, Holds, StoreAssumption
<1>4. CASE /\ result' = [result EXCEPT ![j] = post]
           /\ draft' = [draft EXCEPT ![DraftOf[j]] = [status |-> "PUBLISHED", ext |-> post]]
           /\ job' = [job EXCEPT ![j].status = "PUBLISHED"]
           /\ Release(r)
  <2>1. run' \in [Runs -> RunRow]
    BY <1>1, <1>4, ReleaseFacts
  <2>2. post \in Optional(PostIds) /\ post # {} /\ post \subseteq posts
    BY <1>2, <1>3 DEF Optional, PostIds, Actors
  <2>3. [status |-> "PUBLISHED", ext |-> post] \in DraftRow
    BY <2>2 DEF DraftRow, DraftStatuses
  <2>4. /\ job' \in [JobIds -> JobRow]
        /\ \A i \in JobIds \ {j} : job'[i] = job[i]
        /\ job'[j].token = r /\ job'[j].started /\ job'[j].status = "PUBLISHED"
    <3> DEFINE row == [job[j] EXCEPT !.status = "PUBLISHED"]
    <3>1. row \in JobRow /\ row.token = r /\ row.started /\ row.status = "PUBLISHED"
      BY <1>2, <1>3 DEF JobRow, JobStatuses
    <3>2. job' = [job EXCEPT ![j] = row]
      BY <1>4
    <3> HIDE DEF row
    <3> QED BY <1>1, <1>2, <3>1, <3>2
  <2>5. /\ result' \in [JobIds -> Optional(PostIds)]
        /\ \A i \in JobIds \ {j} : result'[i] = result[i]
        /\ result'[j] = post
    BY <1>1, <1>2, <1>4, <2>2
  <2>6. /\ draft' \in [Drafts -> DraftRow]
        /\ \A d \in Drafts \ {DraftOf[j]} : draft'[d] = draft[d]
        /\ draft'[DraftOf[j]].ext = post
    BY <1>1, <1>2, <1>4, <2>3
  <2>7. CronTypeOK'
    BY <1>1, <2>1, <2>4, <2>5, <2>6 DEF CronTypeOK, StoreTypeOK
  <2>8. RowInv'
    BY <1>1, <1>2, <1>3, <2>4, <2>5 DEF RowInv, PostsOfJob, JobIds
  <2>9. RecordsAreReal'
    <3>1. post \subseteq PostsOfJob(j) /\ post \subseteq PostsOfDraft(DraftOf[j])
      BY <1>3 DEF PostsOfJob, PostsOfDraft
    <3>2. \A i \in JobIds : result'[i] \subseteq PostsOfJob(i)'
      BY <1>1, <2>5, <3>1 DEF RecordsAreReal, PostsOfJob
    <3>3. \A i \in JobIds : job'[i].status = "PUBLISHED" => result'[i] # {}
      BY <2>2, <2>4, <2>5 DEF RecordsAreReal
    <3>4. \A d \in Drafts : draft'[d].ext \subseteq PostsOfDraft(d)'
      BY <1>1, <2>6, <3>1 DEF RecordsAreReal, PostsOfDraft
    <3> QED BY <3>2, <3>3, <3>4 DEF RecordsAreReal
  <2>10. TokensKept
    BY <1>2, <1>3, <2>4 DEF TokensKept, JobIds
  <2>11. \A s \in Runs \ {r} : run[s].pc \in Attempting => run[s].cur # j
    BY <1>1, AloneInAttempt
  <2>12. \A i \in JobIds \ {run[r].cur} : job'[i] = job[i] /\ result'[i] = result[i]
    BY <2>4, <2>5
  <2>13. result'[run[r].cur] # {} /\ job[run[r].cur].started
    BY <1>3, <2>2, <2>5
  <2> QED BY <1>1, <1>4, <2>7, <2>8, <2>9, <2>10, <2>11, <2>12, <2>13, ReleaseStep
<1>5. CASE Goto(r, "unfinalized") /\ UNCHANGED <<draft, job, result>>
  BY <1>1, <1>5, GotoInAttempt
<1> QED BY <1>4, <1>5 DEF FinalizeSuccess

-----------------------------------------------------------------------------
(* The invariant and what follows from it *)

LEMMA StutterInv ==
  ASSUME IInv, run' = run, job' = job, draft' = draft, result' = result, posts' = posts,
         now' \in Nat
  PROVE  IInv'
<1> USE DEF IInv
<1>1. CronTypeOK'
  BY DEF CronTypeOK, StoreTypeOK
<1>2. CurInv' /\ RowInv' /\ PrepareInv' /\ SnapInv'
  BY DEF CurInv, RowInv, PrepareInv, SnapInv, Holds, PostsOfJob
<1>3. AttemptInv'
  BY DEF AttemptInv, AttemptOK, Holds, PostsOfJob
<1>4. FreshInv'
  BY DEF FreshInv, Fresh, Pending
<1>5. RecordsAreReal' /\ OnePostPerScheduledJob'
  BY DEF RecordsAreReal, OnePostPerScheduledJob, PostsOfJob, PostsOfDraft
<1> QED BY <1>1, <1>2, <1>3, <1>4, <1>5

\* Every step of every invocation, and of the clock, preserves the invariant.
THEOREM NextInv == ASSUME StoreAssumption, IInv, [CronNext]_cronVars PROVE IInv'
<1>1. ASSUME NEW r \in Runs, RunStep(r) PROVE IInv'
  <2>1. CASE StartRun(r) BY <2>1, StartRunInv
  <2>2. CASE EndRun(r) BY <2>2, EndRunInv
  <2>3. CASE \E j \in ScheduledJobs : Claim(r, j) \/ LoseClaim(r, j) \/ FlagAttempted(r, j)
    BY <2>3, ClaimInv, LoseClaimInv, FlagAttemptedInv
  <2>4. CASE LoadContext(r) BY <2>4, LoadContextInv
  <2>5. CASE CloseWithoutProvider(r) BY <2>5, CloseWithoutProviderInv
  <2>6. CASE StartAttempt(r) BY <2>6, StartAttemptInv
  <2>7. CASE CallProvider(r) BY <2>7, CallProviderInv
  <2>8. CASE FinalizeSuccess(r) BY <2>8, FinalizeSuccessInv
  <2>9. CASE MarkReconciliation(r) BY <2>9, MarkReconciliationInv
  <2>10. CASE RecordFailure(r) BY <2>10, RecordFailureInv
  <2>11. CASE CheckReconcile(r) BY <2>11, CheckReconcileInv
  <2>12. CASE Reconcile(r) BY <2>12, ReconcileInv
  <2>13. CASE CheckFinalize(r) BY <2>13, CheckFinalizeInv
  <2> QED BY <1>1, <2>1, <2>2, <2>3, <2>4, <2>5, <2>6, <2>7, <2>8, <2>9, <2>10, <2>11, <2>12,
             <2>13 DEF RunStep
<1>2. CASE Tick /\ UNCHANGED run
  <2>1. now' \in Nat
    BY <1>2 DEF Tick, IInv, CronTypeOK, StoreTypeOK
  <2> QED BY <1>2, <2>1, StutterInv DEF Tick
<1>3. CASE UNCHANGED cronVars
  <2>1. now' \in Nat
    BY <1>3 DEF cronVars, storeVars, IInv, CronTypeOK, StoreTypeOK
  <2> QED BY <1>3, <2>1, StutterInv DEF cronVars, storeVars
<1> QED BY <1>1, <1>2, <1>3 DEF CronNext

THEOREM Invariance == CronSpec => []IInv
<1>1. CronInit => IInv
  BY StoreAssumption, InitInv
<1>2. IInv /\ [CronNext]_cronVars => IInv'
  BY StoreAssumption, NextInv
<1> QED BY <1>1, <1>2, PTL DEF CronSpec

\* The tables and the runs keep their types (all of the module's variables).
THEOREM TypeCorrect == CronSpec => []CronTypeOK
<1>1. IInv => CronTypeOK
  BY DEF IInv
<1> QED BY <1>1, Invariance, PTL

\* Whatever invocations overlap, repeat or die, and however long they take, the
\* provider publishes at most once for a scheduled job.
THEOREM AtMostOnePost == CronSpec => []OnePostPerScheduledJob
<1>1. IInv => OnePostPerScheduledJob
  BY DEF IInv
<1> QED BY <1>1, Invariance, PTL

\* A run that marked its attempt owns the job alone until the outcome is recorded.
THEOREM AttemptsExclusive == CronSpec => []AttemptIsExclusive
<1>1. IInv => AttemptIsExclusive
  <2> SUFFICES ASSUME IInv, NEW r \in Runs, InAttempt(r)
               PROVE  /\ Holds(r, run[r].cur)
                      /\ \A s \in Runs \ {r} : ~(InAttempt(s) /\ run[s].cur = run[r].cur)
    BY DEF AttemptIsExclusive
  <2>1. \A s \in Runs : InAttempt(s) => run[s].pc \in Attempting
    BY DEF InAttempt, Attempting
  <2> QED BY <2>1, AloneInAttempt DEF IInv, AttemptInv, AttemptOK
<1> QED BY <1>1, Invariance, PTL

\* A job the next invocation may claim has not been published by an earlier attempt.
THEOREM ClaimableUnpublished == CronSpec => []ClaimableIsUnpublished
<1>1. IInv => ClaimableIsUnpublished
  BY DEF IInv, ClaimableIsUnpublished, Claimable, Reclaimable, RowInv
<1> QED BY <1>1, Invariance, PTL

\* Ok results, PUBLISHED jobs and external ids all name real posts.
THEOREM RecordsReal == CronSpec => []RecordsAreReal
<1>1. IInv => RecordsAreReal
  BY DEF IInv
<1> QED BY <1>1, Invariance, PTL

\* The post id on a result row is never lost nor replaced, by any invocation.
THEOREM SuccessIsMonotone == CronSpec => ResultMonotone
<1>1. ASSUME IInv, [CronNext]_cronVars, NEW j \in JobIds, result[j] # {}
      PROVE  result'[j] = result[j]
  <2>1. result \in [JobIds -> Optional(PostIds)]
    BY <1>1 DEF IInv, CronTypeOK, StoreTypeOK
  <2>2. ASSUME NEW r \in Runs, RunStep(r) PROVE result' = result \/ FinalizeSuccess(r)
    BY <2>2 DEF RunStep, StartRun, EndRun, Claim, LoseClaim, FlagAttempted, LoadContext,
       CloseWithoutProvider, CheckReconcile, Reconcile, StartAttempt, CallProvider,
       CheckFinalize, MarkReconciliation, RecordFailure, storeVars
  <2>3. ASSUME NEW r \in Runs, FinalizeSuccess(r) PROVE result'[j] = result[j]
    <3>1. run[r].pc = "committing" /\ run[r].pc \in Attempting
      BY <2>3 DEF FinalizeSuccess, Attempting
    <3>2. result[run[r].cur] = {}
      BY <1>1, <3>1 DEF IInv, AttemptInv, AttemptOK
    <3>3. run[r].cur # j
      BY <1>1, <3>2
    <3> QED BY <2>1, <2>3, <3>3 DEF FinalizeSuccess
  <2>4. result' = result \/ \E r \in Runs : FinalizeSuccess(r)
    BY <1>1, <2>2 DEF CronNext, Tick, cronVars, storeVars
  <2> QED BY <2>3, <2>4
<1>2. IInv /\ [CronNext]_cronVars =>
        [\A j \in JobIds : result[j] # {} => result'[j] = result[j]]_cronVars
  BY <1>1
<1> QED BY <1>2, Invariance, PTL DEF CronSpec, ResultMonotone

-----------------------------------------------------------------------------
(* CronPublisher implements JobLifecycle, for every set of scheduled jobs  *)
(* and of invocations.                                                     *)

phaseOf == [j \in ScheduledJobs |-> PhaseOf(j)]
triesOf == [j \in ScheduledJobs |-> job[j].attempts]

\* A job that may still be attempted has a try left.
TriesInv ==
  \A j \in ScheduledJobs :
    job[j].status \in {"SCHEDULED", "IN_REVIEW"} /\ ~job[j].started =>
      job[j].attempts < MaxAttempts

LInv == IInv /\ TriesInv

\* A step that leaves every other row alone moves at most this job.
Others(j) == \A i \in ScheduledJobs \ {j} : job'[i] = job[i] /\ result'[i] = result[i]

LEMMA OthersStep ==
  ASSUME NEW j \in ScheduledJobs, Others(j)
  PROVE  /\ phaseOf' = [phaseOf EXCEPT ![j] = PhaseOf(j)']
         /\ triesOf' = [triesOf EXCEPT ![j] = job'[j].attempts]
         /\ phaseOf[j] = PhaseOf(j) /\ triesOf[j] = job[j].attempts
<1>1. \A i \in ScheduledJobs \ {j} : PhaseOf(i)' = PhaseOf(i) /\ job'[i].attempts = job[i].attempts
  BY DEF Others, PhaseOf
<1>2. phaseOf' = [i \in ScheduledJobs |-> PhaseOf(i)']
  BY DEF phaseOf
<1>3. triesOf' = [i \in ScheduledJobs |-> job'[i].attempts]
  BY DEF triesOf
<1> QED BY <1>1, <1>2, <1>3 DEF phaseOf, triesOf

-----------------------------------------------------------------------------
(* The two ways a step of the publisher shows in the lifecycle *)

LStep == [Lifecycle!Next]_(Lifecycle!vars)

\* A job whose phase and attempts stay is a stutter.
Still == \A j \in ScheduledJobs : PhaseOf(j)' = PhaseOf(j) /\ job'[j].attempts = job[j].attempts

LEMMA StillStep == ASSUME Still PROVE LStep
<1>1. phaseOf' = [i \in ScheduledJobs |-> PhaseOf(i)']
  BY DEF phaseOf
<1>2. triesOf' = [i \in ScheduledJobs |-> job'[i].attempts]
  BY DEF triesOf
<1>3. phaseOf' = phaseOf /\ triesOf' = triesOf
  BY <1>1, <1>2 DEF phaseOf, triesOf, Still
<1> QED BY <1>3 DEF LStep, Lifecycle!vars, phaseOf, triesOf

\* A job that moves along an arrow of the lifecycle, the others staying.
LEMMA MoveStep ==
  ASSUME NEW j \in ScheduledJobs, Others(j),
         \/ /\ job'[j].attempts = job[j].attempts
            /\ <<PhaseOf(j), PhaseOf(j)'>> \in
                 {<<"absent", "waiting">>, <<"waiting", "claimed">>, <<"claimed", "waiting">>,
                  <<"claimed", "failed">>, <<"attempting", "failed">>,
                  <<"attempting", "published">>}
         \/ /\ job'[j].attempts = job[j].attempts /\ job[j].attempts < MaxAttempts
            /\ PhaseOf(j) = "attempting" /\ PhaseOf(j)' = "waiting"
         \/ /\ job'[j].attempts = job[j].attempts + 1 /\ job[j].attempts < MaxAttempts
            /\ PhaseOf(j) = "claimed" /\ PhaseOf(j)' = "attempting"
  PROVE  LStep
<1>1. /\ phaseOf' = [phaseOf EXCEPT ![j] = PhaseOf(j)']
      /\ triesOf' = [triesOf EXCEPT ![j] = job'[j].attempts]
      /\ phaseOf[j] = PhaseOf(j) /\ triesOf[j] = job[j].attempts
  BY OthersStep
<1>2. job'[j].attempts = job[j].attempts => triesOf' = triesOf
  BY <1>1 DEF triesOf
<1> DEFINE Arrow(from, to) == phaseOf[j] = from /\ phaseOf' = [phaseOf EXCEPT ![j] = to]
<1>3. \A from, to : PhaseOf(j) = from /\ PhaseOf(j)' = to => Arrow(from, to)
  BY <1>1
<1>11. CASE job'[j].attempts = job[j].attempts /\ PhaseOf(j) = "absent" /\ PhaseOf(j)' = "waiting"
  <2>1. Lifecycle!Create(j)
    BY <1>2, <1>3, <1>11 DEF Lifecycle!Create, Lifecycle!Move, phaseOf, triesOf
  <2> QED BY <2>1 DEF LStep, Lifecycle!Next
<1>4. CASE job'[j].attempts = job[j].attempts /\ PhaseOf(j) = "waiting" /\ PhaseOf(j)' = "claimed"
  <2>1. Lifecycle!Claim(j)
    BY <1>2, <1>3, <1>4 DEF Lifecycle!Claim, Lifecycle!Move, phaseOf, triesOf
  <2> QED BY <2>1 DEF LStep, Lifecycle!Next
<1>5. CASE job'[j].attempts = job[j].attempts /\ PhaseOf(j) = "claimed" /\ PhaseOf(j)' = "waiting"
  <2>1. Lifecycle!PutBack(j)
    BY <1>2, <1>3, <1>5 DEF Lifecycle!PutBack, Lifecycle!Move, phaseOf, triesOf
  <2> QED BY <2>1 DEF LStep, Lifecycle!Next
<1>6. CASE job'[j].attempts = job[j].attempts /\ PhaseOf(j) = "claimed" /\ PhaseOf(j)' = "failed"
  <2>1. Lifecycle!Abandon(j)
    BY <1>2, <1>3, <1>6 DEF Lifecycle!Abandon, Lifecycle!Move, phaseOf, triesOf
  <2> QED BY <2>1 DEF LStep, Lifecycle!Next
<1>7. CASE job'[j].attempts = job[j].attempts /\ PhaseOf(j) = "attempting" /\ PhaseOf(j)' = "failed"
  <2>1. Lifecycle!Fail(j)
    BY <1>2, <1>3, <1>7 DEF Lifecycle!Fail, Lifecycle!Move, phaseOf, triesOf
  <2> QED BY <2>1 DEF LStep, Lifecycle!Next
<1>8. CASE job'[j].attempts = job[j].attempts /\ PhaseOf(j) = "attempting" /\ PhaseOf(j)' = "published"
  <2>1. Lifecycle!Publish(j)
    BY <1>2, <1>3, <1>8 DEF Lifecycle!Publish, Lifecycle!Move, phaseOf, triesOf
  <2> QED BY <2>1 DEF LStep, Lifecycle!Next
<1>9. CASE /\ job'[j].attempts = job[j].attempts /\ job[j].attempts < MaxAttempts
           /\ PhaseOf(j) = "attempting" /\ PhaseOf(j)' = "waiting"
  <2>1. Lifecycle!Refuse(j)
    BY <1>1, <1>2, <1>3, <1>9 DEF Lifecycle!Refuse, Lifecycle!Move, phaseOf, triesOf
  <2> QED BY <2>1 DEF LStep, Lifecycle!Next
<1>10. CASE /\ job'[j].attempts = job[j].attempts + 1 /\ job[j].attempts < MaxAttempts
            /\ PhaseOf(j) = "claimed" /\ PhaseOf(j)' = "attempting"
  <2>0. triesOf' = [triesOf EXCEPT ![j] = @ + 1]
    BY <1>1, <1>10 DEF triesOf
  <2>1. Lifecycle!Attempt(j)
    BY <1>1, <2>0, <1>3, <1>10 DEF Lifecycle!Attempt, Lifecycle!Move, phaseOf, triesOf
  <2> QED BY <2>1 DEF LStep, Lifecycle!Next
<1> QED BY <1>4, <1>5, <1>6, <1>7, <1>8, <1>9, <1>10, <1>11

-----------------------------------------------------------------------------
(* Which arrow each step takes, and that a try is left *)

\* Steps that leave the job and result tables alone.
LEMMA TablesStay ==
  ASSUME LInv, job' = job, result' = result
  PROVE  LStep /\ TriesInv'
<1>1. Still
  BY DEF Still, PhaseOf
<1>2. TriesInv'
  BY DEF LInv, TriesInv
<1> QED BY <1>1, <1>2, StillStep

\* What one job's row means when the invariant holds.
LEMMA RowMeaning ==
  ASSUME LInv, NEW j \in ScheduledJobs
  PROVE  /\ j \in JobIds /\ job \in [JobIds -> JobRow] /\ result \in [JobIds -> Optional(PostIds)]
         /\ job[j] \in JobRow /\ job[j].attempts \in Nat
         /\ ~job[j].started => result[j] = {} /\ job[j].status # "PUBLISHED"
         /\ job[j].token # NoToken => job[j].status \in {"IN_REVIEW", "PUBLISHED"}
<1>1. /\ j \in JobIds /\ job \in [JobIds -> JobRow]
      /\ result \in [JobIds -> Optional(PostIds)]
  BY DEF LInv, IInv, CronTypeOK, StoreTypeOK, JobIds
<1>2. job[j].attempts \in Nat
  BY <1>1 DEF JobRow
<1>3. /\ result[j] # {} => job[j].started
      /\ job[j].token # NoToken => job[j].status \in {"IN_REVIEW", "PUBLISHED"}
      /\ job[j].status = "PUBLISHED" => result[j] # {}
  BY <1>1 DEF LInv, IInv, RowInv, RecordsAreReal
<1> QED BY <1>1, <1>2, <1>3

LEMMA ClaimMoves ==
  ASSUME StoreAssumption, LInv, NEW r \in Runs, NEW j \in ScheduledJobs, Claim(r, j)
  PROVE  LStep /\ TriesInv'
<1>1. /\ j \in JobIds /\ job \in [JobIds -> JobRow] /\ job[j] \in JobRow
      /\ ~job[j].started => result[j] = {} /\ job[j].status # "PUBLISHED"
  BY RowMeaning
<1>2. ~job[j].started /\ job[j].status \in {"SCHEDULED", "IN_REVIEW"} /\ result[j] = {}
  BY <1>1 DEF Claim, GetsClaim, Reclaimable, Claimable, LInv, IInv, RowInv
<1>3. /\ \A i \in JobIds \ {j} : job'[i] = job[i]
      /\ job'[j].status = "IN_REVIEW" /\ job'[j].started = job[j].started
      /\ job'[j].attempts = job[j].attempts
      /\ result' = result
  BY <1>1 DEF Claim, JobRow
<1>4. Others(j)
  BY <1>3 DEF Others, JobIds
<1>5. PhaseOf(j)' = "claimed"
  BY <1>2, <1>3 DEF PhaseOf
<1>6. TriesInv'
  BY <1>2, <1>3, <1>4 DEF LInv, TriesInv, Others
<1>7. CASE job[j].status = "SCHEDULED"
  <2>1. PhaseOf(j) = "waiting"
    BY <1>2, <1>7 DEF PhaseOf
  <2> QED BY <2>1, <1>3, <1>4, <1>5, <1>6, MoveStep
<1>8. CASE job[j].status = "IN_REVIEW"
  <2>1. PhaseOf(j) = "claimed"
    BY <1>2, <1>8 DEF PhaseOf
  <2>2. Still
    BY <2>1, <1>3, <1>4, <1>5 DEF Still, Others, PhaseOf
  <2> QED BY <2>2, <1>6, StillStep
<1> QED BY <1>2, <1>7, <1>8

\* Flagging a job under a token changes neither its phase nor its tries.
LEMMA SetInReviewStays ==
  ASSUME LInv, NEW j \in ScheduledJobs, NEW token, token # NoToken,
         SetInReview(j, token), result' = result
  PROVE  LStep /\ TriesInv'
<1>1. /\ j \in JobIds /\ job \in [JobIds -> JobRow] /\ job[j] \in JobRow
      /\ ~job[j].started => result[j] = {} /\ job[j].status # "PUBLISHED"
      /\ job[j].token # NoToken => job[j].status \in {"IN_REVIEW", "PUBLISHED"}
  BY RowMeaning
<1>2. CASE job[j].token # token
  <2>1. job' = job
    BY <1>2 DEF SetInReview
  <2> QED BY <2>1, TablesStay
<1>3. CASE job[j].token = token
  <2>1. /\ \A i \in JobIds \ {j} : job'[i] = job[i]
        /\ job'[j].status = "IN_REVIEW" /\ job'[j].started = job[j].started
        /\ job'[j].attempts = job[j].attempts
    BY <1>1, <1>3 DEF SetInReview, JobRow
  <2>2. job[j].status \in {"IN_REVIEW", "PUBLISHED"}
    BY <1>1, <1>3
  <2>3. job[j].status = "PUBLISHED" => result[j] # {} /\ job[j].started
    BY <1>1 DEF LInv, IInv, RecordsAreReal
  <2>4. PhaseOf(j)' = PhaseOf(j)
    BY <2>1, <2>2, <2>3 DEF PhaseOf
  <2>5. Others(j)
    BY <2>1 DEF Others, JobIds
  <2>6. Still
    BY <2>1, <2>4, <2>5 DEF Still, Others, PhaseOf
  <2>7. TriesInv'
    BY <2>1, <2>2, <2>3, <2>5 DEF LInv, TriesInv, Others
  <2> QED BY <2>6, <2>7, StillStep
<1> QED BY <1>2, <1>3

LEMMA FlagAttemptedStays ==
  ASSUME StoreAssumption, LInv, NEW r \in Runs, NEW j \in ScheduledJobs, FlagAttempted(r, j)
  PROVE  LStep /\ TriesInv'
<1>1. run[r].snap[j].started /\ SetInReview(j, run[r].snap[j].token) /\ result' = result
  BY DEF FlagAttempted, SeenAttempted
<1>2. run[r].snap[j].token # NoToken
  BY <1>1 DEF LInv, IInv, SnapInv
<1> QED BY <1>1, <1>2, SetInReviewStays

LEMMA MarkReconciliationStays ==
  ASSUME StoreAssumption, LInv, NEW r \in Runs, MarkReconciliation(r)
  PROVE  LStep /\ TriesInv'
<1>1. run[r].pc \in Attempting
  BY DEF MarkReconciliation, Attempting, Outcomes
<1>2. run[r].cur \in ScheduledJobs
  BY <1>1 DEF LInv, IInv, CurInv
<1>3. SetInReview(run[r].cur, r) /\ result' = result /\ r # NoToken
  BY DEF MarkReconciliation, StoreAssumption
<1> QED BY <1>2, <1>3, SetInReviewStays

LEMMA CloseMoves ==
  ASSUME StoreAssumption, LInv, NEW r \in Runs, CloseWithoutProvider(r)
  PROVE  LStep /\ TriesInv'
<1>1. run[r].pc \in Preparing
  BY DEF CloseWithoutProvider, Verdicts, Preparing
<1>2. PICK j \in ScheduledJobs : j = run[r].cur /\ (Holds(r, j) => ~job[j].started)
  BY <1>1 DEF LInv, IInv, CurInv, PrepareInv
<1>3. /\ j \in JobIds /\ job \in [JobIds -> JobRow] /\ job[j] \in JobRow
      /\ ~job[j].started => result[j] = {} /\ job[j].status # "PUBLISHED"
      /\ job[j].token # NoToken => job[j].status \in {"IN_REVIEW", "PUBLISHED"}
  BY <1>2, RowMeaning
<1>4. result' = result
  BY DEF CloseWithoutProvider
<1>5. CASE job' = job
  BY <1>4, <1>5, TablesStay
<1>6. CASE job' # job
  <2>1. PICK status \in {"FAILED", "SCHEDULED"} : job' = [job EXCEPT ![j] = Blocked(@, status)]
    BY <1>2, <1>6 DEF CloseWithoutProvider
  <2>2. Holds(r, j)
    BY <1>2, <1>6 DEF CloseWithoutProvider
  <2>3. ~job[j].started /\ job[j].status = "IN_REVIEW" /\ result[j] = {}
    BY <2>2, <1>2, <1>3 DEF Holds, StoreAssumption
  <2>4. /\ \A i \in JobIds \ {j} : job'[i] = job[i]
        /\ job'[j].status = status /\ job'[j].attempts = job[j].attempts
        /\ job'[j].started = job[j].started
    BY <2>1, <1>3 DEF JobRow, Blocked
  <2>5. PhaseOf(j) = "claimed" /\ PhaseOf(j)' \in {"waiting", "failed"}
    BY <2>3, <2>4, <1>4 DEF PhaseOf
  <2>6. Others(j)
    BY <2>4, <1>4 DEF Others, JobIds
  <2>7. LStep
    BY <2>4, <2>5, <2>6, <1>2, MoveStep
  <2>8. TriesInv'
    BY <2>3, <2>4, <2>6, <1>2 DEF LInv, TriesInv, Others
  <2> QED BY <2>7, <2>8
<1> QED BY <1>5, <1>6

LEMMA ReconcileMoves ==
  ASSUME StoreAssumption, LInv, NEW r \in Runs, Reconcile(r)
  PROVE  LStep /\ TriesInv'
<1>1. run[r].pc = "reconciling" /\ run[r].pc \in Preparing /\ result' = result
  BY DEF Reconcile, Preparing
<1>2. PICK j \in ScheduledJobs : j = run[r].cur /\ result[j] # {}
  BY <1>1 DEF LInv, IInv, CurInv, PrepareInv
<1>3. j \in JobIds /\ job \in [JobIds -> JobRow] /\ job[j] \in JobRow
  BY <1>2, RowMeaning
<1>4. CASE job' = job
  BY <1>1, <1>4, TablesStay
<1>5. CASE job' # job
  <2>1. job' = [job EXCEPT ![j].status = "PUBLISHED"]
    BY <1>2, <1>5 DEF Reconcile
  <2>2. /\ \A i \in JobIds \ {j} : job'[i] = job[i]
        /\ job'[j].status = "PUBLISHED" /\ job'[j].attempts = job[j].attempts
    BY <2>1, <1>3 DEF JobRow
  <2>3. PhaseOf(j)' = PhaseOf(j)
    BY <1>1, <1>2 DEF PhaseOf
  <2>4. Still /\ TriesInv'
    BY <2>2, <2>3, <1>1 DEF Still, PhaseOf, LInv, TriesInv, JobIds
  <2> QED BY <2>4, StillStep
<1> QED BY <1>4, <1>5

LEMMA StartAttemptMoves ==
  ASSUME StoreAssumption, LInv, NEW r \in Runs, StartAttempt(r)
  PROVE  LStep /\ TriesInv'
<1>1. run[r].pc \in Preparing /\ result' = result
  BY DEF StartAttempt, Verdicts, Preparing
<1>2. PICK j \in ScheduledJobs : j = run[r].cur /\ (Holds(r, j) => ~job[j].started)
  BY <1>1 DEF LInv, IInv, CurInv, PrepareInv
<1>3. /\ j \in JobIds /\ job \in [JobIds -> JobRow] /\ job[j] \in JobRow
      /\ ~job[j].started => result[j] = {} /\ job[j].status # "PUBLISHED"
  BY <1>2, RowMeaning
<1>4. CASE job' = job
  BY <1>1, <1>4, TablesStay
<1>5. CASE job' # job
  <2>1. /\ job[j].status = "IN_REVIEW" /\ Holds(r, j)
        /\ job' = [job EXCEPT ![j].attempts = @ + 1, ![j].started = TRUE]
    BY <1>2, <1>5 DEF StartAttempt
  <2>2. /\ \A i \in JobIds \ {j} : job'[i] = job[i]
        /\ job'[j].status = "IN_REVIEW" /\ job'[j].started
        /\ job'[j].attempts = job[j].attempts + 1
    BY <2>1, <1>3 DEF JobRow
  <2>3. ~job[j].started /\ result[j] = {}
    BY <2>1, <1>2, <1>3
  <2>4. PhaseOf(j) = "claimed" /\ PhaseOf(j)' = "attempting"
    BY <2>1, <2>2, <2>3, <1>1 DEF PhaseOf
  <2>5. job[j].attempts < MaxAttempts
    BY <2>1, <2>3, <1>2 DEF LInv, TriesInv
  <2>6. Others(j)
    BY <2>2, <1>1 DEF Others, JobIds
  <2>7. LStep
    BY <2>2, <2>4, <2>5, <2>6, <1>2, MoveStep
  <2>8. TriesInv'
    BY <2>2, <2>6, <1>2 DEF LInv, TriesInv, Others
  <2> QED BY <2>7, <2>8
<1> QED BY <1>4, <1>5

\* The row of a job whose attempt is under way
LEMMA AttemptMeaning ==
  ASSUME StoreAssumption, LInv, NEW r \in Runs, run[r].pc \in Attempting
  PROVE  /\ run[r].cur \in ScheduledJobs /\ Holds(r, run[r].cur)
         /\ PhaseOf(run[r].cur) = "attempting"
<1>1. run[r].cur \in ScheduledJobs /\ AttemptOK(r, run[r].cur, run[r].pc)
  BY DEF LInv, IInv, CurInv, AttemptInv
<1> QED BY <1>1 DEF AttemptOK, PhaseOf

LEMMA FinalizeSuccessMoves ==
  ASSUME StoreAssumption, LInv, NEW r \in Runs, FinalizeSuccess(r)
  PROVE  LStep /\ TriesInv'
<1>1. run[r].pc \in Attempting
  BY DEF FinalizeSuccess, Attempting
<1>2. PICK j \in ScheduledJobs : j = run[r].cur /\ PhaseOf(j) = "attempting"
  BY <1>1, AttemptMeaning
<1>3. /\ j \in JobIds /\ job \in [JobIds -> JobRow] /\ job[j] \in JobRow
      /\ result \in [JobIds -> Optional(PostIds)]
  BY <1>2, RowMeaning
<1>4. CASE UNCHANGED <<draft, job, result>>
  BY <1>4, TablesStay
<1>5. CASE /\ result' = [result EXCEPT ![j] = {<<j, r>>}]
           /\ job' = [job EXCEPT ![j].status = "PUBLISHED"]
  <2>1. /\ \A i \in JobIds \ {j} : job'[i] = job[i] /\ result'[i] = result[i]
        /\ job'[j].status = "PUBLISHED" /\ job'[j].attempts = job[j].attempts
        /\ result'[j] # {}
    BY <1>3, <1>5 DEF JobRow
  <2>2. PhaseOf(j)' = "published"
    BY <2>1 DEF PhaseOf
  <2>3. Others(j)
    BY <2>1 DEF Others, JobIds
  <2>4. LStep
    BY <2>1, <2>2, <2>3, <1>2, MoveStep
  <2>5. TriesInv'
    BY <2>1, <2>3, <1>2 DEF LInv, TriesInv, Others
  <2> QED BY <2>4, <2>5
<1> QED BY <1>2, <1>4, <1>5 DEF FinalizeSuccess

LEMMA RecordFailureMoves ==
  ASSUME StoreAssumption, LInv, NEW r \in Runs, RecordFailure(r)
  PROVE  LStep /\ TriesInv'
<1>1. run[r].pc \in Attempting
  BY DEF RecordFailure, Attempting, Outcomes
<1>2. PICK j \in ScheduledJobs :
        j = run[r].cur /\ PhaseOf(j) = "attempting" /\ Holds(r, j)
  BY <1>1, AttemptMeaning
<1> DEFINE status == IF CanRetry(r, j) THEN "SCHEDULED" ELSE "FAILED"
<1>3. /\ j \in JobIds /\ job \in [JobIds -> JobRow] /\ job[j] \in JobRow
  BY <1>2, RowMeaning
<1>4. /\ job' = [job EXCEPT ![j] = [Blocked(@, status) EXCEPT !.started = FALSE]]
      /\ result' = result
  BY <1>2 DEF RecordFailure
<1>5. /\ \A i \in JobIds \ {j} : job'[i] = job[i]
      /\ job'[j].status = status /\ job'[j].attempts = job[j].attempts
  BY <1>3, <1>4 DEF JobRow, Blocked
<1>6. result[j] = {}
  BY <1>2 DEF PhaseOf
<1>7. Others(j)
  BY <1>4, <1>5 DEF Others, JobIds
<1>8. CanRetry(r, j) => job[j].attempts < MaxAttempts
  BY DEF CanRetry
<1>9. TriesInv'
  BY <1>5, <1>7, <1>8, <1>2 DEF LInv, TriesInv, Others
<1>10. CASE CanRetry(r, j)
  <2>1. job'[j].status = "SCHEDULED" /\ result'[j] = {}
    BY <1>4, <1>5, <1>6, <1>10
  <2>2. PhaseOf(j)' = "waiting"
    BY <2>1 DEF PhaseOf
  <2> QED BY <2>2, <1>2, <1>5, <1>7, <1>8, <1>9, <1>10, MoveStep
<1>11. CASE ~CanRetry(r, j)
  <2>1. job'[j].status = "FAILED" /\ result'[j] = {}
    BY <1>4, <1>5, <1>6, <1>11
  <2>2. PhaseOf(j)' = "failed"
    BY <2>1 DEF PhaseOf
  <2> QED BY <2>2, <1>2, <1>5, <1>7, <1>9, MoveStep
<1> QED BY <1>10, <1>11

-----------------------------------------------------------------------------
(* The refinement *)

LEMMA LInit == ASSUME StoreAssumption, CronInit PROVE Lifecycle!Init /\ LInv
<1>1. IInv
  BY InitInv
<1>2. \A j \in ScheduledJobs :
        job[j].attempts = 0 /\ job[j].status = "SCHEDULED" /\ result[j] = {}
  BY DEF CronInit, CronInitWith, JobIds, NewJob, NoRow
<1>3. \A j \in ScheduledJobs : PhaseOf(j) = "waiting"
  BY <1>2 DEF PhaseOf
<1>4. Lifecycle!Init
  BY <1>2, <1>3 DEF Lifecycle!Init
<1>5. TriesInv
  BY <1>2 DEF TriesInv, StoreAssumption
<1> QED BY <1>1, <1>4, <1>5 DEF LInv

\* Every step of every invocation, and of the clock, is a step of the lifecycle
\* or leaves it where it is.
LEMMA LNext == ASSUME StoreAssumption, LInv, [CronNext]_cronVars PROVE LStep /\ LInv'
<1>1. IInv'
  BY NextInv DEF LInv
<1>2. ASSUME NEW r \in Runs, RunStep(r) PROVE LStep /\ TriesInv'
  <2>1. CASE \/ StartRun(r) \/ EndRun(r) \/ LoadContext(r) \/ CheckReconcile(r)
             \/ CallProvider(r) \/ CheckFinalize(r)
    BY <2>1, TablesStay DEF StartRun, EndRun, LoadContext, CheckReconcile, CallProvider,
       CheckFinalize, storeVars
  <2>2. CASE \E j \in ScheduledJobs : Claim(r, j) \/ LoseClaim(r, j) \/ FlagAttempted(r, j)
    BY <2>2, ClaimMoves, FlagAttemptedStays, TablesStay DEF LoseClaim, storeVars
  <2>3. CASE CloseWithoutProvider(r) BY <2>3, CloseMoves
  <2>4. CASE StartAttempt(r) BY <2>4, StartAttemptMoves
  <2>5. CASE FinalizeSuccess(r) BY <2>5, FinalizeSuccessMoves
  <2>6. CASE MarkReconciliation(r) BY <2>6, MarkReconciliationStays
  <2>7. CASE RecordFailure(r) BY <2>7, RecordFailureMoves
  <2>8. CASE Reconcile(r) BY <2>8, ReconcileMoves
  <2> QED BY <1>2, <2>1, <2>2, <2>3, <2>4, <2>5, <2>6, <2>7, <2>8 DEF RunStep
<1>3. ASSUME (Tick /\ UNCHANGED run) \/ UNCHANGED cronVars PROVE LStep /\ TriesInv'
  <2>1. job' = job /\ result' = result
    BY <1>3 DEF Tick, cronVars, storeVars
  <2> QED BY <2>1, TablesStay
<1>4. LStep /\ TriesInv'
  BY <1>2, <1>3 DEF CronNext
<1> QED BY <1>1, <1>4 DEF LInv

\* The inductive invariant holds throughout, with the tries that are left.
THEOREM LifecycleInvariance == CronSpec => []LInv
<1>1. CronInit => LInv
  BY StoreAssumption, LInit
<1>2. LInv /\ [CronNext]_cronVars => LInv'
  BY StoreAssumption, LNext
<1> QED BY <1>1, <1>2, PTL DEF CronSpec

\* Every behaviour of the cron publisher, seen through the job rows and the ok
\* results, is a behaviour of the lifecycle its scheduled jobs are promised.
THEOREM Refinement == CronSpec => LifecycleSpec
<1>1. CronInit => Lifecycle!Init /\ LInv
  BY StoreAssumption, LInit
<1>2. LInv /\ [CronNext]_cronVars => [Lifecycle!Next]_(Lifecycle!vars) /\ LInv'
  BY StoreAssumption, LNext DEF LStep
<1> QED BY <1>1, <1>2, PTL DEF CronSpec, LifecycleSpec, Lifecycle!Spec
=============================================================================
