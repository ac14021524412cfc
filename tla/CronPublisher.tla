---------------------------- MODULE CronPublisher ----------------------------
(***************************************************************************)
(* GET /api/cron/publisher: an invocation lists the due jobs and works     *)
(* through them one by one with its snapshot of each (executePublishingCron*)
(* and processJob, over the repository the route builds).  The platform    *)
(* may deliver an invocation twice and may kill one, so invocations overlap*)
(* and stop anywhere.  An invocation handles a job once, so the run itself *)
(* stands for the fresh claim token it draws for that job.                 *)
(*                                                                         *)
(* One action is one database statement or transaction, or one call of the *)
(* provider; what processJob computes in between is in the guards.         *)
(***************************************************************************)
EXTENDS PublishingStore

VARIABLE run
cronVars == <<storeVars, run>>

\* pc names what the run does next; the outcomes and the verdicts of the
\* pre-provider checks are control points of their own.
Verdicts == {"reconcile", "block_terminal", "block_retry", "go"}
RunPcs == {"idle", "next", "claimed", "reconciling", "calling", "committing",
           "unfinalized", "done"}
            \union Verdicts \union Outcomes
RunRow == [pc : RunPcs, snap : [JobIds -> JobRow], cur : JobIds \union {NoJob}]

NoSnapshot == [j \in JobIds |-> NoRow]
NewRun(pc) == [pc |-> pc, snap |-> NoSnapshot, cur |-> NoJob]

CronTypeOK == StoreTypeOK /\ run \in [Runs -> RunRow]

Pending(r) == {j \in JobIds : run[r].snap[j].status # "NONE" /\ j # run[r].cur}

\* Leave the job in hand and turn to the next one.
Release(r) ==
  run' = [run EXCEPT ![r].pc = "next", ![r].cur = NoJob,
                     ![r].snap[run[r].cur] = NoRow]
Goto(r, pc) == run' = [run EXCEPT ![r].pc = pc]

-----------------------------------------------------------------------------
(* Listing *)

Due == {j \in ScheduledJobs :
          job[j].status \in {"SCHEDULED", "IN_REVIEW"} /\ DueAt[j] <= now}

IsOldestBatch(batch) ==
  /\ Cardinality(batch) =
       IF Cardinality(Due) < BatchLimit THEN Cardinality(Due) ELSE BatchLimit
  /\ \A i \in batch, j \in Due \ batch : DueAt[i] <= DueAt[j]

StartRun(r) ==
  /\ run[r].pc = "idle"
  /\ \E batch \in SUBSET Due :
       /\ IsOldestBatch(batch)
       /\ run' = [run EXCEPT ![r] =
            [NewRun("next") EXCEPT !.snap =
               [j \in JobIds |-> IF j \in batch THEN job[j] ELSE NoRow]]]
  /\ UNCHANGED storeVars

\* The batch is worked off, the time budget is spent, or the platform stops
\* the function.
EndRun(r) ==
  /\ run[r].pc \notin {"idle", "done"}
  /\ run' = [run EXCEPT ![r] = NewRun("done")]
  /\ UNCHANGED storeVars

-----------------------------------------------------------------------------
(* Claiming *)

Turn(r, j) ==
  /\ run[r].pc = "next"
  /\ j \in Pending(r)
  /\ \A k \in Pending(r) : DueAt[j] <= DueAt[k]

\* The snapshot decides which of the conditional updates is tried.
TriesReclaim(s) == s.status = "IN_REVIEW" /\ s.claimedAt # Never /\ ~s.started
TriesClaim(s) == s.status = "SCHEDULED"
SeenAttempted(s) == s.status = "IN_REVIEW" /\ s.started

\* Fault: the update claims by id alone.
ClaimableUnguarded(j) == job[j].status # "NONE"

Claimable(j) == job[j].status = "SCHEDULED"

\* Faults: the lease is compared the wrong way round; a started attempt does not
\* protect the claim.
ReclaimableBeforeExpiry(j) ==
  job[j].status = "IN_REVIEW" /\ ~job[j].started /\ job[j].claimedAt > now - Lease
ReclaimableAttempted(j) ==
  job[j].status = "IN_REVIEW" /\ job[j].claimedAt # Never /\ job[j].claimedAt < now - Lease

Reclaimable(j) ==
  /\ job[j].status = "IN_REVIEW" /\ ~job[j].started
  /\ job[j].claimedAt # Never /\ job[j].claimedAt < now - Lease

\* claimScheduled and reclaimExpiredPreProvider
GetsClaim(r, j) ==
  \/ TriesReclaim(run[r].snap[j]) /\ Reclaimable(j)
  \/ TriesClaim(run[r].snap[j]) /\ Claimable(j)

Claim(r, j) ==
  /\ Turn(r, j)
  /\ GetsClaim(r, j)
  /\ job' = [job EXCEPT ![j].status = "IN_REVIEW",
                        ![j].token = r, ![j].claimedAt = now]
  /\ run' = [run EXCEPT ![r].pc = "claimed", ![r].cur = j]
  /\ UNCHANGED <<draft, result, degraded, posts, now>>

LoseClaim(r, j) ==
  /\ Turn(r, j)
  /\ ~GetsClaim(r, j) /\ ~SeenAttempted(run[r].snap[j])
  /\ run' = [run EXCEPT ![r].snap[j] = NoRow]
  /\ UNCHANGED storeVars

\* markReconciliation: no condition on the status
SetInReview(j, token) ==
  job' = IF token = NoToken \/ job[j].token = token
           THEN [job EXCEPT ![j].status = "IN_REVIEW"] ELSE job

\* A job whose provider attempt had begun when it was listed is only flagged,
\* under the token the snapshot carries.
FlagAttempted(r, j) ==
  /\ Turn(r, j)
  /\ SeenAttempted(run[r].snap[j])
  /\ SetInReview(j, run[r].snap[j].token)
  /\ run' = [run EXCEPT ![r].snap[j] = NoRow]
  /\ UNCHANGED <<draft, result, degraded, posts, now>>

-----------------------------------------------------------------------------
(* Checks before the provider *)

\* What maxAttempts, loadContext and the structural checks decide for job j.
\* tenantOk and gate stand for what is read from the rest of the database: the
\* tenant, and after the trial limit the publisher, account, format, scopes,
\* asset and credential.
Verdict(r, j, tenantOk, gate) ==
  LET d == DraftOf[j] IN
  IF run[r].snap[j].attempts >= MaxAttempts THEN "block_terminal"
  ELSE IF Succeeded(j) THEN "reconcile"
  ELSE IF ~tenantOk \/ draft[d].status # "SCHEDULED" \/ draft[d].ext # {} THEN "block_terminal"
  ELSE IF TrialReached THEN "block_retry"
  ELSE gate

LoadContext(r) ==
  /\ run[r].pc = "claimed"
  /\ \E tenantOk \in BOOLEAN, gate \in {"go", "block_retry", "block_terminal"} :
       Goto(r, Verdict(r, run[r].cur, tenantOk, gate))
  /\ UNCHANGED storeVars

Holds(r, j) == job[j].token = r

\* Fault: the claim is not given up.
BlockedKeepsToken(row, status) == [row EXCEPT !.status = status]

\* recordPreProviderBlock: attempts and providerAttemptStartedAt stay
Blocked(row, status) ==
  [row EXCEPT !.status = status, !.token = NoToken, !.claimedAt = Never]

\* recordPreProviderBlock
CloseWithoutProvider(r) ==
  LET j == run[r].cur IN
  /\ run[r].pc \in {"block_terminal", "block_retry"}
  /\ job' = IF Holds(r, j)
              THEN [job EXCEPT ![j] = Blocked(@,
                     IF run[r].pc = "block_terminal" THEN "FAILED" ELSE "SCHEDULED")]
              ELSE job
  /\ Release(r)
  /\ UNCHANGED <<draft, result, degraded, posts, now>>

\* reconcileDraftFromResultTx reads first: nothing is done on a draft with another
\* id, and nothing again when draft and job are already there.
Reconcilable(j) ==
  LET d == DraftOf[j] IN
  /\ Succeeded(j)
  /\ draft[d].ext \in {{}, result[j]}
  /\ ~(draft[d].ext = result[j] /\ job[j].status = "PUBLISHED")

CheckReconcile(r) ==
  /\ run[r].pc = "reconcile"
  /\ IF Reconcilable(run[r].cur) THEN Goto(r, "reconciling") ELSE Release(r)
  /\ UNCHANGED storeVars

\* It writes whatever became of the draft since, or the database rejects it.  It
\* also clears scheduledFor; here the job stays due, so later invocations list it
\* more often than the code does.
Reconcile(r) ==
  LET j == run[r].cur IN
  /\ run[r].pc = "reconciling"
  /\ \/ /\ draft' = [draft EXCEPT ![DraftOf[j]] = [status |-> "PUBLISHED", ext |-> result[j]]]
        /\ job' = [job EXCEPT ![j].status = "PUBLISHED"]
     \/ UNCHANGED <<draft, job>>
  /\ Release(r)
  /\ UNCHANGED <<result, degraded, posts, now>>

-----------------------------------------------------------------------------
(* The provider attempt *)

\* markProviderAttemptStarted
StartAttempt(r) ==
  LET j == run[r].cur IN
  /\ run[r].pc = "go"
  /\ IF job[j].status = "IN_REVIEW" /\ Holds(r, j)
       THEN /\ job' = [job EXCEPT ![j].attempts = @ + 1, ![j].started = TRUE]
            /\ Goto(r, "calling")
       ELSE Release(r) /\ UNCHANGED job
  /\ UNCHANGED <<draft, result, degraded, posts, now>>

\* Fault: an answer without a post id counts as a success.
CallProviderTrusting(r) ==
  /\ run[r].pc = "calling"
  /\ \E outcome \in Outcomes :
       /\ Call(run[r].cur, r, outcome)
       /\ Goto(r, IF outcome = "ambiguous" THEN "success" ELSE outcome)
  /\ UNCHANGED <<draft, job, result, degraded, now>>

CallProvider(r) ==
  /\ run[r].pc = "calling"
  /\ \E outcome \in Outcomes : Call(run[r].cur, r, outcome) /\ Goto(r, outcome)
  /\ UNCHANGED <<draft, job, result, degraded, now>>

-----------------------------------------------------------------------------
(* Recording the outcome *)

\* finalizeSuccess reads the job: it goes on only while the run holds the claim.
CheckFinalize(r) ==
  /\ run[r].pc = "success"
  /\ Goto(r, IF Holds(r, run[r].cur) /\ job[run[r].cur].status = "IN_REVIEW"
               THEN "committing" ELSE "unfinalized")
  /\ UNCHANGED storeVars

\* Fault: draft and job are committed without the result row.
FinalizeWithoutResult(r) ==
  LET j == run[r].cur IN
  /\ run[r].pc = "committing"
  /\ draft' = [draft EXCEPT ![DraftOf[j]] = [status |-> "PUBLISHED", ext |-> {<<j, r>>}]]
  /\ job' = [job EXCEPT ![j].status = "PUBLISHED"]
  /\ Release(r)
  /\ UNCHANGED <<result, degraded, posts, now>>

\* Then result, draft and job are written without a further condition, or the
\* database rejects the transaction.
FinalizeSuccess(r) ==
  LET j == run[r].cur
      post == {<<j, r>>}
  IN
  /\ run[r].pc = "committing"
  /\ \/ /\ result' = [result EXCEPT ![j] = post]
        /\ draft' = [draft EXCEPT ![DraftOf[j]] = [status |-> "PUBLISHED", ext |-> post]]
        /\ job' = [job EXCEPT ![j].status = "PUBLISHED"]
        /\ Release(r)
     \/ Goto(r, "unfinalized") /\ UNCHANGED <<draft, job, result>>
  /\ UNCHANGED <<degraded, posts, now>>

MarkReconciliation(r) ==
  /\ run[r].pc \in {"ambiguous", "unfinalized"}
  /\ SetInReview(run[r].cur, r)
  /\ Release(r)
  /\ UNCHANGED <<draft, result, degraded, posts, now>>

\* Fault: every failure is retried.
CanRetryAnyFailure(r, j) == job[j].attempts < MaxAttempts

CanRetry(r, j) == run[r].pc = "retryable" /\ job[j].attempts < MaxAttempts

\* recordProviderFailure: job and draft move together
RecordFailure(r) ==
  LET j == run[r].cur
      status == IF CanRetry(r, j) THEN "SCHEDULED" ELSE "FAILED"
  IN
  /\ run[r].pc \in {"retryable", "terminal"}
  /\ IF Holds(r, j)
       THEN /\ job' = [job EXCEPT ![j] = [Blocked(@, status) EXCEPT !.started = FALSE]]
            /\ draft' = [draft EXCEPT ![DraftOf[j]].status = status]
       ELSE UNCHANGED <<job, draft>>
  /\ Release(r)
  /\ UNCHANGED <<result, degraded, posts, now>>

-----------------------------------------------------------------------------
RunStep(r) ==
  \/ StartRun(r)
  \/ EndRun(r)
  \/ \E j \in ScheduledJobs : Claim(r, j) \/ LoseClaim(r, j) \/ FlagAttempted(r, j)
  \/ LoadContext(r)
  \/ CloseWithoutProvider(r)
  \/ CheckReconcile(r)
  \/ Reconcile(r)
  \/ StartAttempt(r)
  \/ CallProvider(r)
  \/ CheckFinalize(r)
  \/ FinalizeSuccess(r)
  \/ MarkReconciliation(r)
  \/ RecordFailure(r)

\* The jobs of the set are booked, each on its draft.
CronInitWith(jobs) ==
  /\ draft \in [Drafts -> {[status |-> s, ext |-> {}] : s \in {"SCHEDULED", "REJECTED"}}]
  /\ job = [j \in JobIds |-> IF j \in jobs THEN NewJob("SCHEDULED") ELSE NoRow]
  /\ result = [j \in JobIds |-> {}]
  /\ degraded = {}
  /\ posts = {}
  /\ now = 0
  /\ run = [r \in Runs |-> NewRun("idle")]

CronInit == CronInitWith(ScheduledJobs)

CronNext == (\E r \in Runs : RunStep(r)) \/ (Tick /\ UNCHANGED run)

CronSpec == CronInit /\ [][CronNext]_cronVars

-----------------------------------------------------------------------------
(* Properties *)

\* The scheduled jobs implement JobLifecycle.  A result row with an id is what makes
\* a job published; until then the phase is read off the job row.
PhaseOf(j) ==
  IF result[j] # {} THEN "published"
  ELSE CASE job[j].status = "NONE" -> "absent"
         [] job[j].status = "SCHEDULED" -> "waiting"
         [] job[j].status = "IN_REVIEW" -> IF job[j].started THEN "attempting" ELSE "claimed"
         [] OTHER -> "failed"

Lifecycle == INSTANCE JobLifecycle
  WITH Jobs <- ScheduledJobs, MaxTries <- MaxAttempts,
       phase <- [j \in ScheduledJobs |-> PhaseOf(j)],
       tries <- [j \in ScheduledJobs |-> job[j].attempts]

\* Whatever invocations overlap, are delivered twice or die, a scheduled job
\* goes through the lifecycle above: the claim token, the lease and the attempt
\* mark together serialise the invocations (publisher/route.ts 206-316).
LifecycleSpec == Lifecycle!Spec

\* The provider publishes at most once for a scheduled job, over all
\* invocations, reclaims and retries of it.
OnePostPerScheduledJob ==
  \A p, q \in posts : p[1] = q[1] /\ p[1] \in ScheduledJobs => p = q

\* A job that the next invocation may claim and send has not been published by
\* an earlier attempt: neither SCHEDULED, nor IN_REVIEW under an expired lease.
ClaimableIsUnpublished ==
  \A j \in ScheduledJobs :
    Claimable(j) \/ Reclaimable(j) => PostsOfJob(j) = {}

\* Between marking the attempt and recording its outcome a run owns its job: it
\* still holds the claim, and no other run is in the same section for that job.
InAttempt(r) == run[r].pc \in {"calling", "committing", "unfinalized"} \union Outcomes
AttemptIsExclusive ==
  \A r \in Runs : InAttempt(r) =>
    /\ Holds(r, run[r].cur)
    /\ \A s \in Runs \ {r} : ~(InAttempt(s) /\ run[s].cur = run[r].cur)

\* No flow records a publication the provider did not confirm: a result with an id, a
\* PUBLISHED job and the external id of a draft all name a real post of theirs.
RecordsAreReal ==
  /\ \A j \in JobIds : result[j] \subseteq PostsOfJob(j)
  /\ \A j \in JobIds : job[j].status = "PUBLISHED" => result[j] # {}
  /\ \A d \in Drafts : draft[d].ext \subseteq PostsOfDraft(d)

\* The post id on a result row is never lost nor replaced by another one, although
\* finalizations look at the row first and write later (publishing-finalization.ts
\* 44-55, cron/publisher/route.ts 278-285): a second id would hide a duplicate.
ResultMonotone ==
  [][\A j \in JobIds : result[j] # {} => result'[j] = result[j]]_cronVars

\* vercel-hobby-hourly-publisher.md 53 "es idempotente y tolera invocaciones
\* duplicadas": a second invocation does not take a job out of PUBLISHED.
PublishedJobIsFinal ==
  [][\A j \in JobIds : job[j].status = "PUBLISHED" => job'[j].status = "PUBLISHED"]_cronVars

\* README.md 40 "Ambiguous provider outcomes are blocked without automatic retry;
\* manual reconciliation via IN_REVIEW": a job whose content is live is not
\* recorded as failed.
LiveJobIsNotFailed ==
  \A j \in JobIds : job[j].status = "FAILED" => PostsOfJob(j) = {}
=============================================================================
