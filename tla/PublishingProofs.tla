-------------------------- MODULE PublishingProofs --------------------------
(***************************************************************************)
(* Proofs about Publishing: what the cron publisher promises of scheduled  *)
(* jobs holds while people click, book, edit, reject and approve, and what *)
(* the pages say of a draft can be relied on.  For every set of drafts,    *)
(* jobs, invocations, requests and pages.                                  *)
(***************************************************************************)
EXTENDS CronPublisherProofs, PublishRouteProofs, Publishing

-----------------------------------------------------------------------------
(* The inductive invariant *)

\* A job that does not exist has left nothing behind; immediate jobs never wait.
NoneInv == \A j \in JobIds : job[j].status = "NONE" => job[j] = NoRow /\ PostsOfJob(j) = {}
NotWaitingInv == \A j \in ImmediateJobs : job[j].status # "SCHEDULED"

\* A click has written the row of its job before it calls the provider; after a
\* success the post is there; while it finalizes no other id is on its result row.
HandOK(c) ==
  LET j == click[c].cur IN
  /\ click[c].pc = "calling" => job[j].status # "NONE"
  /\ click[c].pc \in {"success", "finalizing"} => <<j, c>> \in posts
  /\ click[c].pc = "finalizing" => result[j] \in {{}, {<<j, c>>}}

\* The lock on a result row has one holder.
Locking == {"finalizing", "failing"}
LockInv ==
  \A c, e \in Clicks :
    c # e /\ click[c].pc \in Locking /\ click[e].pc \in Locking => click[c].cur # click[e].cur

\* A request under way has a job of its own mode in hand.
HandInv == InHandInv /\ LockInv /\ \A c \in Clicks : HandOK(c)

\* The external id of a draft is the recorded result of a job of that draft.
Backed(d) == \E j \in JobIds : DraftOf[j] = d /\ result[j] = draft[d].ext
BackedInv ==
  \A d \in Drafts :
    /\ draft[d].ext # {} => Backed(d)
    /\ draft[d].status = "PUBLISHED" => draft[d].ext # {}

\* A post id on a result row shows on the draft, as that id or as a later one.
RecordedInv == \A j \in JobIds : result[j] # {} => draft[DraftOf[j]].ext # {}

\* A success degraded by a late failure is not PUBLISHED.
DegradedInv == \A j \in degraded : job[j].status # "PUBLISHED"

\* What a page shows as published has an external id by now, and a page being loaded
\* has read it.
ShownInv ==
  \A v \in Pages, d \in Drafts :
    page[v].rows[d].state = "PUBLISHED" =>
      /\ draft[d].ext # {}
      /\ page[v].pc = "loading" => page[v].seen[d].ext # {}
SeenInv == \A v \in Pages, d \in Drafts : page[v].seen[d].ext # {} => draft[d].ext # {}

PInv ==
  /\ PublishingTypeOK /\ LInv
  /\ NoneInv /\ NotWaitingInv /\ HandInv /\ BackedInv /\ RecordedInv /\ DegradedInv
  /\ ShownInv /\ SeenInv /\ BadgeFitsEligibility

-----------------------------------------------------------------------------
(* What a step of any actor does to the tables *)

\* Rows, posts and results are added to and never taken back; an external id is a
\* recorded result.
RowGrows(j) ==
  /\ job'[j].status # "NONE" \/ (job'[j] = job[j] /\ PostsOfJob(j)' = PostsOfJob(j))
  /\ result[j] # {} => result'[j] = result[j]
  /\ result'[j] = result[j] \/ draft'[DraftOf[j]].ext # {}
DraftStays(d) ==
  draft'[d].ext = draft[d].ext /\ (draft'[d].status = "PUBLISHED" => draft[d].status = "PUBLISHED")
DraftIsRecorded(d) ==
  draft'[d].ext # {} /\ \E j \in JobIds : DraftOf[j] = d /\ result'[j] = draft'[d].ext
TablesGrow ==
  /\ posts \subseteq posts'
  /\ \A j \in JobIds : RowGrows(j)
  /\ \A d \in Drafts : DraftStays(d) \/ DraftIsRecorded(d)

LEMMA IdsStay ==
  ASSUME TablesGrow, NEW d \in Drafts, draft[d].ext # {}
  PROVE  draft'[d].ext # {}
BY DEF TablesGrow, DraftStays, DraftIsRecorded

LEMMA GrowKeeps ==
  ASSUME StoreAssumption, NoneInv, BackedInv, RecordedInv, TablesGrow
  PROVE  NoneInv' /\ BackedInv' /\ RecordedInv'
<1>1. NoneInv'
  BY DEF NoneInv, TablesGrow, RowGrows
<1>2. ASSUME NEW d \in Drafts
      PROVE  /\ draft'[d].ext # {} => Backed(d)'
             /\ draft'[d].status = "PUBLISHED" => draft'[d].ext # {}
  <2>1. CASE DraftStays(d)
    <3>1. draft'[d].ext # {} => Backed(d)'
      <4> SUFFICES ASSUME draft'[d].ext # {} PROVE Backed(d)'
        OBVIOUS
      <4>1. PICK j \in JobIds : DraftOf[j] = d /\ result[j] = draft[d].ext
        BY <2>1 DEF BackedInv, Backed, DraftStays
      <4>2. result'[j] = draft'[d].ext
        BY <2>1, <4>1 DEF TablesGrow, RowGrows, DraftStays
      <4> QED BY <4>1, <4>2 DEF Backed
    <3> QED BY <2>1, <3>1 DEF BackedInv, DraftStays
  <2>2. CASE DraftIsRecorded(d)
    BY <2>2 DEF DraftIsRecorded, Backed
  <2> QED BY <2>1, <2>2 DEF TablesGrow
<1>3. RecordedInv'
  <2> SUFFICES ASSUME NEW j \in JobIds, result'[j] # {}
               PROVE  draft'[DraftOf[j]].ext # {}
    BY DEF RecordedInv
  <2>1. DraftOf[j] \in Drafts
    BY DEF StoreAssumption
  <2> QED BY <2>1, IdsStay DEF RecordedInv, TablesGrow, RowGrows
<1> QED BY <1>1, <1>2, <1>3 DEF BackedInv

\* The pages are as good as before when nobody loads one.
LEMMA ShownStays ==
  ASSUME ShownInv, SeenInv, BadgeFitsEligibility, TablesGrow, page' = page
  PROVE  ShownInv' /\ SeenInv' /\ BadgeFitsEligibility'
BY IdsStay DEF ShownInv, SeenInv, BadgeFitsEligibility

LEMMA GrowInv ==
  ASSUME StoreAssumption, PInv, TablesGrow, page' = page
  PROVE  /\ NoneInv' /\ BackedInv' /\ RecordedInv'
         /\ ShownInv' /\ SeenInv' /\ BadgeFitsEligibility'
BY GrowKeeps, ShownStays DEF PInv

\* Requests in hand are unaffected by what others add.
LEMMA HandStays ==
  ASSUME StoreAssumption, HandInv, TablesGrow, UNCHANGED <<click, booking>>,
         \A j \in ImmediateJobs : result'[j] = result[j]
  PROVE  HandInv'
<1>1. InHandInv' /\ LockInv'
  BY DEF HandInv, InHandInv, LockInv
<1>2. ASSUME NEW c \in Clicks PROVE HandOK(c)'
  <2>1. click[c].pc \in {"calling", "success", "finalizing"} =>
          click[c].cur \in ImmediateJobs /\ click[c].cur \in JobIds
    BY DEF HandInv, InHandInv, JobIds
  <2> QED BY <2>1 DEF HandInv, HandOK, TablesGrow, RowGrows
<1> QED BY <1>1, <1>2 DEF HandInv

-----------------------------------------------------------------------------
(* Steps of the cron publisher *)

\* A change of one scheduled row.
OneRow(j) ==
  /\ \A i \in JobIds \ {j} : job'[i] = job[i]
  /\ job'[j].status # "NONE"

CronEffect ==
  /\ TablesGrow /\ degraded' = degraded
  /\ \A j \in ImmediateJobs : job'[j] = job[j] /\ result'[j] = result[j]

LEMMA QuietEffect ==
  ASSUME UNCHANGED <<draft, job, result, degraded, posts>>
  PROVE  CronEffect
BY DEF CronEffect, TablesGrow, RowGrows, DraftStays, PostsOfJob

LEMMA RowEffect ==
  ASSUME StoreAssumption, NEW j \in ScheduledJobs, OneRow(j),
         UNCHANGED <<result, degraded, posts>>,
         \A d \in Drafts : DraftStays(d) \/ DraftIsRecorded(d)
  PROVE  CronEffect
<1>1. \A i \in ImmediateJobs : i # j /\ i \in JobIds
  BY DEF StoreAssumption, JobIds
<1>2. \A i \in JobIds : RowGrows(i)
  BY DEF RowGrows, OneRow, PostsOfJob
<1> QED BY <1>1, <1>2 DEF CronEffect, TablesGrow, OneRow

LEMMA SameDraft == ASSUME draft' = draft PROVE \A d \in Drafts : DraftStays(d)
BY DEF DraftStays

LEMMA ClaimEffect ==
  ASSUME StoreAssumption, LInv, NEW r \in Runs, NEW j \in ScheduledJobs, Claim(r, j)
  PROVE  CronEffect
<1>1. j \in JobIds /\ job \in [JobIds -> JobRow] /\ job[j] \in JobRow
  BY RowMeaning
<1>2. OneRow(j)
  BY <1>1 DEF Claim, OneRow, JobRow
<1> QED BY <1>2, RowEffect, SameDraft DEF Claim

LEMMA SetInReviewEffect ==
  ASSUME StoreAssumption, LInv, NEW j \in ScheduledJobs, NEW token, token # NoToken,
         SetInReview(j, token), UNCHANGED <<draft, result, degraded, posts>>
  PROVE  CronEffect
<1>1. j \in JobIds /\ job \in [JobIds -> JobRow] /\ job[j] \in JobRow
  BY RowMeaning
<1>2. CASE job' = job
  BY <1>2, QuietEffect
<1>3. CASE job' # job
  <2>1. OneRow(j)
    BY <1>1, <1>3 DEF SetInReview, OneRow, JobRow
  <2> QED BY <2>1, RowEffect, SameDraft
<1> QED BY <1>2, <1>3

\* What a run does to a draft while it keeps its external id.
LEMMA StatusEffect ==
  ASSUME draft \in [Drafts -> DraftRow], NEW e \in Drafts, NEW s, s # "PUBLISHED",
         draft' = [draft EXCEPT ![e].status = s]
  PROVE  \A d \in Drafts : DraftStays(d)
BY DEF DraftRow, DraftStays

LEMMA CloseEffect ==
  ASSUME StoreAssumption, LInv, NEW r \in Runs, CloseWithoutProvider(r)
  PROVE  CronEffect
<1>1. run[r].pc \in Preparing /\ UNCHANGED <<draft, result, degraded, posts>>
  BY DEF CloseWithoutProvider, Verdicts, Preparing
<1>2. PICK j \in ScheduledJobs : j = run[r].cur
  BY <1>1 DEF LInv, IInv, CurInv
<1>3. j \in JobIds /\ job \in [JobIds -> JobRow] /\ job[j] \in JobRow
  BY RowMeaning
<1>4. CASE job' = job
  BY <1>1, <1>4, QuietEffect
<1>5. CASE job' # job
  <2>1. PICK status \in {"FAILED", "SCHEDULED"} : job' = [job EXCEPT ![j] = Blocked(@, status)]
    BY <1>2, <1>5 DEF CloseWithoutProvider
  <2>2. OneRow(j)
    BY <2>1, <1>3 DEF OneRow, JobRow, Blocked
  <2> QED BY <1>1, <2>2, RowEffect, SameDraft
<1> QED BY <1>4, <1>5

LEMMA ReconcileEffect ==
  ASSUME StoreAssumption, LInv, NEW r \in Runs, Reconcile(r)
  PROVE  CronEffect
<1>1. run[r].pc = "reconciling" /\ run[r].pc \in Preparing /\ UNCHANGED <<result, degraded, posts>>
  BY DEF Reconcile, Preparing
<1>2. PICK j \in ScheduledJobs : j = run[r].cur
  BY <1>1 DEF LInv, IInv, CurInv
<1> DEFINE d == DraftOf[j]
<1>3. /\ j \in JobIds /\ job \in [JobIds -> JobRow] /\ job[j] \in JobRow
      /\ draft \in [Drafts -> DraftRow] /\ d \in Drafts
  BY RowMeaning DEF LInv, IInv, CronTypeOK, StoreTypeOK, StoreAssumption
<1>4. CASE UNCHANGED <<job, draft>>
  BY <1>1, <1>4, QuietEffect
<1>5. CASE ~UNCHANGED <<job, draft>>
  <2>1. result[j] # {}
    BY <1>1, <1>2 DEF LInv, IInv, PrepareInv
  <2>2. /\ draft' = [draft EXCEPT ![d] = [status |-> "PUBLISHED", ext |-> result[j]]]
        /\ job' = [job EXCEPT ![j].status = "PUBLISHED"]
    BY <1>2, <1>5 DEF Reconcile
  <2>3. OneRow(j)
    BY <2>2, <1>3 DEF OneRow, JobRow
  <2>4. draft'[d].ext = result[j] /\ \A e \in Drafts \ {d} : draft'[e] = draft[e]
    BY <2>2, <1>3
  <2>5. DraftIsRecorded(d) /\ \A e \in Drafts \ {d} : DraftStays(e)
    BY <2>1, <2>4, <1>1, <1>3 DEF DraftIsRecorded, DraftStays
  <2> QED BY <2>3, <2>5, <1>1, RowEffect
<1> QED BY <1>4, <1>5

LEMMA StartAttemptEffect ==
  ASSUME StoreAssumption, LInv, NEW r \in Runs, StartAttempt(r)
  PROVE  CronEffect
<1>1. run[r].pc \in Preparing /\ UNCHANGED <<draft, result, degraded, posts>>
  BY DEF StartAttempt, Verdicts, Preparing
<1>2. PICK j \in ScheduledJobs : j = run[r].cur
  BY <1>1 DEF LInv, IInv, CurInv
<1>3. /\ j \in JobIds /\ job \in [JobIds -> JobRow] /\ job[j] \in JobRow
  BY RowMeaning
<1>4. CASE job' = job
  BY <1>1, <1>4, QuietEffect
<1>5. CASE job' # job
  <2>1. /\ job[j].status = "IN_REVIEW"
        /\ job' = [job EXCEPT ![j].attempts = @ + 1, ![j].started = TRUE]
    BY <1>2, <1>5 DEF StartAttempt
  <2>2. OneRow(j)
    BY <2>1, <1>3 DEF OneRow, JobRow
  <2> QED BY <2>2, <1>1, RowEffect, SameDraft
<1> QED BY <1>4, <1>5

\* The row and the draft of a job whose attempt is under way
LEMMA AttemptRow ==
  ASSUME StoreAssumption, LInv, NEW r \in Runs, run[r].pc \in Attempting
  PROVE  /\ run[r].cur \in ScheduledJobs /\ run[r].cur \in JobIds
         /\ DraftOf[run[r].cur] \in Drafts
         /\ job \in [JobIds -> JobRow] /\ job[run[r].cur] \in JobRow
         /\ draft \in [Drafts -> DraftRow] /\ result \in [JobIds -> Optional(PostIds)]
         /\ job[run[r].cur].status = "IN_REVIEW" /\ result[run[r].cur] = {}
<1>1. run[r].cur \in ScheduledJobs /\ AttemptOK(r, run[r].cur, run[r].pc)
  BY DEF LInv, IInv, CurInv, AttemptInv
<1>2. run[r].cur \in JobIds /\ DraftOf[run[r].cur] \in Drafts
  BY <1>1 DEF StoreAssumption, JobIds
<1>3. /\ job \in [JobIds -> JobRow] /\ draft \in [Drafts -> DraftRow]
      /\ result \in [JobIds -> Optional(PostIds)]
  BY DEF LInv, IInv, CronTypeOK, StoreTypeOK
<1> QED BY <1>1, <1>2, <1>3 DEF AttemptOK

LEMMA CallProviderEffect ==
  ASSUME StoreAssumption, LInv, NEW r \in Runs, CallProvider(r)
  PROVE  CronEffect
<1>1. run[r].pc \in Attempting /\ UNCHANGED <<draft, job, result, degraded>>
  BY DEF CallProvider, Attempting
<1>2. PICK j \in ScheduledJobs : j = run[r].cur /\ job[j].status = "IN_REVIEW"
  BY <1>1, AttemptRow
<1>3. posts' = posts \/ posts' = posts \union {<<j, r>>}
  BY <1>2 DEF CallProvider, Call
<1>4. \A i \in JobIds : RowGrows(i)
  BY <1>1, <1>2, <1>3 DEF RowGrows, PostsOfJob
<1> QED BY <1>1, <1>3, <1>4, SameDraft DEF CronEffect, TablesGrow, JobIds

LEMMA FinalizeSuccessEffect ==
  ASSUME StoreAssumption, LInv, NEW r \in Runs, FinalizeSuccess(r)
  PROVE  CronEffect
<1>1. run[r].pc \in Attempting /\ UNCHANGED <<degraded, posts>>
  BY DEF FinalizeSuccess, Attempting
<1> DEFINE j == run[r].cur
           d == DraftOf[j]
           post == {<<j, r>>}
<1>2. /\ j \in ScheduledJobs /\ j \in JobIds /\ d \in Drafts
      /\ job \in [JobIds -> JobRow] /\ draft \in [Drafts -> DraftRow]
      /\ result \in [JobIds -> Optional(PostIds)] /\ result[j] = {}
  BY <1>1, AttemptRow
<1>3. CASE UNCHANGED <<draft, job, result>>
  BY <1>1, <1>3, QuietEffect
<1>4. CASE /\ result' = [result EXCEPT ![j] = post]
           /\ draft' = [draft EXCEPT ![d] = [status |-> "PUBLISHED", ext |-> post]]
           /\ job' = [job EXCEPT ![j].status = "PUBLISHED"]
  <2>1. /\ \A i \in JobIds \ {j} : job'[i] = job[i] /\ result'[i] = result[i]
        /\ job'[j].status = "PUBLISHED" /\ result'[j] = post
    BY <1>2, <1>4 DEF JobRow
  <2>2. draft'[d].ext = post /\ \A e \in Drafts \ {d} : draft'[e] = draft[e]
    BY <1>2, <1>4
  <2>3. DraftIsRecorded(d) /\ \A e \in Drafts \ {d} : DraftStays(e)
    BY <2>1, <2>2, <1>2 DEF DraftIsRecorded, DraftStays
  <2>4. \A i \in JobIds : RowGrows(i)
    BY <1>1, <1>2, <2>1, <2>2 DEF RowGrows, PostsOfJob
  <2>5. \A i \in ImmediateJobs : i # j /\ i \in JobIds
    BY <1>2 DEF StoreAssumption, JobIds
  <2> QED BY <1>1, <2>1, <2>3, <2>4, <2>5 DEF CronEffect, TablesGrow
<1> QED BY <1>3, <1>4 DEF FinalizeSuccess

LEMMA RecordFailureEffect ==
  ASSUME StoreAssumption, LInv, NEW r \in Runs, RecordFailure(r)
  PROVE  CronEffect
<1>1. run[r].pc \in Attempting /\ UNCHANGED <<result, degraded, posts>>
  BY DEF RecordFailure, Attempting, Outcomes
<1> DEFINE j == run[r].cur
           status == IF CanRetry(r, j) THEN "SCHEDULED" ELSE "FAILED"
<1>2. /\ j \in ScheduledJobs /\ j \in JobIds /\ DraftOf[j] \in Drafts
      /\ job \in [JobIds -> JobRow] /\ job[j] \in JobRow /\ draft \in [Drafts -> DraftRow]
  BY <1>1, AttemptRow
<1>3. CASE UNCHANGED <<job, draft>>
  BY <1>1, <1>3, QuietEffect
<1>4. CASE ~UNCHANGED <<job, draft>>
  <2>1. /\ job' = [job EXCEPT ![j] = [Blocked(@, status) EXCEPT !.started = FALSE]]
        /\ draft' = [draft EXCEPT ![DraftOf[j]].status = status]
    BY <1>4 DEF RecordFailure
  <2>2. OneRow(j)
    BY <2>1, <1>2 DEF OneRow, JobRow, Blocked
  <2>3. status # "PUBLISHED"
    OBVIOUS
  <2>4. \A e \in Drafts : DraftStays(e)
    <3> HIDE DEF status
    <3> QED BY <2>1, <2>3, <1>2, StatusEffect
  <2> QED BY <1>1, <1>2, <2>2, <2>4, RowEffect
<1> QED BY <1>3, <1>4

LEMMA CronStepEffect ==
  ASSUME StoreAssumption, LInv, [CronNext]_cronVars
  PROVE  CronEffect
<1>1. ASSUME NEW r \in Runs, RunStep(r) PROVE CronEffect
  <2>1. CASE StartRun(r) \/ EndRun(r) \/ LoadContext(r) \/ CheckReconcile(r) \/ CheckFinalize(r)
    BY <2>1, QuietEffect DEF StartRun, EndRun, LoadContext, CheckReconcile, CheckFinalize, storeVars
  <2>2. ASSUME NEW j \in ScheduledJobs, Claim(r, j) \/ LoseClaim(r, j) \/ FlagAttempted(r, j)
        PROVE  CronEffect
    <3>1. CASE Claim(r, j) BY <3>1, ClaimEffect
    <3>2. CASE LoseClaim(r, j) BY <3>2, QuietEffect DEF LoseClaim, storeVars
    <3>3. CASE FlagAttempted(r, j)
      <4>1. run[r].snap[j].token # NoToken
        BY <3>3 DEF FlagAttempted, SeenAttempted, LInv, IInv, SnapInv
      <4> QED BY <3>3, <4>1, SetInReviewEffect DEF FlagAttempted
    <3> QED BY <2>2, <3>1, <3>2, <3>3
  <2>3. CASE MarkReconciliation(r)
    <3>1. run[r].pc \in Attempting
      BY <2>3 DEF MarkReconciliation, Attempting, Outcomes
    <3>2. run[r].cur \in ScheduledJobs
      BY <3>1, AttemptRow
    <3> QED BY <2>3, <3>2, SetInReviewEffect DEF MarkReconciliation, StoreAssumption
  <2>4. CASE CloseWithoutProvider(r) BY <2>4, CloseEffect
  <2>5. CASE StartAttempt(r) BY <2>5, StartAttemptEffect
  <2>6. CASE CallProvider(r) BY <2>6, CallProviderEffect
  <2>7. CASE FinalizeSuccess(r) BY <2>7, FinalizeSuccessEffect
  <2>8. CASE RecordFailure(r) BY <2>8, RecordFailureEffect
  <2>9. CASE Reconcile(r) BY <2>9, ReconcileEffect
  <2> QED BY <1>1, <2>1, <2>2, <2>3, <2>4, <2>5, <2>6, <2>7, <2>8, <2>9 DEF RunStep
<1>2. CASE (Tick /\ UNCHANGED run) \/ UNCHANGED cronVars
  BY <1>2, QuietEffect DEF Tick, cronVars, storeVars
<1> QED BY <1>1, <1>2 DEF CronNext

-----------------------------------------------------------------------------
(* What the others may do to scheduled jobs *)

Untouched(j) ==
  job'[j] = job[j] /\ result'[j] = result[j] /\ PostsOfJob(j)' = PostsOfJob(j)

\* The row of a job that did not exist
Booked(j) ==
  /\ job[j] = NoRow /\ job'[j] = NewJob("SCHEDULED")
  /\ PostsOfJob(j) = {} /\ PostsOfJob(j)' = {} /\ result'[j] = result[j]

\* Who is not an invocation books scheduled jobs and leaves them alone otherwise.
LEMMA OutsideInv ==
  ASSUME StoreAssumption, LInv, run' = run, CronTypeOK', RecordsAreReal',
         \A j \in ScheduledJobs : Untouched(j) \/ Booked(j)
  PROVE  LInv'
<1> USE DEF LInv, IInv
<1>1. \A j \in ScheduledJobs :
        /\ result'[j] = result[j] /\ PostsOfJob(j)' = PostsOfJob(j)
        /\ job'[j].started = job[j].started /\ job'[j].token = job[j].token
        /\ job'[j].attempts = job[j].attempts
        /\ job[j].status = "NONE" \/ job'[j].status = job[j].status
  <2>1. /\ NewJob("SCHEDULED").started = NoRow.started /\ NewJob("SCHEDULED").token = NoRow.token
        /\ NewJob("SCHEDULED").attempts = NoRow.attempts /\ NoRow.status = "NONE"
    BY DEF NewJob, NoRow
  <2> QED BY <2>1 DEF Untouched, Booked
<1>2. CurInv'
  BY DEF CurInv
<1>3. RowInv'
  <2> SUFFICES ASSUME NEW j \in ScheduledJobs
               PROVE  /\ job'[j].status = "SCHEDULED" => ~job'[j].started
                      /\ job'[j].started => job'[j].token # NoToken
                      /\ job'[j].token # NoToken => job'[j].status \in {"IN_REVIEW", "PUBLISHED"}
                      /\ ~job'[j].started /\ job'[j].status \in {"SCHEDULED", "IN_REVIEW"} =>
                           PostsOfJob(j)' = {}
                      /\ result'[j] # {} => job'[j].started
    BY DEF RowInv
  <2>1. CASE Untouched(j)
    BY <2>1 DEF RowInv, Untouched
  <2>2. CASE Booked(j)
    <3>1. /\ job'[j].status = "SCHEDULED" /\ ~job'[j].started /\ job'[j].token = NoToken
      BY <2>2 DEF Booked, NewJob, NoRow
    <3>2. result[j] = {}
      <4>1. ~job[j].started
        BY <2>2 DEF Booked, NoRow
      <4> QED BY <4>1 DEF RowInv
    <3> QED BY <2>2, <3>1, <3>2 DEF Booked
  <2> QED BY <2>1, <2>2
<1>4. AttemptInv'
  <2> SUFFICES ASSUME NEW r \in Runs, run[r].pc \in Attempting
               PROVE  AttemptOK(r, run[r].cur, run[r].pc)'
    BY DEF AttemptInv
  <2>1. run[r].cur \in ScheduledJobs /\ AttemptOK(r, run[r].cur, run[r].pc)
    BY DEF CurInv, AttemptInv
  <2>2. job[run[r].cur].status = "IN_REVIEW"
    BY <2>1 DEF AttemptOK
  <2> QED BY <1>1, <2>1, <2>2 DEF AttemptOK, Holds, PostsOfJob
<1>5. PrepareInv'
  <2> SUFFICES ASSUME NEW r \in Runs, run[r].pc \in Preparing
               PROVE  /\ Holds(r, run[r].cur)' => ~job'[run[r].cur].started
                      /\ run[r].pc \in {"reconcile", "reconciling"} => result'[run[r].cur] # {}
    BY DEF PrepareInv
  <2>1. run[r].cur \in ScheduledJobs
    BY DEF CurInv
  <2> QED BY <1>1, <2>1 DEF PrepareInv, Holds
<1>6. FreshInv'
  BY <1>1 DEF FreshInv, Fresh, Pending
<1>7. SnapInv'
  BY <1>1 DEF SnapInv
<1>8. OnePostPerScheduledJob'
  <2> SUFFICES ASSUME NEW p \in posts', NEW q \in posts', p[1] = q[1], p[1] \in ScheduledJobs
               PROVE  p = q
    BY DEF OnePostPerScheduledJob
  <2>1. p \in PostsOfJob(p[1])' /\ q \in PostsOfJob(p[1])'
    BY DEF PostsOfJob
  <2>2. p \in posts /\ q \in posts
    BY <1>1, <2>1 DEF PostsOfJob
  <2> QED BY <2>2 DEF OnePostPerScheduledJob
<1>9. TriesInv'
  <2> SUFFICES ASSUME NEW j \in ScheduledJobs, job'[j].status \in {"SCHEDULED", "IN_REVIEW"},
                      ~job'[j].started
               PROVE  job'[j].attempts < MaxAttempts
    BY DEF TriesInv
  <2>1. CASE Untouched(j)
    BY <2>1 DEF TriesInv, Untouched
  <2>2. CASE Booked(j)
    BY <2>2 DEF Booked, NewJob, NoRow, StoreAssumption
  <2> QED BY <2>1, <2>2
<1> QED BY <1>2, <1>3, <1>4, <1>5, <1>6, <1>7, <1>8, <1>9

LEMMA UntouchedStep ==
  ASSUME \A j \in ScheduledJobs : Untouched(j)
  PROVE  LStep
<1>1. Still
  BY DEF Untouched, Still, PhaseOf
<1> QED BY <1>1, StillStep

LEMMA BookedStep ==
  ASSUME LInv, NEW j \in ScheduledJobs, Booked(j),
         \A i \in ScheduledJobs \ {j} : Untouched(i)
  PROVE  LStep
<1>1. /\ job[j].status = "NONE" /\ job'[j].status = "SCHEDULED" /\ ~job[j].started
      /\ job'[j].attempts = job[j].attempts
  BY DEF Booked, NewJob, NoRow
<1>2. result[j] = {} /\ result'[j] = {}
  BY <1>1 DEF LInv, IInv, RowInv, Booked
<1>3. PhaseOf(j) = "absent" /\ PhaseOf(j)' = "waiting"
  BY <1>1, <1>2 DEF PhaseOf
<1>4. Others(j)
  BY DEF Others, Untouched
<1> QED BY <1>1, <1>3, <1>4, MoveStep

-----------------------------------------------------------------------------
(* Steps of a click *)

\* What clicks keep and what the rest of the proof needs of their steps
RouteEffect ==
  /\ RouteTypeOK' /\ HandInv' /\ NotWaitingInv' /\ DegradedInv' /\ RecordsAreReal' /\ TablesGrow
  /\ \A j \in ScheduledJobs : Untouched(j)

\* A click that only reads.
LEMMA QuietClick ==
  ASSUME PInv, NEW c \in Clicks,
         UNCHANGED storeVars, UNCHANGED booking,
         click' \in [Clicks -> ClickRow],
         \A e \in Clicks \ {c} : click'[e] = click[e],
         click'[c].pc \in {"read", "gated", "checked", "done"},
         click'[c].pc # "done" => click'[c].cur \in ImmediateJobs
  PROVE  RouteEffect
<1> USE DEF storeVars
<1>1. RouteTypeOK'
  BY DEF PInv, PublishingTypeOK, RouteTypeOK, StoreTypeOK
<1>2. HandInv'
  <2>1. InHandInv'
    BY DEF InHandInv, PInv, HandInv
  <2>2. LockInv'
    BY DEF LockInv, Locking, PInv, HandInv
  <2>3. ASSUME NEW e \in Clicks PROVE HandOK(e)'
    BY DEF HandOK, PInv, HandInv
  <2> QED BY <2>1, <2>2, <2>3 DEF HandInv
<1>3. NotWaitingInv' /\ DegradedInv' /\ RecordsAreReal'
  BY DEF PInv, NotWaitingInv, DegradedInv, LInv, IInv, RecordsAreReal, PostsOfJob, PostsOfDraft
<1>4. TablesGrow
  BY QuietEffect DEF CronEffect
<1>5. \A j \in ScheduledJobs : Untouched(j)
  BY DEF Untouched, PostsOfJob
<1> QED BY <1>1, <1>2, <1>3, <1>4, <1>5 DEF RouteEffect

LEMMA ReadingClicks ==
  ASSUME StoreAssumption, PInv, NEW c \in Clicks, UNCHANGED booking,
         \/ \E j \in ImmediateJobs : ClickRead(c, j)
         \/ ClickGate(c)
         \/ ClickLookup(c)
         \/ ClickCutOff(c)
  PROVE  RouteEffect
<1>1. /\ click \in [Clicks -> ClickRow] /\ draft \in [Drafts -> DraftRow]
      /\ click[c].pc \notin {"idle", "done"} => click[c].cur \in ImmediateJobs
  BY DEF PInv, PublishingTypeOK, RouteTypeOK, StoreTypeOK, HandInv, InHandInv
<1>2. CASE \E j \in ImmediateJobs : ClickRead(c, j)
  <2>1. PICK j \in ImmediateJobs : ClickRead(c, j)
    BY <1>2
  <2>2. draft[DraftOf[j]].ext \in Optional(PostIds)
    BY <1>1 DEF StoreAssumption, JobIds, DraftRow
  <2>3. /\ click' \in [Clicks -> ClickRow]
        /\ \A e \in Clicks \ {c} : click'[e] = click[e]
        /\ click'[c].pc = "read" /\ click'[c].cur = j
    BY <1>1, <2>1, <2>2 DEF ClickRead, ClickRow, ClickPcs, JobIds
  <2> QED BY <2>1, <2>3, QuietClick DEF ClickRead
<1>3. CASE ClickGate(c)
  <2>1. PICK pc \in {"gated", "done"} : ClickTo(c, pc)
    BY <1>3 DEF ClickGate
  <2> QED BY <1>1, <1>3, <2>1, ClickToFacts, QuietClick DEF ClickGate, ClickPcs
<1>4. CASE ClickLookup(c)
  <2>1. PICK pc \in {"checked", "done"} : ClickTo(c, pc)
    BY <1>4 DEF ClickLookup
  <2> QED BY <1>1, <1>4, <2>1, ClickToFacts, QuietClick DEF ClickLookup, ClickPcs
<1>5. CASE ClickCutOff(c)
  BY <1>1, <1>5, ClickToFacts, QuietClick DEF ClickCutOff, ClickPcs
<1> QED BY <1>2, <1>3, <1>4, <1>5

\* A click that writes: its own job and the draft of that job, a post of its own, and
\* as published only what it has posted.
Writes(c, j) ==
  /\ draft' \in [Drafts -> DraftRow] /\ job' \in [JobIds -> JobRow]
  /\ result' \in [JobIds -> Optional(PostIds)] /\ now' = now
  /\ posts' = posts \/ posts' = posts \union {<<j, c>>}
  /\ \A i \in JobIds \ {j} : job'[i] = job[i] /\ result'[i] = result[i]
  /\ degraded' \subseteq degraded \union {j}
  /\ job'[j].status = "PUBLISHED" => j \notin degraded'
  /\ \/ job'[j] = job[j] /\ (posts' = posts \/ job[j].status # "NONE")
     \/ job'[j].status \notin {"NONE", "SCHEDULED"}
  /\ \/ result'[j] = result[j] /\ (job'[j].status = "PUBLISHED" => job[j].status = "PUBLISHED")
     \/ /\ result'[j] = {<<j, c>>} /\ result[j] \in {{}, {<<j, c>>}} /\ <<j, c>> \in posts'
        /\ draft'[DraftOf[j]].ext # {} /\ click[c].pc = "finalizing"
  /\ \A d \in Drafts :
       \/ DraftStays(d)
       \/ d = DraftOf[j] /\ draft'[d].ext = {<<j, c>>} /\ result'[j] = {<<j, c>>}

Advances(c, j, pc) ==
  /\ ClickTo(c, pc) /\ pc \in ClickPcs /\ UNCHANGED booking
  /\ pc = "calling" => job'[j].status # "NONE"
  /\ pc \in {"success", "finalizing"} => <<j, c>> \in posts'
  /\ pc = "finalizing" => result'[j] \in {{}, {<<j, c>>}}
  /\ pc \in Locking => RowFree(j)

LEMMA WritingClick ==
  ASSUME StoreAssumption, PInv, NEW c \in Clicks, NEW j \in ImmediateJobs, NEW pc,
         click[c].cur = j, click[c].pc \notin {"idle", "done"},
         Writes(c, j), Advances(c, j, pc)
  PROVE  RouteEffect
<1>1. /\ j \in JobIds /\ DraftOf[j] \in Drafts /\ j \notin ScheduledJobs
      /\ c \in Actors /\ <<j, c>> \in PostIds
      /\ ScheduledJobs \subseteq JobIds /\ ImmediateJobs \subseteq JobIds
  BY DEF StoreAssumption, JobIds, Actors, PostIds
<1>2. /\ click \in [Clicks -> ClickRow] /\ posts \in SUBSET PostIds /\ now \in Nat
      /\ booking \in [Bookings -> BookingRow] /\ degraded \in SUBSET ImmediateJobs
  BY DEF PInv, PublishingTypeOK, RouteTypeOK, StoreTypeOK
<1>3. /\ click' \in [Clicks -> ClickRow]
      /\ \A e \in Clicks \ {c} : click'[e] = click[e]
      /\ click'[c].pc = pc /\ click'[c].cur = j
  BY <1>2, ClickToFacts DEF Advances
<1>4. RouteTypeOK'
  BY <1>1, <1>2, <1>3 DEF RouteTypeOK, StoreTypeOK, Writes, Advances
<1>5. posts \subseteq posts' /\ \A i \in JobIds \ {j} : PostsOfJob(i)' = PostsOfJob(i)
  BY DEF Writes, PostsOfJob
<1>6. TablesGrow
  <2>1. RowGrows(j)
    BY DEF Writes, RowGrows, PostsOfJob
  <2>2. \A i \in JobIds \ {j} : RowGrows(i)
    BY <1>5 DEF Writes, RowGrows
  <2>3. \A d \in Drafts : DraftStays(d) \/ DraftIsRecorded(d)
    BY <1>1 DEF Writes, DraftIsRecorded
  <2> QED BY <1>5, <2>1, <2>2, <2>3 DEF TablesGrow
<1>7. \A i \in ScheduledJobs : Untouched(i)
  BY <1>1, <1>5 DEF Untouched, Writes
<1>8. NotWaitingInv'
  <2>1. job'[j].status # "SCHEDULED"
    BY DEF PInv, NotWaitingInv, Writes
  <2> QED BY <1>1, <2>1 DEF PInv, NotWaitingInv, Writes
<1>9. DegradedInv'
  <2> SUFFICES ASSUME NEW i \in degraded' PROVE job'[i].status # "PUBLISHED"
    BY DEF DegradedInv
  <2>1. CASE i = j
    BY <2>1 DEF Writes
  <2>2. CASE i # j
    BY <1>1, <1>2, <2>2 DEF Writes, PInv, DegradedInv
  <2> QED BY <2>1, <2>2
<1>10. RecordsAreReal'
  <2>1. ASSUME NEW i \in JobIds
        PROVE  /\ result'[i] \subseteq PostsOfJob(i)'
               /\ job'[i].status = "PUBLISHED" => result'[i] # {}
    <3>1. CASE i # j
      BY <1>5, <3>1 DEF PInv, LInv, IInv, RecordsAreReal, Writes
    <3>2. CASE i = j
      <4>1. PostsOfJob(j) \subseteq PostsOfJob(j)' /\ (<<j, c>> \in posts' => <<j, c>> \in PostsOfJob(j)')
        BY <1>5 DEF PostsOfJob
      <4>2. CASE result'[j] = result[j] /\ (job'[j].status = "PUBLISHED" => job[j].status = "PUBLISHED")
        BY <1>1, <3>2, <4>1, <4>2 DEF PInv, LInv, IInv, RecordsAreReal
      <4>3. CASE result'[j] = {<<j, c>>} /\ <<j, c>> \in posts'
        BY <3>2, <4>1, <4>3
      <4> QED BY <4>2, <4>3 DEF Writes
    <3> QED BY <3>1, <3>2
  <2>2. ASSUME NEW d \in Drafts
        PROVE  draft'[d].ext \subseteq PostsOfDraft(d)'
    <3>1. PostsOfDraft(d) \subseteq PostsOfDraft(d)'
      BY <1>5 DEF PostsOfDraft
    <3>2. CASE DraftStays(d)
      BY <3>1, <3>2 DEF PInv, LInv, IInv, RecordsAreReal, DraftStays
    <3>3. CASE d = DraftOf[j] /\ draft'[d].ext = {<<j, c>>} /\ result'[j] = {<<j, c>>}
      <4>1. <<j, c>> \in posts'
        BY <1>1, <2>1, <3>3 DEF PostsOfJob
      <4> QED BY <3>3, <4>1 DEF PostsOfDraft
    <3> QED BY <3>2, <3>3 DEF Writes
  <2> QED BY <2>1, <2>2 DEF RecordsAreReal
<1>11. HandInv'
  <2>1. InHandInv'
    BY <1>3 DEF PInv, HandInv, InHandInv, Advances
  <2>2. ASSUME NEW e \in Clicks PROVE HandOK(e)'
    <3>1. CASE e = c
      BY <1>3, <3>1 DEF Advances, HandOK
    <3>2. CASE e # c
      <4>1. click'[e] = click[e] /\ HandOK(e)
        BY <1>3, <3>2 DEF PInv, HandInv
      <4>2. click[e].pc \in {"calling", "success", "finalizing"} => click[e].cur \in JobIds
        BY <1>1 DEF PInv, HandInv, InHandInv
      <4>3. click[e].pc = "finalizing" => result'[click[e].cur] = result[click[e].cur]
        BY <3>2, <4>2 DEF PInv, HandInv, LockInv, Locking, Writes
      <4> QED BY <1>6, <4>1, <4>2, <4>3 DEF HandOK, TablesGrow, RowGrows
    <3> QED BY <3>1, <3>2
  <2>3. LockInv'
    BY <1>3 DEF LockInv, Locking, PInv, HandInv, Advances, RowFree
  <2> QED BY <2>1, <2>2, <2>3 DEF HandInv
<1> QED BY <1>4, <1>6, <1>7, <1>8, <1>9, <1>10, <1>11 DEF RouteEffect

\* The tables as a click in flight finds them
LEMMA WriterFacts ==
  ASSUME StoreAssumption, PInv, NEW c \in Clicks, click[c].pc \notin {"idle", "done"}
  PROVE  /\ click[c].cur \in ImmediateJobs /\ click[c].cur \in JobIds
         /\ ClickDraft(c) = DraftOf[click[c].cur] /\ ClickDraft(c) \in Drafts
         /\ draft \in [Drafts -> DraftRow] /\ job \in [JobIds -> JobRow]
         /\ job[click[c].cur] \in JobRow
         /\ result \in [JobIds -> Optional(PostIds)]
         /\ HandOK(c)
         /\ job[click[c].cur].status = "PUBLISHED" => click[c].cur \notin degraded
BY DEF PInv, HandInv, InHandInv, DegradedInv, PublishingTypeOK, RouteTypeOK, StoreTypeOK,
       StoreAssumption, JobIds, ClickDraft

\* A status other than PUBLISHED
LEMMA StatusFacts ==
  ASSUME draft \in [Drafts -> DraftRow], NEW e \in Drafts,
         NEW s \in DraftStatuses, s # "PUBLISHED",
         draft' = [draft EXCEPT ![e].status = s]
  PROVE  draft' \in [Drafts -> DraftRow] /\ \A d \in Drafts : DraftStays(d)
BY StatusEffect DEF DraftRow

LEMMA UnclaimKeeps ==
  ASSUME draft \in [Drafts -> DraftRow], NEW e \in Drafts, Unclaim(e)
  PROVE  draft' \in [Drafts -> DraftRow] /\ \A d \in Drafts : DraftStays(d)
<1>1. CASE draft[e].status = "SCHEDULED"
  <2>1. draft' = [draft EXCEPT ![e].status = "APPROVED"]
    BY <1>1 DEF Unclaim
  <2> QED BY <2>1, StatusFacts DEF DraftStatuses
<1>2. CASE draft[e].status # "SCHEDULED"
  <2>1. draft' = draft
    BY <1>2 DEF Unclaim, DraftRow
  <2> QED BY <2>1, SameDraft
<1> QED BY <1>1, <1>2

\* The first steps that write touch the draft or the row.
LEMMA ClaimingClick ==
  ASSUME StoreAssumption, PInv, NEW c \in Clicks,
         ClickClaim(c) \/ ClickRollback(c) \/ ClickCreateJob(c)
  PROVE  RouteEffect
<1> DEFINE j == click[c].cur
<1>1. click[c].pc \notin {"idle", "done"} /\ UNCHANGED <<result, degraded, posts, now, booking>>
  BY DEF ClickClaim, ClickRollback, ClickCreateJob
<1>2. /\ j \in ImmediateJobs /\ j \in JobIds
      /\ ClickDraft(c) = DraftOf[j] /\ ClickDraft(c) \in Drafts
      /\ draft \in [Drafts -> DraftRow] /\ job \in [JobIds -> JobRow] /\ job[j] \in JobRow
      /\ result \in [JobIds -> Optional(PostIds)]
      /\ job[j].status = "PUBLISHED" => j \notin degraded
  BY <1>1, WriterFacts
<1>3. CASE ClickClaim(c) \/ ClickRollback(c)
  <2>1. job' = job
    BY <1>3 DEF ClickClaim, ClickRollback
  <2>2. draft' \in [Drafts -> DraftRow] /\ \A d \in Drafts : DraftStays(d)
    <3>1. \/ draft' = draft \/ Unclaim(ClickDraft(c))
          \/ draft' = [draft EXCEPT ![ClickDraft(c)].status = "SCHEDULED"]
      BY <1>3 DEF ClickClaim, ClickRollback
    <3> QED BY <3>1, <1>2, UnclaimKeeps, StatusFacts, SameDraft DEF DraftStatuses
  <2>3. Writes(c, j)
    BY <1>1, <1>2, <2>1, <2>2 DEF Writes
  <2>4. PICK pc \in {"claimed", "done"} : ClickTo(c, pc)
    BY <1>3 DEF ClickClaim, ClickRollback
  <2>5. Advances(c, j, pc)
    BY <1>1, <2>4 DEF Advances, ClickPcs, Locking
  <2> QED BY <1>1, <1>2, <2>3, <2>5, WritingClick
<1>4. CASE ClickCreateJob(c)
  <2>1. job' = [job EXCEPT ![j] = Attempted(job[j])] /\ draft' = draft /\ ClickTo(c, "calling")
    BY <1>4 DEF ClickCreateJob
  <2>2. /\ job' \in [JobIds -> JobRow] /\ job'[j].status = "IN_REVIEW"
        /\ \A i \in JobIds \ {j} : job'[i] = job[i]
    BY <1>2, <2>1, AttemptedType
  <2>3. Writes(c, j)
    BY <1>1, <1>2, <2>1, <2>2, SameDraft DEF Writes
  <2>4. Advances(c, j, "calling")
    BY <1>1, <2>1, <2>2 DEF Advances, ClickPcs, Locking
  <2> QED BY <1>1, <1>2, <2>3, <2>4, WritingClick
<1> QED BY <1>3, <1>4

LEMMA CallingClick ==
  ASSUME StoreAssumption, PInv, NEW c \in Clicks, ClickCall(c)
  PROVE  RouteEffect
<1> DEFINE j == click[c].cur
<1>1. click[c].pc = "calling" /\ UNCHANGED <<draft, job, result, degraded, now, booking>>
  BY DEF ClickCall
<1>2. /\ j \in ImmediateJobs /\ job[j].status # "NONE"
      /\ draft \in [Drafts -> DraftRow] /\ job \in [JobIds -> JobRow]
      /\ result \in [JobIds -> Optional(PostIds)]
      /\ job[j].status = "PUBLISHED" => j \notin degraded
  BY <1>1, WriterFacts DEF HandOK
<1>3. PICK outcome \in Outcomes :
        /\ Call(j, c, outcome)
        /\ ClickTo(c, CASE outcome = "success" -> "success"
                        [] outcome = "ambiguous" -> "done"
                        [] OTHER -> "failed")
  BY DEF ClickCall
<1>4. /\ posts' = posts \/ posts' = posts \union {<<j, c>>}
      /\ outcome = "success" => <<j, c>> \in posts'
  BY <1>3 DEF Call, MayHavePosted
<1>5. Writes(c, j)
  BY <1>1, <1>2, <1>4, SameDraft DEF Writes
<1>6. PICK pc \in {"success", "done", "failed"} :
        ClickTo(c, pc) /\ (pc = "success" => outcome = "success")
  BY <1>3
<1>7. Advances(c, j, pc)
  BY <1>1, <1>2, <1>4, <1>6 DEF Advances, ClickPcs, Locking
<1> QED BY <1>1, <1>2, <1>5, <1>7, WritingClick

\* A click that only moves on
LEMMA MovingClick ==
  ASSUME StoreAssumption, PInv, NEW c \in Clicks, click[c].pc \notin {"idle", "done"},
         UNCHANGED storeVars, NEW pc, Advances(c, click[c].cur, pc)
  PROVE  RouteEffect
<1> DEFINE j == click[c].cur
<1>1. /\ j \in ImmediateJobs /\ draft \in [Drafts -> DraftRow] /\ job \in [JobIds -> JobRow]
      /\ result \in [JobIds -> Optional(PostIds)]
      /\ job[j].status = "PUBLISHED" => j \notin degraded
  BY WriterFacts
<1>2. Writes(c, j)
  BY <1>1, SameDraft DEF Writes, storeVars
<1> QED BY <1>1, <1>2, WritingClick

\* If the draft names no other post, neither does the result row: its id shows on
\* the draft, and an id that a draft shows and that is of this job stands on its row.
LEMMA NoOtherId ==
  ASSUME StoreAssumption, PInv, NEW c \in Clicks, NEW j \in ImmediateJobs,
         MayFinalize(j, {<<j, c>>})
  PROVE  result[j] \in {{}, {<<j, c>>}}
<1> SUFFICES ASSUME result[j] # {} PROVE result[j] = {<<j, c>>}
  OBVIOUS
<1>1. j \in JobIds /\ DraftOf[j] \in Drafts
  BY DEF JobIds, StoreAssumption
<1>2. draft[DraftOf[j]].ext = {<<j, c>>}
  BY <1>1 DEF PInv, RecordedInv, MayFinalize
<1>3. PICK i \in JobIds : result[i] = {<<j, c>>}
  BY <1>1, <1>2 DEF PInv, BackedInv, Backed
<1>4. <<j, c>> \in PostsOfJob(i)
  BY <1>3 DEF PInv, LInv, IInv, RecordsAreReal
<1>5. i = j
  BY <1>4 DEF PostsOfJob
<1> QED BY <1>3, <1>5

LEMMA LookingClick ==
  ASSUME StoreAssumption, PInv, NEW c \in Clicks,
         ClickCheck(c) \/ ClickLook(c) \/ ClickFailElsewhere(c)
  PROVE  RouteEffect
<1> DEFINE j == click[c].cur
<1>1. /\ click[c].pc \in {"success", "failed", "unconfirmed"}
      /\ UNCHANGED <<storeVars, booking>>
  BY DEF ClickCheck, ClickLook, ClickFailElsewhere
<1>2. j \in ImmediateJobs /\ HandOK(c)
  BY <1>1, WriterFacts
<1>3. CASE ClickCheck(c) /\ ClickTo(c, "finalizing")
  <2>1. MayFinalize(j, {<<j, c>>}) /\ RowFree(j) /\ click[c].pc = "success"
    <3>1. /\ click[c].pc = "success" /\ RowFree(j)
          /\ ClickTo(c, IF MayFinalize(j, {<<j, c>>}) THEN "finalizing" ELSE "done")
      BY <1>3 DEF ClickCheck
    <3>2. click \in [Clicks -> ClickRow]
      BY DEF PInv, PublishingTypeOK, RouteTypeOK
    <3>3. click'[c].pc = "finalizing"
      BY <1>3, <3>2, ClickToFacts DEF ClickPcs
    <3>4. ~MayFinalize(j, {<<j, c>>}) => click'[c].pc = "done"
      BY <3>1, <3>2, ClickToFacts DEF ClickPcs
    <3> QED BY <3>1, <3>3, <3>4
  <2>2. result[j] \in {{}, {<<j, c>>}}
    BY <1>2, <2>1, NoOtherId
  <2>3. Advances(c, j, "finalizing")
    BY <1>1, <1>2, <1>3, <2>1, <2>2 DEF Advances, ClickPcs, HandOK, storeVars
  <2> QED BY <1>1, <2>3, MovingClick
<1>4. CASE ClickFailElsewhere(c)
  <2>1. Advances(c, j, "failing")
    BY <1>1, <1>4 DEF ClickFailElsewhere, Advances, ClickPcs
  <2> QED BY <1>1, <2>1, MovingClick
<1>5. CASE ClickTo(c, "done") \/ ClickTo(c, "unconfirmed")
  <2>1. PICK pc \in {"done", "unconfirmed"} : ClickTo(c, pc)
    BY <1>5
  <2>2. Advances(c, j, pc)
    BY <1>1, <2>1 DEF Advances, ClickPcs, Locking
  <2> QED BY <1>1, <2>2, MovingClick
<1>6. ClickCheck(c) => ClickTo(c, "finalizing") \/ ClickTo(c, "done")
  BY DEF ClickCheck
<1>7. ClickLook(c) => ClickTo(c, "done") \/ ClickTo(c, "unconfirmed")
  BY DEF ClickLook
<1> QED BY <1>3, <1>4, <1>5, <1>6, <1>7

LEMMA FinalizingClick ==
  ASSUME StoreAssumption, PInv, NEW c \in Clicks, ClickFinalize(c)
  PROVE  RouteEffect
<1> DEFINE j == click[c].cur
           d == DraftOf[j]
           post == {<<j, c>>}
<1>1. /\ click[c].pc = "finalizing" /\ UNCHANGED <<posts, now, booking>> /\ ClickTo(c, "done")
  BY DEF ClickFinalize
<1>2. /\ j \in ImmediateJobs /\ j \in JobIds /\ d \in Drafts /\ <<j, c>> \in posts
      /\ draft \in [Drafts -> DraftRow] /\ job \in [JobIds -> JobRow] /\ job[j] \in JobRow
      /\ result \in [JobIds -> Optional(PostIds)] /\ result[j] \in {{}, post}
  BY <1>1, WriterFacts DEF HandOK
<1>3. Advances(c, j, "done")
  BY <1>1 DEF Advances, ClickPcs, Locking
<1>4. CASE UNCHANGED <<draft, job, result, degraded>>
  <2>1. UNCHANGED storeVars
    BY <1>1, <1>4 DEF storeVars
  <2> QED BY <1>1, <1>3, <2>1, MovingClick
<1>5. CASE /\ result' = [result EXCEPT ![j] = post]
           /\ degraded' = degraded \ {j}
           /\ draft' = [draft EXCEPT ![d] = [status |-> "PUBLISHED", ext |-> post]]
           /\ job' = [job EXCEPT ![j].status = "PUBLISHED"]
  <2>1. post \in Optional(PostIds)
    BY <1>2 DEF Optional, PostIds, Actors
  <2>2. /\ result' \in [JobIds -> Optional(PostIds)] /\ result'[j] = post
        /\ \A i \in JobIds \ {j} : result'[i] = result[i]
    BY <1>2, <1>5, <2>1
  <2>3. /\ job' \in [JobIds -> JobRow] /\ job'[j].status = "PUBLISHED"
        /\ \A i \in JobIds \ {j} : job'[i] = job[i]
    BY <1>2, <1>5 DEF JobRow, JobStatuses
  <2>4. /\ draft' \in [Drafts -> DraftRow] /\ draft'[d].ext = post
        /\ \A e \in Drafts \ {d} : draft'[e] = draft[e]
    BY <1>2, <1>5, <2>1 DEF DraftRow, DraftStatuses
  <2>5. \A e \in Drafts \ {d} : DraftStays(e)
    BY <2>4 DEF DraftStays
  <2>6. Writes(c, j)
    BY <1>1, <1>2, <1>5, <2>2, <2>3, <2>4, <2>5 DEF Writes
  <2> QED BY <1>1, <1>2, <1>3, <2>6, WritingClick
<1> QED BY <1>4, <1>5 DEF ClickFinalize

LEMMA FailingClick ==
  ASSUME StoreAssumption, PInv, NEW c \in Clicks, ClickFail(c) \/ ClickFailed(c)
  PROVE  RouteEffect
<1> DEFINE j == click[c].cur
<1>1. /\ click[c].pc \in {"unconfirmed", "failing"} /\ UNCHANGED <<result, posts, now, booking>>
      /\ ClickTo(c, "done") /\ Failed(j)
  BY DEF ClickFail, ClickFailed
<1>2. /\ j \in ImmediateJobs /\ j \in JobIds /\ DraftOf[j] \in Drafts
      /\ draft \in [Drafts -> DraftRow] /\ job \in [JobIds -> JobRow] /\ job[j] \in JobRow
      /\ result \in [JobIds -> Optional(PostIds)]
  BY <1>1, WriterFacts
<1>3. Advances(c, j, "done")
  BY <1>1 DEF Advances, ClickPcs, Locking
<1>4. job' = [job EXCEPT ![j].status = "FAILED"] /\ degraded' \subseteq degraded \union {j}
  BY <1>1 DEF Failed
<1>5. /\ job' \in [JobIds -> JobRow] /\ job'[j].status = "FAILED"
      /\ \A i \in JobIds \ {j} : job'[i] = job[i]
  BY <1>2, <1>4 DEF JobRow, JobStatuses
<1>6. draft' \in [Drafts -> DraftRow] /\ \A e \in Drafts : DraftStays(e)
  <2>1. Unclaim(DraftOf[j]) \/ draft' = draft
    BY DEF ClickFail, ClickFailed
  <2> QED BY <1>2, <2>1, UnclaimKeeps, SameDraft
<1>7. Writes(c, j)
  BY <1>1, <1>2, <1>4, <1>5, <1>6 DEF Writes
<1> QED BY <1>1, <1>2, <1>3, <1>7, WritingClick

LEMMA ClickEffect ==
  ASSUME StoreAssumption, PInv, NEW c \in Clicks, ClickStep(c)
  PROVE  RouteEffect
BY ReadingClicks, ClaimingClick, CallingClick, LookingClick, FinalizingClick, FailingClick
   DEF ClickStep

-----------------------------------------------------------------------------
(* Steps of a booking *)

BookEffect ==
  /\ RouteTypeOK' /\ HandInv' /\ NotWaitingInv' /\ DegradedInv' /\ RecordsAreReal' /\ TablesGrow
  /\ LInv => LStep
  /\ \A j \in ScheduledJobs : Untouched(j) \/ Booked(j)

LEMMA BookingEffect ==
  ASSUME StoreAssumption, PInv, NEW b \in Bookings, BookingStep(b)
  PROVE  BookEffect
<1>1. UNCHANGED <<click, result, degraded, posts, now>> /\ booking \in [Bookings -> BookingRow]
  BY DEF BookingStep, BookRead, Book, storeVars, PInv, PublishingTypeOK, RouteTypeOK
<1>2. /\ draft \in [Drafts -> DraftRow] /\ job \in [JobIds -> JobRow]
      /\ ScheduledJobs \subseteq JobIds /\ ImmediateJobs \subseteq JobIds
      /\ ScheduledJobs \intersect ImmediateJobs = {}
      /\ \A j \in JobIds : DraftOf[j] \in Drafts
      /\ degraded \in SUBSET ImmediateJobs
  BY DEF PInv, PublishingTypeOK, RouteTypeOK, StoreTypeOK, JobIds, StoreAssumption
<1>3. /\ booking' \in [Bookings -> BookingRow]
      /\ \A a \in Bookings : booking'[a].pc = "read" => booking'[a].cur \in ScheduledJobs
  <2>1. CASE \E j \in ScheduledJobs : BookRead(b, j)
    BY <1>1, <1>2, <2>1 DEF BookRead, BookingRow, InHandInv, PInv, HandInv
  <2>2. CASE Book(b)
    BY <1>1, <2>2 DEF Book, BookingRow, NewBooking, InHandInv, PInv, HandInv
  <2> QED BY <2>1, <2>2 DEF BookingStep
<1>4. InHandInv'
  BY <1>1, <1>3 DEF InHandInv, PInv, HandInv
<1>5. CASE UNCHANGED <<draft, job>>
  <2>1. TablesGrow
    BY <1>1, <1>5, QuietEffect DEF CronEffect
  <2>2. \A j \in ScheduledJobs : Untouched(j)
    BY <1>1, <1>5 DEF Untouched, PostsOfJob
  <2>3. RouteTypeOK' /\ NotWaitingInv' /\ DegradedInv' /\ RecordsAreReal'
    BY <1>1, <1>3, <1>5 DEF RouteTypeOK, StoreTypeOK, PInv, PublishingTypeOK, NotWaitingInv,
       DegradedInv, LInv, IInv, RecordsAreReal, PostsOfJob, PostsOfDraft
  <2>4. HandInv'
    <3>1. LockInv' /\ \A c \in Clicks : HandOK(c)'
      BY <1>1, <1>5 DEF PInv, HandInv, LockInv, HandOK
    <3> QED BY <1>4, <3>1 DEF HandInv
  <2> QED BY <2>1, <2>2, <2>3, <2>4, UntouchedStep DEF BookEffect
<1>6. CASE Book(b) /\ Bookable(booking[b].cur)
  <2>0. PICK j \in ScheduledJobs : j = booking[b].cur
    BY <1>6 DEF Book, InHandInv, PInv, HandInv
  <2> DEFINE d == DraftOf[j]
  <2>1. j \in JobIds /\ d \in Drafts
    BY <1>2
  <2>2. /\ draft' = [draft EXCEPT ![d].status = "SCHEDULED"]
        /\ job' = [job EXCEPT ![j] = NewJob("SCHEDULED")]
        /\ job[j].status = "NONE"
    BY <1>6, <2>0 DEF Book, Bookable
  <2>3. NewJob("SCHEDULED") \in JobRow /\ NewJob("SCHEDULED").status = "SCHEDULED"
    BY NewJobType DEF JobStatuses
  <2>4. /\ job' \in [JobIds -> JobRow] /\ job'[j] = NewJob("SCHEDULED")
        /\ \A i \in JobIds \ {j} : job'[i] = job[i]
    BY <1>2, <2>1, <2>2, <2>3
  <2>5. draft' \in [Drafts -> DraftRow] /\ \A e \in Drafts : DraftStays(e)
    BY <1>2, <2>1, <2>2, StatusFacts DEF DraftStatuses
  <2>6. Booked(j)
    <3>1. job[j] = NoRow /\ PostsOfJob(j) = {}
      BY <2>1, <2>2 DEF PInv, NoneInv
    <3>2. PostsOfJob(j)' = PostsOfJob(j)
      BY <1>1 DEF PostsOfJob
    <3> QED BY <1>1, <2>4, <3>1, <3>2 DEF Booked
  <2>7. \A i \in JobIds \ {j} : Untouched(i)
    BY <1>1, <2>4 DEF Untouched, PostsOfJob
  <2>8. TablesGrow
    <3>1. \A i \in JobIds : RowGrows(i)
      BY <1>1, <2>3, <2>4 DEF RowGrows, PostsOfJob
    <3> QED BY <1>1, <2>5, <3>1 DEF TablesGrow
  <2>9. RouteTypeOK'
    BY <1>1, <1>3, <2>4, <2>5 DEF RouteTypeOK, StoreTypeOK, PInv, PublishingTypeOK
  <2>10. NotWaitingInv'
    BY <1>2, <2>1, <2>4 DEF NotWaitingInv, PInv
  <2>11. RecordsAreReal'
    <3>1. \A i \in JobIds : job'[i].status = "PUBLISHED" => job'[i] = job[i]
      BY <2>3, <2>4
    <3>2. \A e \in Drafts : draft'[e].ext = draft[e].ext
      BY <1>2, <2>1, <2>2 DEF DraftRow
    <3> QED BY <1>1, <3>1, <3>2 DEF PInv, LInv, IInv, RecordsAreReal, PostsOfJob, PostsOfDraft
  <2>12. HandInv'
    <3>1. LockInv' /\ \A c \in Clicks : HandOK(c)'
      <4>1. \A c \in Clicks : click[c].pc = "calling" => click[c].cur \in JobIds
        BY <1>2 DEF PInv, HandInv, InHandInv
      <4> QED BY <1>1, <2>8, <4>1 DEF PInv, HandInv, LockInv, HandOK, TablesGrow, RowGrows
    <3> QED BY <1>4, <3>1 DEF HandInv
  <2>13. DegradedInv'
    BY <1>1, <1>2, <2>0, <2>4 DEF PInv, DegradedInv
  <2>14. LInv => LStep
    BY <1>2, <2>1, <2>6, <2>7, BookedStep
  <2> QED BY <1>2, <2>1, <2>6, <2>7, <2>8, <2>9, <2>10, <2>11, <2>12, <2>13,
         <2>14 DEF BookEffect
<1> QED BY <1>5, <1>6 DEF BookingStep, BookRead, Book, storeVars

-----------------------------------------------------------------------------
(* Steps of people and of pages *)

LEMMA StatusesDiffer ==
  {"APPROVED", "REJECTED", "NEEDS_REVIEW"} \subseteq DraftStatuses \ {"PUBLISHED"}
BY DEF DraftStatuses

\* A request of a person sets the status of a draft and the version of its content.
LEMMA VisitEffect ==
  ASSUME StoreAssumption, WorkflowAssumption, PInv, NEW p \in People, VisitStep(p)
  PROVE  /\ WorkflowTypeOK' /\ UNCHANGED <<job, result, degraded, posts, now>>
         /\ draft' \in [Drafts -> DraftRow] /\ \A d \in Drafts : DraftStays(d)
<1>1. /\ draft \in [Drafts -> DraftRow] /\ visit \in [People -> VisitRow]
      /\ content \in [Drafts -> 0..MaxVersion] /\ approved \in [Drafts -> 0..MaxVersion]
      /\ MaxVersion \in Nat /\ StoreTypeOK
  BY DEF PInv, PublishingTypeOK, WorkflowTypeOK, StoreTypeOK, WorkflowAssumption
<1>2. visit[p].on \in Drafts /\ visit[p].version \in 0..MaxVersion
  BY <1>1 DEF VisitRow
<1>3. UNCHANGED <<job, result, degraded, posts, now>>
  BY DEF VisitStep
<1>4. ASSUME NEW pc \in {"idle", "approve", "edit", "assets", "replaced", "done"}, VisitTo(p, pc)
      PROVE  visit' \in [People -> VisitRow]
  BY <1>1, <1>4 DEF VisitTo, VisitRow
<1>5. ASSUME NEW d \in Drafts, NewContent(d)
      PROVE  content' \in [Drafts -> 0..MaxVersion]
  BY <1>1, <1>5 DEF NewContent
<1>6. ASSUME NEW d \in Drafts, NEW s \in {"APPROVED", "REJECTED", "NEEDS_REVIEW"}, SetStatus(d, s)
      PROVE  draft' \in [Drafts -> DraftRow] /\ \A e \in Drafts : DraftStays(e)
  BY <1>1, <1>6, StatusFacts, StatusesDiffer DEF SetStatus
<1>7. ASSUME NEW d \in Drafts, NEW wasApproved, Demote(d, wasApproved)
      PROVE  draft' \in [Drafts -> DraftRow] /\ \A e \in Drafts : DraftStays(e)
  BY <1>1, <1>6, <1>7, SameDraft DEF Demote
<1> DEFINE Kept ==
             /\ visit' \in [People -> VisitRow]
             /\ content' \in [Drafts -> 0..MaxVersion] /\ approved' \in [Drafts -> 0..MaxVersion]
             /\ draft' \in [Drafts -> DraftRow] /\ \A d \in Drafts : DraftStays(d)
<1>8. Kept
  <2>1. ASSUME NEW d \in Drafts, NEW what \in {"approve", "edit", "assets"}, Open(p, d, what)
        PROVE  Kept
    BY <1>1, <2>1, SameDraft DEF Open, VisitRow, DraftRow, reviewVars
  <2>2. ASSUME NEW d \in Drafts, Reject(p, d) PROVE Kept
    BY <1>1, <1>4, <1>6, <2>2 DEF Reject, reviewVars
  <2>3. ASSUME NEW d \in Drafts, ReplaceFile(p, d) PROVE Kept
    BY <1>1, <1>4, <1>5, <1>7, <2>3 DEF ReplaceFile
  <2>4. CASE Approve(p)
    BY <1>1, <1>2, <1>4, <1>6, <2>4 DEF Approve
  <2>5. CASE Edit(p)
    BY <1>1, <1>2, <1>4, <1>5, <1>7, <2>5 DEF Edit
  <2>6. CASE ReplaceAssets(p)
    BY <1>1, <1>2, <1>4, <1>5, <2>6, SameDraft DEF ReplaceAssets
  <2>7. CASE DemoteAfterReplace(p)
    BY <1>1, <1>2, <1>4, <1>7, <2>7 DEF DemoteAfterReplace, reviewVars
  <2>8. CASE VisitCutOff(p)
    BY <1>1, <1>4, <2>8, SameDraft DEF VisitCutOff, reviewVars
  <2> QED BY <2>1, <2>2, <2>3, <2>4, <2>5, <2>6, <2>7, <2>8 DEF VisitStep
<1> QED BY <1>1, <1>3, <1>8 DEF WorkflowTypeOK, StoreTypeOK

\* What one list derives for one draft
LEMMA EntryType ==
  ASSUME NEW d \in Drafts, NEW row \in DraftRow, NEW list \in Lists, NEW doubtful \in BOOLEAN
  PROVE  EntryOf(list, d, row, doubtful) \in Entry
<1>1. ASSUME NEW dated \in BOOLEAN, NEW doubt \in BOOLEAN
      PROVE  OperationalState(d, row, dated, doubt) \in OperationalStates
  BY DEF OperationalState, OperationalStates
<1>2. Eligibility(d, row) \in Eligibilities
  BY DEF Eligibility, Eligibilities
<1> QED BY <1>1, <1>2 DEF EntryOf, Lists, QueueEntry, CalendarEntry, SnapshotEntry, Entry, Unknown

LEMMA EntryMeaning ==
  ASSUME NEW d \in Drafts, NEW row \in DraftRow, NEW list \in Lists, NEW doubtful \in BOOLEAN,
         NEW entry, entry = EntryOf(list, d, row, doubtful)
  PROVE  /\ entry.state = "PUBLISHED" <=> row.ext # {} \/ HasSuccess(d)
         /\ entry.state = "READY_TO_PUBLISH" <=>
              /\ row.ext = {} /\ ~HasResultId(d)
              /\ ~HasJob(d, "IN_REVIEW") /\ row.status = "APPROVED"
         /\ entry.eligibility \in {"UNKNOWN", Eligibility(d, row)}
<1>1. HasSuccess(d) => HasResultId(d)
  BY DEF HasSuccess, HasResultId, Succeeded
<1>2. ASSUME NEW dated \in BOOLEAN, NEW doubt \in BOOLEAN
      PROVE  LET s == OperationalState(d, row, dated, doubt) IN
             /\ s = "PUBLISHED" <=> row.ext # {} \/ HasSuccess(d)
             /\ s = "READY_TO_PUBLISH" <=>
                  /\ row.ext = {} /\ ~HasResultId(d)
                  /\ ~HasJob(d, "IN_REVIEW") /\ row.status = "APPROVED"
  BY <1>1 DEF OperationalState
<1> QED BY <1>2 DEF EntryOf, Lists, QueueEntry, CalendarEntry, SnapshotEntry, Unknown

\* The two derivations agree on any row read before the jobs.
LEMMA EntryFits ==
  ASSUME RecordsAreReal, DegradedInv, NEW d \in Drafts, NEW row \in DraftRow,
         NEW list \in Lists, NEW doubtful \in BOOLEAN,
         NEW entry, entry = EntryOf(list, d, row, doubtful), entry.eligibility # "UNKNOWN"
  PROVE  /\ entry.state = "PUBLISHED" <=> entry.eligibility = "PUBLISHED"
         /\ entry.state = "READY_TO_PUBLISH" <=> entry.eligibility = "READY"
<1>1. entry.eligibility = Eligibility(d, row)
  BY EntryMeaning
<1>2. (HasJob(d, "PUBLISHED") => HasSuccess(d)) /\ (HasSuccess(d) => HasResultId(d))
  BY DEF RecordsAreReal, DegradedInv, HasJob, HasSuccess, HasResultId, Succeeded
<1>3. /\ Eligibility(d, row) = "PUBLISHED" <=> row.ext # {} \/ HasSuccess(d)
      /\ Eligibility(d, row) = "READY" <=>
           /\ row.ext = {} /\ ~HasResultId(d)
           /\ ~HasJob(d, "IN_REVIEW") /\ row.status = "APPROVED"
  BY <1>2 DEF Eligibility
<1> QED BY <1>1, <1>3, EntryMeaning

LEMMA LoadPageFacts ==
  ASSUME page \in [Pages -> PageRow], draft \in [Drafts -> DraftRow],
         NEW v \in Pages, NEW list \in Lists, LoadPage(v, list)
  PROVE  /\ page' \in [Pages -> PageRow] /\ page'[v].seen = draft /\ page'[v].rows = page[v].rows
         /\ page'[v].pc = "loading"
         /\ \A w \in Pages \ {v} : page'[w] = page[w]
BY DEF LoadPage, PageRow

LEMMA ShowPageFacts ==
  ASSUME page \in [Pages -> PageRow], NEW v \in Pages, ShowPage(v)
  PROVE  /\ page' \in [Pages -> PageRow] /\ page'[v].pc = "shown"
         /\ page'[v].seen = Unread /\ page[v].list \in Lists
         /\ \A w \in Pages \ {v} : page'[w] = page[w]
         /\ \E doubtful \in [Drafts -> BOOLEAN] :
              page'[v].rows =
                [d \in Drafts |-> EntryOf(page[v].list, d, page[v].seen[d], doubtful[d])]
<1>1. PICK doubtful \in [Drafts -> BOOLEAN] :
        page' = [page EXCEPT ![v].pc = "shown", ![v].seen = Unread,
          ![v].rows = [d \in Drafts |->
                         EntryOf(page[v].list, d, page[v].seen[d], doubtful[d])]]
  BY DEF ShowPage
<1>2. page[v].list \in Lists /\ page[v].seen \in [Drafts -> DraftRow]
  BY DEF PageRow
<1> DEFINE rows == [d \in Drafts |-> EntryOf(page[v].list, d, page[v].seen[d], doubtful[d])]
<1>3. rows \in [Drafts -> Entry]
  <2> SUFFICES ASSUME NEW d \in Drafts
               PROVE  EntryOf(page[v].list, d, page[v].seen[d], doubtful[d]) \in Entry
    OBVIOUS
  <2> QED BY <1>2, EntryType
<1>4. Unread \in [Drafts -> DraftRow]
  BY DEF Unread, DraftRow, DraftStatuses, Optional
<1> HIDE DEF rows
<1>5. page' = [page EXCEPT ![v].pc = "shown", ![v].seen = Unread, ![v].rows = rows]
  BY <1>1 DEF rows
<1>6. /\ page' \in [Pages -> PageRow] /\ page'[v].seen = Unread /\ page'[v].rows = rows
      /\ page'[v].pc = "shown"
      /\ \A w \in Pages \ {v} : page'[w] = page[w]
  BY <1>3, <1>4, <1>5 DEF PageRow
<1> QED BY <1>2, <1>6 DEF rows

PageEffect == ViewTypeOK' /\ ShownInv' /\ SeenInv' /\ BadgeFitsEligibility'

LEMMA PageStepEffect ==
  ASSUME StoreAssumption, PInv, NEW v \in Pages, PageStep(v)
  PROVE  PageEffect /\ UNCHANGED storeVars
<1>1. /\ page \in [Pages -> PageRow] /\ draft \in [Drafts -> DraftRow]
      /\ RecordsAreReal /\ DegradedInv /\ ShownInv /\ SeenInv /\ BadgeFitsEligibility
  BY DEF PInv, PublishingTypeOK, ViewTypeOK, CronTypeOK, StoreTypeOK, LInv, IInv
<1>2. UNCHANGED storeVars
  BY DEF PageStep, LoadPage, ShowPage
<1>3. draft' = draft /\ \A d \in Drafts : HasSuccess(d) => draft[d].ext # {}
  BY <1>2 DEF HasSuccess, Succeeded, storeVars, PInv, RecordedInv
<1>4. ASSUME NEW list \in Lists, LoadPage(v, list) PROVE PageEffect
  <2>1. /\ page' \in [Pages -> PageRow] /\ page'[v].seen = draft /\ page'[v].rows = page[v].rows
        /\ \A w \in Pages \ {v} : page'[w] = page[w]
    BY <1>1, <1>4, LoadPageFacts
  <2>2. ShownInv' /\ SeenInv'
    BY <1>1, <1>3, <2>1 DEF ShownInv, SeenInv
  <2>3. BadgeFitsEligibility'
    BY <1>1, <2>1 DEF BadgeFitsEligibility
  <2> QED BY <2>1, <2>2, <2>3 DEF PageEffect, ViewTypeOK
<1>5. CASE ShowPage(v)
  <2>1. /\ page' \in [Pages -> PageRow] /\ page'[v].seen = Unread /\ page[v].list \in Lists
        /\ page'[v].pc = "shown"
        /\ \A w \in Pages \ {v} : page'[w] = page[w]
    BY <1>1, <1>5, ShowPageFacts
  <2>2. PICK doubtful \in [Drafts -> BOOLEAN] :
          page'[v].rows =
            [d \in Drafts |-> EntryOf(page[v].list, d, page[v].seen[d], doubtful[d])]
    BY <1>1, <1>5, ShowPageFacts
  <2>3. ASSUME NEW d \in Drafts
        PROVE  /\ page'[v].rows[d].state = "PUBLISHED" => draft[d].ext # {}
               /\ page'[v].seen[d].ext = {}
               /\ page'[v].rows[d].eligibility # "UNKNOWN" =>
                    /\ page'[v].rows[d].state = "PUBLISHED" <=>
                         page'[v].rows[d].eligibility = "PUBLISHED"
                    /\ page'[v].rows[d].state = "READY_TO_PUBLISH" <=>
                         page'[v].rows[d].eligibility = "READY"
    <3> DEFINE row == page[v].seen[d]
               entry == page'[v].rows[d]
    <3>1. row \in DraftRow /\ doubtful[d] \in BOOLEAN
      BY <1>1 DEF PageRow
    <3>2. entry = EntryOf(page[v].list, d, row, doubtful[d])
      BY <2>2
    <3> HIDE DEF row, entry
    <3>3. entry.state = "PUBLISHED" => draft[d].ext # {}
      <4>1. entry.state = "PUBLISHED" => row.ext # {} \/ HasSuccess(d)
        BY <2>1, <3>1, <3>2, EntryMeaning
      <4> QED BY <1>1, <1>3, <4>1 DEF SeenInv, row
    <3>4. page'[v].seen[d].ext = {}
      BY <2>1 DEF Unread
    <3>5. entry.eligibility # "UNKNOWN" =>
            /\ entry.state = "PUBLISHED" <=> entry.eligibility = "PUBLISHED"
            /\ entry.state = "READY_TO_PUBLISH" <=> entry.eligibility = "READY"
      BY <1>1, <2>1, <3>1, <3>2, EntryFits
    <3> QED BY <3>3, <3>4, <3>5 DEF entry
  <2>4. ShownInv' /\ SeenInv'
    BY <1>1, <1>3, <2>1, <2>3 DEF ShownInv, SeenInv
  <2>5. BadgeFitsEligibility'
    BY <1>1, <2>1, <2>3 DEF BadgeFitsEligibility
  <2> QED BY <1>2, <2>1, <2>4, <2>5 DEF PageEffect, ViewTypeOK
<1> QED BY <1>2, <1>4, <1>5 DEF PageStep

-----------------------------------------------------------------------------
(* The invariant holds *)

LEMMA BlankPageType ==
  /\ BlankPage \in PageRow
  /\ \A d \in Drafts : /\ BlankPage.seen[d].ext = {}
                       /\ BlankPage.rows[d].state = "UNKNOWN"
                       /\ BlankPage.rows[d].eligibility = "UNKNOWN"
<1>1. Unread \in [Drafts -> DraftRow]
  BY DEF Unread, DraftRow, DraftStatuses, Optional
<1>2. Unknown \in Entry
  BY DEF Unknown, Entry
<1>3. BlankPage \in PageRow
  BY <1>1, <1>2 DEF BlankPage, PageRow, Lists
<1> QED BY <1>3 DEF BlankPage, Unread, Unknown

LEMMA WorkflowStartType ==
  ASSUME WorkflowAssumption, WorkflowStart, StoreTypeOK
  PROVE  WorkflowTypeOK
<1> DEFINE some == CHOOSE d \in Drafts : TRUE
           idle == [pc |-> "idle", on |-> some, status |-> "DRAFT", version |-> 0]
<1>1. some \in Drafts /\ 0 \in 0..MaxVersion
  BY DEF WorkflowAssumption
<1>2. idle \in VisitRow
  BY <1>1 DEF VisitRow, DraftStatuses
<1>3. visit \in [People -> {idle}]
  BY DEF WorkflowStart
<1>4. visit \in [People -> VisitRow]
  <2> HIDE DEF idle
  <2> QED BY <1>2, <1>3
<1> QED BY <1>1, <1>4 DEF WorkflowTypeOK, WorkflowStart

\* No job exists yet, so the publisher and the route have nothing in hand.
LEMMA PInit ==
  ASSUME StoreAssumption, WorkflowAssumption, Init
  PROVE  PInv /\ Lifecycle!Init
<1>1. /\ RouteInit /\ WorkflowStart /\ ViewInit /\ run = [r \in Runs |-> NewRun("idle")]
  BY DEF Init
<1>2. RouteTypeOK /\ InHandInv
  BY <1>1, RouteInitInv DEF RInv
<1>3. StoreTypeOK
  BY <1>2 DEF RouteTypeOK
<1>4. /\ NoRow.status = "NONE" /\ ~NoRow.started /\ NoRow.token = NoToken /\ NoRow.attempts = 0
  BY DEF NoRow
<1>5. \A j \in JobIds : job[j] = NoRow /\ result[j] = {} /\ PostsOfJob(j) = {}
  BY <1>1 DEF RouteInit, PostsOfJob
<1>6. \A r \in Runs : run[r].pc = "idle" /\ run[r].cur = NoJob
                        /\ run[r].snap = [j \in JobIds |-> NoRow]
  BY <1>1 DEF NewRun, NoSnapshot
<1>7. CronTypeOK
  <2>1. NewRun("idle") \in RunRow
    BY NoRowType DEF NewRun, RunRow, RunPcs, NoSnapshot
  <2> QED BY <1>1, <1>3, <2>1 DEF CronTypeOK
<1>8. ScheduledJobs \subseteq JobIds /\ ImmediateJobs \subseteq JobIds
  BY DEF JobIds
<1>9. RecordsAreReal
  BY <1>1, <1>4, <1>5 DEF RecordsAreReal, RouteInit
<1>10. LInv
  <2>1. "idle" \notin Preparing \union Attempting
    BY PcFacts
  <2>2. CurInv /\ AttemptInv /\ PrepareInv
    BY <1>6, <2>1 DEF CurInv, AttemptInv, PrepareInv
  <2>3. RowInv /\ TriesInv
    BY <1>4, <1>5, <1>8 DEF RowInv, TriesInv
  <2>4. FreshInv /\ SnapInv
    BY <1>4, <1>5, <1>6, <1>8 DEF FreshInv, SnapInv, StoreAssumption
  <2>5. OnePostPerScheduledJob
    BY <1>1 DEF OnePostPerScheduledJob, RouteInit
  <2> QED BY <1>7, <1>9, <2>2, <2>3, <2>4, <2>5 DEF LInv, IInv
<1>11. \A c \in Clicks : click[c].pc = "idle"
  BY <1>1 DEF RouteInit, NewClick
<1>12. NoneInv /\ NotWaitingInv /\ HandInv
  BY <1>2, <1>4, <1>5, <1>8, <1>11 DEF NoneInv, NotWaitingInv, HandInv, LockInv, Locking, HandOK
<1>13. BackedInv /\ RecordedInv /\ DegradedInv
  BY <1>1, <1>5 DEF BackedInv, RecordedInv, DegradedInv, RouteInit
<1>14. ViewTypeOK /\ ShownInv /\ SeenInv /\ BadgeFitsEligibility
  <2>1. \A v \in Pages : page[v] = BlankPage
    BY <1>1 DEF ViewInit
  <2> QED BY <1>1, <2>1, BlankPageType DEF ViewInit, ViewTypeOK, ShownInv, SeenInv, BadgeFitsEligibility
<1>15. WorkflowTypeOK
  BY <1>1, <1>3, WorkflowStartType
<1>16. Lifecycle!Init
  <2>1. \A j \in ScheduledJobs : PhaseOf(j) = "absent" /\ job[j].attempts = 0
    BY <1>4, <1>5, <1>8 DEF PhaseOf
  <2> QED BY <2>1 DEF Lifecycle!Init
<1> QED BY <1>2, <1>7, <1>10, <1>12, <1>13, <1>14, <1>15, <1>16 DEF PInv, PublishingTypeOK

LEMMA CronKeeps ==
  ASSUME StoreAssumption, PInv, CronSteps
  PROVE  PInv' /\ LStep /\ TablesGrow /\ page' = page
<1>1. UNCHANGED <<click, booking, content, approved, visit, page>> /\ CronNext
  BY DEF CronSteps
<1>2. LInv' /\ LStep
  BY <1>1, LNext DEF PInv
<1>3. /\ TablesGrow /\ degraded' = degraded
      /\ \A j \in ImmediateJobs : job'[j] = job[j] /\ result'[j] = result[j]
  BY <1>1, CronStepEffect DEF PInv, CronEffect
<1>4. CronTypeOK' /\ StoreTypeOK'
  BY <1>2 DEF LInv, IInv, CronTypeOK
<1>5. PublishingTypeOK'
  BY <1>1, <1>3, <1>4 DEF PInv, PublishingTypeOK, RouteTypeOK, WorkflowTypeOK, ViewTypeOK
<1>6. NotWaitingInv' /\ DegradedInv'
  BY <1>3 DEF PInv, NotWaitingInv, DegradedInv, PublishingTypeOK, RouteTypeOK
<1>7. HandInv'
  BY <1>1, <1>3, HandStays DEF PInv
<1> QED BY <1>1, <1>2, <1>3, <1>5, <1>6, <1>7, GrowInv DEF PInv

LEMMA RouteKeeps ==
  ASSUME StoreAssumption, PInv, RouteSteps
  PROVE  PInv' /\ LStep /\ TablesGrow /\ page' = page
<1>1. UNCHANGED <<run, content, approved, visit, page>>
  BY DEF RouteSteps
<1>2. /\ RouteTypeOK' /\ HandInv' /\ NotWaitingInv' /\ DegradedInv' /\ RecordsAreReal'
      /\ TablesGrow /\ LStep
      /\ \A j \in ScheduledJobs : Untouched(j) \/ Booked(j)
  <2>1. ASSUME NEW c \in Clicks, ClickStep(c) PROVE RouteEffect
    BY <2>1, ClickEffect
  <2>2. ASSUME NEW b \in Bookings, BookingStep(b) PROVE BookEffect
    BY <2>2, BookingEffect
  <2>3. CASE RouteEffect
    BY <2>3, UntouchedStep DEF RouteEffect
  <2>4. CASE BookEffect
    BY <2>4 DEF BookEffect, PInv
  <2> QED BY <2>1, <2>2, <2>3, <2>4 DEF RouteSteps, RouteNext
<1>3. PublishingTypeOK'
  BY <1>1, <1>2 DEF PInv, PublishingTypeOK, RouteTypeOK, CronTypeOK, WorkflowTypeOK, ViewTypeOK
<1>4. LInv'
  BY <1>1, <1>2, <1>3, OutsideInv DEF PInv, PublishingTypeOK
<1> QED BY <1>1, <1>2, <1>3, <1>4, GrowInv DEF PInv

\* What leaves jobs, results and posts alone and takes no external id away
LEMMA QuietKeeps ==
  ASSUME StoreAssumption, PInv, UNCHANGED <<job, result, degraded, posts, run, click, booking>>,
         PublishingTypeOK', \A d \in Drafts : DraftStays(d)
  PROVE  LInv' /\ NotWaitingInv' /\ DegradedInv' /\ HandInv' /\ LStep /\ TablesGrow
<1>1. TablesGrow
  BY DEF TablesGrow, RowGrows, PostsOfJob
<1>2. RecordsAreReal'
  BY DEF PInv, LInv, IInv, RecordsAreReal, PostsOfJob, PostsOfDraft, DraftStays
<1>3. \A j \in ScheduledJobs : Untouched(j)
  BY DEF Untouched, PostsOfJob
<1>4. LInv' /\ LStep
  BY <1>2, <1>3, OutsideInv, UntouchedStep DEF PInv, PublishingTypeOK
<1>5. NotWaitingInv' /\ DegradedInv' /\ HandInv'
  <2>1. \A j \in ImmediateJobs : result'[j] = result[j]
    OBVIOUS
  <2> QED BY <1>1, <2>1, HandStays DEF PInv, NotWaitingInv, DegradedInv
<1> QED BY <1>1, <1>4, <1>5

LEMMA WorkflowKeeps ==
  ASSUME StoreAssumption, WorkflowAssumption, PInv, WorkflowSteps
  PROVE  PInv' /\ LStep /\ TablesGrow /\ page' = page
<1>1. UNCHANGED <<run, click, booking, page>>
  BY DEF WorkflowSteps
<1>2. /\ WorkflowTypeOK' /\ UNCHANGED <<job, result, degraded, posts, now>>
      /\ draft' \in [Drafts -> DraftRow] /\ \A d \in Drafts : DraftStays(d)
  BY VisitEffect DEF WorkflowSteps
<1>3. PublishingTypeOK'
  BY <1>1, <1>2 DEF PInv, PublishingTypeOK, RouteTypeOK, CronTypeOK, WorkflowTypeOK, ViewTypeOK
<1>4. LInv' /\ NotWaitingInv' /\ DegradedInv' /\ HandInv' /\ LStep /\ TablesGrow
  BY <1>1, <1>2, <1>3, QuietKeeps
<1> QED BY <1>1, <1>3, <1>4, GrowInv DEF PInv

LEMMA PagesKeep ==
  ASSUME StoreAssumption, PInv, PageSteps
  PROVE  PInv' /\ LStep /\ UNCHANGED storeVars
<1>1. UNCHANGED <<run, click, booking, content, approved, visit>>
  BY DEF PageSteps
<1>2. PageEffect /\ UNCHANGED storeVars
  BY PageStepEffect DEF PageSteps
<1>3. PublishingTypeOK'
  BY <1>1, <1>2 DEF PInv, PublishingTypeOK, RouteTypeOK, CronTypeOK, StoreTypeOK, WorkflowTypeOK,
                    PageEffect, storeVars
<1>4. \A d \in Drafts : DraftStays(d)
  BY <1>2, SameDraft DEF storeVars
<1>5. LInv' /\ NotWaitingInv' /\ DegradedInv' /\ HandInv' /\ LStep /\ TablesGrow
  BY <1>1, <1>2, <1>3, <1>4, QuietKeeps DEF storeVars
<1> QED BY <1>2, <1>3, <1>5, GrowKeeps DEF PInv, PageEffect

LEMMA PNext ==
  ASSUME StoreAssumption, WorkflowAssumption, PInv, [Next]_vars
  PROVE  PInv' /\ LStep
<1>1. CASE UNCHANGED vars
  <2>1. PublishingTypeOK'
    BY <1>1 DEF vars, storeVars, PInv, PublishingTypeOK, RouteTypeOK, CronTypeOK, StoreTypeOK,
                WorkflowTypeOK, ViewTypeOK
  <2>2. \A d \in Drafts : DraftStays(d)
    BY <1>1, SameDraft DEF vars, storeVars
  <2>3. LInv' /\ NotWaitingInv' /\ DegradedInv' /\ HandInv' /\ LStep /\ TablesGrow
    BY <1>1, <2>1, <2>2, QuietKeeps DEF vars, storeVars
  <2> QED BY <1>1, <2>1, <2>3, GrowInv DEF PInv, vars
<1> QED BY <1>1, CronKeeps, RouteKeeps, WorkflowKeeps, PagesKeep DEF Next

\* The inductive invariant of the whole publishing side.
THEOREM PublishingInvariance == Spec => []PInv
<1>1. Init => PInv
  BY StoreAssumption, WorkflowAssumption, PInit
<1>2. PInv /\ [Next]_vars => PInv'
  BY StoreAssumption, WorkflowAssumption, PNext
<1> QED BY <1>1, <1>2, PTL DEF Spec

\* Tables, invocations, requests, people and pages keep their types.
THEOREM PublishingTypeCorrect == Spec => []PublishingTypeOK
<1>1. PInv => PublishingTypeOK
  BY DEF PInv
<1> QED BY <1>1, PublishingInvariance, PTL

\* The provider publishes at most once for a scheduled job, also while people book,
\* reject, edit and publish its draft by hand.
THEOREM OnePostWhateverPeopleDo == Spec => []OnePostPerScheduledJob
<1>1. PInv => OnePostPerScheduledJob
  BY DEF PInv, LInv, IInv
<1> QED BY <1>1, PublishingInvariance, PTL

\* A job the next invocation may send has not been published, whoever touched it.
THEOREM ClaimableUnpublishedWhateverPeopleDo == Spec => []ClaimableIsUnpublished
<1>1. PInv => ClaimableIsUnpublished
  BY DEF PInv, LInv, IInv, ClaimableIsUnpublished, Claimable, Reclaimable, RowInv
<1> QED BY <1>1, PublishingInvariance, PTL

\* Neither an invocation nor a click nor a person takes an attempt from the
\* invocation that marked it.
THEOREM AttemptsStayExclusive == Spec => []AttemptIsExclusive
<1>1. ASSUME PInv, NEW r \in Runs, InAttempt(r)
      PROVE  /\ Holds(r, run[r].cur)
             /\ \A s \in Runs \ {r} : ~(InAttempt(s) /\ run[s].cur = run[r].cur)
  <2>1. \A s \in Runs : InAttempt(s) => run[s].pc \in Attempting
    BY DEF InAttempt, Attempting
  <2> QED BY <1>1, <2>1, AloneInAttempt DEF PInv, LInv, IInv, AttemptInv, AttemptOK
<1>2. PInv => AttemptIsExclusive
  BY <1>1 DEF AttemptIsExclusive
<1> QED BY <1>2, PublishingInvariance, PTL

\* Results, PUBLISHED jobs and external ids name real posts, of clicks too.
THEOREM AllRecordsReal == Spec => []RecordsAreReal
<1>1. PInv => RecordsAreReal
  BY DEF PInv, LInv, IInv
<1> QED BY <1>1, PublishingInvariance, PTL

\* A PUBLISHED draft names the post that stands on the result row of one of its jobs,
\* whatever was finalized, reconciled or recorded as failed before and after.  The row
\* may have lost its ok to a late failure record.
THEOREM PublishedDraftsAreBacked == Spec => []PublishedDraftIsBacked
<1>1. PInv => PublishedDraftIsBacked
  BY DEF PInv, BackedInv, Backed, PublishedDraftIsBacked
<1> QED BY <1>1, PublishingInvariance, PTL

\* The state and the eligibility a queue entry carries never contradict each other.
THEOREM BadgesFit == Spec => []BadgeFitsEligibility
<1>1. PInv => BadgeFitsEligibility
  BY DEF PInv
<1> QED BY <1>1, PublishingInvariance, PTL

LEMMA EveryStepGrows ==
  ASSUME StoreAssumption, WorkflowAssumption, PInv, [Next]_vars
  PROVE  TablesGrow \/ UNCHANGED storeVars
BY CronKeeps, RouteKeeps, WorkflowKeeps, PagesKeep DEF Next, vars, storeVars

\* A post id on a result row is never lost or replaced, by whomever: the finalizations
\* of one row exclude each other and a failure leaves the id.  Of the ok beside it
\* nothing is said.
THEOREM ResultIdsStay == Spec => ResultMonotone
<1>1. ASSUME PInv, [Next]_vars, NEW j \in JobIds, result[j] # {}
      PROVE  result'[j] = result[j]
  BY <1>1, StoreAssumption, WorkflowAssumption, EveryStepGrows DEF TablesGrow, RowGrows, storeVars
<1>2. PInv /\ [Next]_vars => [\A j \in JobIds : result[j] # {} => result'[j] = result[j]]_cronVars
  BY <1>1
<1> QED BY <1>2, PublishingInvariance, PTL DEF Spec, ResultMonotone

\* The lifecycle promised of a scheduled job holds on the whole publishing side: what
\* a person does shows in it as the creation of a job or not at all.
THEOREM PublishingRefinement == Spec => LifecycleSpec
<1>1. Init => PInv /\ Lifecycle!Init
  BY StoreAssumption, WorkflowAssumption, PInit
<1>2. PInv /\ [Next]_vars => [Lifecycle!Next]_(Lifecycle!vars)
  BY StoreAssumption, WorkflowAssumption, PNext DEF LStep
<1> QED BY <1>1, <1>2, PublishingInvariance, PTL DEF Spec, LifecycleSpec, Lifecycle!Spec

-----------------------------------------------------------------------------
(* What a page may be relied on for *)

\* The step that changes what a page says of a draft
Derived(v, d) ==
  \E doubtful \in BOOLEAN :
    page'[v].rows[d] = EntryOf(page[v].list, d, page[v].seen[d], doubtful)

LEMMA RowsDerived ==
  ASSUME PInv, [Next]_vars, NEW v \in Pages, NEW d \in Drafts
  PROVE  \/ page'[v].rows = page[v].rows /\ (page[v].pc = "loading" => page'[v].pc = "loading")
         \/ /\ Derived(v, d) /\ page[v].list \in Lists /\ page[v].seen[d] \in DraftRow
            /\ page[v].pc = "loading"
<1>1. page \in [Pages -> PageRow] /\ draft \in [Drafts -> DraftRow]
  BY DEF PInv, PublishingTypeOK, ViewTypeOK, CronTypeOK, StoreTypeOK
<1>2. CASE page' = page
  BY <1>2
<1>3. ASSUME NEW w \in Pages, PageStep(w), v # w PROVE page'[v] = page[v]
  BY <1>1, <1>3, LoadPageFacts, ShowPageFacts DEF PageStep
<1>4. CASE \E list \in Lists : LoadPage(v, list)
  BY <1>1, <1>4, LoadPageFacts
<1>5. CASE ShowPage(v)
  <2>1. PICK doubtful \in [Drafts -> BOOLEAN] :
          page'[v].rows =
            [e \in Drafts |-> EntryOf(page[v].list, e, page[v].seen[e], doubtful[e])]
    BY <1>1, <1>5, ShowPageFacts
  <2>2. doubtful[d] \in BOOLEAN /\ Derived(v, d)
    BY <2>1 DEF Derived
  <2>3. page[v].list \in Lists /\ page[v].seen[d] \in DraftRow
    BY <1>1 DEF PageRow
  <2> QED BY <1>5, <2>2, <2>3 DEF ShowPage
<1>6. page' = page \/ \E w \in Pages : PageStep(w)
  BY DEF Next, vars, CronSteps, RouteSteps, WorkflowSteps, PageSteps
<1> QED BY <1>2, <1>3, <1>4, <1>5, <1>6 DEF PageStep

\* Once shown as PUBLISHED, a draft comes up so on every load of every list.
THEOREM PublishedKeepsShown == Spec => PublishedStaysShown
<1>1. ASSUME PInv, [Next]_vars, NEW v \in Pages, NEW d \in Drafts,
             page[v].rows[d].state = "PUBLISHED"
      PROVE  page'[v].rows[d].state = "PUBLISHED"
  <2>1. page[v].pc = "loading" => page[v].seen[d].ext # {}
    BY <1>1 DEF PInv, ShownInv
  <2>2. CASE /\ Derived(v, d) /\ page[v].list \in Lists /\ page[v].seen[d] \in DraftRow
             /\ page[v].pc = "loading"
    BY <2>1, <2>2, EntryMeaning DEF Derived
  <2> QED BY <1>1, <2>2, RowsDerived
<1>2. PInv /\ [Next]_vars =>
        [\A v \in Pages, d \in Drafts :
           page[v].rows[d].state = "PUBLISHED" => page'[v].rows[d].state = "PUBLISHED"]_viewVars
  BY <1>1
<1> QED BY <1>2, PublishingInvariance, PTL DEF Spec, PublishedStaysShown

\* A job of a draft without a result id that is not IN_REVIEW has posted nothing unless it
\* FAILED.
LEMMA QuietJobs ==
  ASSUME StoreAssumption, PInv, NEW d \in Drafts, ~HasResultId(d), ~HasJob(d, "IN_REVIEW"),
         NEW p \in PostsOfDraft(d)
  PROVE  job[p[1]].status = "FAILED"
<1>1. /\ posts \in SUBSET PostIds /\ job \in [JobIds -> JobRow]
  BY DEF PInv, PublishingTypeOK, CronTypeOK, StoreTypeOK
<1>2. PICK j \in JobIds : j = p[1] /\ DraftOf[j] = d
  BY <1>1 DEF PostsOfDraft, PostIds
<1>3. PostsOfJob(j) # {}
  BY <1>2 DEF PostsOfDraft, PostsOfJob
<1>4. job[j].status \in JobStatuses
  BY <1>1 DEF JobRow
<1>5. job[j].status # "NONE"
  BY <1>3 DEF PInv, NoneInv
<1>6. job[j].status # "IN_REVIEW"
  BY <1>2 DEF HasJob
<1>7. job[j].status # "PUBLISHED"
  BY <1>2 DEF HasResultId, PInv, LInv, IInv, RecordsAreReal
<1>8. job[j].status # "SCHEDULED"
  <2>1. CASE j \in ScheduledJobs
    BY <1>3, <2>1 DEF PInv, LInv, IInv, RowInv
  <2>2. CASE j \in ImmediateJobs
    BY <2>2 DEF PInv, NotWaitingInv
  <2> QED BY <2>1, <2>2 DEF JobIds
<1> QED BY <1>2, <1>4, <1>5, <1>6, <1>7, <1>8 DEF JobStatuses

\* What the console offers for publishing has no live post but of an attempt that was
\* recorded as FAILED.
THEOREM ReadyHasNoLivePost == Spec => ReadyIsNotLive
<1>1. ASSUME PInv, [Next]_vars, NEW v \in Pages, NEW d \in Drafts,
             page[v].pc = "loading", page'[v].pc = "shown",
             page'[v].rows[d].state = "READY_TO_PUBLISH" \/ page'[v].rows[d].eligibility = "READY",
             NEW p \in PostsOfDraft(d)
      PROVE  job[p[1]].status = "FAILED"
  <2>1. Derived(v, d) /\ page[v].list \in Lists /\ page[v].seen[d] \in DraftRow
    BY <1>1, RowsDerived
  <2>2. Eligibility(d, page[v].seen[d]) = "READY" => ~HasResultId(d) /\ ~HasJob(d, "IN_REVIEW")
    BY DEF Eligibility
  <2>3. ~HasResultId(d) /\ ~HasJob(d, "IN_REVIEW")
    BY <1>1, <2>1, <2>2, EntryMeaning DEF Derived
  <2> QED BY <1>1, <2>3, StoreAssumption, QuietJobs
<1>2. PInv /\ [Next]_vars =>
        [\A v \in Pages, d \in Drafts :
           page[v].pc = "loading" /\ page'[v].pc = "shown"
             /\ (page'[v].rows[d].state = "READY_TO_PUBLISH" \/ page'[v].rows[d].eligibility = "READY") =>
           \A p \in PostsOfDraft(d) : job[p[1]].status = "FAILED"]_viewVars
  BY <1>1
<1> QED BY <1>2, PublishingInvariance, PTL DEF Spec, ReadyIsNotLive
=============================================================================
