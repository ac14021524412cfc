--------------------------- MODULE PublishingStore ---------------------------
(***************************************************************************)
(* The durable state every publishing path of HeptaCore shares: the tables *)
(* ContentDraft, PublishingJob and PublishingResult, the social provider,  *)
(* and the wall clock.  The processes that read and write them are in      *)
(* CronPublisher, PublishRoute and DraftWorkflow.                          *)
(*                                                                         *)
(* Data is reduced to what the publishing decisions read.  All drafts      *)
(* belong to one tenant and one network.  A nullable external post id is a *)
(* set with at most one element.  Job ids are deterministic in the code,   *)
(* so the draft and the due time of a job are functions of its id.         *)
(***************************************************************************)
EXTENDS Integers, FiniteSets

CONSTANTS
  Drafts,         \* ids of content drafts
  ScheduledJobs,  \* ids pj_sched_<draft>_<network>_<time>
  ImmediateJobs,  \* ids pj_immediate_<draft>_<network>
  DraftOf,        \* the draft a job publishes (postId)
  DueAt,          \* scheduledFor of a scheduled job
  Runs,           \* invocations of the cron endpoint; each also names its claim token
  Clicks,         \* immediate publish requests
  NoToken,        \* claimToken = null
  NoJob,          \* no job in hand
  MaxAttempts,    \* maxAttempts of a scheduled job
  BatchLimit,     \* jobs one cron invocation lists at most
  TrialLimit,     \* TRIAL_POSTS_PER_NETWORK
  Lease,          \* claim lease, in clock ticks
  MaxTime         \* bound on the clock

JobIds == ScheduledJobs \union ImmediateJobs
Actors == Runs \union Clicks

ASSUME StoreAssumption ==
  /\ ScheduledJobs \intersect ImmediateJobs = {}
  /\ Runs \intersect Clicks = {}
  /\ NoToken \notin Runs
  /\ NoJob \notin JobIds
  /\ DraftOf \in [JobIds -> Drafts]
  /\ DueAt \in [ScheduledJobs -> Nat]
  /\ MaxAttempts \in Nat \ {0}
  /\ BatchLimit \in Nat \ {0}
  /\ TrialLimit \in Nat
  /\ Lease \in Nat
  /\ MaxTime \in Nat

\* The deterministic id of a scheduled job fixes its draft and its time, and
\* there is one immediate job id per draft and network.
ASSUME DeterministicIds ==
  /\ \A i, j \in ScheduledJobs :
       DraftOf[i] = DraftOf[j] /\ DueAt[i] = DueAt[j] => i = j
  /\ \A i, j \in ImmediateJobs : DraftOf[i] = DraftOf[j] => i = j

VARIABLES
  draft,   \* ContentDraft: status and externalPostId
  job,     \* PublishingJob: status, attempts, claim columns
  result,  \* PublishingResult: externalPostId of the row pr_<job>, {} without one
  degraded, \* jobs whose result row has an external id and yet ok = false
  posts,   \* what the provider really published
  now      \* wall clock

storeVars == <<draft, job, result, degraded, posts, now>>

DraftStatuses == {"DRAFT", "NEEDS_REVIEW", "APPROVED", "REJECTED",
                  "SCHEDULED", "PUBLISHED", "FAILED"}
JobStatuses == {"NONE", "SCHEDULED", "IN_REVIEW", "PUBLISHED", "FAILED"}

\* A post is named by the job and by the process that called the provider for it.
PostIds == JobIds \X Actors
Optional(S) == {{}} \union {{x} : x \in S}

Never == -1   \* claimedAt = null

DraftRow == [status : DraftStatuses, ext : Optional(PostIds)]
JobRow == [status : JobStatuses, attempts : Nat, claimedAt : Int,
           token : Runs \union {NoToken}, started : BOOLEAN]

NoRow == [status |-> "NONE", attempts |-> 0, claimedAt |-> Never,
          token |-> NoToken, started |-> FALSE]
NewJob(status) == [NoRow EXCEPT !.status = status]

StoreTypeOK ==
  /\ draft \in [Drafts -> DraftRow]
  /\ job \in [JobIds -> JobRow]
  /\ result \in [JobIds -> Optional(PostIds)]
  /\ posts \in SUBSET PostIds
  /\ now \in Nat

\* A result row with ok = true; such a row always has its external id.
Succeeded(j) == result[j] # {} /\ j \notin degraded

\* Drafts the trial limit counts.
PublishedOnNetwork == {d \in Drafts : draft[d].status = "PUBLISHED"}
TrialReached == Cardinality(PublishedOnNetwork) >= TrialLimit

\* What the provider may have done when the adapter reports an outcome.  A 429
\* is a refusal; a 5xx, a lost connection or an unreadable body leaves it open,
\* and only some of those are reported as ambiguous.
Outcomes == {"success", "ambiguous", "retryable", "terminal"}
MayHavePosted(outcome) ==
  CASE outcome = "success" -> {TRUE}
    [] outcome = "retryable" -> {FALSE}
    [] OTHER -> BOOLEAN

\* The provider call of process a for job j.
Call(j, a, outcome) ==
  \E posted \in MayHavePosted(outcome) :
    posts' = IF posted THEN posts \union {<<j, a>>} ELSE posts

Tick == now < MaxTime /\ now' = now + 1 /\ UNCHANGED <<draft, job, result, degraded, posts>>

PostsOfJob(j) == {p \in posts : p[1] = j}
PostsOfDraft(d) == {p \in posts : DraftOf[p[1]] = d}
=============================================================================
