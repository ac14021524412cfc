----------------------------- MODULE QueueWorker -----------------------------
(***************************************************************************)
(* The queue worker (apps/worker/src/queue): jobs in BullMQ queues that    *)
(* take drafts through a mock adapter and propose campaigns.  A job is     *)
(* processed at least once: it is tried again when an attempt throws, and  *)
(* delivered again when its worker stalls.  People and the publishing      *)
(* routes change the drafts meanwhile.                                     *)
(***************************************************************************)
EXTENDS Naturals, FiniteSets

CONSTANTS
  QueueDrafts,  \* drafts
  QueueJobs,    \* jobs added to the queues
  Tries,        \* attempts of defaultJobOpts
  MaxApprovals  \* how often a draft is approved, and how often it is given back (bound)

ASSUME QueueWorkerAssumption == Tries \in Nat \ {0} /\ MaxApprovals \in Nat

VARIABLES
  draftRow,   \* ContentDraft: status and externalPostId
  queueJob,   \* jobs and how far their processing is
  proposals,  \* campaigns a job has created
  reviewed,   \* drafts that an approval in flight has found open
  taken,      \* drafts that a click or a booking has ever taken
  approvals,  \* how often a person has approved a draft
  givenBack,  \* how often a publication has given a draft back
  writes,     \* how often the worker has scheduled a draft
  stalled     \* two processes have worked at once

outsideVars == <<reviewed, taken, approvals, givenBack>>
queueVars == <<draftRow, queueJob, proposals, outsideVars, writes, stalled>>

NoDraft == "none"
QueueStates == {"absent", "waiting", "reading", "deciding", "writing", "auditing", "completed", "failed"}
NotAdded == [state |-> "absent", on |-> NoDraft, seen |-> "DRAFT", tries |-> 0]

QueueTypeOK ==
  /\ draftRow \in [QueueDrafts -> [status : {"DRAFT", "APPROVED", "SCHEDULED", "PUBLISHED"},
                                   ext : {"none", "mock", "real"}]]
  /\ \A j \in QueueJobs :
       /\ queueJob[j].state \in QueueStates
       /\ queueJob[j].on \in QueueDrafts \union {NoDraft}
       /\ queueJob[j].tries \in 0..Tries
       /\ proposals[j] \in 0..Tries

Active(j) == queueJob[j].state \in {"reading", "deciding", "writing", "auditing"}
JobTo(j, state) == queueJob' = [queueJob EXCEPT ![j].state = state]

\* --enqueue-drafts and --enqueue-date take DRAFT drafts, --enqueue-single any;
\* a job without a draft is --campaign-propose.
Enqueue(j) ==
  /\ queueJob[j] = NotAdded
  /\ \E d \in QueueDrafts \union {NoDraft} :
       queueJob' = [queueJob EXCEPT ![j] = [NotAdded EXCEPT !.state = "waiting", !.on = d]]
  /\ UNCHANGED <<draftRow, proposals, outsideVars, writes, stalled>>

\* A second worker process may run beside the first.
TakeJob(j) ==
  /\ queueJob[j].state = "waiting"
  /\ queueJob' = [queueJob EXCEPT ![j].tries = @ + 1,
                    ![j].state = IF queueJob[j].on = NoDraft THEN "writing" ELSE "reading"]
  /\ stalled' = (stalled \/ \E i \in QueueJobs : Active(i))
  /\ UNCHANGED <<draftRow, proposals, outsideVars, writes>>

\* processPublishDraft: an inactive tenant, a draft or an adapter that is missing
\* completes the job with ok: false.
ReadJobDraft(j) ==
  /\ queueJob[j].state = "reading"
  /\ \/ JobTo(j, "completed")
     \/ queueJob' = [queueJob EXCEPT ![j].state = "deciding", ![j].seen = draftRow[queueJob[j].on].status]
  /\ UNCHANGED <<draftRow, proposals, outsideVars, writes, stalled>>

\* Fault: the adapter forgets its first gate.
PublishMockUngated(j) ==
  /\ queueJob[j].state = "deciding"
  /\ JobTo(j, "writing")
  /\ UNCHANGED <<draftRow, proposals, outsideVars, writes, stalled>>

\* MockMetaAdapter.publish: only an approved draft passes, and nothing is published.
PublishMock(j) ==
  /\ queueJob[j].state = "deciding"
  /\ JobTo(j, IF queueJob[j].seen = "APPROVED" THEN "writing" ELSE "auditing")
  /\ UNCHANGED <<draftRow, proposals, outsideVars, writes, stalled>>

\* The draft is updated by id, whatever has become of it since it was read.
WriteDraft(j) ==
  LET d == queueJob[j].on IN
  /\ queueJob[j].state = "writing" /\ d # NoDraft
  /\ draftRow' = [draftRow EXCEPT ![d] = [status |-> "SCHEDULED", ext |-> "mock"]]
  /\ writes' = [writes EXCEPT ![d] = @ + 1]
  /\ JobTo(j, "auditing")
  /\ UNCHANGED <<proposals, outsideVars, stalled>>

\* processCampaign: a row of its own for every attempt that gets here
ProposeCampaign(j) ==
  /\ queueJob[j].state = "writing" /\ queueJob[j].on = NoDraft
  /\ proposals' = [proposals EXCEPT ![j] = @ + 1]
  /\ JobTo(j, "auditing")
  /\ UNCHANGED <<draftRow, outsideVars, writes, stalled>>

WriteAudit(j) ==
  /\ queueJob[j].state = "auditing"
  /\ JobTo(j, "completed")
  /\ UNCHANGED <<draftRow, proposals, outsideVars, writes, stalled>>

\* A statement throws, or the worker dies and the job is delivered again.
AttemptFails(j) ==
  /\ Active(j)
  /\ JobTo(j, IF queueJob[j].tries < Tries THEN "waiting" ELSE "failed")
  /\ UNCHANGED <<draftRow, proposals, outsideVars, writes, stalled>>

\* Outside the worker.  An approval reads the draft, open as DRAFT, NEEDS_REVIEW or
\* REJECTED, and writes by id, whatever has become of it since.
ReadForApproval(d) ==
  /\ draftRow[d].status = "DRAFT" /\ d \notin reviewed /\ approvals[d] < MaxApprovals
  /\ reviewed' = reviewed \union {d}
  /\ UNCHANGED <<draftRow, queueJob, proposals, taken, approvals, givenBack, writes, stalled>>

ApproveDraft(d) ==
  /\ d \in reviewed
  /\ draftRow' = [draftRow EXCEPT ![d].status = "APPROVED"]
  /\ reviewed' = reviewed \ {d}
  /\ approvals' = [approvals EXCEPT ![d] = @ + 1]
  /\ UNCHANGED <<queueJob, proposals, taken, givenBack, writes, stalled>>

\* A rejection looks at no status; an edit demotes an approved draft.
RejectDraft(d) ==
  /\ draftRow[d].status # "DRAFT"
  /\ draftRow' = [draftRow EXCEPT ![d].status = "DRAFT"]
  /\ UNCHANGED <<queueJob, proposals, outsideVars, writes, stalled>>

\* A click or a booking takes the approved draft,
TakeDraft(d) ==
  /\ draftRow[d].status = "APPROVED"
  /\ draftRow' = [draftRow EXCEPT ![d].status = "SCHEDULED"]
  /\ taken' = taken \union {d}
  /\ UNCHANGED <<queueJob, proposals, reviewed, approvals, givenBack, writes, stalled>>

\* and gives back a draft that it finds SCHEDULED, by whomever, when it fails,
GiveBackDraft(d) ==
  /\ d \in taken /\ draftRow[d].status = "SCHEDULED" /\ givenBack[d] < MaxApprovals
  /\ draftRow' = [draftRow EXCEPT ![d].status = "APPROVED"]
  /\ givenBack' = [givenBack EXCEPT ![d] = @ + 1]
  /\ UNCHANGED <<queueJob, proposals, reviewed, taken, approvals, writes, stalled>>

\* or finalizes its post, unless the draft has the id of another one.
PublishDraft(d) ==
  /\ d \in taken /\ draftRow[d].ext = "none"
  /\ draftRow' = [draftRow EXCEPT ![d] = [status |-> "PUBLISHED", ext |-> "real"]]
  /\ UNCHANGED <<queueJob, proposals, outsideVars, writes, stalled>>

QueueJobStep(j) ==
  \/ Enqueue(j) \/ TakeJob(j) \/ ReadJobDraft(j) \/ PublishMock(j) \/ WriteDraft(j)
  \/ ProposeCampaign(j) \/ WriteAudit(j) \/ AttemptFails(j)

QueueInit ==
  /\ draftRow = [d \in QueueDrafts |-> [status |-> "DRAFT", ext |-> "none"]]
  /\ queueJob = [j \in QueueJobs |-> NotAdded]
  /\ proposals = [j \in QueueJobs |-> 0]
  /\ reviewed = {} /\ taken = {}
  /\ approvals = [d \in QueueDrafts |-> 0]
  /\ givenBack = [d \in QueueDrafts |-> 0]
  /\ writes = [d \in QueueDrafts |-> 0]
  /\ stalled = FALSE

QueueDraftStep(d) ==
  \/ ReadForApproval(d) \/ ApproveDraft(d) \/ RejectDraft(d)
  \/ TakeDraft(d) \/ GiveBackDraft(d) \/ PublishDraft(d)

QueueNext ==
  \/ \E j \in QueueJobs : QueueJobStep(j)
  \/ \E d \in QueueDrafts : QueueDraftStep(d)

QueueSpec == QueueInit /\ [][QueueNext]_queueVars

-----------------------------------------------------------------------------
\* However often jobs are added, retried and delivered again, each time the worker
\* schedules a draft uses up one approval by a person (drafts/[id]/approve) or one giving
\* back by a failed publication (publishing/publish, recordUnconfirmedProviderFailure):
\* both leave APPROVED, and the worker cannot tell them apart.  As long as one process
\* works at a time.
SchedulingNeedsApproval ==
  \A d \in QueueDrafts : writes[d] > approvals[d] + givenBack[d] => stalled
=============================================================================
