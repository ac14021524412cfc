------------------------------ MODULE Publishing ------------------------------
(***************************************************************************)
(* All that touches drafts and publishing jobs at once: cron invocations,  *)
(* clicks, bookings, the people working on the drafts and those who look   *)
(* at them.                                                                *)
(***************************************************************************)
EXTENDS CronPublisher, PublishRoute, DraftWorkflow, DraftView

vars == <<storeVars, run, click, booking, content, approved, visit, page>>

PublishingTypeOK == CronTypeOK /\ RouteTypeOK /\ WorkflowTypeOK /\ ViewTypeOK

Init ==
  /\ RouteInit /\ WorkflowStart /\ ViewInit
  /\ run = [r \in Runs |-> NewRun("idle")]

CronSteps == CronNext /\ UNCHANGED <<click, booking, content, approved, visit, page>>
RouteSteps == RouteNext /\ UNCHANGED <<run, content, approved, visit, page>>
WorkflowSteps == (\E p \in People : VisitStep(p)) /\ UNCHANGED <<run, click, booking, page>>
PageSteps ==
  (\E v \in Pages : PageStep(v)) /\ UNCHANGED <<run, click, booking, content, approved, visit>>

Next == CronSteps \/ RouteSteps \/ WorkflowSteps \/ PageSteps

Spec == Init /\ [][Next]_vars

-----------------------------------------------------------------------------
(* Properties *)

\* README.md 40: an attempt whose outcome is unknown blocks every further
\* attempt for that draft until a person reconciles it.
UnknownOutcome(d) ==
  \E j \in ImmediateJobs : DraftOf[j] = d /\ Unresolved(j)
NoRetryWhileUnknown ==
  [][\A d \in Drafts : UnknownOutcome(d) => PostsOfDraft(d)' = PostsOfDraft(d)]_vars

\* A draft shown as PUBLISHED names the post on the result row of a job of that draft,
\* whoever edits, rejects or approves meanwhile, and also when a late failure record
\* has taken the ok from that row (publishing-finalization.ts 73-107, 266-275).
PublishedDraftIsBacked ==
  \A d \in Drafts : draft[d].status = "PUBLISHED" =>
    \E j \in JobIds : DraftOf[j] = d /\ result[j] # {} /\ draft[d].ext = result[j]
=============================================================================
