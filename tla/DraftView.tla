------------------------------ MODULE DraftView ------------------------------
(***************************************************************************)
(* What the pages of a tenant say about its drafts.  The queue, the        *)
(* calendar and the snapshot behind the counters and reports each read the *)
(* drafts first and the jobs with their results after that, in statements  *)
(* of their own, and derive an operational state from both; the queue also *)
(* derives whether a draft may be published.  Nothing is written: a page   *)
(* stays as it is until it is loaded again.                                *)
(***************************************************************************)
EXTENDS PublishingStore

CONSTANT Pages  \* lists somebody has open

VARIABLE page
viewVars == <<storeVars, page>>

OperationalStates ==
  {"DRAFT", "REVIEW_REQUIRED", "READY_TO_PUBLISH", "RECONCILIATION_REQUIRED",
   "SCHEDULED", "PUBLISHED", "FAILED", "REJECTED"}
Eligibilities == {"READY", "RECONCILIATION_REQUIRED", "PUBLISHED", "NOT_APPROVED"}

Lists == {"queue", "calendar", "snapshot"}

Entry == [state : OperationalStates \union {"UNKNOWN"},
          eligibility : Eligibilities \union {"UNKNOWN"}]

\* seen holds the drafts between the two reads, rows what the page says of each.
PageRow == [pc : {"blank", "loading", "shown"}, list : Lists,
            seen : [Drafts -> DraftRow], rows : [Drafts -> Entry]]

Unread == [d \in Drafts |-> [status |-> "DRAFT", ext |-> {}]]
Unknown == [state |-> "UNKNOWN", eligibility |-> "UNKNOWN"]
BlankPage == [pc |-> "blank", list |-> "queue", seen |-> Unread,
              rows |-> [d \in Drafts |-> Unknown]]

ViewTypeOK == page \in [Pages -> PageRow]

-----------------------------------------------------------------------------
(* What one draft row and the jobs of the draft amount to *)

HasJob(d, status) == \E j \in JobIds : DraftOf[j] = d /\ job[j].status = status
HasSuccess(d) == \E j \in JobIds : DraftOf[j] = d /\ Succeeded(j)
HasResultId(d) == \E j \in JobIds : DraftOf[j] = d /\ result[j] # {}

\* Fault: the status of the draft decides what is published.
StateByStatus(d, row, dated, doubtful) ==
  IF row.status = "PUBLISHED" THEN "PUBLISHED"
  ELSE IF HasJob(d, "IN_REVIEW") THEN "RECONCILIATION_REQUIRED"
  ELSE IF row.status = "APPROVED" THEN "READY_TO_PUBLISH"
  ELSE "DRAFT"

\* Fault: an attempt with an unknown outcome is not looked for.
StateWithoutReview(d, row, dated, doubtful) ==
  IF row.ext # {} \/ HasSuccess(d) THEN "PUBLISHED"
  ELSE IF row.status = "APPROVED" THEN "READY_TO_PUBLISH"
  ELSE "DRAFT"

\* projectDraftOperationalState.  dated: the list selects the due times of the
\* jobs; doubtful: requiresReview, or a risk that is not low or not selected.
OperationalState(d, row, dated, doubtful) ==
  CASE row.ext # {} \/ HasSuccess(d) -> "PUBLISHED"
    [] OTHER ->
  CASE HasJob(d, "IN_REVIEW") \/ HasResultId(d) \/ row.status = "PUBLISHED" ->
         "RECONCILIATION_REQUIRED"
    [] OTHER ->
  CASE row.status = "SCHEDULED" /\ dated /\ HasJob(d, "SCHEDULED") -> "SCHEDULED"
    [] row.status = "APPROVED" -> "READY_TO_PUBLISH"
    [] row.status = "NEEDS_REVIEW" -> "REVIEW_REQUIRED"
    [] row.status \in {"REJECTED", "FAILED"} -> row.status
    [] OTHER -> IF doubtful THEN "REVIEW_REQUIRED" ELSE "DRAFT"

\* isDraftActuallyPublishable
Eligibility(d, row) ==
  CASE row.ext # {} \/ HasSuccess(d) \/ HasJob(d, "PUBLISHED") -> "PUBLISHED"
    [] OTHER ->
  CASE row.status # "APPROVED" -> "NOT_APPROVED"
    [] OTHER -> IF HasJob(d, "IN_REVIEW") \/ HasResultId(d)
                  THEN "RECONCILIATION_REQUIRED" ELSE "READY"

-----------------------------------------------------------------------------
(* The lists *)

SnapshotEntry(d, row, doubtful) ==
  [Unknown EXCEPT !.state = OperationalState(d, row, TRUE, doubtful)]

\* The calendar selects neither the due times of the jobs nor the risk.
CalendarEntry(d, row) ==
  [Unknown EXCEPT !.state = OperationalState(d, row, FALSE, TRUE)]

QueueEntry(d, row, doubtful) ==
  [state |-> OperationalState(d, row, TRUE, doubtful),
   eligibility |-> Eligibility(d, row)]

EntryOf(list, d, row, doubtful) ==
  CASE list = "queue"    -> QueueEntry(d, row, doubtful)
    [] list = "calendar" -> CalendarEntry(d, row)
    [] list = "snapshot" -> SnapshotEntry(d, row, doubtful)

-----------------------------------------------------------------------------
(* Loading a page *)

\* The drafts are read; a page may be loaded again at any time.
LoadPage(v, list) ==
  /\ page' = [page EXCEPT ![v].pc = "loading", ![v].list = list, ![v].seen = draft]
  /\ UNCHANGED storeVars

\* The jobs are read and the list is derived.
ShowPage(v) ==
  /\ page[v].pc = "loading"
  /\ \E doubtful \in [Drafts -> BOOLEAN] :
       page' = [page EXCEPT ![v].pc = "shown", ![v].seen = Unread,
         ![v].rows = [d \in Drafts |->
                        EntryOf(page[v].list, d, page[v].seen[d], doubtful[d])]]
  /\ UNCHANGED storeVars

PageStep(v) == (\E list \in Lists : LoadPage(v, list)) \/ ShowPage(v)

ViewInit == page = [v \in Pages |-> BlankPage]

-----------------------------------------------------------------------------
(* Properties *)

\* A draft once shown as PUBLISHED is shown so by every later load of any
\* list, also when an invocation takes its job back to IN_REVIEW or a person
\* rejects, edits or approves it again (draft-operational-state.ts 75-91).
PublishedStaysShown ==
  [][\A v \in Pages, d \in Drafts :
       page[v].rows[d].state = "PUBLISHED" => page'[v].rows[d].state = "PUBLISHED"]_viewVars

\* A draft that comes up READY_TO_PUBLISH or READY, the only ones the console offers,
\* has no live post save one whose attempt was recorded as FAILED, although its row
\* was read before its jobs (draft-operational-state.ts 97-125).
ReadyIsNotLive ==
  [][\A v \in Pages, d \in Drafts :
       page[v].pc = "loading" /\ page'[v].pc = "shown"
         /\ (page'[v].rows[d].state = "READY_TO_PUBLISH" \/ page'[v].rows[d].eligibility = "READY") =>
       \A p \in PostsOfDraft(d) : job[p[1]].status = "FAILED"]_viewVars

\* The two derivations never contradict each other in one list, though one goes
\* by results and the other also by PUBLISHED jobs.
BadgeFitsEligibility ==
  \A v \in Pages, d \in Drafts : page[v].rows[d].eligibility # "UNKNOWN" =>
    /\ page[v].rows[d].state = "PUBLISHED" <=> page[v].rows[d].eligibility = "PUBLISHED"
    /\ page[v].rows[d].state = "READY_TO_PUBLISH" <=> page[v].rows[d].eligibility = "READY"
=============================================================================
