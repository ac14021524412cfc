---------------------------- MODULE PublishRoute ----------------------------
(***************************************************************************)
(* POST /api/publishing/publish.  A click in immediate mode claims the     *)
(* draft, leaves a durable attempt and calls the provider within the       *)
(* request; a booking in scheduled mode creates the job the cron invocation*)
(* will find.  Several people may click at once and a request may be cut   *)
(* off at any point.  Refused requests change nothing: a click or booking  *)
(* whose draft is not APPROVED when read simply does not start.            *)
(***************************************************************************)
EXTENDS PublishingStore

CONSTANT Bookings  \* schedule requests

VARIABLES
  click,    \* per click: control point, job, external id of the draft as read
  booking   \* per booking: control point and job

routeVars == <<storeVars, click, booking>>

\* "finalizing" and "failing" lie within the transaction that records the answer,
\* after its first write; "unconfirmed" lies within it before that.
ClickPcs == {"idle", "read", "gated", "checked", "claimed", "calling", "success",
             "finalizing", "failed", "unconfirmed", "failing", "done"}
ClickRow == [pc : ClickPcs, cur : JobIds \union {NoJob}, ext : Optional(PostIds)]
NewClick(pc) == [pc |-> pc, cur |-> NoJob, ext |-> {}]

BookingRow == [pc : {"idle", "read", "done"}, cur : JobIds \union {NoJob}]
NewBooking(pc) == [pc |-> pc, cur |-> NoJob]

RouteTypeOK ==
  /\ StoreTypeOK
  /\ degraded \in SUBSET ImmediateJobs
  /\ click \in [Clicks -> ClickRow]
  /\ booking \in [Bookings -> BookingRow]

ClickTo(c, pc) == click' = [click EXCEPT ![c].pc = pc]
ClickDraft(c) == DraftOf[click[c].cur]

-----------------------------------------------------------------------------
(* Immediate mode *)

ClickRead(c, j) ==
  /\ click[c].pc = "idle"
  /\ draft[DraftOf[j]].status = "APPROVED"
  /\ click' = [click EXCEPT ![c] =
                 [pc |-> "read", cur |-> j, ext |-> draft[DraftOf[j]].ext]]
  /\ UNCHANGED storeVars

\* The format, account, scope and credential gates only refuse; the trial limit
\* reads the drafts.
ClickGate(c) ==
  /\ click[c].pc = "read"
  /\ ClickTo(c, IF TrialReached THEN "done" ELSE "gated")
  /\ UNCHANGED storeVars

\* checkExistingJobForRetry, with the external id the draft had when it was read
BlocksRetry(j, seenExt) ==
  /\ job[j].status # "NONE"
  /\ \/ seenExt # {}
     \/ Succeeded(j)
     \/ job[j].status \in {"PUBLISHED", "IN_REVIEW", "SCHEDULED"}

ClickLookup(c) ==
  /\ click[c].pc = "gated"
  /\ ClickTo(c, IF BlocksRetry(click[c].cur, click[c].ext) THEN "done" ELSE "checked")
  /\ UNCHANGED storeVars

\* Fault: the claim does not ask for APPROVED.
ClickClaimUnguarded(c) ==
  /\ click[c].pc = "checked"
  /\ draft' = [draft EXCEPT ![ClickDraft(c)].status = "SCHEDULED"]
  /\ ClickTo(c, "claimed")
  /\ UNCHANGED <<job, result, degraded, posts, now, booking>>

ClickClaim(c) ==
  LET d == ClickDraft(c) IN
  /\ click[c].pc = "checked"
  /\ IF draft[d].status = "APPROVED"
       THEN draft' = [draft EXCEPT ![d].status = "SCHEDULED"] /\ ClickTo(c, "claimed")
       ELSE ClickTo(c, "done") /\ UNCHANGED draft
  /\ UNCHANGED <<job, result, degraded, posts, now, booking>>

\* The upsert before the provider call
Attempted(row) ==
  IF row.status = "NONE" THEN NewJob("IN_REVIEW")
  ELSE [row EXCEPT !.status = "IN_REVIEW", !.attempts = @ + 1]

ClickCreateJob(c) ==
  /\ click[c].pc = "claimed"
  /\ job' = [job EXCEPT ![click[c].cur] = Attempted(@)]
  /\ ClickTo(c, "calling")
  /\ UNCHANGED <<draft, result, degraded, posts, now, booking>>

\* Give the draft back, as far as it is still SCHEDULED.
Unclaim(d) ==
  draft' = [draft EXCEPT ![d].status = IF @ = "SCHEDULED" THEN "APPROVED" ELSE @]

\* The upsert fails.
ClickRollback(c) ==
  /\ click[c].pc = "claimed"
  /\ Unclaim(ClickDraft(c))
  /\ ClickTo(c, "done")
  /\ UNCHANGED <<job, result, degraded, posts, now, booking>>

\* Fault: an ambiguous outcome is taken for a success.
ClickCallTrusting(c) ==
  /\ click[c].pc = "calling"
  /\ \E outcome \in Outcomes :
       /\ Call(click[c].cur, c, outcome)
       /\ ClickTo(c, IF outcome \in {"success", "ambiguous"} THEN "success" ELSE "failed")
  /\ UNCHANGED <<draft, job, result, degraded, now, booking>>

\* An ambiguous outcome ends the request: draft SCHEDULED, job IN_REVIEW.
ClickCall(c) ==
  /\ click[c].pc = "calling"
  /\ \E outcome \in Outcomes :
       /\ Call(click[c].cur, c, outcome)
       /\ ClickTo(c, CASE outcome = "success" -> "success"
                       [] outcome = "ambiguous" -> "done"
                       [] OTHER -> "failed")
  /\ UNCHANGED <<draft, job, result, degraded, now, booking>>

-----------------------------------------------------------------------------
(* Recording the answer.  The transactions are READ COMMITTED: a statement sees *)
(* what is committed when it runs.  The first write of either is the upsert of  *)
(* the result row, which then stays locked until the transaction ends; what it  *)
(* wrote is seen by others at the commit.                                       *)

RowFree(j) ==
  \A c \in Clicks : click[c].pc \in {"finalizing", "failing"} => click[c].cur # j

\* Fault: a post recorded before is not compared with.
MayFinalizeAnyway(j, post) == job[j].status = "IN_REVIEW"

\* The look at the result precedes its upsert, the look at the draft follows.  A
\* success that comes between the first look and the upsert is seen on the draft.
MayFinalize(j, post) ==
  /\ Succeeded(j) => result[j] = post
  /\ draft[DraftOf[j]].ext \in {{}, post}

\* Fault: a confirmed post that cannot be recorded gives the draft back.
ClickCheckGivesBack(c) ==
  /\ click[c].pc = "success"
  /\ Unclaim(ClickDraft(c))
  /\ ClickTo(c, "done")
  /\ UNCHANGED <<job, result, degraded, posts, now, booking>>

\* finalizeConfirmedPublicationTx up to the look at the draft
ClickCheck(c) ==
  LET j == click[c].cur IN
  /\ click[c].pc = "success"
  /\ RowFree(j)
  /\ ClickTo(c, IF MayFinalize(j, {<<j, c>>}) THEN "finalizing" ELSE "done")
  /\ UNCHANGED <<storeVars, booking>>

\* The rest of it: the draft is written as it is found, the job only IN_REVIEW;
\* otherwise, or when the database rejects it, the transaction is rolled back.
ClickFinalize(c) ==
  LET j == click[c].cur
      post == {<<j, c>>}
  IN
  /\ click[c].pc = "finalizing"
  /\ \/ /\ job[j].status = "IN_REVIEW"
        /\ result' = [result EXCEPT ![j] = post]
        /\ degraded' = degraded \ {j}
        /\ draft' = [draft EXCEPT ![DraftOf[j]] = [status |-> "PUBLISHED", ext |-> post]]
        /\ job' = [job EXCEPT ![j].status = "PUBLISHED"]
     \/ UNCHANGED <<draft, job, result, degraded>>
  /\ ClickTo(c, "done")
  /\ UNCHANGED <<posts, now, booking>>

\* recordUnconfirmedProviderFailure looks at the result, the draft and the job.  A
\* publication of the job shows on its draft from then on, so the looks are one.
KnownPublished(j) ==
  Succeeded(j) \/ draft[DraftOf[j]].ext # {} \/ job[j].status = "PUBLISHED"

ClickLook(c) ==
  /\ click[c].pc = "failed"
  /\ ClickTo(c, IF KnownPublished(click[c].cur) THEN "done" ELSE "unconfirmed")
  /\ UNCHANGED <<storeVars, booking>>

\* It writes ok = false over the result row, whose external id stays, and FAILED
\* over the job, whatever they are by now.
Failed(j) ==
  /\ degraded' = IF result[j] # {} THEN degraded \union {j} ELSE degraded
  /\ job' = [job EXCEPT ![j].status = "FAILED"]

\* A SCHEDULED draft goes back to APPROVED between the two.
ClickFail(c) ==
  LET j == click[c].cur IN
  /\ click[c].pc = "unconfirmed"
  /\ RowFree(j)
  /\ draft[DraftOf[j]].status = "SCHEDULED"
  /\ Failed(j)
  /\ Unclaim(DraftOf[j])
  /\ ClickTo(c, "done")
  /\ UNCHANGED <<result, posts, now, booking>>

\* Any other draft is left as it is, and may change before the job is written.
ClickFailElsewhere(c) ==
  /\ click[c].pc = "unconfirmed"
  /\ RowFree(click[c].cur)
  /\ draft[ClickDraft(c)].status # "SCHEDULED"
  /\ ClickTo(c, "failing")
  /\ UNCHANGED <<storeVars, booking>>

ClickFailed(c) ==
  /\ click[c].pc = "failing"
  /\ Failed(click[c].cur)
  /\ ClickTo(c, "done")
  /\ UNCHANGED <<draft, result, posts, now, booking>>

\* The platform stops the function, or a database call throws.
ClickCutOff(c) ==
  /\ click[c].pc \notin {"idle", "done"}
  /\ ClickTo(c, "done")
  /\ UNCHANGED storeVars

-----------------------------------------------------------------------------
(* Scheduled mode *)

BookRead(b, j) ==
  /\ booking[b].pc = "idle"
  /\ draft[DraftOf[j]].status = "APPROVED"
  /\ booking' = [booking EXCEPT ![b] = [pc |-> "read", cur |-> j]]
  /\ UNCHANGED storeVars

\* Fault: an existing job is written over.
BookableAgain(j) == draft[DraftOf[j]].status \in {"APPROVED", "SCHEDULED"}

\* scheduleAtomic: an existing job is returned as it is; otherwise the draft
\* must be APPROVED, or SCHEDULED already.
Bookable(j) ==
  job[j].status = "NONE" /\ draft[DraftOf[j]].status \in {"APPROVED", "SCHEDULED"}

Book(b) ==
  LET j == booking[b].cur IN
  /\ booking[b].pc = "read"
  /\ IF Bookable(j)
       THEN /\ draft' = [draft EXCEPT ![DraftOf[j]].status = "SCHEDULED"]
            /\ job' = [job EXCEPT ![j] = NewJob("SCHEDULED")]
       ELSE UNCHANGED <<draft, job>>
  /\ booking' = [booking EXCEPT ![b] = NewBooking("done")]
  /\ UNCHANGED <<result, degraded, posts, now>>

-----------------------------------------------------------------------------
ClickStep(c) ==
  \/ \E j \in ImmediateJobs : ClickRead(c, j) /\ UNCHANGED booking
  \/ ClickGate(c) /\ UNCHANGED booking
  \/ ClickLookup(c) /\ UNCHANGED booking
  \/ ClickClaim(c)
  \/ ClickCreateJob(c)
  \/ ClickRollback(c)
  \/ ClickCall(c)
  \/ ClickCheck(c)
  \/ ClickFinalize(c)
  \/ ClickLook(c)
  \/ ClickFail(c)
  \/ ClickFailElsewhere(c)
  \/ ClickFailed(c)
  \/ ClickCutOff(c) /\ UNCHANGED booking

BookingStep(b) ==
  /\ (\E j \in ScheduledJobs : BookRead(b, j)) \/ Book(b)
  /\ UNCHANGED click

RouteInit ==
  /\ draft = [d \in Drafts |-> [status |-> "APPROVED", ext |-> {}]]
  /\ job = [j \in JobIds |-> NoRow]
  /\ result = [j \in JobIds |-> {}]
  /\ degraded = {}
  /\ posts = {}
  /\ now = 0
  /\ click = [c \in Clicks |-> NewClick("idle")]
  /\ booking = [b \in Bookings |-> NewBooking("idle")]

RouteNext == (\E c \in Clicks : ClickStep(c)) \/ (\E b \in Bookings : BookingStep(b))

RouteSpec == RouteInit /\ [][RouteNext]_routeVars

-----------------------------------------------------------------------------
(* Properties *)

\* Whatever clicks race, one at a time is between claiming the draft and
\* recording what the provider answered (publish/route.ts 487-652).
InFlight(c) == click[c].pc \in {"claimed", "calling", "success", "finalizing",
                                "failed", "unconfirmed", "failing"}
ImmediateIsExclusive ==
  \A c, e \in Clicks :
    c # e /\ InFlight(c) /\ InFlight(e) => ClickDraft(c) # ClickDraft(e)

\* README.md 40 "Ambiguous provider outcomes are blocked without automatic
\* retry": an immediate job left IN_REVIEW by a request that is over is not sent
\* again, not even by a click that looked the job up before it existed.
Unresolved(j) ==
  job[j].status = "IN_REVIEW" /\ \A c \in Clicks : InFlight(c) => click[c].cur # j
UnresolvedImmediateIsBlocked ==
  [][\A j \in ImmediateJobs :
       Unresolved(j) => Unresolved(j)' /\ PostsOfJob(j)' = PostsOfJob(j)]_routeVars

\* What is recorded as published was published, and under one id: the id of a
\* result, which is ok, is that of its draft and both name a post of that job.
ImmediateRecordsAgree ==
  \A j \in ImmediateJobs :
    /\ result[j] \subseteq PostsOfJob(j)
    /\ job[j].status = "PUBLISHED" => result[j] # {}
    /\ j \notin degraded
    /\ result[j] # {} => draft[DraftOf[j]] = [status |-> "PUBLISHED", ext |-> result[j]]

\* publishing-finalization.ts 43 "monotonic, never degrade ok:true": whatever other
\* requests find out later, a result row with ok = true keeps it.
OkIsMonotone ==
  [][\A j \in JobIds : Succeeded(j) => Succeeded(j)']_routeVars

\* The draft of an unresolved immediate attempt stays claimed: no request gives
\* it back as APPROVED while its post may be live.
UnresolvedKeepsDraftClaimed ==
  \A j \in ImmediateJobs :
    Unresolved(j) => draft[DraftOf[j]].status = "SCHEDULED"
=============================================================================
