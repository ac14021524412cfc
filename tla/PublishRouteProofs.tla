-------------------------- MODULE PublishRouteProofs --------------------------
(***************************************************************************)
(* Proofs about PublishRoute: whatever requests race and wherever they are *)
(* cut off, an immediate publication is exclusive, what it records is what *)
(* was published, and an unknown outcome blocks its draft.  For every set  *)
(* of drafts, jobs, clicks and bookings.                                   *)
(***************************************************************************)
EXTENDS PublishRoute, TLAPS

\* A request under way has a job of its own mode in hand.
InHandInv ==
  /\ \A c \in Clicks : click[c].pc \notin {"idle", "done"} => click[c].cur \in ImmediateJobs
  /\ \A b \in Bookings : booking[b].pc = "read" => booking[b].cur \in ScheduledJobs

\* A click in flight keeps its draft claimed; before it has created the job no
\* attempt of that job is open, and after a success the post is there.
HoldInv ==
  \A c \in Clicks :
    /\ InFlight(c) => draft[ClickDraft(c)].status = "SCHEDULED"
    /\ click[c].pc = "claimed" => job[click[c].cur].status # "IN_REVIEW"
    /\ click[c].pc \in {"success", "finalizing"} => <<click[c].cur, c>> \in posts

\* The draft of an open immediate attempt is claimed, in flight or not.
OpenInv ==
  \A j \in ImmediateJobs :
    job[j].status = "IN_REVIEW" => draft[DraftOf[j]].status = "SCHEDULED"

RInv ==
  /\ RouteTypeOK /\ InHandInv /\ HoldInv /\ OpenInv
  /\ ImmediateIsExclusive /\ ImmediateRecordsAgree

-----------------------------------------------------------------------------
(* Helpers *)

LEMMA EmptyRowType == NoRow \in JobRow
BY DEF NoRow, JobRow, JobStatuses, Never

LEMMA NewJobType ==
  ASSUME NEW s \in JobStatuses
  PROVE  NewJob(s) \in JobRow /\ NewJob(s).status = s
BY EmptyRowType DEF NewJob, JobRow

LEMMA StatusType ==
  ASSUME NEW row \in JobRow, NEW s \in JobStatuses
  PROVE  [row EXCEPT !.status = s] \in JobRow /\ [row EXCEPT !.status = s].status = s
BY DEF JobRow

LEMMA AttemptedType ==
  ASSUME NEW row \in JobRow
  PROVE  Attempted(row) \in JobRow /\ Attempted(row).status = "IN_REVIEW"
<1>1. CASE row.status = "NONE"
  BY <1>1, NewJobType DEF Attempted, JobStatuses
<1>2. CASE row.status # "NONE"
  <2>1. row.attempts + 1 \in Nat /\ "IN_REVIEW" \in JobStatuses
    BY DEF JobRow, JobStatuses
  <2>2. Attempted(row) = [row EXCEPT !.status = "IN_REVIEW", !.attempts = row.attempts + 1]
    BY <1>2 DEF Attempted
  <2> QED BY <2>1, <2>2 DEF JobRow
<1> QED BY <1>1, <1>2

LEMMA InFlightFacts ==
  ASSUME InHandInv, StoreAssumption, NEW c \in Clicks, InFlight(c)
  PROVE  click[c].cur \in ImmediateJobs /\ click[c].cur \in JobIds /\ ClickDraft(c) \in Drafts
BY DEF InHandInv, InFlight, StoreAssumption, ClickDraft, JobIds

\* ClickTo moves the control point of one click.
LEMMA ClickToFacts ==
  ASSUME click \in [Clicks -> ClickRow], NEW c \in Clicks, NEW pc \in ClickPcs, ClickTo(c, pc)
  PROVE  /\ click' \in [Clicks -> ClickRow]
         /\ \A e \in Clicks \ {c} : click'[e] = click[e]
         /\ click'[c].pc = pc /\ click'[c].cur = click[c].cur
BY DEF ClickTo, ClickRow

-----------------------------------------------------------------------------
(* Steps that leave the tables alone *)

\* A click that does not enter the flight keeps everything.
LEMMA QuietStep ==
  ASSUME StoreAssumption, RInv, NEW c \in Clicks,
         UNCHANGED storeVars, UNCHANGED booking,
         click' \in [Clicks -> ClickRow],
         \A e \in Clicks \ {c} : click'[e] = click[e],
         click'[c].pc \in {"read", "gated", "checked", "done"},
         click'[c].pc # "done" => click'[c].cur \in ImmediateJobs
  PROVE  RInv'
<1> USE DEF RInv, storeVars
<1>1. RouteTypeOK'
  BY DEF RouteTypeOK, StoreTypeOK
<1>2. InHandInv'
  BY DEF InHandInv
<1>3. \A e \in Clicks : InFlight(e)' => e # c /\ InFlight(e)
  BY DEF InFlight
<1>4. HoldInv'
  <2> SUFFICES ASSUME NEW e \in Clicks
               PROVE  /\ InFlight(e)' => draft'[ClickDraft(e)'].status = "SCHEDULED"
                      /\ click'[e].pc = "claimed" => job'[click'[e].cur].status # "IN_REVIEW"
                      /\ click'[e].pc \in {"success", "finalizing"} => <<click'[e].cur, e>> \in posts'
    BY DEF HoldInv, ClickDraft
  <2>1. CASE e = c
    BY <2>1 DEF InFlight
  <2>2. CASE e # c
    BY <2>2 DEF HoldInv, InFlight, ClickDraft
  <2> QED BY <2>1, <2>2
<1>5. OpenInv'
  BY DEF OpenInv
<1>6. ImmediateIsExclusive'
  BY <1>3 DEF ImmediateIsExclusive, ClickDraft
<1>7. ImmediateRecordsAgree'
  BY DEF ImmediateRecordsAgree, PostsOfJob
<1> QED BY <1>1, <1>2, <1>4, <1>5, <1>6, <1>7

LEMMA ReadingSteps ==
  ASSUME StoreAssumption, RInv, NEW c \in Clicks, UNCHANGED booking,
         \/ \E j \in ImmediateJobs : ClickRead(c, j)
         \/ ClickGate(c)
         \/ ClickLookup(c)
         \/ ClickCutOff(c)
  PROVE  RInv'
<1> USE DEF RInv
<1>1. click \in [Clicks -> ClickRow] /\ draft \in [Drafts -> DraftRow]
  BY DEF RouteTypeOK, StoreTypeOK
<1>2. CASE \E j \in ImmediateJobs : ClickRead(c, j)
  <2>1. PICK j \in ImmediateJobs : ClickRead(c, j)
    BY <1>2
  <2>2. draft[DraftOf[j]].ext \in Optional(PostIds)
    BY <1>1 DEF StoreAssumption, JobIds, DraftRow
  <2>3. /\ click' \in [Clicks -> ClickRow]
        /\ \A e \in Clicks \ {c} : click'[e] = click[e]
        /\ click'[c].pc = "read" /\ click'[c].cur = j
    BY <1>1, <2>1, <2>2 DEF ClickRead, ClickRow, ClickPcs, JobIds
  <2> QED BY <2>1, <2>3, QuietStep DEF ClickRead
<1>3. CASE ClickGate(c)
  <2>1. PICK pc \in {"gated", "done"} : ClickTo(c, pc)
    BY <1>3 DEF ClickGate
  <2>2. click[c].cur \in ImmediateJobs
    BY <1>3 DEF ClickGate, InHandInv
  <2> QED BY <1>1, <1>3, <2>1, <2>2, ClickToFacts, QuietStep DEF ClickGate, ClickPcs
<1>4. CASE ClickLookup(c)
  <2>1. PICK pc \in {"checked", "done"} : ClickTo(c, pc)
    BY <1>4 DEF ClickLookup
  <2>2. click[c].cur \in ImmediateJobs
    BY <1>4 DEF ClickLookup, InHandInv
  <2> QED BY <1>1, <1>4, <2>1, <2>2, ClickToFacts, QuietStep DEF ClickLookup, ClickPcs
<1>5. CASE ClickCutOff(c)
  BY <1>1, <1>5, ClickToFacts, QuietStep DEF ClickCutOff, ClickPcs
<1> QED BY <1>2, <1>3, <1>4, <1>5

-----------------------------------------------------------------------------
(* Steps that write *)

\* No other click is in flight for the draft of this one.
Alone(c) == \A e \in Clicks \ {c} : InFlight(e) => ClickDraft(e) # ClickDraft(c)

LEMMA AloneFacts ==
  ASSUME RInv, NEW c \in Clicks,
         InFlight(c) \/ draft[ClickDraft(c)].status = "APPROVED"
  PROVE  Alone(c)
BY DEF RInv, ImmediateIsExclusive, HoldInv, Alone

\* What a click may write while it is alone: its draft, its job and its post.
OwnRows(c) ==
  /\ \A d \in Drafts \ {ClickDraft(c)} : draft'[d] = draft[d]
  /\ \A j \in JobIds \ {click[c].cur} : job'[j] = job[j] /\ result'[j] = result[j]
  /\ posts \subseteq posts' /\ degraded' \subseteq degraded

\* What it leaves behind
OwnRowsAgree(c) ==
  LET j == click[c].cur
      d == ClickDraft(c)
  IN
  /\ InFlight(c)' => draft'[d].status = "SCHEDULED"
  /\ click'[c].pc = "claimed" => job'[j].status # "IN_REVIEW"
  /\ click'[c].pc \in {"success", "finalizing"} => <<j, c>> \in posts'
  /\ job'[j].status = "IN_REVIEW" => draft'[d].status = "SCHEDULED"
  /\ result'[j] \subseteq PostsOfJob(j)'
  /\ job'[j].status = "PUBLISHED" => result'[j] # {}
  /\ result'[j] # {} => draft'[d] = [status |-> "PUBLISHED", ext |-> result'[j]]

\* A click that is alone disturbs nothing of the others.
LEMMA OwnStep ==
  ASSUME StoreAssumption, DeterministicIds, RInv, RouteTypeOK', UNCHANGED booking,
         NEW c \in Clicks, click[c].cur \in ImmediateJobs, Alone(c),
         \A e \in Clicks \ {c} : click'[e] = click[e],
         click'[c].cur = click[c].cur,
         OwnRows(c), OwnRowsAgree(c)
  PROVE  RInv'
<1> USE DEF RInv
<1>1. ImmediateJobs \subseteq JobIds /\ \A j \in JobIds : DraftOf[j] \in Drafts
  BY DEF JobIds, StoreAssumption
<1>2. InHandInv'
  BY DEF InHandInv
<1>3. \A e \in Clicks : ClickDraft(e)' = ClickDraft(e)
  BY DEF ClickDraft
<1>4. \A e \in Clicks \ {c} :
        /\ InFlight(e)' <=> InFlight(e)
        /\ InFlight(e) => click[e].cur \in JobIds /\ click[e].cur # click[c].cur
                            /\ ClickDraft(e) \in Drafts \ {ClickDraft(c)}
  BY InFlightFacts DEF InFlight, Alone, ClickDraft
<1>5. \A j \in ImmediateJobs \ {click[c].cur} :
        j \in JobIds /\ DraftOf[j] \in Drafts \ {ClickDraft(c)}
  BY <1>1 DEF DeterministicIds, ClickDraft
<1>6. HoldInv'
  <2> SUFFICES ASSUME NEW e \in Clicks
               PROVE  /\ InFlight(e)' => draft'[ClickDraft(e)].status = "SCHEDULED"
                      /\ click'[e].pc = "claimed" => job'[click'[e].cur].status # "IN_REVIEW"
                      /\ click'[e].pc \in {"success", "finalizing"} => <<click'[e].cur, e>> \in posts'
    BY <1>3 DEF HoldInv
  <2>1. CASE e = c
    BY <2>1 DEF OwnRowsAgree
  <2>2. CASE e # c
    <3>1. InFlight(e)' => draft'[ClickDraft(e)].status = "SCHEDULED"
      BY <1>4, <2>2 DEF HoldInv, OwnRows
    <3>2. click'[e].pc \in {"claimed", "success", "finalizing"} => InFlight(e)
      BY <2>2 DEF InFlight
    <3> QED BY <1>4, <2>2, <3>1, <3>2 DEF HoldInv, OwnRows
  <2> QED BY <2>1, <2>2
<1>7. OpenInv'
  <2> SUFFICES ASSUME NEW j \in ImmediateJobs, job'[j].status = "IN_REVIEW"
               PROVE  draft'[DraftOf[j]].status = "SCHEDULED"
    BY DEF OpenInv
  <2>1. CASE j = click[c].cur
    BY <2>1 DEF OwnRowsAgree, ClickDraft
  <2>2. CASE j # click[c].cur
    BY <1>5, <2>2 DEF OwnRows, OpenInv
  <2> QED BY <2>1, <2>2
<1>8. ImmediateIsExclusive'
  BY <1>3, <1>4 DEF ImmediateIsExclusive, Alone
<1>9. ImmediateRecordsAgree'
  <2> SUFFICES ASSUME NEW j \in ImmediateJobs
               PROVE  /\ result'[j] \subseteq PostsOfJob(j)'
                      /\ job'[j].status = "PUBLISHED" => result'[j] # {}
                      /\ j \notin degraded'
                      /\ result'[j] # {} =>
                           draft'[DraftOf[j]] = [status |-> "PUBLISHED", ext |-> result'[j]]
    BY DEF ImmediateRecordsAgree
  <2>0. j \notin degraded'
    BY DEF OwnRows, ImmediateRecordsAgree
  <2>1. CASE j = click[c].cur
    BY <2>0, <2>1 DEF OwnRowsAgree, ClickDraft
  <2>2. CASE j # click[c].cur
    <3>1. PostsOfJob(j) \subseteq PostsOfJob(j)'
      BY DEF OwnRows, PostsOfJob
    <3> QED BY <1>5, <2>0, <2>2, <3>1 DEF OwnRows, ImmediateRecordsAgree
  <2> QED BY <2>1, <2>2
<1> QED BY <1>2, <1>6, <1>7, <1>8, <1>9

\* An immediate job of a draft that is not PUBLISHED has no record of a success.
RecordedRow(j) ==
  draft[DraftOf[j]].status # "PUBLISHED" => result[j] = {} /\ job[j].status # "PUBLISHED"

LEMMA RecordFacts ==
  ASSUME ImmediateRecordsAgree, NEW j \in ImmediateJobs
  PROVE  RecordedRow(j)
<1>1. result[j] # {} => draft[DraftOf[j]].status = "PUBLISHED"
  <2>1. result[j] # {} => draft[DraftOf[j]] = [status |-> "PUBLISHED", ext |-> result[j]]
    BY DEF ImmediateRecordsAgree
  <2> QED BY <2>1
<1> QED BY <1>1 DEF ImmediateRecordsAgree, RecordedRow

\* The draft of a click that is claimed or later; the row of its job
LEMMA DraftFacts ==
  ASSUME StoreAssumption, RInv, NEW c \in Clicks, click[c].cur \in ImmediateJobs
  PROVE  /\ ClickDraft(c) \in Drafts /\ draft \in [Drafts -> DraftRow]
         /\ click[c].cur \in JobIds /\ job \in [JobIds -> JobRow]
         /\ click \in [Clicks -> ClickRow]
         /\ result \in [JobIds -> Optional(PostIds)] /\ posts \in SUBSET PostIds
         /\ draft[ClickDraft(c)].status # "PUBLISHED" =>
              result[click[c].cur] = {} /\ job[click[c].cur].status # "PUBLISHED"
<1>1. /\ ClickDraft(c) \in Drafts /\ click[c].cur \in JobIds
  BY DEF ClickDraft, JobIds, StoreAssumption
<1>2. /\ draft \in [Drafts -> DraftRow] /\ job \in [JobIds -> JobRow]
      /\ click \in [Clicks -> ClickRow]
      /\ result \in [JobIds -> Optional(PostIds)] /\ posts \in SUBSET PostIds
  BY DEF RInv, RouteTypeOK, StoreTypeOK
<1>3. RecordedRow(click[c].cur)
  BY RecordFacts DEF RInv
<1> QED BY <1>1, <1>2, <1>3 DEF RecordedRow, ClickDraft

LEMMA ClickClaimInv ==
  ASSUME StoreAssumption, DeterministicIds, RInv, NEW c \in Clicks, ClickClaim(c)
  PROVE  RInv'
<1> DEFINE d == ClickDraft(c)
           j == click[c].cur
<1>1. click[c].pc = "checked" /\ j \in ImmediateJobs
  BY DEF ClickClaim, RInv, InHandInv
<1>2. CASE draft[d].status = "APPROVED"
  <2>1. /\ draft' = [draft EXCEPT ![d].status = "SCHEDULED"] /\ ClickTo(c, "claimed")
        /\ UNCHANGED <<job, result, degraded, posts, now, booking>>
    BY <1>2 DEF ClickClaim
  <2>2. Alone(c)
    BY <1>2, AloneFacts
  <2>3. /\ draft' \in [Drafts -> DraftRow] /\ draft'[d].status = "SCHEDULED"
        /\ \A e \in Drafts \ {d} : draft'[e] = draft[e]
    BY <1>1, <2>1, DraftFacts DEF DraftRow, DraftStatuses
  <2>4. /\ click' \in [Clicks -> ClickRow] /\ click'[c].pc = "claimed" /\ click'[c].cur = j
        /\ \A e \in Clicks \ {c} : click'[e] = click[e]
    BY <1>1, <2>1, ClickToFacts, DraftFacts DEF ClickPcs
  <2>5. RouteTypeOK'
    BY <2>1, <2>3, <2>4 DEF RInv, RouteTypeOK, StoreTypeOK
  <2>6. job[j].status \notin {"IN_REVIEW", "PUBLISHED"} /\ result[j] = {}
    <3>1. job[j].status # "IN_REVIEW"
      BY <1>1, <1>2 DEF RInv, OpenInv, ClickDraft
    <3> QED BY <1>1, <1>2, <3>1, DraftFacts
  <2>7. OwnRows(c) /\ OwnRowsAgree(c)
    BY <2>1, <2>3, <2>4, <2>6 DEF OwnRows, OwnRowsAgree
  <2> QED BY <1>1, <2>1, <2>2, <2>4, <2>5, <2>7, OwnStep
<1>3. CASE draft[d].status # "APPROVED"
  <2>1. ClickTo(c, "done") /\ UNCHANGED storeVars /\ UNCHANGED booking
    BY <1>3 DEF ClickClaim, storeVars
  <2> QED BY <1>1, <2>1, ClickToFacts, QuietStep, DraftFacts DEF ClickPcs
<1> QED BY <1>2, <1>3

LEMMA ClickCreateJobInv ==
  ASSUME StoreAssumption, DeterministicIds, RInv, NEW c \in Clicks, ClickCreateJob(c)
  PROVE  RInv'
<1> DEFINE j == click[c].cur
<1>1. InFlight(c) /\ Alone(c) /\ j \in ImmediateJobs
  BY AloneFacts, InFlightFacts DEF ClickCreateJob, InFlight, RInv
<1>2. /\ job' = [job EXCEPT ![j] = Attempted(@)] /\ ClickTo(c, "calling")
      /\ UNCHANGED <<draft, result, degraded, posts, now, booking>>
  BY DEF ClickCreateJob
<1>3. /\ job' \in [JobIds -> JobRow] /\ job'[j].status = "IN_REVIEW"
      /\ \A i \in JobIds \ {j} : job'[i] = job[i]
  BY <1>1, <1>2, DraftFacts, AttemptedType
<1>4. /\ click' \in [Clicks -> ClickRow] /\ click'[c].pc = "calling" /\ click'[c].cur = j
      /\ \A e \in Clicks \ {c} : click'[e] = click[e]
  BY <1>1, <1>2, ClickToFacts, DraftFacts DEF ClickPcs
<1>5. RouteTypeOK'
  BY <1>2, <1>3, <1>4 DEF RInv, RouteTypeOK, StoreTypeOK
<1>6. draft[ClickDraft(c)].status = "SCHEDULED" /\ result[j] = {}
  BY <1>1, DraftFacts DEF RInv, HoldInv
<1>7. OwnRows(c) /\ OwnRowsAgree(c)
  BY <1>2, <1>3, <1>4, <1>6 DEF OwnRows, OwnRowsAgree
<1> QED BY <1>1, <1>2, <1>4, <1>5, <1>7, OwnStep

\* A claimed draft is given back.
LEMMA UnclaimFacts ==
  ASSUME StoreAssumption, RInv, NEW c \in Clicks, InFlight(c), Unclaim(ClickDraft(c))
  PROVE  /\ draft' \in [Drafts -> DraftRow]
         /\ \A e \in Drafts \ {ClickDraft(c)} : draft'[e] = draft[e]
<1>1. ClickDraft(c) \in Drafts /\ draft \in [Drafts -> DraftRow]
  BY InFlightFacts DEF RInv, RouteTypeOK, StoreTypeOK
<1> QED BY <1>1 DEF Unclaim, DraftRow, DraftStatuses

LEMMA ClickRollbackInv ==
  ASSUME StoreAssumption, DeterministicIds, RInv, NEW c \in Clicks, ClickRollback(c)
  PROVE  RInv'
<1> DEFINE j == click[c].cur
<1>1. InFlight(c) /\ Alone(c) /\ j \in ImmediateJobs
  BY AloneFacts, InFlightFacts DEF ClickRollback, InFlight, RInv
<1>2. /\ Unclaim(ClickDraft(c)) /\ ClickTo(c, "done")
      /\ UNCHANGED <<job, result, degraded, posts, now, booking>>
  BY DEF ClickRollback
<1>3. /\ click' \in [Clicks -> ClickRow] /\ click'[c].pc = "done" /\ click'[c].cur = j
      /\ \A e \in Clicks \ {c} : click'[e] = click[e]
  BY <1>1, <1>2, ClickToFacts, DraftFacts DEF ClickPcs
<1>4. RouteTypeOK'
  BY <1>1, <1>2, <1>3, UnclaimFacts DEF RInv, RouteTypeOK, StoreTypeOK
<1>5. job[j].status \notin {"IN_REVIEW", "PUBLISHED"} /\ result[j] = {}
  BY <1>1, DraftFacts DEF RInv, HoldInv, ClickRollback
<1>6. OwnRows(c) /\ OwnRowsAgree(c)
  BY <1>1, <1>2, <1>3, <1>5, UnclaimFacts DEF OwnRows, OwnRowsAgree, InFlight
<1> QED BY <1>1, <1>2, <1>3, <1>4, <1>6, OwnStep

LEMMA ClickCallInv ==
  ASSUME StoreAssumption, DeterministicIds, RInv, NEW c \in Clicks, ClickCall(c)
  PROVE  RInv'
<1> DEFINE j == click[c].cur
<1>1. InFlight(c) /\ Alone(c) /\ j \in ImmediateJobs
  BY AloneFacts, InFlightFacts DEF ClickCall, InFlight, RInv
<1>2. PICK outcome \in Outcomes :
        /\ Call(j, c, outcome)
        /\ ClickTo(c, CASE outcome = "success" -> "success"
                        [] outcome = "ambiguous" -> "done"
                        [] OTHER -> "failed")
  BY DEF ClickCall
<1>3. UNCHANGED <<draft, job, result, degraded, now, booking>>
  BY DEF ClickCall
<1>4. /\ posts \subseteq posts' /\ posts' \subseteq posts \union {<<j, c>>}
      /\ outcome = "success" => <<j, c>> \in posts'
  BY <1>2 DEF Call, MayHavePosted, Outcomes
<1>5. posts' \in SUBSET PostIds
  BY <1>1, <1>4, DraftFacts DEF PostIds, Actors
<1>6. PICK pc \in {"success", "done", "failed"} :
        ClickTo(c, pc) /\ (pc = "success" => outcome = "success")
  BY <1>2 DEF Outcomes
<1>7. /\ click' \in [Clicks -> ClickRow] /\ click'[c].pc = pc /\ click'[c].cur = j
      /\ \A e \in Clicks \ {c} : click'[e] = click[e]
  BY <1>1, <1>6, ClickToFacts, DraftFacts DEF ClickPcs
<1>8. RouteTypeOK'
  BY <1>3, <1>5, <1>7 DEF RInv, RouteTypeOK, StoreTypeOK
<1>9. /\ draft[ClickDraft(c)].status = "SCHEDULED"
      /\ result[j] = {} /\ job[j].status # "PUBLISHED"
  BY <1>1, DraftFacts DEF RInv, HoldInv
<1>10. OwnRows(c) /\ OwnRowsAgree(c)
  BY <1>3, <1>4, <1>6, <1>7, <1>9 DEF OwnRows, OwnRowsAgree
<1> QED BY <1>1, <1>3, <1>7, <1>8, <1>10, OwnStep

LEMMA ClickFinalizeInv ==
  ASSUME StoreAssumption, DeterministicIds, RInv, NEW c \in Clicks, ClickFinalize(c)
  PROVE  RInv'
<1> DEFINE j == click[c].cur
           d == ClickDraft(c)
           post == {<<j, c>>}
<1>1. click[c].pc = "finalizing" /\ InFlight(c) /\ Alone(c) /\ j \in ImmediateJobs
  BY AloneFacts, InFlightFacts DEF ClickFinalize, InFlight, RInv
<1>2. ClickTo(c, "done") /\ UNCHANGED <<posts, now, booking>>
  BY DEF ClickFinalize
<1>3. /\ click' \in [Clicks -> ClickRow] /\ click'[c].pc = "done" /\ click'[c].cur = j
      /\ \A e \in Clicks \ {c} : click'[e] = click[e]
  BY <1>1, <1>2, ClickToFacts, DraftFacts DEF ClickPcs
<1>4. CASE UNCHANGED <<draft, job, result, degraded>>
  <2>1. UNCHANGED storeVars
    BY <1>2, <1>4 DEF storeVars
  <2> QED BY <1>2, <1>3, <2>1, QuietStep
<1>5. CASE /\ result' = [result EXCEPT ![j] = post]
           /\ draft' = [draft EXCEPT ![d] = [status |-> "PUBLISHED", ext |-> post]]
           /\ job' = [job EXCEPT ![j].status = "PUBLISHED"]
           /\ degraded' = degraded \ {j}
  <2>1. <<j, c>> \in posts
    BY <1>1 DEF RInv, HoldInv
  <2>2. post \in Optional(PostIds)
    BY <1>1, <2>1, DraftFacts DEF Optional
  <2>3. [status |-> "PUBLISHED", ext |-> post] \in DraftRow
    BY <2>2 DEF DraftRow, DraftStatuses
  <2>4. /\ draft' \in [Drafts -> DraftRow]
        /\ draft'[d] = [status |-> "PUBLISHED", ext |-> post]
        /\ \A e \in Drafts \ {d} : draft'[e] = draft[e]
    BY <1>1, <1>5, <2>3, DraftFacts
  <2>5. /\ result' \in [JobIds -> Optional(PostIds)] /\ result'[j] = post
        /\ \A i \in JobIds \ {j} : result'[i] = result[i]
    BY <1>1, <1>5, <2>2, DraftFacts
  <2>6. /\ job' \in [JobIds -> JobRow] /\ job'[j].status = "PUBLISHED"
        /\ \A i \in JobIds \ {j} : job'[i] = job[i]
    BY <1>1, <1>5, DraftFacts, StatusType DEF JobStatuses
  <2>7. RouteTypeOK'
    BY <1>2, <1>3, <1>5, <2>4, <2>5, <2>6 DEF RInv, RouteTypeOK, StoreTypeOK
  <2>8. post \subseteq PostsOfJob(j)'
    <3>1. <<j, c>>[1] = j
      OBVIOUS
    <3>2. <<j, c>> \in PostsOfJob(j)'
      BY <1>2, <1>3, <2>1, <3>1 DEF PostsOfJob
    <3> QED BY <3>2
  <2>9. OwnRows(c)
    BY <1>2, <1>5, <2>4, <2>5, <2>6 DEF OwnRows
  <2>10. OwnRowsAgree(c)
    BY <1>3, <2>4, <2>5, <2>6, <2>8 DEF OwnRowsAgree, InFlight
  <2> QED BY <1>1, <1>2, <1>3, <2>7, <2>9, <2>10, OwnStep
<1> QED BY <1>4, <1>5 DEF ClickFinalize, ClickDraft

\* A click that goes on in its flight, or leaves it, without writing anything
LEMMA FlightStep ==
  ASSUME StoreAssumption, DeterministicIds, RInv, NEW c \in Clicks, InFlight(c),
         NEW pc \in {"finalizing", "unconfirmed", "failing", "done"}, ClickTo(c, pc),
         pc = "finalizing" => click[c].pc = "success",
         UNCHANGED <<storeVars, booking>>
  PROVE  RInv'
<1> DEFINE j == click[c].cur
<1>1. Alone(c) /\ j \in ImmediateJobs
  BY AloneFacts, InFlightFacts DEF RInv
<1>2. /\ click' \in [Clicks -> ClickRow] /\ click'[c].pc = pc /\ click'[c].cur = j
      /\ \A e \in Clicks \ {c} : click'[e] = click[e]
  BY <1>1, ClickToFacts, DraftFacts DEF ClickPcs
<1>3. RouteTypeOK'
  BY <1>2 DEF RInv, RouteTypeOK, StoreTypeOK, storeVars
<1>4. draft[ClickDraft(c)].status = "SCHEDULED" /\ result[j] = {} /\ job[j].status # "PUBLISHED"
  BY <1>1, DraftFacts DEF RInv, HoldInv
<1>5. pc = "finalizing" => <<j, c>> \in posts
  BY DEF RInv, HoldInv
<1>6. OwnRows(c) /\ OwnRowsAgree(c)
  BY <1>2, <1>4, <1>5 DEF OwnRows, OwnRowsAgree, storeVars
<1> QED BY <1>1, <1>2, <1>3, <1>6, OwnStep DEF storeVars

LEMMA ClickFailInv ==
  ASSUME StoreAssumption, DeterministicIds, RInv, NEW c \in Clicks,
         ClickFail(c) \/ ClickFailed(c)
  PROVE  RInv'
<1> DEFINE j == click[c].cur
<1>1. InFlight(c) /\ Alone(c) /\ j \in ImmediateJobs
  BY AloneFacts, InFlightFacts DEF ClickFail, ClickFailed, InFlight, RInv
<1>2. Failed(j) /\ ClickTo(c, "done") /\ UNCHANGED <<result, posts, now, booking>>
  BY DEF ClickFail, ClickFailed
<1>3. /\ click' \in [Clicks -> ClickRow] /\ click'[c].pc = "done" /\ click'[c].cur = j
      /\ \A e \in Clicks \ {c} : click'[e] = click[e]
  BY <1>1, <1>2, ClickToFacts, DraftFacts DEF ClickPcs
<1>4. /\ draft' \in [Drafts -> DraftRow]
      /\ \A e \in Drafts \ {ClickDraft(c)} : draft'[e] = draft[e]
  <2>1. CASE Unclaim(ClickDraft(c))
    BY <1>1, <2>1, UnclaimFacts
  <2>2. CASE draft' = draft
    BY <1>1, <2>2, DraftFacts
  <2> QED BY <2>1, <2>2 DEF ClickFail, ClickFailed, ClickDraft
<1>5. draft[ClickDraft(c)].status = "SCHEDULED" /\ result[j] = {}
  BY <1>1, DraftFacts DEF RInv, HoldInv
<1>6. job' = [job EXCEPT ![j].status = "FAILED"] /\ degraded' = degraded
  BY <1>2, <1>5 DEF Failed
<1>7. /\ job' \in [JobIds -> JobRow] /\ job'[j].status = "FAILED"
      /\ \A i \in JobIds \ {j} : job'[i] = job[i]
  BY <1>1, <1>6, DraftFacts, StatusType DEF JobStatuses
<1>8. RouteTypeOK'
  BY <1>2, <1>3, <1>4, <1>6, <1>7 DEF RInv, RouteTypeOK, StoreTypeOK
<1>9. OwnRows(c) /\ OwnRowsAgree(c)
  BY <1>2, <1>3, <1>4, <1>5, <1>6, <1>7 DEF OwnRows, OwnRowsAgree, InFlight
<1> QED BY <1>1, <1>2, <1>3, <1>8, <1>9, OwnStep

\* Looking at what is recorded, and going on without the draft
LEMMA LookingInv ==
  ASSUME StoreAssumption, DeterministicIds, RInv, NEW c \in Clicks,
         ClickCheck(c) \/ ClickLook(c) \/ ClickFailElsewhere(c)
  PROVE  RInv'
<1>1. InFlight(c) /\ UNCHANGED <<storeVars, booking>>
  BY DEF ClickCheck, ClickLook, ClickFailElsewhere, InFlight
<1>2. PICK pc \in {"finalizing", "unconfirmed", "failing", "done"} :
        ClickTo(c, pc) /\ (pc = "finalizing" => click[c].pc = "success")
  BY DEF ClickCheck, ClickLook, ClickFailElsewhere
<1> QED BY <1>1, <1>2, FlightStep

LEMMA ClickInv ==
  ASSUME StoreAssumption, DeterministicIds, RInv, NEW c \in Clicks, ClickStep(c)
  PROVE  RInv'
BY ReadingSteps, ClickClaimInv, ClickCreateJobInv, ClickRollbackInv, ClickCallInv,
   LookingInv, ClickFinalizeInv, ClickFailInv DEF ClickStep

\* A booking touches its own scheduled job and claims a draft at most.
LEMMA BookingInv ==
  ASSUME StoreAssumption, RInv, NEW b \in Bookings, BookingStep(b)
  PROVE  RInv'
<1> USE DEF RInv
<1>1. UNCHANGED <<click, result, degraded, posts, now>> /\ booking \in [Bookings -> BookingRow]
  BY DEF BookingStep, BookRead, Book, storeVars, RouteTypeOK
<1>2. /\ draft \in [Drafts -> DraftRow] /\ job \in [JobIds -> JobRow]
      /\ ScheduledJobs \subseteq JobIds /\ ImmediateJobs \subseteq JobIds
      /\ ScheduledJobs \intersect ImmediateJobs = {}
      /\ \A j \in JobIds : DraftOf[j] \in Drafts
  BY DEF RouteTypeOK, StoreTypeOK, JobIds, StoreAssumption
<1>3. /\ booking' \in [Bookings -> BookingRow]
      /\ \A a \in Bookings : booking'[a].pc = "read" => booking'[a].cur \in ScheduledJobs
  <2>1. CASE \E j \in ScheduledJobs : BookRead(b, j)
    BY <1>1, <1>2, <2>1 DEF BookRead, BookingRow, InHandInv
  <2>2. CASE Book(b)
    BY <1>1, <2>2 DEF Book, BookingRow, NewBooking, InHandInv
  <2> QED BY <2>1, <2>2 DEF BookingStep
\* What it writes
<1>4. /\ draft' \in [Drafts -> DraftRow] /\ job' \in [JobIds -> JobRow]
      /\ \A j \in ImmediateJobs : job'[j] = job[j]
      /\ \A d \in Drafts : \/ draft'[d] = draft[d]
                          \/ /\ draft[d].status \in {"APPROVED", "SCHEDULED"}
                             /\ draft'[d].status = "SCHEDULED"
  <2>1. CASE UNCHANGED <<draft, job>>
    BY <1>2, <2>1
  <2>2. CASE Book(b) /\ Bookable(booking[b].cur)
    <3> DEFINE j == booking[b].cur
               d == DraftOf[j]
    <3>1. j \in ScheduledJobs /\ d \in Drafts /\ j \in JobIds
      BY <1>2, <2>2 DEF Book, InHandInv
    <3>2. /\ draft' = [draft EXCEPT ![d].status = "SCHEDULED"]
          /\ job' = [job EXCEPT ![j] = NewJob("SCHEDULED")]
          /\ draft[d].status \in {"APPROVED", "SCHEDULED"}
      BY <2>2 DEF Book, Bookable
    <3>3. NewJob("SCHEDULED") \in JobRow
      BY NewJobType DEF JobStatuses
    <3>4. job' \in [JobIds -> JobRow] /\ \A i \in ImmediateJobs : job'[i] = job[i]
      BY <1>2, <3>1, <3>2, <3>3
    <3>5. /\ draft' \in [Drafts -> DraftRow] /\ draft'[d].status = "SCHEDULED"
          /\ \A e \in Drafts \ {d} : draft'[e] = draft[e]
      BY <1>2, <3>1, <3>2 DEF DraftRow, DraftStatuses
    <3> QED BY <3>2, <3>4, <3>5
  <2> QED BY <2>1, <2>2 DEF BookingStep, BookRead, Book, storeVars
<1>5. RouteTypeOK'
  BY <1>1, <1>3, <1>4 DEF RouteTypeOK, StoreTypeOK
<1>6. InHandInv'
  BY <1>1, <1>3 DEF InHandInv
<1>7. \A c \in Clicks : (InFlight(c)' <=> InFlight(c)) /\ ClickDraft(c)' = ClickDraft(c)
  BY <1>1 DEF InFlight, ClickDraft
<1>8. HoldInv'
  <2> SUFFICES ASSUME NEW c \in Clicks
               PROVE  /\ InFlight(c) => draft'[ClickDraft(c)].status = "SCHEDULED"
                      /\ click[c].pc = "claimed" => job'[click[c].cur].status # "IN_REVIEW"
                      /\ click[c].pc \in {"success", "finalizing"} => <<click[c].cur, c>> \in posts
    BY <1>1, <1>7 DEF HoldInv
  <2>1. InFlight(c) => draft'[ClickDraft(c)].status = "SCHEDULED"
    BY <1>4, InFlightFacts DEF HoldInv
  <2>2. click[c].pc = "claimed" => job'[click[c].cur].status # "IN_REVIEW"
    BY <1>4, InFlightFacts DEF HoldInv, InFlight
  <2> QED BY <2>1, <2>2 DEF HoldInv
<1>9. OpenInv'
  BY <1>2, <1>4 DEF OpenInv
<1>10. ImmediateIsExclusive'
  BY <1>7 DEF ImmediateIsExclusive
<1>11. ImmediateRecordsAgree'
  <2> SUFFICES ASSUME NEW j \in ImmediateJobs
               PROVE  /\ result[j] \subseteq PostsOfJob(j)
                      /\ job'[j].status = "PUBLISHED" => result[j] # {}
                      /\ j \notin degraded
                      /\ result[j] # {} =>
                           draft'[DraftOf[j]] = [status |-> "PUBLISHED", ext |-> result[j]]
    BY <1>1 DEF ImmediateRecordsAgree, PostsOfJob
  <2>1. result[j] # {} => draft'[DraftOf[j]] = draft[DraftOf[j]]
    BY <1>2, <1>4, RecordFacts DEF RecordedRow
  <2> QED BY <1>4, <2>1 DEF ImmediateRecordsAgree
<1> QED BY <1>5, <1>6, <1>8, <1>9, <1>10, <1>11

-----------------------------------------------------------------------------
(* The theorems *)

LEMMA RouteInitInv ==
  ASSUME StoreAssumption, RouteInit
  PROVE  RInv
<1>1. NewClick("idle") \in ClickRow /\ NewClick("idle").pc = "idle"
  BY DEF NewClick, ClickRow, ClickPcs, Optional
<1>2. NewBooking("idle") \in BookingRow /\ NewBooking("idle").pc = "idle"
  BY DEF NewBooking, BookingRow
<1>3. [status |-> "APPROVED", ext |-> {}] \in DraftRow
  BY DEF DraftRow, DraftStatuses, Optional
<1>4. RouteTypeOK
  <2>1. {} \in Optional(PostIds)
    BY DEF Optional
  <2> QED BY <1>1, <1>2, <1>3, <2>1, EmptyRowType DEF RouteInit, RouteTypeOK, StoreTypeOK
<1>5. \A c \in Clicks : click[c].pc = "idle" /\ ~InFlight(c)
  BY <1>1 DEF RouteInit, InFlight
<1>6. \A j \in ImmediateJobs : job[j].status = "NONE" /\ result[j] = {} /\ j \notin degraded
  BY DEF RouteInit, JobIds, NoRow
<1>7. InHandInv
  BY <1>2, <1>5 DEF InHandInv, RouteInit
<1>8. HoldInv /\ ImmediateIsExclusive
  BY <1>5 DEF HoldInv, ImmediateIsExclusive
<1>9. OpenInv /\ ImmediateRecordsAgree
  BY <1>6 DEF OpenInv, ImmediateRecordsAgree
<1> QED BY <1>4, <1>7, <1>8, <1>9 DEF RInv

LEMMA RouteStepInv ==
  ASSUME StoreAssumption, DeterministicIds, RInv, [RouteNext]_routeVars
  PROVE  RInv'
<1>1. CASE RouteNext
  BY <1>1, ClickInv, BookingInv DEF RouteNext
<1>2. CASE UNCHANGED routeVars
  BY <1>2 DEF routeVars, storeVars, RInv, RouteTypeOK, StoreTypeOK, InHandInv, HoldInv, InFlight, ClickDraft,
              OpenInv, ImmediateIsExclusive, ImmediateRecordsAgree, PostsOfJob
<1> QED BY <1>1, <1>2

\* The inductive invariant of the publish route.
THEOREM RouteInvariance == RouteSpec => []RInv
<1>1. StoreAssumption /\ DeterministicIds
  BY StoreAssumption, DeterministicIds
<1> QED BY <1>1, RouteInitInv, RouteStepInv, PTL DEF RouteSpec

\* Every row and every request is what its table and its handler say.
THEOREM RouteTypeCorrect == RouteSpec => []RouteTypeOK
<1>1. RInv => RouteTypeOK
  BY DEF RInv
<1> QED BY <1>1, RouteInvariance, PTL

\* Of any number of clicks on one draft one at a time is between its claim and its
\* record (publish/route.ts 487-652).
THEOREM ClicksAreExclusive == RouteSpec => []ImmediateIsExclusive
<1>1. RInv => ImmediateIsExclusive
  BY DEF RInv
<1> QED BY <1>1, RouteInvariance, PTL

\* Draft, job and result of an immediate publication agree, and name a real post.
THEOREM RecordsAgree == RouteSpec => []ImmediateRecordsAgree
<1>1. RInv => ImmediateRecordsAgree
  BY DEF RInv
<1> QED BY <1>1, RouteInvariance, PTL

\* A request that ended without an answer leaves its draft claimed.
THEOREM DraftStaysClaimed == RouteSpec => []UnresolvedKeepsDraftClaimed
<1>1. RInv => UnresolvedKeepsDraftClaimed
  BY DEF RInv, OpenInv, UnresolvedKeepsDraftClaimed, Unresolved
<1> QED BY <1>1, RouteInvariance, PTL

-----------------------------------------------------------------------------
(* An unresolved attempt stays as it is *)

\* A step of one click keeps j unresolved if the click does not take j up and
\* writes at most its own job and its own post.
LEMMA UnresolvedKept ==
  ASSUME NEW j \in ImmediateJobs, Unresolved(j), NEW c \in Clicks,
         \A e \in Clicks \ {c} : click'[e] = click[e],
         InFlight(c)' => click'[c].cur # j,
         job'[j] = job[j],
         PostsOfJob(j)' = PostsOfJob(j)
  PROVE  Unresolved(j)' /\ PostsOfJob(j)' = PostsOfJob(j)
BY DEF Unresolved, InFlight

LEMMA ClickKeepsUnresolved ==
  ASSUME StoreAssumption, RInv, NEW c \in Clicks, ClickStep(c),
         NEW j \in ImmediateJobs, Unresolved(j)
  PROVE  Unresolved(j)' /\ PostsOfJob(j)' = PostsOfJob(j)
<1>1. /\ click \in [Clicks -> ClickRow] /\ job \in [JobIds -> JobRow] /\ j \in JobIds
  BY DEF RInv, RouteTypeOK, StoreTypeOK, JobIds
<1>2. posts' = posts => PostsOfJob(j)' = PostsOfJob(j)
  BY DEF PostsOfJob
<1>3. CASE \E i \in ImmediateJobs : ClickRead(c, i)
  <2>1. PICK i \in ImmediateJobs : ClickRead(c, i)
    BY <1>3
  <2>2. (\A e \in Clicks \ {c} : click'[e] = click[e]) /\ click'[c].pc = "read"
    BY <1>1, <2>1 DEF ClickRead
  <2> QED BY <1>2, <2>1, <2>2, UnresolvedKept DEF ClickRead, storeVars, InFlight
<1>4. CASE \E pc \in {"gated", "checked", "done"} : ClickTo(c, pc) /\ UNCHANGED storeVars
  <2>1. PICK pc \in {"gated", "checked", "done"} : ClickTo(c, pc)
    BY <1>4
  <2>2. (\A e \in Clicks \ {c} : click'[e] = click[e]) /\ click'[c].pc = pc
    BY <1>1, <2>1, ClickToFacts DEF ClickPcs
  <2> QED BY <1>2, <1>4, <2>2, UnresolvedKept DEF storeVars, InFlight
<1>5. CASE ClickClaim(c)
  <2>1. PICK pc \in {"claimed", "done"} :
          ClickTo(c, pc) /\ (pc = "claimed" => draft[ClickDraft(c)].status = "APPROVED")
    BY <1>5 DEF ClickClaim
  <2>2. /\ \A e \in Clicks \ {c} : click'[e] = click[e]
        /\ click'[c].pc = pc /\ click'[c].cur = click[c].cur
    BY <1>1, <2>1, ClickToFacts DEF ClickPcs
  <2>3. draft[DraftOf[j]].status = "SCHEDULED"
    BY DEF RInv, OpenInv, Unresolved
  <2>4. InFlight(c)' => click'[c].cur # j
    BY <2>1, <2>2, <2>3 DEF InFlight, ClickDraft
  <2> QED BY <1>2, <1>5, <2>2, <2>4, UnresolvedKept DEF ClickClaim
<1>6. CASE InFlight(c) /\ ~ClickCutOff(c)
  <2> USE DEF InFlight, ClickStep, ClickRead, ClickGate, ClickLookup, ClickClaim, ClickCreateJob,
        ClickRollback, ClickCall, ClickCheck, ClickFinalize, ClickLook, ClickFail,
        ClickFailElsewhere, ClickFailed
  <2>1. click[c].cur # j
    BY <1>6 DEF Unresolved
  <2>2. PICK pc \in ClickPcs : ClickTo(c, pc)
    BY <1>6 DEF ClickPcs, Outcomes
  <2>3. (\A e \in Clicks \ {c} : click'[e] = click[e]) /\ click'[c].cur = click[c].cur
    BY <1>1, <2>2, ClickToFacts
  <2>4. job'[j] = job[j]
    BY <1>1, <1>6, <2>1 DEF Failed, storeVars
  <2>5. posts \subseteq posts' /\ posts' \subseteq posts \union {<<click[c].cur, c>>}
    BY <1>6 DEF Call, storeVars
  <2>6. PostsOfJob(j)' = PostsOfJob(j)
    BY <2>1, <2>5 DEF PostsOfJob
  <2> QED BY <2>1, <2>3, <2>4, <2>6, UnresolvedKept
<1> QED BY <1>3, <1>4, <1>5, <1>6 DEF ClickStep, ClickGate, ClickLookup, ClickCutOff, InFlight,
           ClickCreateJob, ClickRollback, ClickCall, ClickCheck, ClickFinalize, ClickLook,
           ClickFail, ClickFailElsewhere, ClickFailed

LEMMA BookingKeepsUnresolved ==
  ASSUME StoreAssumption, RInv, NEW b \in Bookings, BookingStep(b),
         NEW j \in ImmediateJobs, Unresolved(j)
  PROVE  Unresolved(j)' /\ PostsOfJob(j)' = PostsOfJob(j)
<1>1. UNCHANGED <<click, posts>>
  BY DEF BookingStep, BookRead, Book, storeVars
<1>2. job'[j] = job[j]
  <2>1. booking[b].pc = "read" => booking[b].cur # j
    BY DEF RInv, InHandInv, StoreAssumption
  <2>2. job \in [JobIds -> JobRow] /\ j \in JobIds
    BY DEF RInv, RouteTypeOK, StoreTypeOK, JobIds
  <2> QED BY <2>1, <2>2 DEF BookingStep, BookRead, Book, storeVars
<1> QED BY <1>1, <1>2 DEF Unresolved, InFlight, PostsOfJob

\* README.md 40: no request sends an immediate attempt with an unknown outcome again,
\* resolves it, or gives its draft back.
THEOREM UnresolvedBlocked == RouteSpec => UnresolvedImmediateIsBlocked
<1> DEFINE Kept == \A j \in ImmediateJobs :
             Unresolved(j) => Unresolved(j)' /\ PostsOfJob(j)' = PostsOfJob(j)
<1>1. StoreAssumption
  BY StoreAssumption
<1>2. RInv /\ RouteNext => Kept
  BY <1>1, ClickKeepsUnresolved, BookingKeepsUnresolved DEF RouteNext
<1>3. RInv /\ [RouteNext]_routeVars => [Kept]_routeVars
  BY <1>2
<1> QED BY <1>3, RouteInvariance, PTL DEF RouteSpec, UnresolvedImmediateIsBlocked
==============================================================================
