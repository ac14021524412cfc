---------------------------- MODULE DraftWorkflow ----------------------------
(***************************************************************************)
(* What people do to drafts beside publishing them: approve, reject, edit, *)
(* replace the assets of a draft, replace the file behind an asset.  Each  *)
(* is a request of its own; approve, edit and asset replacement read the   *)
(* draft first and write later without looking again.                      *)
(*                                                                         *)
(* The content of a draft (caption, format, assets) is a version number;   *)
(* approved is the version the last approver had read.                     *)
(***************************************************************************)
EXTENDS PublishingStore

CONSTANTS
  People,      \* requests of people
  MaxVersion   \* bound on content versions

\* There are drafts to work on.
ASSUME WorkflowAssumption == MaxVersion \in Nat /\ Drafts # {}

VARIABLES content, approved, visit

workflowVars == <<storeVars, content, approved, visit>>
reviewVars == <<content, approved>>

\* status and version are what the request read; "replaced" lies between the
\* two statements of an asset replacement.
VisitRow == [pc : {"idle", "approve", "edit", "assets", "replaced", "done"},
             on : Drafts, status : DraftStatuses, version : 0..MaxVersion]

WorkflowTypeOK ==
  /\ StoreTypeOK
  /\ content \in [Drafts -> 0..MaxVersion]
  /\ approved \in [Drafts -> 0..MaxVersion]
  /\ visit \in [People -> VisitRow]

Reviewable == {"DRAFT", "NEEDS_REVIEW", "REJECTED"}

VisitTo(p, pc) == visit' = [visit EXCEPT ![p].pc = pc]
SetStatus(d, status) == draft' = [draft EXCEPT ![d].status = status]
\* Fault: the draft gets a status only jobs have.
DemoteInReview(d, wasApproved) ==
  IF wasApproved THEN SetStatus(d, "IN_REVIEW") ELSE UNCHANGED draft
Demote(d, wasApproved) ==
  IF wasApproved THEN SetStatus(d, "NEEDS_REVIEW") ELSE UNCHANGED draft
NewContent(d) ==
  /\ content[d] < MaxVersion
  /\ content' = [content EXCEPT ![d] = @ + 1]

-----------------------------------------------------------------------------
\* The read that opens approve, edit and asset replacement
Open(p, d, what) ==
  /\ visit[p].pc = "idle"
  /\ what = "approve" => draft[d].status \in Reviewable
  /\ visit' = [visit EXCEPT ![p] = [pc |-> what, on |-> d,
                 status |-> draft[d].status, version |-> content[d]]]
  /\ UNCHANGED <<draft, reviewVars>>

Approve(p) ==
  /\ visit[p].pc = "approve"
  /\ SetStatus(visit[p].on, "APPROVED")
  /\ approved' = [approved EXCEPT ![visit[p].on] = visit[p].version]
  /\ VisitTo(p, "done")
  /\ UNCHANGED content

Reject(p, d) ==
  /\ visit[p].pc = "idle"
  /\ SetStatus(d, "REJECTED")
  /\ VisitTo(p, "done")
  /\ UNCHANGED reviewVars

\* One update writes the new content and, for a draft read as APPROVED, the status.
Edit(p) ==
  /\ visit[p].pc = "edit"
  /\ NewContent(visit[p].on)
  /\ Demote(visit[p].on, visit[p].status = "APPROVED")
  /\ VisitTo(p, "done")
  /\ UNCHANGED approved

\* A transaction replaces the links, a statement after it the status.
ReplaceAssets(p) ==
  /\ visit[p].pc = "assets"
  /\ NewContent(visit[p].on)
  /\ VisitTo(p, "replaced")
  /\ UNCHANGED <<draft, approved>>

DemoteAfterReplace(p) ==
  /\ visit[p].pc = "replaced"
  /\ Demote(visit[p].on, visit[p].status = "APPROVED")
  /\ VisitTo(p, "done")
  /\ UNCHANGED reviewVars

\* A transaction replaces the file of an asset and demotes its APPROVED drafts.
ReplaceFile(p, d) ==
  /\ visit[p].pc = "idle"
  /\ NewContent(d)
  /\ Demote(d, draft[d].status = "APPROVED")
  /\ VisitTo(p, "done")
  /\ UNCHANGED approved

VisitCutOff(p) ==
  /\ visit[p].pc \notin {"idle", "done"}
  /\ VisitTo(p, "done")
  /\ UNCHANGED <<draft, reviewVars>>

VisitStep(p) ==
  /\ \/ \E d \in Drafts :
          \/ \E what \in {"approve", "edit", "assets"} : Open(p, d, what)
          \/ Reject(p, d)
          \/ ReplaceFile(p, d)
     \/ Approve(p)
     \/ Edit(p)
     \/ ReplaceAssets(p)
     \/ DemoteAfterReplace(p)
     \/ VisitCutOff(p)
  /\ UNCHANGED <<job, result, degraded, posts, now>>

\* Nobody has opened anything; the content of an APPROVED draft has been read.
WorkflowStart ==
  /\ content = [d \in Drafts |-> 0]
  /\ approved = [d \in Drafts |-> 0]
  /\ visit \in [People -> {[pc |-> "idle", on |-> d, status |-> "DRAFT", version |-> 0] :
                             d \in {CHOOSE d \in Drafts : TRUE}}]

-----------------------------------------------------------------------------
(* Properties *)

\* README.md:38 "with approval gates": when nobody is in the middle of a request,
\* the content that waits to be published is the content its approver had read.
ApprovedContentIsCurrent ==
  (\A p \in People : visit[p].pc \in {"idle", "done"}) =>
    \A d \in Drafts :
      draft[d].status \in {"APPROVED", "SCHEDULED"} => approved[d] = content[d]
=============================================================================
