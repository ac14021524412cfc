-------------------------- MODULE OperationsProofs --------------------------
(***************************************************************************)
(* Proofs about the publisher adapters, the queue worker, the file worker  *)
(* and the goal runner, for any number of jobs, drafts, entries, runs,     *)
(* goals and commands, and about the six components of Operations.         *)
(***************************************************************************)
EXTENDS Operations, ConnectionsProofs, StrategyDeskProofs

(* The publisher adapters: one call of publish() *)

AllRequests == {"identity", "container", "wait", "publish", "post", "session", "upload",
                "finish", "photo", "story", "media", "video"}

\* Requests of which the last, and only the last, makes the post visible.
Series(s) ==
  /\ s \in Seq(AllRequests) /\ s # <<>>
  /\ \A i \in 1..Len(s) : Publishes(s[i]) <=> i = Len(s)

CallOK ==
  /\ call \in [format : Formats, todo : Seq(AllRequests), polls : 0..MaxPolls, again : BOOLEAN]
  /\ posts \in Nat /\ answer \in Answers \union {"none"} /\ verdict \in Verdicts

\* Nothing is posted before the last request, and what the verdict says holds of the post.
CallInv ==
  /\ CallOK
  /\ verdict = "none" => posts = 0 /\ Series(call.todo)
  /\ verdict # "none" => CallIsHonest

-----------------------------------------------------------------------------
LEMMA SeriesOfFormat ==
  ASSUME NEW f \in Formats PROVE Series(RequestsOf(f))
<1>1. CASE f = "INSTAGRAM_FEED"
  BY <1>1 DEF RequestsOf, InstagramFeed, Series, Publishes, AllRequests
<1>2. CASE f = "INSTAGRAM_STORY"
  BY <1>2 DEF RequestsOf, InstagramStory, Series, Publishes, AllRequests
<1>3. CASE f = "FACEBOOK_FEED"
  BY <1>3 DEF RequestsOf, FacebookFeed, Series, Publishes, AllRequests
<1>4. CASE f = "FACEBOOK_STORY_IMAGE"
  BY <1>4 DEF RequestsOf, FacebookStory, Series, Publishes, AllRequests
<1>5. CASE f = "FACEBOOK_STORY_VIDEO"
  BY <1>5 DEF RequestsOf, FacebookStory, Series, Publishes, AllRequests
<1>6. CASE f = "FACEBOOK_REEL"
  BY <1>6 DEF RequestsOf, FacebookReel, Series, Publishes, AllRequests
<1>7. CASE f = "YOUTUBE"
  BY <1>7 DEF RequestsOf, YouTubeVideo, Series, Publishes, AllRequests
<1> QED BY <1>1, <1>2, <1>3, <1>4, <1>5, <1>6, <1>7 DEF Formats

LEMMA SeriesHead ==
  ASSUME NEW s, Series(s)
  PROVE  Head(s) \in AllRequests /\ Len(s) \in Nat \ {0} /\ (Publishes(Head(s)) <=> Len(s) = 1)
BY DEF Series

LEMMA SeriesTail ==
  ASSUME NEW s, Series(s), Len(s) # 1
  PROVE  Series(Tail(s))
<1>1. /\ s \in Seq(AllRequests) /\ Len(s) \in Nat \ {0, 1}
      /\ Tail(s) \in Seq(AllRequests) /\ Len(Tail(s)) = Len(s) - 1
      /\ \A i \in 1..Len(Tail(s)) : Tail(s)[i] = s[i + 1]
  BY DEF Series
<1>2. Tail(s) # <<>>
  <2>1. Len(<<>>) = 0
    OBVIOUS
  <2>2. Len(Tail(s)) \in Nat \ {0}
    BY <1>1
  <2> QED BY <2>1, <2>2, Zenon
<1>3. ASSUME NEW i \in 1..Len(Tail(s)) PROVE Publishes(Tail(s)[i]) <=> i = Len(Tail(s))
  <2>1. i + 1 \in 1..Len(s) /\ Tail(s)[i] = s[i + 1]
    BY <1>1
  <2>2. Publishes(s[i + 1]) <=> i + 1 = Len(s)
    BY <2>1 DEF Series
  <2>3. i + 1 = Len(s) <=> i = Len(Tail(s))
    BY <1>1
  <2> QED BY <2>1, <2>2, <2>3, Zenon
<1> QED BY <1>1, <1>2, <1>3 DEF Series

LEMMA SeriesAgain == Series(<<"wait", "publish">>)
BY DEF Series, Publishes, AllRequests

LEMMA AdapterInitInv == ASSUME PollsAssumption, AdapterInit PROVE CallInv
<1>1. PICK f \in Formats : call = [format |-> f, todo |-> RequestsOf(f), polls |-> 0, again |-> FALSE]
  BY DEF AdapterInit
<1>2. Series(call.todo) /\ call.todo = RequestsOf(f) /\ call.format = f
  BY <1>1, SeriesOfFormat
<1>3. CallOK
  BY <1>1, <1>2, PollsAssumption DEF AdapterInit, CallOK, Series, PollsAssumption, Answers, Verdicts
<1> QED BY <1>2, <1>3 DEF AdapterInit, CallInv

\* What a request may have put on the network
LEMMA AnswerPosts ==
  ASSUME NEW step, NEW a \in Answers, posts = 0, NetworkAnswers(step, a)
  PROVE  /\ posts' \in {0, 1}
         /\ posts' = 1 => Publishes(step) /\ a \notin {"rejected", "rate_limited", "not_ready"}
         /\ Publishes(step) /\ a = "ok" => posts' = 1
<1>1. CASE ~Publishes(step) \/ a \in {"rejected", "rate_limited", "not_ready"}
  <2>1. posts' \in {0}
    BY <1>1 DEF NetworkAnswers
  <2> QED BY <1>1, <2>1
<1>2. CASE Publishes(step) /\ a \notin {"rejected", "rate_limited", "not_ready"} /\ a = "ok"
  <2>1. posts' \in {0 + 1}
    BY <1>2 DEF NetworkAnswers
  <2> QED BY <1>2, <2>1
<1>3. CASE Publishes(step) /\ a \notin {"rejected", "rate_limited", "not_ready"} /\ a # "ok"
  <2>1. posts' \in {0, 0 + 1}
    BY <1>3 DEF NetworkAnswers
  <2> QED BY <1>3, <2>1
<1> QED BY <1>1, <1>2, <1>3

\* What an answer other than "ok" ends in says no more than the network has told.
LEMMA VerdictIsHonest ==
  ASSUME NEW step, NEW a \in Answers \ {"ok"}, CallOK, posts = 0, NetworkAnswers(step, a)
  PROVE  /\ VerdictOn(step, a) \in Verdicts \ {"none"}
         /\ posts' \in {0, 1}
         /\ VerdictOn(step, a) = "retryable_failure" => posts' = 0
         /\ VerdictOn(step, a) = "terminal_failure" /\ posts' > 0 =>
              a \in {"lost", "no_id"} \/ (call.format = "INSTAGRAM_FEED" /\ a \in {"code_1", "server_error"})
         /\ VerdictOn(step, a) = "success" => a = "no_id"
<1>1. /\ posts' \in {0, 1}
      /\ posts' = 1 => Publishes(step) /\ a \notin {"rejected", "rate_limited", "not_ready"}
      /\ a = "code_1" => call.format # "YOUTUBE"
  BY AnswerPosts DEF NetworkAnswers
<1>2. CASE call.format = "INSTAGRAM_FEED"
  <2>1. VerdictOn(step, a) = InstagramFeedVerdict(step, a)
    BY <1>2 DEF VerdictOn
  <2> QED BY <1>1, <1>2, <2>1 DEF InstagramFeedVerdict, Verdicts, Answers
<1>3. CASE call.format = "INSTAGRAM_STORY"
  <2>1. VerdictOn(step, a) = MetaVerdict(a)
    BY <1>3 DEF VerdictOn
  <2> QED BY <1>1, <1>3, <2>1 DEF MetaVerdict, Verdicts, Answers
<1>4. CASE call.format = "YOUTUBE"
  <2>1. VerdictOn(step, a) = YouTubeVerdict(step, a)
    BY <1>4 DEF VerdictOn
  <2> QED BY <1>1, <1>4, <2>1 DEF YouTubeVerdict, MediaVerdict, Verdicts, Answers, Publishes
<1>5. CASE call.format \notin {"INSTAGRAM_FEED", "INSTAGRAM_STORY", "YOUTUBE"}
  <2>1. VerdictOn(step, a) = FacebookVerdict(step, a)
    BY <1>5 DEF VerdictOn
  <2> QED BY <1>1, <1>5, <2>1
          DEF FacebookVerdict, HostedUploadVerdict, MetaVerdict, Verdicts, Answers, Publishes
<1> QED BY <1>2, <1>3, <1>4, <1>5

LEMMA RequestInv ==
  ASSUME PollsAssumption, CallInv, NEW a \in Answers, Request(a)
  PROVE  CallInv'
<1>1. /\ verdict = "none" /\ posts = 0 /\ Series(call.todo) /\ Step # "wait"
      /\ answer' = a /\ NetworkAnswers(Step, a)
  BY DEF Request, CallInv
<1>2. /\ posts' \in {0, 1} /\ (posts' = 1 => Publishes(Step) /\ a \notin {"rejected", "rate_limited", "not_ready"})
      /\ Publishes(Step) /\ a = "ok" => posts' = 1
  BY <1>1, AnswerPosts
<1>3. Publishes(Step) <=> Len(call.todo) = 1
  BY <1>1, SeriesHead DEF Step
<1>4. CASE MayPublishAgain(Step, a)
  <2>1. /\ call' = [call EXCEPT !.todo = <<"wait", "publish">>, !.again = TRUE, !.polls = 0]
        /\ verdict' = verdict
    BY <1>4 DEF Request
  <2>2. posts' = 0
    BY <1>2, <1>4 DEF MayPublishAgain
  <2>3. call'.todo = <<"wait", "publish">> /\ CallOK'
    <3>1. <<"wait", "publish">> \in Seq(AllRequests) /\ 0 \in 0..MaxPolls
      BY SeriesAgain, PollsAssumption DEF Series, PollsAssumption
    <3> QED BY <1>1, <2>1, <2>2, <3>1 DEF CallInv, CallOK
  <2> QED BY <1>1, <2>1, <2>2, <2>3, SeriesAgain DEF CallInv
<1>5. CASE ~MayPublishAgain(Step, a) /\ a # "ok"
  <2>1. verdict' = VerdictOn(Step, a) /\ call' = [call EXCEPT !.todo = <<>>]
    BY <1>5 DEF Request, End
  <2>2. CallOK /\ a \in Answers \ {"ok"}
    BY <1>5 DEF CallInv
  <2>3. /\ verdict' \in Verdicts \ {"none"}
        /\ verdict' = "retryable_failure" => posts' = 0
        /\ verdict' = "terminal_failure" /\ posts' > 0 =>
             a \in {"lost", "no_id"} \/ (call.format = "INSTAGRAM_FEED" /\ a \in {"code_1", "server_error"})
        /\ verdict' = "success" => a = "no_id"
    BY <1>1, <2>1, <2>2, VerdictIsHonest
  <2>4. CallOK' /\ call'.format = call.format
    <3>1. posts' \in Nat /\ <<>> \in Seq(AllRequests)
      BY <1>2, EmptySeq
    <3>2. verdict' \in Verdicts /\ answer' \in Answers \union {"none"}
      BY <1>1, <2>2, <2>3
    <3> QED BY <2>1, <2>2, <3>1, <3>2 DEF CallOK
  <2> QED BY <1>1, <1>2, <2>3, <2>4
          DEF CallInv, CallOK, CallIsHonest, OnePostPerCall, RetriesAreSafe, FailuresAreTold, SuccessIsReal
<1>6. CASE ~MayPublishAgain(Step, a) /\ a = "ok" /\ Len(call.todo) = 1
  <2>1. verdict' = "success" /\ call' = [call EXCEPT !.todo = <<>>]
    BY <1>6 DEF Request, End
  <2>2. posts' = 1
    BY <1>2, <1>3, <1>6
  <2>3. CallOK'
    BY EmptySeq, <1>1, <2>1, <2>2 DEF CallInv, CallOK, Verdicts
  <2> QED BY <2>1, <2>2, <2>3
          DEF CallInv, CallOK, CallIsHonest, OnePostPerCall, RetriesAreSafe, FailuresAreTold, SuccessIsReal
<1>7. CASE ~MayPublishAgain(Step, a) /\ a = "ok" /\ Len(call.todo) # 1
  <2>1. verdict' = verdict /\ call' = [call EXCEPT !.todo = Tail(@)]
    BY <1>7 DEF Request
  <2>2. posts' = 0
    BY <1>2, <1>3, <1>7
  <2>3. Series(Tail(call.todo))
    BY <1>1, <1>7, SeriesTail
  <2>4. call'.todo = Tail(call.todo) /\ CallOK'
    BY <1>1, <2>1, <2>2, <2>3 DEF CallInv, CallOK, Series
  <2> QED BY <1>1, <2>1, <2>2, <2>3, <2>4 DEF CallInv
<1> QED BY <1>4, <1>5, <1>6, <1>7

LEMMA PollInv ==
  ASSUME PollsAssumption, CallInv, PollContainer
  PROVE  CallInv'
<1>1. /\ verdict = "none" /\ posts = 0 /\ Series(call.todo) /\ Step = "wait"
      /\ posts' = posts /\ answer' = answer /\ CallOK
  BY DEF PollContainer, CallInv
<1>2. Len(call.todo) # 1
  BY <1>1, SeriesHead DEF Step, Publishes
<1>3. CASE call' = [call EXCEPT !.todo = Tail(@)] /\ verdict' = verdict
  <2>1. Series(Tail(call.todo))
    BY <1>1, <1>2, SeriesTail
  <2>2. call'.todo = Tail(call.todo) /\ CallOK'
    BY <1>1, <1>3, <2>1 DEF CallOK, Series
  <2> QED BY <1>1, <1>3, <2>1, <2>2 DEF CallInv
<1>4. CASE call.polls < MaxPolls /\ call' = [call EXCEPT !.polls = @ + 1] /\ verdict' = verdict
  <2>1. call'.todo = call.todo /\ CallOK'
    BY <1>1, <1>4, PollsAssumption DEF CallOK, PollsAssumption
  <2> QED BY <1>1, <1>4, <2>1 DEF CallInv
<1>5. CASE End("terminal_failure")
  <2>1. CallOK' /\ verdict' = "terminal_failure"
    BY EmptySeq, <1>1, <1>5 DEF End, CallOK, Verdicts
  <2> QED BY <1>1, <2>1
          DEF CallInv, CallOK, CallIsHonest, OnePostPerCall, RetriesAreSafe, FailuresAreTold, SuccessIsReal
<1> QED BY <1>3, <1>4, <1>5 DEF PollContainer

\* The invariant of one call of publish().
THEOREM CallInvariance == AdapterSpec => []CallInv
<1>1. ASSUME CallInv, RefuseInput PROVE CallInv'
  <2>1. /\ posts = 0 /\ posts' = posts /\ answer' = answer /\ CallOK
        /\ verdict' = "terminal_failure" /\ call' = [call EXCEPT !.todo = <<>>]
    BY <1>1 DEF RefuseInput, CallInv, End
  <2>2. CallOK'
    BY EmptySeq, <2>1 DEF CallOK, Verdicts
  <2> QED BY <2>1, <2>2
          DEF CallInv, CallOK, CallIsHonest, OnePostPerCall, RetriesAreSafe, FailuresAreTold, SuccessIsReal
<1>2. ASSUME CallInv, UNCHANGED adapterVars PROVE CallInv'
  <2>1. call' = call /\ posts' = posts /\ answer' = answer /\ verdict' = verdict
    BY <1>2 DEF adapterVars
  <2> QED BY <1>2, <2>1 DEF CallInv, CallOK, CallIsHonest, OnePostPerCall, RetriesAreSafe,
            FailuresAreTold, SuccessIsReal
<1>3. CallInv /\ [AdapterNext]_adapterVars => CallInv'
  BY <1>1, <1>2, PollsAssumption, RequestInv, PollInv DEF AdapterNext
<1> QED BY <1>3, AdapterInitInv, PollsAssumption, PTL DEF AdapterSpec

\* What a call of publish() holds, and that its requests are a series of its format.
THEOREM AdapterTypeCorrect == AdapterSpec => []AdapterTypeOK
<1>1. CallInv => AdapterTypeOK
  BY DEF CallInv, CallOK, Series, AdapterTypeOK
<1> QED BY <1>1, CallInvariance, PTL

\* One call of publish() puts up one post at most; the verdict that the cron publisher
\* repeats means that there is none, and a failure hides a post only where no adapter can know.
THEOREM CallsAreHonest == AdapterSpec => []CallIsHonest
<1>1. CallInv => CallIsHonest
  BY DEF CallInv, CallOK, CallIsHonest, OnePostPerCall, RetriesAreSafe, FailuresAreTold, SuccessIsReal
<1> QED BY <1>1, CallInvariance, PTL

-----------------------------------------------------------------------------
(* The queue worker *)

QueueRow == [state : QueueStates, on : QueueDrafts \union {NoDraft},
             seen : {"DRAFT", "APPROVED", "SCHEDULED", "PUBLISHED"}, tries : 0..Tries]

QueueRowsOK ==
  /\ draftRow \in [QueueDrafts -> [status : {"DRAFT", "APPROVED", "SCHEDULED", "PUBLISHED"},
                                   ext : {"none", "mock", "real"}]]
  /\ queueJob \in [QueueJobs -> QueueRow]
  /\ proposals \in [QueueJobs -> 0..Tries]
  /\ approvals \in [QueueDrafts -> Nat] /\ givenBack \in [QueueDrafts -> Nat]
  /\ writes \in [QueueDrafts -> Nat]
  /\ stalled \in BOOLEAN

\* An attempt proposes once at most, and a job waits only while it has attempts left.
TriesInv ==
  \A j \in QueueJobs :
    /\ queueJob[j].state = "waiting" => queueJob[j].tries < Tries
    /\ proposals[j] <= queueJob[j].tries
    /\ queueJob[j].state \in {"reading", "deciding", "writing"} => proposals[j] < queueJob[j].tries
    /\ queueJob[j].state \in {"reading", "deciding"} => queueJob[j].on # NoDraft

\* A job that will schedule its draft.
WillWrite(j) ==
  \/ queueJob[j].state = "deciding" /\ queueJob[j].seen = "APPROVED"
  \/ queueJob[j].state = "writing"

\* What the worker may use up.
Given(d) == approvals[d] + givenBack[d]

\* As long as one job is worked on at a time: an approved draft, and one that a job has
\* found approved, has been approved or given back once more than it was scheduled.
ApprovalInv ==
  ~stalled =>
    /\ \A i, j \in QueueJobs : Active(i) /\ Active(j) => i = j
    /\ \A d \in QueueDrafts :
         /\ writes[d] <= Given(d)
         /\ draftRow[d].status = "APPROVED" => writes[d] < Given(d)
         /\ \A j \in QueueJobs : WillWrite(j) /\ queueJob[j].on = d /\ d # NoDraft => writes[d] < Given(d)

QInv == QueueRowsOK /\ TriesInv /\ ApprovalInv

LEMMA QueueInitInv == ASSUME QueueWorkerAssumption, QueueInit PROVE QInv
<1>1. NotAdded \in QueueRow
  BY QueueWorkerAssumption DEF QueueWorkerAssumption, NotAdded, QueueRow, QueueStates
<1>2. QueueRowsOK
  <2>1. [status |-> "DRAFT", ext |-> "none"] \in
          [status : {"DRAFT", "APPROVED", "SCHEDULED", "PUBLISHED"}, ext : {"none", "mock", "real"}]
    OBVIOUS
  <2>2. 0 \in 0..Tries
    BY QueueWorkerAssumption DEF QueueWorkerAssumption
  <2> QED BY <1>1, <2>1, <2>2, Zenon DEF QueueInit, QueueRowsOK
<1>3. TriesInv /\ ApprovalInv
  BY DEF QueueInit, TriesInv, ApprovalInv, Given, Active, WillWrite, NotAdded
<1> QED BY <1>2, <1>3 DEF QInv

\* A job moves on without a write; a second one is only taken up by a stall.
MovesTo(j, row) ==
  /\ queueJob' = [queueJob EXCEPT ![j] = row]
  /\ row.on = queueJob[j].on \/ row.state = "waiting"
  /\ row.state = "waiting" => row.tries < Tries
  /\ row.tries >= queueJob[j].tries
  /\ row.state \in {"reading", "deciding", "writing"} => proposals[j] < row.tries
  /\ row.state \in {"reading", "deciding"} => row.on # NoDraft
  /\ row.state = "deciding" => row.seen = draftRow[row.on].status
  /\ row.state = "writing" => row.on = NoDraft \/ WillWrite(j)
  /\ \/ stalled' = stalled /\ (Active(j) \/ row.state \notin {"reading", "deciding", "writing", "auditing"})
     \/ stalled' = (stalled \/ \E i \in QueueJobs : Active(i))
  /\ draftRow' = draftRow /\ proposals' = proposals /\ writes' = writes
  /\ approvals' = approvals /\ givenBack' = givenBack

LEMMA QueueMoveInv ==
  ASSUME QueueWorkerAssumption, QInv, NEW j \in QueueJobs, NEW row \in QueueRow, MovesTo(j, row)
  PROVE  QInv'
<1>0. /\ stalled' \in BOOLEAN /\ (~stalled' => ~stalled)
      /\ row.state \in {"reading", "deciding", "writing", "auditing"} =>
           Active(j) \/ stalled' \/ \A i \in QueueJobs : ~Active(i)
  <2>1. stalled \in BOOLEAN
    BY DEF QInv, QueueRowsOK
  <2>2. CASE stalled' = stalled /\ (Active(j) \/ row.state \notin {"reading", "deciding", "writing", "auditing"})
    BY <2>1, <2>2, Zenon
  <2>3. CASE stalled' = (stalled \/ \E i \in QueueJobs : Active(i))
    BY <2>1, <2>3, Zenon
  <2> QED BY <2>2, <2>3, Zenon DEF MovesTo
<1>1. QueueRowsOK'
  BY <1>0 DEF MovesTo, QInv, QueueRowsOK
<1>2. queueJob'[j] = row /\ \A i \in QueueJobs \ {j} : queueJob'[i] = queueJob[i]
  BY DEF MovesTo, QInv, QueueRowsOK
<1>3. TriesInv'
  <2>1. row.tries \in Nat /\ queueJob[j].tries \in Nat /\ proposals[j] \in Nat
    BY QueueWorkerAssumption DEF QInv, QueueRowsOK, QueueRow, QueueWorkerAssumption
  <2> QED BY <1>2, <2>1 DEF MovesTo, QInv, TriesInv
<1>4. ApprovalInv'
  <2> SUFFICES ASSUME ~stalled' PROVE ApprovalInv'
    BY DEF ApprovalInv
  <2>1. ASSUME NEW i \in QueueJobs, NEW k \in QueueJobs, Active(i)', Active(k)' PROVE i = k
    BY <1>0, <1>2, <2>1 DEF QInv, ApprovalInv, Given, Active
  <2>2. ASSUME NEW d \in QueueDrafts
        PROVE  /\ writes[d] <= Given(d)
               /\ draftRow[d].status = "APPROVED" => writes[d] < Given(d)
               /\ \A i \in QueueJobs : WillWrite(i)' /\ queueJob'[i].on = d /\ d # NoDraft => writes[d] < Given(d)
    BY <1>0, <1>2, <2>2 DEF MovesTo, QInv, ApprovalInv, Given, WillWrite
  <2> QED BY <2>1, <2>2 DEF MovesTo, ApprovalInv, Given
<1> QED BY <1>1, <1>3, <1>4 DEF QInv

LEMMA QueueRowFacts ==
  ASSUME QueueWorkerAssumption, QInv, NEW j \in QueueJobs
  PROVE  /\ queueJob[j] \in QueueRow /\ proposals[j] \in Nat /\ queueJob[j].tries \in 0..Tries
         /\ queueJob[j].on \in QueueDrafts \union {NoDraft}
         /\ Tries \in Nat
         /\ \A s \in QueueStates : [queueJob[j] EXCEPT !.state = s] \in QueueRow
BY DEF QInv, QueueRowsOK, QueueRow, QueueWorkerAssumption

LEMMA QueueMoves ==
  ASSUME QueueWorkerAssumption, QInv, NEW j \in QueueJobs,
         Enqueue(j) \/ TakeJob(j) \/ ReadJobDraft(j) \/ PublishMock(j) \/ WriteAudit(j) \/ AttemptFails(j)
  PROVE  QInv'
<1>1. PICK q \in QueueRow : queueJob[j] = q
  BY QueueRowFacts
<1>2. /\ q.tries \in 0..Tries /\ Tries \in Nat /\ q.on \in QueueDrafts \union {NoDraft}
      /\ proposals[j] \in Nat /\ proposals[j] <= q.tries
      /\ q.state = "waiting" => q.tries < Tries
      /\ q.state \in {"reading", "deciding", "writing"} => proposals[j] < q.tries
      /\ q.state \in {"reading", "deciding"} => q.on # NoDraft
      /\ queueJob \in [QueueJobs -> QueueRow] /\ stalled \in BOOLEAN
  BY <1>1, QueueRowFacts DEF QInv, TriesInv, QueueRowsOK
<1>3. ASSUME Enqueue(j) PROVE QInv'
  <2>1. PICK d \in QueueDrafts \union {NoDraft} :
          queueJob' = [queueJob EXCEPT ![j] = [NotAdded EXCEPT !.state = "waiting", !.on = d]]
    BY <1>3 DEF Enqueue
  <2> DEFINE row == [NotAdded EXCEPT !.state = "waiting", !.on = d]
  <2>2. row \in QueueRow /\ row.state = "waiting" /\ row.tries = 0 /\ q.tries = 0
    <3>1. row.state = "waiting" /\ row.tries = 0 /\ row.on = d
          /\ row \in [state : {"waiting"}, on : {d}, seen : {"DRAFT"}, tries : {0}]
      BY DEF NotAdded
    <3>2. q.tries = 0
      <4>1. q = NotAdded
        BY <1>1, <1>3 DEF Enqueue
      <4> QED BY <4>1 DEF NotAdded
    <3> HIDE DEF row
    <3> QED BY <1>2, <3>1, <3>2 DEF QueueRow, QueueStates
  <2>3. queueJob' = [queueJob EXCEPT ![j] = row] /\ row.tries < Tries
    BY <2>1, <2>2, QueueWorkerAssumption DEF QueueWorkerAssumption
  <2> HIDE DEF row
  <2>4. UNCHANGED <<draftRow, proposals, outsideVars, writes, stalled>>
    BY <1>3 DEF Enqueue
  <2>5. MovesTo(j, row)
    BY <1>1, <1>2, <2>2, <2>3, <2>4 DEF MovesTo, outsideVars
  <2> QED BY <2>2, <2>5, QueueMoveInv, QueueWorkerAssumption
<1>4. ASSUME TakeJob(j) PROVE QInv'
  <2> DEFINE row == [q EXCEPT !.tries = @ + 1, !.state = IF q.on = NoDraft THEN "writing" ELSE "reading"]
  <2>1. queueJob' = [queueJob EXCEPT ![j] = row]
    BY <1>1, <1>2, <1>4 DEF TakeJob, QueueRow
  <2>2. row \in QueueRow /\ row.on = q.on /\ row.tries = q.tries + 1
        /\ row.state = (IF q.on = NoDraft THEN "writing" ELSE "reading")
    BY <1>1, <1>2, <1>4 DEF TakeJob, QueueRow, QueueStates
  <2> HIDE DEF row
  <2>3. /\ UNCHANGED <<draftRow, proposals, outsideVars, writes>>
        /\ stalled' = (stalled \/ \E i \in QueueJobs : Active(i))
    BY <1>4 DEF TakeJob
  <2>4. MovesTo(j, row)
    BY <1>1, <1>2, <2>1, <2>2, <2>3 DEF MovesTo, outsideVars
  <2> QED BY <2>2, <2>4, QueueMoveInv, QueueWorkerAssumption
<1>5. ASSUME ReadJobDraft(j) PROVE QInv'
  <2>1. q.on \in QueueDrafts /\ draftRow[q.on].status \in {"DRAFT", "APPROVED", "SCHEDULED", "PUBLISHED"}
    BY <1>1, <1>2, <1>5 DEF ReadJobDraft, QInv, QueueRowsOK
  <2> DEFINE row == [q EXCEPT !.state = "deciding", !.seen = draftRow[q.on].status]
  <2>2. row \in QueueRow /\ row.on = q.on /\ row.tries = q.tries /\ row.state = "deciding"
        /\ row.seen = draftRow[q.on].status
    BY <2>1 DEF QueueRow, QueueStates
  <2>3. \/ queueJob' = [queueJob EXCEPT ![j] = [q EXCEPT !.state = "completed"]]
        \/ queueJob' = [queueJob EXCEPT ![j] = row]
    BY <1>1, <1>2, <1>5 DEF ReadJobDraft, JobTo, QueueRow
  <2> HIDE DEF row
  <2>4. UNCHANGED <<draftRow, proposals, outsideVars, writes, stalled>> /\ Active(j)
    BY <1>5 DEF ReadJobDraft, Active
  <2>5. CASE queueJob' = [queueJob EXCEPT ![j] = row]
    <3>1. MovesTo(j, row)
      BY <1>1, <1>2, <1>5, <2>2, <2>4, <2>5 DEF MovesTo, outsideVars, ReadJobDraft
    <3> QED BY <2>2, <3>1, QueueMoveInv, QueueWorkerAssumption
  <2>6. CASE queueJob' = [queueJob EXCEPT ![j] = [q EXCEPT !.state = "completed"]]
    <3> DEFINE over == [q EXCEPT !.state = "completed"]
    <3>1. over \in QueueRow /\ over.on = q.on /\ over.tries = q.tries /\ over.state = "completed"
      BY DEF QueueRow, QueueStates
    <3>2. queueJob' = [queueJob EXCEPT ![j] = over]
      BY <2>6
    <3> HIDE DEF over
    <3>3. MovesTo(j, over)
      BY <1>1, <1>2, <2>4, <3>1, <3>2 DEF MovesTo, outsideVars
    <3> QED BY <3>1, <3>3, QueueMoveInv, QueueWorkerAssumption
  <2> QED BY <2>3, <2>5, <2>6
<1>6. ASSUME NEW s \in QueueStates, JobTo(j, s), Active(j),
             UNCHANGED <<draftRow, proposals, outsideVars, writes, stalled>>,
             \/ s \in {"auditing", "completed", "failed"}
             \/ s = "waiting" /\ q.tries < Tries
             \/ s = "writing" /\ WillWrite(j)
      PROVE  QInv'
  <2> DEFINE row == [q EXCEPT !.state = s]
  <2>1. row \in QueueRow /\ row.on = q.on /\ row.tries = q.tries /\ row.state = s
    BY DEF QueueRow
  <2>2. queueJob' = [queueJob EXCEPT ![j] = row]
    BY <1>1, <1>2, <1>6 DEF JobTo, QueueRow
  <2>3. s = "writing" => proposals[j] < q.tries
    BY <1>1, <1>2, <1>6 DEF WillWrite
  <2> HIDE DEF row
  <2>4. MovesTo(j, row)
    BY <1>1, <1>2, <1>6, <2>1, <2>2, <2>3 DEF MovesTo, outsideVars
  <2> QED BY <2>1, <2>4, QueueMoveInv, QueueWorkerAssumption
<1>7. ASSUME PublishMock(j) PROVE QInv'
  BY <1>6, <1>7 DEF PublishMock, WillWrite, Active, QueueStates
<1>8. ASSUME WriteAudit(j) PROVE QInv'
  BY <1>6, <1>8 DEF WriteAudit, Active, QueueStates
<1>9. ASSUME AttemptFails(j) PROVE QInv'
  BY <1>1, <1>6, <1>9 DEF AttemptFails, QueueStates
<1> QED BY <1>3, <1>4, <1>5, <1>7, <1>8, <1>9

\* The write uses up the approval that its job has found.
LEMMA WriteDraftInv ==
  ASSUME QueueWorkerAssumption, QInv, NEW j \in QueueJobs, WriteDraft(j)
  PROVE  QInv'
<1>1. PICK d \in QueueDrafts :
        /\ d = queueJob[j].on /\ d # NoDraft /\ queueJob[j].state = "writing"
        /\ draftRow' = [draftRow EXCEPT ![d] = [status |-> "SCHEDULED", ext |-> "mock"]]
        /\ writes' = [writes EXCEPT ![d] = @ + 1]
        /\ queueJob' = [queueJob EXCEPT ![j].state = "auditing"]
        /\ UNCHANGED <<proposals, approvals, givenBack, stalled>>
  BY QueueRowFacts DEF WriteDraft, JobTo, outsideVars
<1>2. /\ queueJob'[j] = [queueJob[j] EXCEPT !.state = "auditing"] /\ queueJob'[j].state = "auditing"
      /\ queueJob'[j].tries = queueJob[j].tries /\ queueJob'[j].on = queueJob[j].on
      /\ queueJob' \in [QueueJobs -> QueueRow]
      /\ \A i \in QueueJobs \ {j} : queueJob'[i] = queueJob[i]
  BY <1>1 DEF QInv, QueueRowsOK, QueueRow, QueueStates
<1>3. QueueRowsOK'
  BY <1>1, <1>2 DEF QInv, QueueRowsOK
<1>4. TriesInv'
  BY <1>1, <1>2 DEF QInv, TriesInv
<1>5. ApprovalInv'
  <2> SUFFICES ASSUME ~stalled' PROVE ApprovalInv'
    BY DEF ApprovalInv
  <2>1. \A i \in QueueJobs : Active(i) => i = j
    BY <1>1 DEF QInv, ApprovalInv, Given, Active
  <2>2. \A i \in QueueJobs \ {j} : ~Active(i)' /\ ~WillWrite(i)'
    BY <1>2, <2>1 DEF Active, WillWrite
  <2>3. ~WillWrite(j)'
    BY <1>2 DEF WillWrite
  <2>4. writes[d] < Given(d) /\ writes[d] \in Nat /\ Given(d) \in Nat
    BY <1>1 DEF QInv, ApprovalInv, Given, WillWrite, QueueRowsOK
  <2>5. ASSUME NEW e \in QueueDrafts
        PROVE  /\ writes'[e] <= Given(e)'
               /\ draftRow'[e].status = "APPROVED" => writes'[e] < Given(e)'
    BY <1>1, <2>4 DEF QInv, ApprovalInv, Given, QueueRowsOK
  <2> QED BY <2>2, <2>3, <2>5 DEF ApprovalInv, Given
<1> QED BY <1>3, <1>4, <1>5 DEF QInv

LEMMA ProposeInv ==
  ASSUME QueueWorkerAssumption, QInv, NEW j \in QueueJobs, ProposeCampaign(j)
  PROVE  QInv'
<1>1. /\ queueJob[j].state = "writing" /\ proposals' = [proposals EXCEPT ![j] = @ + 1]
      /\ queueJob' = [queueJob EXCEPT ![j].state = "auditing"]
      /\ UNCHANGED <<draftRow, approvals, givenBack, writes, stalled>>
  BY DEF ProposeCampaign, JobTo, outsideVars
<1>2. /\ queueJob'[j].state = "auditing" /\ queueJob'[j].tries = queueJob[j].tries
      /\ queueJob'[j].on = queueJob[j].on /\ queueJob' \in [QueueJobs -> QueueRow]
      /\ \A i \in QueueJobs \ {j} : queueJob'[i] = queueJob[i]
  BY <1>1 DEF QInv, QueueRowsOK, QueueRow, QueueStates
<1>3. proposals[j] < queueJob[j].tries /\ proposals[j] \in Nat /\ queueJob[j].tries \in 0..Tries
      /\ Tries \in Nat
  BY <1>1, QueueRowFacts, QueueWorkerAssumption DEF QInv, TriesInv
<1>4. QueueRowsOK'
  BY <1>1, <1>2, <1>3 DEF QInv, QueueRowsOK
<1>5. TriesInv'
  BY <1>1, <1>2, <1>3 DEF QInv, QueueRowsOK, TriesInv
<1>6. ApprovalInv'
  BY <1>1, <1>2 DEF QInv, ApprovalInv, Given, Active, WillWrite
<1> QED BY <1>4, <1>5, <1>6 DEF QInv

\* What people and the publishing routes do to a draft: it is APPROVED afterwards only
\* by an approval or by a giving back.
LEMMA OutsideInv ==
  ASSUME QueueWorkerAssumption, QInv, NEW d \in QueueDrafts, QueueDraftStep(d)
  PROVE  QInv'
<1>1. ASSUME UNCHANGED <<queueJob, proposals, writes, stalled>>,
             NEW st \in {"DRAFT", "APPROVED", "SCHEDULED", "PUBLISHED"},
             NEW ext \in {"none", "mock", "real"},
             draftRow' = [draftRow EXCEPT ![d] = [status |-> st, ext |-> ext]],
             NEW given \in {0, 1}, st = "APPROVED" => given = 1,
             \/ approvals' = [approvals EXCEPT ![d] = @ + given] /\ givenBack' = givenBack
             \/ givenBack' = [givenBack EXCEPT ![d] = @ + given] /\ approvals' = approvals
      PROVE  QInv'
  <2>1. QueueRowsOK'
    BY <1>1 DEF QInv, QueueRowsOK
  <2>2. TriesInv'
    BY <1>1 DEF QInv, TriesInv
  <2>3. /\ \A e \in QueueDrafts : Given(e) \in Nat /\ writes[e] \in Nat
        /\ Given(d)' = Given(d) + given /\ \A e \in QueueDrafts \ {d} : Given(e)' = Given(e)
    <3>1. approvals \in [QueueDrafts -> Nat] /\ givenBack \in [QueueDrafts -> Nat] /\ writes \in [QueueDrafts -> Nat]
      BY DEF QInv, QueueRowsOK
    <3>2. CASE approvals' = [approvals EXCEPT ![d] = @ + given] /\ givenBack' = givenBack
      BY <1>1, <3>1, <3>2 DEF Given
    <3>3. CASE givenBack' = [givenBack EXCEPT ![d] = @ + given] /\ approvals' = approvals
      BY <1>1, <3>1, <3>3 DEF Given
    <3> QED BY <1>1, <3>2, <3>3
  <2>4. /\ draftRow'[d].status = "APPROVED" => given = 1
        /\ \A e \in QueueDrafts \ {d} : draftRow'[e] = draftRow[e]
    BY <1>1 DEF QInv, QueueRowsOK
  <2>5. ApprovalInv'
    BY <1>1, <2>3, <2>4 DEF QInv, ApprovalInv, Active, WillWrite
  <2> QED BY <2>1, <2>2, <2>5 DEF QInv
<1>2. /\ draftRow[d].ext \in {"none", "mock", "real"}
      /\ \A st : [draftRow EXCEPT ![d].status = st]
                  = [draftRow EXCEPT ![d] = [status |-> st, ext |-> draftRow[d].ext]]
      /\ approvals = [approvals EXCEPT ![d] = @ + 0]
  BY DEF QInv, QueueRowsOK
<1>3. CASE ReadForApproval(d)
  BY <1>3 DEF ReadForApproval, QInv, QueueRowsOK, TriesInv, ApprovalInv, Given, Active, WillWrite
<1>4. CASE ApproveDraft(d)
  BY <1>1, <1>2, <1>4 DEF ApproveDraft
<1>5. CASE RejectDraft(d)
  BY <1>1, <1>2, <1>5 DEF RejectDraft, outsideVars
<1>6. CASE TakeDraft(d)
  BY <1>1, <1>2, <1>6 DEF TakeDraft
<1>7. CASE GiveBackDraft(d)
  BY <1>1, <1>2, <1>7 DEF GiveBackDraft
<1>8. CASE PublishDraft(d)
  BY <1>1, <1>2, <1>8 DEF PublishDraft, outsideVars
<1> QED BY <1>3, <1>4, <1>5, <1>6, <1>7, <1>8 DEF QueueDraftStep

\* Jobs of a process that works alone, the drafts they write and what they use up.
THEOREM QueueInvariance == QueueSpec => []QInv
<1>1. QInv /\ UNCHANGED queueVars => QInv'
  BY DEF queueVars, outsideVars, QInv, QueueRowsOK, TriesInv, ApprovalInv, Given, Active, WillWrite
<1>2. QInv /\ [QueueNext]_queueVars => QInv'
  BY <1>1, QueueWorkerAssumption, QueueMoves, WriteDraftInv, ProposeInv, OutsideInv
     DEF QueueNext, QueueJobStep
<1> QED BY <1>2, QueueInitInv, QueueWorkerAssumption, PTL DEF QueueSpec

\* Drafts, jobs and campaigns have their types; an attempt proposes at most one campaign.
THEOREM QueueTypeCorrect == QueueSpec => []QueueTypeOK
<1>1. QInv => QueueTypeOK
  BY DEF QInv, QueueRowsOK, QueueRow, QueueTypeOK
<1> QED BY <1>1, QueueInvariance, PTL

\* queue-worker: as long as one process works at a time, each scheduling of a draft uses up
\* one approval by a person or one giving back by a failed publication.
THEOREM ApprovalsAreNeeded == QueueSpec => []SchedulingNeedsApproval
<1>1. QInv => SchedulingNeedsApproval
  BY DEF QInv, QueueRowsOK, ApprovalInv, Given, SchedulingNeedsApproval
<1> QED BY <1>1, QueueInvariance, PTL

-----------------------------------------------------------------------------
(* The file worker *)

QueueCopies == {Torn} \union [Entries -> EntryStatuses]
RunRow == [live : BOOLEAN, dates : SUBSET Dates, copy : QueueCopies, todo : SUBSET Entries]

FilesOK ==
  /\ queueFile \in QueueCopies
  /\ workerRun \in [WorkerRuns -> RunRow]
  /\ sent \in [Entries -> 0..MaxPosts]
  /\ hindered \subseteq {"overlap", "unclear", "cut_off"}

\* What the network has received once is ready in the queue that counts: the copy of
\* the run that has loaded it, the file while no run has.
SentIsReady ==
  hindered = {} =>
    /\ \A v, w \in WorkerRuns : workerRun[v] # NoRun /\ workerRun[w] # NoRun => v = w
    /\ queueFile \in [Entries -> EntryStatuses]
    /\ \A e \in Entries : sent[e] <= 1
    /\ \A w \in WorkerRuns, e \in Entries : Loaded(w) /\ sent[e] # 0 => workerRun[w].copy[e] = "ready"
    /\ (\A w \in WorkerRuns : ~Loaded(w)) =>
         \A e \in Entries : sent[e] # 0 => queueFile[e] = "ready"

FInv == FilesOK /\ SentIsReady

-----------------------------------------------------------------------------
LEMMA NoRunFacts ==
  /\ NoRun \in RunRow /\ NoRun.copy = Torn /\ Torn \in QueueCopies
  /\ \A q \in [Entries -> EntryStatuses], e \in Entries : q # Torn /\ q[e] \in EntryStatuses
<1>1. NoRun \in RunRow /\ NoRun.copy = Torn /\ Torn \in QueueCopies
  BY DEF NoRun, RunRow, QueueCopies
<1>2. ASSUME NEW q \in [Entries -> EntryStatuses], NEW e \in Entries
      PROVE  q # Torn /\ q[e] \in EntryStatuses
  BY <1>2 DEF Torn, EntryStatuses
<1> QED BY <1>1, <1>2

\* The row of one run changes.
LEMMA RunChange ==
  ASSUME FInv, NEW w \in WorkerRuns, NEW row \in RunRow, workerRun' = [workerRun EXCEPT ![w] = row]
  PROVE  /\ workerRun' \in [WorkerRuns -> RunRow] /\ workerRun'[w] = row
         /\ \A v \in WorkerRuns \ {w} : workerRun'[v] = workerRun[v] /\ (Loaded(v)' <=> Loaded(v))
         /\ Loaded(w)' <=> row.copy # Torn
BY DEF FInv, FilesOK, Loaded

LEMMA RunFacts ==
  ASSUME FInv, NEW w \in WorkerRuns
  PROVE  /\ workerRun[w] \in RunRow
         /\ workerRun[w].dates \subseteq Dates /\ workerRun[w].todo \subseteq Entries
         /\ workerRun[w].live \in BOOLEAN /\ workerRun[w].copy \in QueueCopies
         /\ Loaded(w) => workerRun[w] # NoRun /\ workerRun[w].copy \in [Entries -> EntryStatuses]
         /\ hindered = {} /\ workerRun[w] # NoRun =>
              \A v \in WorkerRuns \ {w} : workerRun[v] = NoRun /\ ~Loaded(v)
<1>1. /\ workerRun[w] \in RunRow
      /\ workerRun[w].dates \subseteq Dates /\ workerRun[w].todo \subseteq Entries
      /\ workerRun[w].live \in BOOLEAN /\ workerRun[w].copy \in QueueCopies
  BY DEF FInv, FilesOK, RunRow
<1>2. Loaded(w) => workerRun[w] # NoRun /\ workerRun[w].copy \in [Entries -> EntryStatuses]
  BY <1>1, NoRunFacts DEF Loaded, QueueCopies
<1>3. hindered = {} /\ workerRun[w] # NoRun =>
        \A v \in WorkerRuns \ {w} : workerRun[v] = NoRun /\ ~Loaded(v)
  BY NoRunFacts DEF FInv, SentIsReady, Loaded
<1> QED BY <1>1, <1>2, <1>3

LEMMA FileWorkerInitInv == ASSUME FileWorkerAssumption, FileWorkerInit PROVE FInv
<1>1. 0 \in 0..MaxPosts
  BY FileWorkerAssumption DEF FileWorkerAssumption
<1>2. queueFile \in [Entries -> EntryStatuses] /\ \A w \in WorkerRuns : ~Loaded(w)
  BY NoRunFacts DEF FileWorkerInit, EntryStatuses, Loaded
<1>3. FilesOK
  BY <1>1, <1>2, NoRunFacts DEF FileWorkerInit, FilesOK, QueueCopies
<1>4. SentIsReady
  BY <1>2 DEF FileWorkerInit, SentIsReady
<1> QED BY <1>3, <1>4 DEF FInv

LEMMA StartInv ==
  ASSUME FileWorkerAssumption, FInv, NEW w \in WorkerRuns, StartWorker(w)
  PROVE  FInv'
<1>1. PICK dates \in SUBSET Dates, live \in BOOLEAN :
        workerRun' = [workerRun EXCEPT ![w] = [NoRun EXCEPT !.dates = dates, !.live = live]]
  BY DEF StartWorker
<1> DEFINE row == [NoRun EXCEPT !.dates = dates, !.live = live]
<1>2. row \in RunRow /\ row.copy = Torn
  BY NoRunFacts DEF RunRow
<1> HIDE DEF row
<1>3. /\ workerRun' \in [WorkerRuns -> RunRow] /\ ~Loaded(w)'
      /\ \A v \in WorkerRuns \ {w} : workerRun'[v] = workerRun[v] /\ (Loaded(v)' <=> Loaded(v))
  BY <1>1, <1>2, RunChange DEF row
<1>4. /\ workerRun[w] = NoRun /\ ~Loaded(w) /\ queueFile' = queueFile /\ sent' = sent
      /\ hindered' \in {hindered, hindered \union {"overlap"}}
      /\ hindered' = {} => hindered = {} /\ \A v \in WorkerRuns \ {w} : workerRun[v] = NoRun
  BY NoRunFacts DEF StartWorker, Loaded
<1>5. FilesOK'
  BY <1>3, <1>4 DEF FInv, FilesOK
<1>6. SentIsReady'
  BY <1>3, <1>4 DEF FInv, SentIsReady
<1> QED BY <1>5, <1>6 DEF FInv

LEMMA LoadInv ==
  ASSUME FileWorkerAssumption, FInv, NEW w \in WorkerRuns, LoadQueue(w)
  PROVE  FInv'
<1>1. /\ ~Loaded(w) /\ queueFile' = queueFile /\ sent' = sent /\ hindered' = hindered
      /\ workerRun[w] # NoRun /\ workerRun[w] \in RunRow
  <2>1. NoRun.dates = {}
    BY DEF NoRun
  <2> QED BY <2>1, RunFacts DEF LoadQueue
<1>2. CASE queueFile = Torn
  <2>1. workerRun' = [workerRun EXCEPT ![w] = NoRun]
    BY <1>2 DEF LoadQueue
  <2>2. /\ workerRun' \in [WorkerRuns -> RunRow] /\ workerRun'[w] = NoRun /\ ~Loaded(w)'
        /\ \A v \in WorkerRuns \ {w} : workerRun'[v] = workerRun[v] /\ (Loaded(v)' <=> Loaded(v))
    BY <2>1, NoRunFacts, RunChange
  <2>3. FilesOK'
    BY <1>1, <2>2 DEF FInv, FilesOK
  <2>4. SentIsReady'
    BY <1>1, <2>2 DEF FInv, SentIsReady
  <2> QED BY <2>3, <2>4 DEF FInv
<1>3. CASE queueFile # Torn
  <2>1. PICK d \in workerRun[w].dates :
          workerRun' = [workerRun EXCEPT ![w].copy = queueFile, ![w].dates = @ \ {d},
                                         ![w].todo = {e \in Entries : DateOf[e] = d}]
    BY <1>3 DEF LoadQueue
  <2> DEFINE row == [workerRun[w] EXCEPT !.copy = queueFile, !.dates = @ \ {d},
                                         !.todo = {e \in Entries : DateOf[e] = d}]
  <2>2. row \in RunRow /\ row.copy = queueFile
    BY <1>1 DEF RunRow, FInv, FilesOK
  <2>3. workerRun' = [workerRun EXCEPT ![w] = row]
    BY <1>1, <2>1 DEF FInv, FilesOK, RunRow
  <2> HIDE DEF row
  <2>4. /\ workerRun' \in [WorkerRuns -> RunRow] /\ Loaded(w)' /\ workerRun'[w].copy = queueFile
        /\ \A v \in WorkerRuns \ {w} : workerRun'[v] = workerRun[v] /\ (Loaded(v)' <=> Loaded(v))
    BY <1>3, <2>2, <2>3, RunChange
  <2>5. FilesOK'
    BY <1>1, <2>4 DEF FInv, FilesOK
  <2>6. hindered = {} => \A v \in WorkerRuns : ~Loaded(v)
    BY <1>1, RunFacts
  <2>7. hindered = {} => \A v \in WorkerRuns \ {w} : ~Loaded(v)' /\ workerRun'[v] = NoRun
    BY <1>1, <2>4, <2>6, RunFacts
  <2>8. SentIsReady'
    BY <1>1, <2>4, <2>6, <2>7 DEF FInv, SentIsReady
  <2> QED BY <2>5, <2>8 DEF FInv
<1> QED BY <1>2, <1>3

\* An entry that is not ready in the copy has not reached the network yet; it does now,
\* or not, and is recorded.
LEMMA PublishEntryInv ==
  ASSUME FileWorkerAssumption, FInv, NEW w \in WorkerRuns, PublishEntry(w)
  PROVE  FInv'
<1>1. PICK e \in workerRun[w].todo, result \in {"ready", "failed"}, reaches \in BOOLEAN :
        /\ Loaded(w) /\ ToBePublished(w, e) /\ sent[e] < MaxPosts
        /\ workerRun' = [workerRun EXCEPT ![w].copy[e] = result, ![w].todo = @ \ {e}]
        /\ sent' = (IF reaches THEN [sent EXCEPT ![e] = @ + 1] ELSE sent)
        /\ hindered' = (IF reaches /\ result = "failed" THEN hindered \union {"unclear"} ELSE hindered)
        /\ queueFile' = queueFile
  BY DEF PublishEntry
<1>2. /\ workerRun[w] \in RunRow /\ workerRun[w].copy \in [Entries -> EntryStatuses] /\ e \in Entries
      /\ workerRun[w].copy[e] # "ready"
  BY <1>1, RunFacts DEF ToBePublished
<1> DEFINE copy == [workerRun[w].copy EXCEPT ![e] = result]
           row == [workerRun[w] EXCEPT !.copy = copy, !.todo = @ \ {e}]
<1>3. copy \in [Entries -> EntryStatuses] /\ copy[e] = result
      /\ \A f \in Entries \ {e} : copy[f] = workerRun[w].copy[f]
  BY <1>2 DEF EntryStatuses
<1> HIDE DEF copy
<1>4. row \in RunRow /\ row.copy = copy
  BY <1>2, <1>3 DEF RunRow, QueueCopies
<1>5. workerRun' = [workerRun EXCEPT ![w] = row]
  BY <1>1, <1>2 DEF FInv, FilesOK, RunRow, copy
<1> HIDE DEF row
<1>6. /\ workerRun' \in [WorkerRuns -> RunRow] /\ Loaded(w)' /\ workerRun'[w].copy = copy
      /\ \A v \in WorkerRuns \ {w} : workerRun'[v] = workerRun[v] /\ (Loaded(v)' <=> Loaded(v))
  BY <1>2, <1>3, <1>4, <1>5, RunChange, NoRunFacts
<1>7. /\ sent \in [Entries -> 0..MaxPosts] /\ MaxPosts \in Nat
      /\ sent' \in [Entries -> 0..MaxPosts]
      /\ \A f \in Entries \ {e} : sent'[f] = sent[f]
      /\ sent'[e] = IF reaches THEN sent[e] + 1 ELSE sent[e]
  BY <1>1, <1>2, FileWorkerAssumption DEF FInv, FilesOK, FileWorkerAssumption
<1>8. FilesOK'
  BY <1>1, <1>6, <1>7 DEF FInv, FilesOK
<1>9. SentIsReady'
  <2> SUFFICES ASSUME hindered' = {} PROVE SentIsReady'
    BY DEF SentIsReady
  <2>1. hindered = {} /\ (reaches => result = "ready")
    BY <1>1
  <2>2. \A v \in WorkerRuns \ {w} : ~Loaded(v)' /\ workerRun'[v] = NoRun
    BY <1>1, <1>6, <2>1, RunFacts
  <2>3. sent[e] = 0
    BY <1>1, <1>2, <2>1 DEF FInv, SentIsReady
  <2>4. \A f \in Entries : sent'[f] <= 1 /\ (sent'[f] # 0 => copy[f] = "ready")
    BY <1>1, <1>2, <1>3, <1>7, <2>1, <2>3 DEF FInv, SentIsReady
  <2>5. queueFile' \in [Entries -> EntryStatuses]
    BY <1>1, <2>1 DEF FInv, SentIsReady
  <2> QED BY <1>6, <2>2, <2>4, <2>5 DEF SentIsReady
<1> QED BY <1>8, <1>9 DEF FInv

LEMMA SkipInv ==
  ASSUME FileWorkerAssumption, FInv, NEW w \in WorkerRuns, SkipEntry(w)
  PROVE  FInv'
<1>1. PICK e \in workerRun[w].todo :
        /\ Loaded(w) /\ workerRun' = [workerRun EXCEPT ![w].todo = @ \ {e}]
        /\ queueFile' = queueFile /\ sent' = sent /\ hindered' = hindered
  BY DEF SkipEntry
<1> DEFINE row == [workerRun[w] EXCEPT !.todo = @ \ {e}]
<1>2. row \in RunRow /\ row.copy = workerRun[w].copy
  BY RunFacts DEF RunRow
<1>3. workerRun' = [workerRun EXCEPT ![w] = row]
  BY <1>1, RunFacts DEF FInv, FilesOK, RunRow
<1> HIDE DEF row
<1>4. /\ workerRun' \in [WorkerRuns -> RunRow] /\ Loaded(w)' /\ workerRun'[w].copy = workerRun[w].copy
      /\ \A v \in WorkerRuns \ {w} : workerRun'[v] = workerRun[v] /\ (Loaded(v)' <=> Loaded(v))
  BY <1>1, <1>2, <1>3, RunChange DEF Loaded
<1>5. workerRun[w] # NoRun
  BY <1>1, RunFacts
<1>6. FilesOK'
  BY <1>1, <1>4 DEF FInv, FilesOK
<1>7. hindered = {} => \A v \in WorkerRuns \ {w} : ~Loaded(v)' /\ workerRun'[v] = NoRun
  BY <1>4, <1>5, RunFacts
<1>8. SentIsReady'
  BY <1>1, <1>4, <1>7 DEF FInv, SentIsReady
<1> QED BY <1>6, <1>8 DEF FInv

LEMMA SaveFileInv ==
  ASSUME FileWorkerAssumption, FInv, NEW w \in WorkerRuns, SaveQueue(w)
  PROVE  FInv'
<1>1. /\ Loaded(w) /\ queueFile' = workerRun[w].copy /\ sent' = sent /\ hindered' = hindered
      /\ workerRun' = [workerRun EXCEPT ![w] =
           IF workerRun[w].dates = {} THEN NoRun ELSE [workerRun[w] EXCEPT !.copy = Torn]]
  BY DEF SaveQueue
<1>2. /\ workerRun[w] \in RunRow /\ workerRun[w].copy \in [Entries -> EntryStatuses]
      /\ workerRun[w] # NoRun
  BY <1>1, RunFacts
<1> DEFINE row == IF workerRun[w].dates = {} THEN NoRun ELSE [workerRun[w] EXCEPT !.copy = Torn]
<1>3. row \in RunRow /\ row.copy = Torn
  BY <1>2, NoRunFacts DEF RunRow
<1>4. workerRun' = [workerRun EXCEPT ![w] = row]
  BY <1>1
<1> HIDE DEF row
<1>5. /\ workerRun' \in [WorkerRuns -> RunRow] /\ ~Loaded(w)'
      /\ \A v \in WorkerRuns \ {w} : workerRun'[v] = workerRun[v] /\ (Loaded(v)' <=> Loaded(v))
  BY <1>3, <1>4, RunChange
<1>6. FilesOK'
  BY <1>1, <1>2, <1>5 DEF FInv, FilesOK, QueueCopies
<1>7. hindered = {} => \A v \in WorkerRuns \ {w} : ~Loaded(v)' /\ workerRun'[v] = NoRun
  BY <1>2, <1>5, RunFacts
<1>8. SentIsReady'
  BY <1>1, <1>2, <1>5, <1>7 DEF FInv, SentIsReady
<1> QED BY <1>6, <1>8 DEF FInv

\* A run that is cut off is a hindrance.
LEMMA WorkerCutOffInv ==
  ASSUME FileWorkerAssumption, FInv, NEW w \in WorkerRuns, CutOffWorker(w)
  PROVE  FInv'
<1>1. /\ workerRun' = [workerRun EXCEPT ![w] = NoRun] /\ sent' = sent
      /\ hindered' = hindered \union {"cut_off"} /\ queueFile' \in {queueFile, Torn}
  BY DEF CutOffWorker
<1>2. workerRun' \in [WorkerRuns -> RunRow]
  BY <1>1, NoRunFacts, RunChange
<1>3. FilesOK'
  BY <1>1, <1>2, NoRunFacts DEF FInv, FilesOK
<1> QED BY <1>1, <1>3 DEF FInv, SentIsReady

\* Runs that load, publish, save or are cut off keep what the queue file says of the posts.
THEOREM FileWorkerInvariance == FileWorkerSpec => []FInv
<1>1. ASSUME FInv, UNCHANGED fileWorkerVars PROVE FInv'
  BY <1>1 DEF fileWorkerVars, FInv, FilesOK, SentIsReady, Loaded
<1>2. FInv /\ [FileWorkerNext]_fileWorkerVars => FInv'
  BY <1>1, FileWorkerAssumption, StartInv, LoadInv, PublishEntryInv, SkipInv, SaveFileInv, WorkerCutOffInv
     DEF FileWorkerNext
<1> QED BY <1>2, FileWorkerInitInv, FileWorkerAssumption, PTL DEF FileWorkerSpec

\* What the queue file, the history file and a run's copy of the queue may hold.
THEOREM FilesTypeCorrect == FileWorkerSpec => []FileWorkerTypeOK
<1>1. FInv => FileWorkerTypeOK
  BY DEF FInv, FilesOK, RunRow, QueueCopies, FileWorkerTypeOK
<1> QED BY <1>1, FileWorkerInvariance, PTL

\* worker.mjs: an entry reaches its network twice only after runs have overlapped, one was
\* cut off or the answer of a network was lost.
THEOREM NoRepeatUnhindered == FileWorkerSpec => []RepeatsNeedHindrance
<1>1. FInv => RepeatsNeedHindrance
  BY FileWorkerAssumption DEF FInv, FilesOK, SentIsReady, RepeatsNeedHindrance, FileWorkerAssumption
<1> QED BY <1>1, FileWorkerInvariance, PTL

-----------------------------------------------------------------------------
(* The goal runner *)

(* What is left to do of a command, in the order of its steps *)
TActivate == <<"checkLock", "createLock", "writeState", "reindex">>
TCreate   == <<"createLock", "writeState", "reindex">>
TResume   == <<"checkLock", "writeState", "createLock", "reindex">>
TResumed  == <<"writeState", "createLock", "reindex">>
TRelock   == <<"createLock", "reindex">>
TState    == <<"writeState", "reindex">>
TEnd      == <<"writeState", "removeLock", "reindex">>
TUnlock   == <<"removeLock", "reindex">>
TComplete == <<"verify", "writeState", "removeLock", "reindex">>
TProved   == <<"writeValidation", "writeState", "removeLock", "reindex">>
TReport   == <<"writeValidation">>
TGates    == <<"setGates", "writeState", "reindex">>
TValidate == <<"runGates", "writeValidation">>
TIndex    == <<"reindex">>

Plans == {TActivate, TCreate, TResume, TResumed, TRelock, TState, TEnd, TUnlock, TComplete,
          TProved, TReport, TGates, TValidate, TIndex}

GoalRow == [status : GoalStatuses \union {"absent", "broken"},
            branch : Branches \union {NoBranch}, gates : BOOLEAN]
ValidRow == [evidence : BOOLEAN, gates : {"none", "passed", "failed"}]
CommandRow == [goal : Goals \union {NoGoal}, seen : GoalRow, checked : ValidRow, todo : Plans]

RunnerFilesOK ==
  /\ goal \in [Goals -> GoalRow]
  /\ \A g \in Goals : Readable(g) => goal[g].branch \in Branches
  /\ validation \in [Goals -> ValidRow]
  /\ index \in [Goals -> GoalStatuses \union {"absent"}]
  /\ lock = NoLock \/ lock \in [goal : Goals, branch : Branches]
  /\ branch \in Branches
  /\ disturbed \subseteq {"overlap", "cut_off", "checkout"}

\* A command that does more than reindex has a goal, and what it would write is readable.
CommandOK(q) ==
  /\ q \in CommandRow
  /\ q.todo # TIndex => q.goal \in Goals /\ q.seen.status \in GoalStatuses /\ q.seen.branch \in Branches

CommandsOK ==
  /\ command \in [Commands -> {NoCommand} \union CommandRow]
  /\ \A p \in Commands : command[p] = NoCommand \/ CommandOK(command[p])

Earned(g) == validation[g].evidence /\ (goal[g].gates => validation[g].gates = "passed")

\* What a command that runs alone may rely on when it writes the state.
Promise(q) ==
  LET g == q.goal IN
  /\ q.todo \in {TActivate, TResume} => q.seen = goal[g]
  /\ q.todo \in {TCreate, TResumed} => q.seen.status = "ACTIVE"
  /\ q.todo = TState => q.seen.status # "COMPLETED"
  /\ q.todo \in {TCreate, TResumed, TState, TEnd, TComplete, TProved} => goal[g].status \notin Terminal
  /\ q.todo \in {TEnd, TComplete, TProved} /\ q.seen.status = "COMPLETED" => q.seen.gates = goal[g].gates
  /\ q.todo = TEnd /\ q.seen.status = "COMPLETED" => Earned(g)
  /\ q.todo = TProved => q.checked.evidence /\ q.checked.gates = "passed"

AloneInv ==
  "overlap" \notin disturbed =>
    /\ \A p, r \in Commands : command[p] # NoCommand /\ command[r] # NoCommand => p = r
    /\ \A p \in Commands : command[p] # NoCommand => Promise(command[p])

\* The lock is that of the active goal, on the branch checked out.
Tidy ==
  \/ lock = NoLock /\ ActiveGoals = {}
  \/ /\ lock # NoLock /\ ActiveGoals = {lock.goal}
     /\ lock.branch = branch /\ goal[lock.goal].branch = branch
Right == index = Indexed

\* The files while a command is between two of its writes.
Settled(q) ==
  LET g == q.goal IN
  /\ q.todo \notin {TRelock, TUnlock, TIndex} => Right
  /\ q.todo \in {TActivate, TResume, TGates, TEnd, TComplete, TProved, TReport, TValidate, TIndex} => Tidy
  /\ q.todo \in {TActivate, TResume, TCreate, TResumed, TRelock} => q.seen.branch = branch
  /\ q.todo \in {TCreate, TResumed} => lock = NoLock /\ ActiveGoals = {}
  /\ q.todo = TRelock => lock = NoLock /\ ActiveGoals = {g} /\ goal[g].branch = branch
  /\ q.todo = TState =>
       \/ Tidy /\ q.seen.status # "ACTIVE" /\ goal[g].status # "ACTIVE"
       \/ /\ lock = [goal |-> g, branch |-> branch] /\ ActiveGoals = {}
          /\ q.seen.status = "ACTIVE" /\ q.seen.branch = branch
  /\ q.todo \in {TEnd, TComplete, TProved} => q.seen.status # "ACTIVE"
  /\ q.todo = TUnlock => IF lock.goal = g THEN ActiveGoals = {} ELSE Tidy

CalmInv ==
  disturbed = {} =>
    /\ Unreadable = {}
    /\ (\A p \in Commands : command[p] = NoCommand) => Tidy /\ Right
    /\ \A p \in Commands : command[p] # NoCommand => Settled(command[p])

GInv == RunnerFilesOK /\ CommandsOK /\ AloneInv /\ CalmInv

-----------------------------------------------------------------------------
(* The plans *)

\* The first step of every plan, and the plans that begin alike.
LEMMA PlanHeads ==
  /\ Head(TActivate) = "checkLock" /\ Head(TResume) = "checkLock" /\ TActivate # TResume
  /\ Head(TCreate) = "createLock" /\ Head(TRelock) = "createLock" /\ TCreate # TRelock
  /\ Head(TResumed) = "writeState" /\ Head(TState) = "writeState" /\ Head(TEnd) = "writeState"
  /\ TResumed # TState /\ TResumed # TEnd /\ TState # TEnd
  /\ Head(TUnlock) = "removeLock" /\ Head(TComplete) = "verify"
  /\ Head(TProved) = "writeValidation" /\ Head(TReport) = "writeValidation" /\ TProved # TReport
  /\ Head(TGates) = "setGates" /\ Head(TValidate) = "runGates" /\ Head(TIndex) = "reindex"
BY DEF TActivate, TCreate, TResume, TResumed, TRelock, TState, TEnd, TUnlock, TComplete,
       TProved, TReport, TGates, TValidate, TIndex

LEMMA PlanTails ==
  /\ Tail(TActivate) = TCreate /\ Tail(TCreate) = TState /\ Tail(TState) = TIndex
  /\ Tail(TResume) = TResumed /\ Tail(TResumed) = TRelock /\ Tail(TRelock) = TIndex
  /\ Tail(TComplete) = TEnd /\ Tail(TProved) = TEnd /\ Tail(TEnd) = TUnlock /\ Tail(TUnlock) = TIndex
  /\ Tail(TGates) = TState /\ Tail(TValidate) = TReport
  /\ Tail(TReport) = <<>> /\ Tail(TIndex) = <<>>
BY DEF TActivate, TCreate, TResume, TResumed, TRelock, TState, TEnd, TUnlock, TComplete,
       TProved, TReport, TGates, TValidate, TIndex

LEMMA PlanTypes ==
  /\ Plans \subseteq Seq(Steps)
  /\ \A t \in Plans : t # <<>>
<1>1. /\ {TActivate, TCreate, TResume, TResumed} \subseteq Seq(Steps)
      /\ {TRelock, TState, TEnd, TUnlock} \subseteq Seq(Steps)
      /\ {TComplete, TProved, TReport} \subseteq Seq(Steps)
      /\ {TGates, TValidate, TIndex} \subseteq Seq(Steps)
  BY DEF Steps, TActivate, TCreate, TResume, TResumed, TRelock, TState, TEnd, TUnlock,
         TComplete, TProved, TReport, TGates, TValidate, TIndex
<1>2. /\ \A t \in {TActivate, TCreate, TResume, TResumed} : t # <<>>
      /\ \A t \in {TRelock, TState, TEnd, TUnlock} : t # <<>>
      /\ \A t \in {TComplete, TProved, TReport} : t # <<>>
      /\ \A t \in {TGates, TValidate, TIndex} : t # <<>>
  BY DEF TActivate, TCreate, TResume, TResumed, TRelock, TState, TEnd, TUnlock,
         TComplete, TProved, TReport, TGates, TValidate, TIndex
<1> QED BY <1>1, <1>2 DEF Plans

LEMMA Prepend ==
  ASSUME NEW S, NEW a \in S, NEW b \in S, NEW c \in S, NEW d \in S
  PROVE  <<a>> \o <<b, c, d>> = <<a, b, c, d>>
<1>1. PICK s, t, u : s = <<a>> /\ t = <<b, c, d>> /\ u = <<a, b, c, d>>
  OBVIOUS
<1>2. /\ s \in Seq(S) /\ t \in Seq(S) /\ u \in Seq(S) /\ Len(s) = 1 /\ Len(t) = 3 /\ Len(u) = 4
      /\ s[1] = a /\ t[1] = b /\ t[2] = c /\ t[3] = d /\ u[1] = a /\ u[2] = b /\ u[3] = c /\ u[4] = d
  BY <1>1
<1>3. PICK v : v = s \o t
  OBVIOUS
<1>4. /\ v \in Seq(S) /\ Len(v) = Len(s) + Len(t)
      /\ \A i \in 1 .. Len(s) + Len(t) : v[i] = IF i <= Len(s) THEN s[i] ELSE t[i - Len(s)]
  BY <1>2, <1>3, ConcatProperties, Zenon
<1>5. /\ Len(v) = 4 /\ v[1] = a /\ v[2] = b /\ v[3] = c /\ v[4] = d
  BY <1>2, <1>4
<1>6. v = u
  <2>1. \A i \in 1..Len(v) : v[i] = u[i]
    BY <1>2, <1>5
  <2> QED BY <1>2, <1>4, <1>5, <2>1, SeqEqual
<1> QED BY <1>1, <1>3, <1>6

LEMMA ProvedPlan == <<"writeValidation">> \o TEnd = TProved
<1>1. {"writeValidation", "writeState", "removeLock", "reindex"} \subseteq Steps
  BY DEF Steps
<1> QED BY <1>1, Prepend DEF TEnd, TProved

\* Which plan a command is at by its next step
LEMMA PlanSteps ==
  ASSUME NEW t \in Plans
  PROVE  /\ Head(t) = "checkLock" => t \in {TActivate, TResume}
         /\ Head(t) = "createLock" => t \in {TCreate, TRelock}
         /\ Head(t) = "writeState" => t \in {TResumed, TState, TEnd}
         /\ Head(t) = "removeLock" => t = TUnlock
         /\ Head(t) = "verify" => t = TComplete
         /\ Head(t) = "writeValidation" => t \in {TProved, TReport}
         /\ Head(t) = "setGates" => t = TGates
         /\ Head(t) = "runGates" => t = TValidate
         /\ Head(t) = "reindex" => t = TIndex
BY PlanHeads DEF Plans

-----------------------------------------------------------------------------
LEMMA CommandFacts ==
  ASSUME GInv, NEW p \in Commands, command[p] # NoCommand
  PROVE  /\ CommandOK(command[p]) /\ command[p] \in CommandRow
         /\ command[p].todo \in Plans /\ command[p].todo # <<>> /\ NoCommand \notin CommandRow
         /\ "overlap" \notin disturbed =>
              Promise(command[p]) /\ \A r \in Commands \ {p} : command[r] = NoCommand
         /\ disturbed = {} => Settled(command[p]) /\ Unreadable = {}
<1>1. CommandOK(command[p]) /\ command[p] \in CommandRow /\ command[p].todo \in Plans
  BY DEF GInv, CommandsOK, CommandOK, CommandRow
<1>2. command[p].todo # <<>> /\ NoCommand \notin CommandRow
  <2>1. NoCommand.todo = <<>>
    BY DEF NoCommand
  <2> QED BY <1>1, <2>1, PlanTypes DEF CommandRow
<1>3. "overlap" \notin disturbed =>
        Promise(command[p]) /\ \A r \in Commands \ {p} : command[r] = NoCommand
  BY DEF GInv, AloneInv
<1>4. disturbed = {} => Settled(command[p]) /\ Unreadable = {}
  BY DEF GInv, CalmInv
<1> QED BY <1>1, <1>2, <1>3, <1>4

\* One command goes on, or ends: its own promises are all that has to be shown.
OneMoves(p, row) ==
  /\ command[p] # NoCommand
  /\ command' = [command EXCEPT ![p] = row]
  /\ disturbed' = disturbed

LEMMA OneMovesInv ==
  ASSUME GInv, NEW p \in Commands, NEW row, OneMoves(p, row), RunnerFilesOK',
         row = NoCommand \/ CommandOK(row),
         "overlap" \notin disturbed /\ row # NoCommand => Promise(row)',
         disturbed = {} => (Unreadable = {})',
         disturbed = {} /\ row # NoCommand => Settled(row)',
         disturbed = {} /\ row = NoCommand => Tidy' /\ Right'
  PROVE  GInv'
<1>1. /\ command \in [Commands -> {NoCommand} \union CommandRow] /\ command[p] # NoCommand
      /\ command' \in [Commands -> {NoCommand} \union CommandRow]
      /\ command'[p] = row /\ \A r \in Commands \ {p} : command'[r] = command[r]
      /\ disturbed' = disturbed
  BY DEF OneMoves, GInv, CommandsOK, CommandOK
<1>2. CommandsOK'
  <2>1. \A r \in Commands : command'[r] = NoCommand \/ CommandOK(command'[r])
    BY <1>1 DEF GInv, CommandsOK
  <2> QED BY <1>1, <2>1 DEF CommandsOK, CommandOK
<1>3. "overlap" \notin disturbed => \A r \in Commands \ {p} : command'[r] = NoCommand
  BY <1>1, CommandFacts
<1>4. AloneInv'
  BY <1>1, <1>3 DEF AloneInv
<1>5. CalmInv'
  BY <1>1, <1>3 DEF CalmInv
<1> QED BY <1>2, <1>4, <1>5 DEF GInv

\* A command begins: it finds calm files, or other commands at work.
Begins(p, q) ==
  /\ command[p] = NoCommand
  /\ command' = [command EXCEPT ![p] = q]
  /\ disturbed' = IF Overlaps(p) THEN disturbed \union {"overlap"} ELSE disturbed
  /\ goal' = goal /\ validation' = validation /\ lock' = lock /\ index' = index /\ branch' = branch

LEMMA BeginsInv ==
  ASSUME GInv, NEW p \in Commands, NEW q, Begins(p, q), CommandOK(q), Promise(q),
         Tidy /\ Right => Settled(q)
  PROVE  GInv'
<1>1. /\ command' \in [Commands -> {NoCommand} \union CommandRow]
      /\ command'[p] = q /\ \A r \in Commands \ {p} : command'[r] = command[r]
      /\ goal' = goal /\ validation' = validation /\ lock' = lock /\ index' = index /\ branch' = branch
  BY DEF Begins, GInv, CommandsOK, CommandOK
<1>2. /\ disturbed' \in {disturbed, disturbed \union {"overlap"}}
      /\ "overlap" \notin disturbed' =>
           disturbed' = disturbed /\ \A r \in Commands \ {p} : command[r] = NoCommand
  BY DEF Begins, Overlaps
<1>3. RunnerFilesOK'
  BY <1>1, <1>2 DEF GInv, RunnerFilesOK, Readable
<1>4. CommandsOK'
  <2>1. \A r \in Commands : command'[r] = NoCommand \/ CommandOK(command'[r])
    BY <1>1 DEF GInv, CommandsOK
  <2> QED BY <1>1, <2>1 DEF CommandsOK, CommandOK
<1>5. Promise(q)' /\ (Settled(q)' <=> Settled(q)) /\ (Tidy' <=> Tidy) /\ (Right' <=> Right)
      /\ Unreadable' = Unreadable
  BY <1>1 DEF Promise, Earned, Settled, Tidy, Right, Indexed, Readable, ActiveGoals, Unreadable
<1>6. AloneInv'
  BY <1>1, <1>2, <1>5 DEF AloneInv
<1>7. CalmInv'
  <2> SUFFICES ASSUME disturbed' = {} PROVE CalmInv'
    BY DEF CalmInv
  <2>1. disturbed = {} /\ \A r \in Commands : command[r] = NoCommand
    BY <1>2 DEF Begins
  <2>2. Tidy /\ Right /\ Unreadable = {}
    BY <2>1 DEF GInv, CalmInv
  <2>3. \A r \in Commands \ {p} : command'[r] = NoCommand
    BY <1>1, <2>1
  <2>4. q # NoCommand
    BY PlanTypes DEF CommandOK, CommandRow, NoCommand
  <2> QED BY <1>1, <1>5, <2>2, <2>3, <2>4 DEF CalmInv
<1> QED BY <1>3, <1>4, <1>6, <1>7 DEF GInv

LEMMA BeginRow ==
  ASSUME GInv, NEW p \in Commands, NEW g \in Goals \union {NoGoal}, NEW new \in GoalRow,
         NEW t \in Plans, Begin(p, g, new, t),
         t # TIndex => g \in Goals /\ new.status \in GoalStatuses /\ new.branch \in Branches
  PROVE  \E q : /\ Begins(p, q) /\ CommandOK(q)
                /\ q.goal = g /\ q.seen = new /\ q.todo = t
<1> DEFINE q == [goal |-> g, seen |-> new, checked |-> NoValidation, todo |-> t]
<1>1. q.goal = g /\ q.seen = new /\ q.todo = t /\ q \in CommandRow
  BY DEF CommandRow, NoValidation, ValidRow
<1>2. CommandOK(q)
  BY <1>1 DEF CommandOK
<1>3. Begins(p, q)
  BY DEF Begin, Begins
<1> QED BY <1>1, <1>2, <1>3

LEMMA PlansListed ==
  /\ TActivate \in Plans /\ TCreate \in Plans /\ TResume \in Plans /\ TResumed \in Plans
  /\ TRelock \in Plans /\ TState \in Plans /\ TEnd \in Plans /\ TUnlock \in Plans
  /\ TComplete \in Plans /\ TProved \in Plans /\ TReport \in Plans /\ TGates \in Plans
  /\ TValidate \in Plans /\ TIndex \in Plans
BY DEF Plans

LEMMA GoalFacts ==
  ASSUME GInv, NEW g \in Goals
  PROVE  /\ goal[g] \in GoalRow /\ validation[g] \in ValidRow
         /\ Readable(g) => goal[g].branch \in Branches
         /\ \A to \in GoalStatuses :
              /\ Moved(g, to) \in GoalRow /\ Moved(g, to).status = to
              /\ Moved(g, to).branch = goal[g].branch /\ Moved(g, to).gates = goal[g].gates
         /\ \A gates \in BOOLEAN :
              /\ [goal[g] EXCEPT !.gates = gates] \in GoalRow
              /\ [goal[g] EXCEPT !.gates = gates].status = goal[g].status
              /\ [goal[g] EXCEPT !.gates = gates].branch = goal[g].branch
BY DEF GInv, RunnerFilesOK, GoalRow, Moved

LEMMA CommandBeginsInv ==
  ASSUME GInv, NEW p \in Commands, CommandBegins(p)
  PROVE  GInv'
<1> USE PlansListed
<1>1. ASSUME Reindex(p) PROVE GInv'
  <2>1. Missing("absent") \in GoalRow
    BY DEF Missing, GoalRow
  <2>2. PICK q : Begins(p, q) /\ CommandOK(q) /\ q.todo = TIndex
    <3>1. Begin(p, NoGoal, Missing("absent"), TIndex)
      BY <1>1 DEF Reindex, TIndex
    <3> QED BY <2>1, <3>1, BeginRow
  <2>3. Promise(q) /\ (Tidy /\ Right => Settled(q))
    BY <2>2, PlanHeads DEF Promise, Settled
  <2> QED BY <2>2, <2>3, BeginsInv
<1>2. ASSUME NEW g \in Goals, Create(p, g) PROVE GInv'
  <2>1. PICK gates \in BOOLEAN, b \in Branches :
          Begin(p, g, [status |-> "DRAFT", branch |-> b, gates |-> gates], TState)
    BY <1>2 DEF Create, TState
  <2>2. /\ [status |-> "DRAFT", branch |-> b, gates |-> gates] \in GoalRow
        /\ goal[g].status = "absent"
    BY <1>2 DEF Create, GoalRow, GoalStatuses
  <2>3. PICK q : Begins(p, q) /\ CommandOK(q) /\ q.goal = g /\ q.todo = TState /\ q.seen.status = "DRAFT"
    BY <2>1, <2>2, BeginRow DEF GoalStatuses
  <2>4. Promise(q) /\ (Tidy /\ Right => Settled(q))
    BY <2>2, <2>3, PlanHeads DEF Promise, Settled, Terminal
  <2> QED BY <2>3, <2>4, BeginsInv
<1>3. ASSUME NEW g \in Goals, PlanRecord(p, g) PROVE GInv'
  <2>1. Readable(g) /\ goal[g].status = "DRAFT" /\ Begin(p, g, Moved(g, "READY"), TState)
    BY <1>3 DEF PlanRecord, TState, Allowed, Resumable, Terminal
  <2>2. PICK q : Begins(p, q) /\ CommandOK(q) /\ q.goal = g /\ q.todo = TState /\ q.seen.status = "READY"
    BY <2>1, GoalFacts, BeginRow DEF GoalStatuses
  <2>3. Promise(q) /\ (Tidy /\ Right => Settled(q))
    BY <2>1, <2>2, PlanHeads DEF Promise, Settled, Terminal
  <2> QED BY <2>2, <2>3, BeginsInv
<1>4. ASSUME NEW g \in Goals, Activate(p, g) \/ Resume(p, g) PROVE GInv'
  <2>1. PICK t \in {TActivate, TResume} :
          Readable(g) /\ goal[g].branch = branch /\ Begin(p, g, goal[g], t)
    BY <1>4 DEF Activate, Resume, TActivate, TResume, Readable, Resumable, GoalStatuses
  <2>2. t \in Plans /\ goal[g] \in GoalRow /\ goal[g].status \in GoalStatuses /\ goal[g].branch \in Branches
    BY <2>1, GoalFacts DEF Readable
  <2>3. PICK q : Begins(p, q) /\ CommandOK(q) /\ q.goal = g /\ q.todo = t /\ q.seen = goal[g]
    BY <2>1, <2>2, BeginRow
  <2>4. Promise(q) /\ (Tidy /\ Right => Settled(q))
    BY <2>1, <2>3, PlanHeads DEF Promise, Settled
  <2> QED BY <2>3, <2>4, BeginsInv
<1>5. ASSUME NEW g \in Goals, Pause(p, g) \/ Block(p, g) \/ Abort(p, g) PROVE GInv'
  <2>1. PICK to \in {"PAUSED", "BLOCKED_EXTERNAL", "ABORTED_CRITICAL_DEVIATION"} :
          Readable(g) /\ goal[g].status \notin Terminal /\ Begin(p, g, Moved(g, to), TEnd)
    BY <1>5 DEF Pause, Block, Abort, Allowed, Readable, GoalStatuses, Terminal, Resumable, TEnd
  <2>2. PICK q : Begins(p, q) /\ CommandOK(q) /\ q.goal = g /\ q.todo = TEnd /\ q.seen.status = to
    BY <2>1, GoalFacts, BeginRow DEF GoalStatuses
  <2>3. Promise(q) /\ (Tidy /\ Right => Settled(q))
    BY <2>1, <2>2, PlanHeads DEF Promise, Settled
  <2> QED BY <2>2, <2>3, BeginsInv
<1>6. ASSUME NEW g \in Goals, Complete(p, g) PROVE GInv'
  <2>1. goal[g].status = "ACTIVE" /\ Begin(p, g, Moved(g, "COMPLETED"), TComplete)
    BY <1>6 DEF Complete, TComplete
  <2>2. PICK q : /\ Begins(p, q) /\ CommandOK(q) /\ q.goal = g /\ q.todo = TComplete
                 /\ q.seen.status = "COMPLETED" /\ q.seen.gates = goal[g].gates
    BY <2>1, GoalFacts, BeginRow DEF GoalStatuses, Readable
  <2>3. Promise(q) /\ (Tidy /\ Right => Settled(q))
    BY <2>1, <2>2, PlanHeads DEF Promise, Settled, Terminal
  <2> QED BY <2>2, <2>3, BeginsInv
<1>7. ASSUME NEW g \in Goals, GatesSet(p, g) PROVE GInv'
  <2>1. CASE Readable(g) /\ Begin(p, g, goal[g], TGates)
    <3>1. PICK q : Begins(p, q) /\ CommandOK(q) /\ q.goal = g /\ q.todo = TGates
      BY <2>1, GoalFacts, BeginRow DEF Readable
    <3>2. Promise(q) /\ (Tidy /\ Right => Settled(q))
      BY <3>1, PlanHeads DEF Promise, Settled
    <3> QED BY <3>1, <3>2, BeginsInv
  <2>2. CASE goal[g].status \in GateConfigurable /\ Begin(p, g, [goal[g] EXCEPT !.gates = FALSE], TState)
    <3>1. goal[g].status \in GoalStatuses \ (Terminal \union {"ACTIVE"})
      BY <2>2 DEF GateConfigurable, GoalStatuses, Terminal
    <3>2. PICK q : /\ Begins(p, q) /\ CommandOK(q) /\ q.goal = g /\ q.todo = TState
                   /\ q.seen.status = goal[g].status
      <4>1. PICK new \in GoalRow : /\ new = [goal[g] EXCEPT !.gates = FALSE]
                                   /\ new.status = goal[g].status /\ new.branch = goal[g].branch
        BY GoalFacts
      <4>2. new.status \in GoalStatuses /\ new.branch \in Branches /\ Begin(p, g, new, TState)
        BY <2>2, <3>1, <4>1, GoalFacts DEF Readable
      <4>3. PICK q : Begins(p, q) /\ CommandOK(q) /\ q.goal = g /\ q.todo = TState /\ q.seen = new
        BY <4>2, BeginRow
      <4> QED BY <4>1, <4>3
    <3>3. Promise(q) /\ (Tidy /\ Right => Settled(q))
      BY <3>1, <3>2, PlanHeads DEF Promise, Settled, Terminal
    <3> QED BY <3>2, <3>3, BeginsInv
  <2> QED BY <1>7, <2>1, <2>2 DEF GatesSet, TGates, TState
<1>8. ASSUME NEW g \in Goals, Validate(p, g) PROVE GInv'
  <2>1. Readable(g) /\ Begin(p, g, goal[g], TValidate)
    BY <1>8 DEF Validate, TValidate
  <2>2. PICK q : Begins(p, q) /\ CommandOK(q) /\ q.goal = g /\ q.todo = TValidate
    BY <2>1, GoalFacts, BeginRow DEF Readable
  <2>3. Promise(q) /\ (Tidy /\ Right => Settled(q))
    BY <2>2, PlanHeads DEF Promise, Settled
  <2> QED BY <2>2, <2>3, BeginsInv
<1>9. ASSUME NEW g \in Goals, EvidenceAdd(p, g) PROVE GInv'
  <2>1. PICK required \in BOOLEAN :
          command' = [command EXCEPT ![p] =
            [goal |-> g, seen |-> goal[g], todo |-> TReport,
             checked |-> [validation[g] EXCEPT !.evidence = @ \/ required]]]
    BY <1>9 DEF EvidenceAdd, TReport
  <2>2. [validation[g] EXCEPT !.evidence = @ \/ required] \in ValidRow
    BY GoalFacts DEF ValidRow
  <2>3. PICK checked \in ValidRow : checked = [validation[g] EXCEPT !.evidence = @ \/ required]
    BY <2>2
  <2> DEFINE q == [goal |-> g, seen |-> goal[g], todo |-> TReport, checked |-> checked]
  <2>4. q.goal = g /\ q.seen = goal[g] /\ q.todo = TReport /\ q \in CommandRow
    BY GoalFacts DEF CommandRow
  <2>5. CommandOK(q)
    BY <1>9, <2>4, GoalFacts DEF CommandOK, EvidenceAdd, Readable
  <2>6. Begins(p, q)
    BY <1>9, <2>1, <2>3 DEF EvidenceAdd, Begins
  <2>7. Promise(q) /\ (Tidy /\ Right => Settled(q))
    BY <2>4, PlanHeads DEF Promise, Settled
  <2> HIDE DEF q
  <2> QED BY <2>5, <2>6, <2>7, BeginsInv
<1> QED BY <1>1, <1>2, <1>3, <1>4, <1>5, <1>6, <1>7, <1>8, <1>9 DEF CommandBegins

-----------------------------------------------------------------------------
(* The steps of a running command *)

LEMMA StepFacts ==
  ASSUME GInv, NEW p \in Commands, NEW step, Doing(p, step)
  PROVE  \E q : /\ q = command[p] /\ q # NoCommand /\ CommandOK(q) /\ q \in CommandRow
                /\ q.todo \in Plans /\ Head(q.todo) = step
                /\ "overlap" \notin disturbed => Promise(q)
                /\ disturbed = {} => Settled(q) /\ Unreadable = {}
                /\ command \in [Commands -> {NoCommand} \union CommandRow]
BY CommandFacts DEF Doing, GInv, CommandsOK

\* The row of a command that goes on to plan t, with what it holds in memory
Advanced(q, new, checked, t) == [q EXCEPT !.seen = new, !.checked = checked, !.todo = t]

LEMMA NextRow ==
  ASSUME NEW q \in CommandRow, NEW t \in Plans, NEW new \in GoalRow, NEW checked \in ValidRow,
         t # TIndex => q.goal \in Goals /\ new.status \in GoalStatuses /\ new.branch \in Branches
  PROVE  LET row == Advanced(q, new, checked, t) IN
         /\ CommandOK(row) /\ row.goal = q.goal /\ row.seen = new /\ row.checked = checked
         /\ row.todo = t /\ row # NoCommand
<1> DEFINE row == Advanced(q, new, checked, t)
<1>1. row \in CommandRow /\ row.goal = q.goal /\ row.seen = new /\ row.checked = checked /\ row.todo = t
  BY DEF Advanced, CommandRow
<1> HIDE DEF row
<1>2. row # NoCommand
  <2>1. NoCommand.todo = <<>>
    BY DEF NoCommand
  <2> QED BY <1>1, <2>1, PlanTypes
<1>3. CommandOK(row)
  BY <1>1 DEF CommandOK
<1> QED BY <1>1, <1>2, <1>3 DEF row

LEMMA FilesKept ==
  ASSUME GInv, goal' = goal, validation' = validation, index' = index, branch' = branch,
         disturbed' = disturbed,
         lock' = lock \/ lock' = NoLock \/ lock' \in [goal : Goals, branch : Branches]
  PROVE  RunnerFilesOK' /\ (Unreadable' = Unreadable) /\ (Right' <=> Right) /\ ActiveGoals' = ActiveGoals
BY DEF GInv, RunnerFilesOK, Readable, Unreadable, Right, Indexed, ActiveGoals

\* A step that leaves the files alone and goes on to plan t.
LEMMA KeepInv ==
  ASSUME GInv, NEW p \in Commands, NEW row, OneMoves(p, row), row = NoCommand \/ CommandOK(row),
         goal' = goal, validation' = validation, lock' = lock, index' = index, branch' = branch,
         "overlap" \notin disturbed /\ row # NoCommand => Promise(row),
         disturbed = {} /\ row # NoCommand => Settled(row),
         disturbed = {} /\ row = NoCommand => Tidy /\ Right
  PROVE  GInv'
<1>1. disturbed' = disturbed
  BY DEF OneMoves
<1>2. RunnerFilesOK' /\ Unreadable' = Unreadable /\ (Right' <=> Right) /\ ActiveGoals' = ActiveGoals
  BY <1>1, FilesKept
<1>3. (Tidy' <=> Tidy) /\ (Promise(row)' <=> Promise(row)) /\ (Settled(row)' <=> Settled(row))
  BY <1>2 DEF Tidy, Promise, Earned, Settled
<1>4. disturbed = {} => Unreadable = {}
  BY CommandFacts DEF OneMoves
<1> QED BY <1>2, <1>3, <1>4, OneMovesInv

\* With calm files, a lock is never stale.
LEMMA TidyLock ==
  ASSUME GInv, Tidy
  PROVE  ~Locked <=> lock = NoLock
BY DEF Tidy, Locked, Stale, ActiveGoals

LEMMA CheckLockInv ==
  ASSUME GInv, NEW p \in Commands, CheckLock(p)
  PROVE  GInv'
<1> USE PlansListed, PlanHeads
<1>1. PICK q : /\ q = command[p] /\ q # NoCommand /\ CommandOK(q) /\ q \in CommandRow
               /\ q.todo \in Plans /\ Head(q.todo) = "checkLock"
               /\ "overlap" \notin disturbed => Promise(q)
               /\ disturbed = {} => Settled(q) /\ Unreadable = {}
               /\ command \in [Commands -> {NoCommand} \union CommandRow]
  BY StepFacts DEF CheckLock
<1>2. q.todo \in {TActivate, TResume} /\ q.todo # TIndex
  BY <1>1, PlanSteps
<1>3. /\ goal' = goal /\ validation' = validation /\ index' = index /\ branch' = branch
      /\ disturbed' = disturbed
  BY DEF CheckLock
<1>4. disturbed = {} => Tidy /\ Right
  BY <1>1, <1>2 DEF Settled
<1>5. CASE Locked
  <2>1. lock' = lock /\ OneMoves(p, NoCommand)
    BY <1>1, <1>3, <1>5 DEF CheckLock, Fail, OneMoves
  <2> QED BY <1>3, <1>4, <2>1, KeepInv
<1>6. CASE ~Locked
  <2>1. lock' = NoLock
    BY <1>6 DEF CheckLock
  <2>2. RunnerFilesOK' /\ Unreadable' = Unreadable /\ (Right' <=> Right) /\ ActiveGoals' = ActiveGoals
    BY <1>3, <2>1, FilesKept
  <2>3. disturbed = {} => lock = NoLock /\ ActiveGoals = {}
    BY <1>4, <1>6, TidyLock DEF Tidy
  <2>4. CASE ~Allowed(q.seen.status, "ACTIVE")
    <3>1. OneMoves(p, NoCommand)
      BY <1>1, <1>3, <1>6, <2>4 DEF CheckLock, Fail, OneMoves
    <3>2. disturbed = {} => Tidy' /\ Right'
      BY <1>4, <2>1, <2>2, <2>3 DEF Tidy
    <3> QED BY <1>1, <2>2, <3>1, <3>2, OneMovesInv
  <2>5. CASE Allowed(q.seen.status, "ACTIVE")
    <3>1. /\ command' = [command EXCEPT ![p].todo = Rest(p), ![p].seen.status = "ACTIVE"]
          /\ Rest(p) = Tail(q.todo)
      BY <1>1, <1>6, <2>5 DEF CheckLock, Rest
    <3>2. PICK t \in Plans : t = Tail(q.todo) /\ t \in {TCreate, TResumed}
      BY <1>2, PlanTails
    <3> DEFINE active == [q.seen EXCEPT !.status = "ACTIVE"]
    <3>3. active \in GoalRow /\ active.status = "ACTIVE" /\ active.branch = q.seen.branch
      BY <1>1 DEF CommandRow, GoalRow, GoalStatuses
    <3> DEFINE row == Advanced(q, active, q.checked, t)
    <3>5. OneMoves(p, row)
      <4>1. command' = [command EXCEPT ![p] = row]
        BY <1>1, <3>1, <3>2 DEF CommandRow, Advanced
      <4> QED BY <1>1, <1>3, <4>1 DEF OneMoves
    <3> HIDE DEF active
    <3>4. /\ CommandOK(row) /\ row.goal = q.goal /\ row.seen = active /\ row.todo = t /\ row # NoCommand
      <4>1. q.goal \in Goals /\ active.status \in GoalStatuses /\ active.branch \in Branches /\ q.checked \in ValidRow
        BY <1>1, <1>2, <3>3 DEF CommandOK, CommandRow, GoalStatuses
      <4> QED BY <1>1, <3>3, <4>1, NextRow
    <3> HIDE DEF row
    <3>7. "overlap" \notin disturbed => Promise(row)'
      <4>1. "overlap" \notin disturbed => goal[q.goal].status \notin Terminal
        BY <1>1, <1>2, <2>5 DEF Promise, Allowed, Terminal, Resumable
      <4> QED BY <1>3, <3>2, <3>3, <3>4, <4>1 DEF Promise
    <3>8. disturbed = {} => Settled(row)'
      <4>1. disturbed = {} => q.seen.branch = branch
        BY <1>1, <1>2 DEF Settled
      <4> QED BY <1>3, <1>4, <2>1, <2>2, <2>3, <3>2, <3>3, <3>4, <4>1 DEF Settled
    <3> QED BY <1>1, <2>2, <3>4, <3>5, <3>7, <3>8, OneMovesInv
  <2> QED BY <2>4, <2>5
<1> QED BY <1>5, <1>6

\* It goes on to plan t with what it holds in memory.
GoesOn(p, q, t) ==
  \E row : /\ OneMoves(p, row) /\ CommandOK(row) /\ row # NoCommand
           /\ row.goal = q.goal /\ row.seen = q.seen /\ row.checked = q.checked /\ row.todo = t

LEMMA ProceedFacts ==
  ASSUME GInv, NEW p \in Commands, NEW q, q = command[p], q # NoCommand, CommandOK(q),
         q.todo # TIndex, NEW t \in Plans, t = Tail(q.todo), Proceed(p), disturbed' = disturbed
  PROVE  GoesOn(p, q, t)
<1> DEFINE row == Advanced(q, q.seen, q.checked, t)
<1>1. /\ q \in CommandRow /\ q.seen \in GoalRow /\ q.checked \in ValidRow /\ t # <<>>
      /\ q.goal \in Goals /\ q.seen.status \in GoalStatuses /\ q.seen.branch \in Branches
      /\ command \in [Commands -> {NoCommand} \union CommandRow]
  BY PlanTypes DEF CommandOK, CommandRow, GInv, CommandsOK
<1>2. command' = [command EXCEPT ![p].todo = t]
  BY <1>1 DEF Proceed, Rest
<1>3. command' = [command EXCEPT ![p] = row]
  BY <1>1, <1>2 DEF CommandRow, Advanced
<1>4. OneMoves(p, row)
  BY <1>3 DEF OneMoves
<1>5. /\ CommandOK(row) /\ row.goal = q.goal /\ row.seen = q.seen /\ row.checked = q.checked
      /\ row.todo = t /\ row # NoCommand
  BY <1>1, NextRow
<1> QED BY <1>4, <1>5 DEF GoesOn

\* A command that has made its last step ends.
LEMMA EndFacts ==
  ASSUME GInv, NEW p \in Commands, NEW q, q = command[p], q # NoCommand, Tail(q.todo) = <<>>,
         Proceed(p), disturbed' = disturbed
  PROVE  OneMoves(p, NoCommand)
BY DEF Proceed, Rest, OneMoves

LEMMA CreateLockInv ==
  ASSUME GInv, NEW p \in Commands, CreateLock(p)
  PROVE  GInv'
<1>1. PICK q : /\ q = command[p] /\ q # NoCommand /\ CommandOK(q) /\ q \in CommandRow
               /\ q.todo \in Plans /\ Head(q.todo) = "createLock"
               /\ "overlap" \notin disturbed => Promise(q)
               /\ disturbed = {} => Settled(q) /\ Unreadable = {}
               /\ command \in [Commands -> {NoCommand} \union CommandRow]
  BY StepFacts DEF CreateLock
<1>2. /\ q.todo \in {TCreate, TRelock} /\ q.todo # TIndex
      /\ q.goal \in Goals /\ q.seen.branch \in Branches
  BY <1>1, PlanSteps, PlanHeads DEF CommandOK
<1>3. /\ goal' = goal /\ validation' = validation /\ index' = index /\ branch' = branch
      /\ disturbed' = disturbed
  BY DEF CreateLock
<1>4. disturbed = {} => lock = NoLock /\ ~Locked /\ q.seen.branch = branch
  BY <1>1, <1>2, PlanHeads DEF Settled, Locked
<1>5. CASE Locked
  <2>1. lock' = lock /\ OneMoves(p, NoCommand)
    BY <1>1, <1>3, <1>5 DEF CreateLock, Fail, OneMoves
  <2> QED BY <1>3, <1>4, <1>5, <2>1, KeepInv
<1>6. CASE ~Locked
  <2>1. lock' = [goal |-> q.goal, branch |-> q.seen.branch] /\ Proceed(p)
    BY <1>1, <1>6 DEF CreateLock
  <2>2. lock' \in [goal : Goals, branch : Branches] /\ lock'.goal = q.goal /\ lock'.branch = q.seen.branch
    BY <1>2, <2>1
  <2>3. RunnerFilesOK' /\ Unreadable' = Unreadable /\ (Right' <=> Right) /\ ActiveGoals' = ActiveGoals
    BY <1>3, <2>2, FilesKept
  <2>4. lock' # NoLock
    BY RunnerAssumption, <1>2, <2>2 DEF RunnerAssumption, NoLock
  <2>5. PICK t \in Plans : t = Tail(q.todo) /\ (q.todo = TCreate => t = TState) /\ (q.todo = TRelock => t = TIndex)
    BY <1>2, PlanTails, PlanHeads, PlansListed
  <2>6. PICK row : /\ OneMoves(p, row) /\ CommandOK(row) /\ row # NoCommand
                   /\ row.goal = q.goal /\ row.seen = q.seen /\ row.checked = q.checked /\ row.todo = t
    <3>1. /\ q = command[p] /\ q # NoCommand /\ CommandOK(q) /\ q.todo # TIndex
          /\ t = Tail(q.todo) /\ Proceed(p) /\ disturbed' = disturbed
      BY <1>1, <1>2, <1>3, <2>1, <2>5
    <3>2. GoesOn(p, q, t)
      BY <2>5, <3>1, ProceedFacts
    <3> QED BY <3>2 DEF GoesOn
  <2>7. "overlap" \notin disturbed => Promise(row)'
    BY <1>1, <1>2, <1>3, <2>5, <2>6, PlanHeads DEF Promise
  <2>8. disturbed = {} => Settled(row)'
    <3>1. CASE q.todo = TCreate
      <4>1. disturbed = {} => q.seen.status = "ACTIVE" /\ ActiveGoals = {} /\ Right
        BY <1>1, <3>1, PlanHeads DEF Promise, Settled
      <4> QED BY <1>3, <1>4, <2>1, <2>3, <2>5, <2>6, <3>1, <4>1, PlanHeads DEF Settled
    <3>2. CASE q.todo = TRelock
      <4>1. disturbed = {} => ActiveGoals = {q.goal} /\ goal[q.goal].branch = branch
        BY <1>1, <3>2, PlanHeads DEF Settled
      <4>2. disturbed = {} => Tidy'
        BY <1>3, <1>4, <2>2, <2>3, <2>4, <4>1 DEF Tidy
      <4> QED BY <1>3, <2>5, <2>6, <3>2, <4>2, PlanHeads DEF Settled
    <3> QED BY <1>2, <3>1, <3>2
  <2> QED BY <1>1, <2>3, <2>6, <2>7, <2>8, OneMovesInv
<1> QED BY <1>5, <1>6

LEMMA RemoveLockInv ==
  ASSUME GInv, NEW p \in Commands, RemoveLock(p)
  PROVE  GInv'
<1> USE PlansListed, PlanHeads
<1>1. PICK q : /\ q = command[p] /\ q # NoCommand /\ CommandOK(q) /\ q \in CommandRow
               /\ q.todo \in Plans /\ Head(q.todo) = "removeLock"
               /\ "overlap" \notin disturbed => Promise(q)
               /\ disturbed = {} => Settled(q) /\ Unreadable = {}
               /\ command \in [Commands -> {NoCommand} \union CommandRow]
  BY StepFacts DEF RemoveLock
<1>2. q.todo = TUnlock /\ q.todo # TIndex /\ q.goal \in Goals /\ Tail(q.todo) = TIndex
  BY <1>1, PlanSteps, PlanTails DEF CommandOK
<1>3. /\ goal' = goal /\ validation' = validation /\ index' = index /\ branch' = branch
      /\ disturbed' = disturbed /\ lock' = (IF lock.goal = q.goal THEN NoLock ELSE lock)
  BY <1>1 DEF RemoveLock
<1>4. RunnerFilesOK' /\ Unreadable' = Unreadable /\ (Right' <=> Right) /\ ActiveGoals' = ActiveGoals
  BY <1>3, FilesKept
<1>5. PICK row : /\ OneMoves(p, row) /\ CommandOK(row) /\ row # NoCommand
                 /\ row.goal = q.goal /\ row.seen = q.seen /\ row.checked = q.checked /\ row.todo = TIndex
  <2>1. GoesOn(p, q, TIndex)
    BY <1>1, <1>2, <1>3, ProceedFacts DEF RemoveLock
  <2> QED BY <2>1 DEF GoesOn
<1>6. Promise(row)'
  BY <1>5 DEF Promise
<1>7. disturbed = {} => Tidy'
  BY <1>1, <1>2, <1>3, <1>4 DEF Settled, Tidy
<1>8. disturbed = {} => Settled(row)'
  BY <1>5, <1>7 DEF Settled
<1> QED BY <1>1, <1>4, <1>5, <1>6, <1>8, OneMovesInv

LEMMA SetGatesInv ==
  ASSUME GInv, NEW p \in Commands, SetGates(p)
  PROVE  GInv'
<1> USE PlansListed, PlanHeads
<1>1. PICK q : /\ q = command[p] /\ q # NoCommand /\ CommandOK(q) /\ q \in CommandRow
               /\ q.todo \in Plans /\ Head(q.todo) = "setGates"
               /\ "overlap" \notin disturbed => Promise(q)
               /\ disturbed = {} => Settled(q) /\ Unreadable = {}
               /\ command \in [Commands -> {NoCommand} \union CommandRow]
  BY StepFacts DEF SetGates
<1>2. q.todo = TGates /\ q.goal \in Goals /\ Tail(q.todo) = TState /\ q.checked \in ValidRow
  BY <1>1, PlanSteps, PlanTails DEF CommandOK, CommandRow
<1>3. /\ goal' = goal /\ validation' = validation /\ lock' = lock /\ index' = index /\ branch' = branch
      /\ disturbed' = disturbed
  BY DEF SetGates
<1>4. disturbed = {} => Tidy /\ Right
  BY <1>1, <1>2 DEF Settled
<1>5. CASE goal[q.goal].status \notin GateConfigurable
  <2>1. OneMoves(p, NoCommand)
    BY <1>1, <1>3, <1>5 DEF SetGates, Fail, OneMoves
  <2> QED BY <1>3, <1>4, <2>1, KeepInv
<1>6. CASE goal[q.goal].status \in GateConfigurable
  <2> DEFINE new == [goal[q.goal] EXCEPT !.gates = TRUE]
  <2>1. new \in GoalRow /\ new.status = goal[q.goal].status /\ new.branch = goal[q.goal].branch
    BY <1>2, GoalFacts
  <2>2. command' = [command EXCEPT ![p].seen = new, ![p].todo = TState]
    BY <1>1, <1>2, <1>6 DEF SetGates, Rest
  <2> DEFINE row == Advanced(q, new, q.checked, TState)
  <2>3. OneMoves(p, row)
    <3> HIDE DEF new
    <3>1. command' = [command EXCEPT ![p] = row]
      BY <1>1, <2>2 DEF CommandRow, Advanced
    <3> QED BY <1>1, <1>3, <3>1 DEF OneMoves
  <2>4. goal[q.goal].status \in GoalStatuses \ (Terminal \union {"ACTIVE"})
    BY <1>6 DEF GateConfigurable, GoalStatuses, Terminal
  <2> HIDE DEF new
  <2>5. CommandOK(row) /\ row.goal = q.goal /\ row.seen = new /\ row.todo = TState /\ row # NoCommand
    BY <1>1, <1>2, <2>1, <2>4, GoalFacts, NextRow DEF Readable
  <2> HIDE DEF row
  <2>6. Promise(row)
    BY <2>1, <2>4, <2>5 DEF Promise, Terminal
  <2>7. disturbed = {} => Settled(row)
    BY <1>4, <2>1, <2>4, <2>5 DEF Settled
  <2> QED BY <1>3, <2>3, <2>5, <2>6, <2>7, KeepInv
<1> QED BY <1>5, <1>6

LEMMA DoReindexInv ==
  ASSUME GInv, NEW p \in Commands, DoReindex(p)
  PROVE  GInv'
<1> USE PlansListed, PlanHeads
<1>1. PICK q : /\ q = command[p] /\ q # NoCommand /\ CommandOK(q) /\ q \in CommandRow
               /\ q.todo \in Plans /\ Head(q.todo) = "reindex"
               /\ "overlap" \notin disturbed => Promise(q)
               /\ disturbed = {} => Settled(q) /\ Unreadable = {}
               /\ command \in [Commands -> {NoCommand} \union CommandRow]
  BY StepFacts DEF DoReindex
<1>2. q.todo = TIndex /\ Tail(q.todo) = <<>>
  BY <1>1, PlanSteps, PlanTails
<1>3. /\ goal' = goal /\ validation' = validation /\ lock' = lock /\ branch' = branch
      /\ disturbed' = disturbed /\ index' = Indexed
  BY DEF DoReindex
<1>4. OneMoves(p, NoCommand)
  BY <1>1, <1>2, <1>3, EndFacts DEF DoReindex
<1>5. Indexed \in [Goals -> GoalStatuses \union {"absent"}] /\ Indexed' = Indexed
  BY <1>3 DEF Indexed, Readable
<1>6. RunnerFilesOK' /\ Unreadable' = Unreadable
  BY <1>3, <1>5 DEF GInv, RunnerFilesOK, Readable, Unreadable
<1>7. disturbed = {} => Tidy' /\ Right'
  <2>1. disturbed = {} => Tidy
    BY <1>1, <1>2 DEF Settled
  <2>2. Tidy' <=> Tidy
    BY <1>3 DEF Tidy, ActiveGoals
  <2> QED BY <1>3, <1>5, <2>1, <2>2 DEF Right
<1> QED BY <1>1, <1>4, <1>6, <1>7, OneMovesInv

LEMMA ActiveAfter ==
  ASSUME GInv, NEW g \in Goals, NEW new, goal' = [goal EXCEPT ![g] = new]
  PROVE  /\ goal'[g] = new /\ \A h \in Goals \ {g} : goal'[h] = goal[h]
         /\ new.status = "ACTIVE" => ActiveGoals' = ActiveGoals \union {g}
         /\ new.status # "ACTIVE" => ActiveGoals' = ActiveGoals \ {g}
<1>1. goal'[g] = new /\ \A h \in Goals \ {g} : goal'[h] = goal[h]
  BY DEF GInv, RunnerFilesOK
<1> QED BY <1>1 DEF ActiveGoals

LEMMA WriteStateInv ==
  ASSUME GInv, NEW p \in Commands, WriteState(p)
  PROVE  GInv'
<1> USE PlansListed, PlanHeads
<1>1. PICK q : /\ q = command[p] /\ q # NoCommand /\ CommandOK(q) /\ q \in CommandRow
               /\ q.todo \in Plans /\ Head(q.todo) = "writeState"
               /\ "overlap" \notin disturbed => Promise(q)
               /\ disturbed = {} => Settled(q) /\ Unreadable = {}
               /\ command \in [Commands -> {NoCommand} \union CommandRow]
  BY StepFacts DEF WriteState
<1>2. /\ q.todo \in {TResumed, TState, TEnd} /\ q.todo # TIndex
      /\ q.goal \in Goals /\ q.seen \in GoalRow /\ q.seen.status \in GoalStatuses /\ q.seen.branch \in Branches
  BY <1>1, PlanSteps DEF CommandOK, CommandRow
<1>3. /\ goal' = [goal EXCEPT ![q.goal] = q.seen] /\ Proceed(p)
      /\ validation' = validation /\ lock' = lock /\ index' = index /\ branch' = branch
      /\ disturbed' = disturbed
  BY <1>1 DEF WriteState
<1>4. /\ goal'[q.goal] = q.seen /\ \A h \in Goals \ {q.goal} : goal'[h] = goal[h]
      /\ q.seen.status = "ACTIVE" => ActiveGoals' = ActiveGoals \union {q.goal}
      /\ q.seen.status # "ACTIVE" => ActiveGoals' = ActiveGoals \ {q.goal}
  BY <1>2, <1>3, ActiveAfter
<1>5. RunnerFilesOK'
  <2>1. goal' \in [Goals -> GoalRow]
    BY <1>2, <1>3 DEF GInv, RunnerFilesOK
  <2>2. \A h \in Goals : Readable(h)' => goal'[h].branch \in Branches
    BY <1>2, <1>4 DEF GInv, RunnerFilesOK, Readable
  <2> QED BY <1>3, <2>1, <2>2 DEF GInv, RunnerFilesOK
<1>6. disturbed = {} => (Unreadable = {})'
  <2>1. q.seen.status # "broken"
    BY <1>2 DEF GoalStatuses
  <2> QED BY <1>1, <1>4, <2>1 DEF Unreadable
<1>7. PICK t \in Plans : /\ t = Tail(q.todo)
                         /\ q.todo = TResumed => t = TRelock
                         /\ q.todo = TState => t = TIndex
                         /\ q.todo = TEnd => t = TUnlock
  BY <1>2, PlanTails
<1>8. PICK row : /\ OneMoves(p, row) /\ CommandOK(row) /\ row # NoCommand
                 /\ row.goal = q.goal /\ row.seen = q.seen /\ row.checked = q.checked /\ row.todo = t
  <2>1. GoesOn(p, q, t)
    BY <1>1, <1>2, <1>3, <1>7, ProceedFacts
  <2> QED BY <2>1 DEF GoesOn
<1>9. Promise(row)'
  BY <1>2, <1>7, <1>8 DEF Promise
<1>10. NoLock.goal = NoGoal /\ (lock # NoLock => lock.goal \in Goals)
  BY DEF NoLock, GInv, RunnerFilesOK
<1>11. disturbed = {} => Settled(row)'
  <2> SUFFICES ASSUME disturbed = {} PROVE Settled(row)'
    OBVIOUS
  <2>1. CASE q.todo = TResumed /\ t = TRelock
    <3>1. /\ q.seen.branch = branch /\ lock = NoLock /\ ActiveGoals = {} /\ q.seen.status = "ACTIVE"
      BY <1>1, <2>1 DEF Promise, Settled
    <3> QED BY <1>3, <1>4, <1>8, <2>1, <3>1 DEF Settled
  <2>2. CASE q.todo = TState /\ t = TIndex
    <3>1. \/ Tidy /\ q.seen.status # "ACTIVE" /\ goal[q.goal].status # "ACTIVE"
          \/ /\ lock = [goal |-> q.goal, branch |-> branch] /\ ActiveGoals = {}
             /\ q.seen.status = "ACTIVE" /\ q.seen.branch = branch
      BY <1>1, <2>2 DEF Settled
    <3>2. Tidy'
      <4>1. CASE Tidy /\ q.seen.status # "ACTIVE" /\ goal[q.goal].status # "ACTIVE"
        <5>1. ActiveGoals' = ActiveGoals /\ q.goal \notin ActiveGoals
          BY <1>4, <4>1 DEF ActiveGoals
        <5> QED BY <1>3, <1>4, <1>10, <4>1, <5>1 DEF Tidy
      <4>2. CASE /\ lock = [goal |-> q.goal, branch |-> branch] /\ ActiveGoals = {}
                 /\ q.seen.status = "ACTIVE" /\ q.seen.branch = branch
        <5>1. lock # NoLock /\ lock.goal = q.goal /\ lock.branch = branch
          BY <1>2, <1>10, <4>2, RunnerAssumption DEF RunnerAssumption
        <5> QED BY <1>3, <1>4, <4>2, <5>1 DEF Tidy
      <4> QED BY <3>1, <4>1, <4>2
    <3> QED BY <1>8, <2>2, <3>2 DEF Settled
  <2>3. CASE q.todo = TEnd /\ t = TUnlock
    <3>1. Tidy /\ q.seen.status # "ACTIVE" /\ ActiveGoals' = ActiveGoals \ {q.goal}
      BY <1>1, <1>4, <2>3 DEF Settled
    <3>2. CASE lock.goal = q.goal
      <4>1. ActiveGoals' = {}
        BY <1>2, <1>10, <3>1, <3>2, RunnerAssumption DEF RunnerAssumption, Tidy
      <4> QED BY <1>3, <1>8, <2>3, <3>2, <4>1 DEF Settled
    <3>3. CASE lock.goal # q.goal
      <4>1. Tidy'
        BY <1>3, <1>4, <1>10, <3>1, <3>3 DEF Tidy
      <4> QED BY <1>3, <1>8, <2>3, <3>3, <4>1 DEF Settled
    <3> QED BY <3>2, <3>3
  <2> QED BY <1>2, <1>7, <2>1, <2>2, <2>3
<1> QED BY <1>1, <1>5, <1>6, <1>8, <1>9, <1>11, OneMovesInv

\* The gates have run: it goes on to plan t with their outcome.
HoldsChecked(p, q, gates, t) ==
  \E row : /\ OneMoves(p, row) /\ CommandOK(row) /\ row # NoCommand
           /\ row.goal = q.goal /\ row.seen = q.seen /\ row.todo = t
           /\ row.checked.evidence = validation[q.goal].evidence /\ row.checked.gates = gates

LEMMA CheckedFacts ==
  ASSUME GInv, NEW p \in Commands, NEW q, q = command[p], q # NoCommand, CommandOK(q),
         q.todo # TIndex, NEW gates \in {"passed", "failed"}, NEW t \in Plans, t # TIndex,
         Checked(p, gates, t), disturbed' = disturbed
  PROVE  HoldsChecked(p, q, gates, t)
<1> DEFINE checked == [validation[q.goal] EXCEPT !.gates = gates]
<1>1. /\ q \in CommandRow /\ q.seen \in GoalRow
      /\ q.goal \in Goals /\ q.seen.status \in GoalStatuses /\ q.seen.branch \in Branches
      /\ command \in [Commands -> {NoCommand} \union CommandRow]
  BY DEF CommandOK, CommandRow, GInv, CommandsOK
<1>2. checked \in ValidRow /\ checked.evidence = validation[q.goal].evidence /\ checked.gates = gates
  BY <1>1, GoalFacts DEF ValidRow
<1>3. command' = [command EXCEPT ![p].todo = t, ![p].checked = checked]
  BY DEF Checked
<1> HIDE DEF checked
<1> DEFINE row == Advanced(q, q.seen, checked, t)
<1>4. command' = [command EXCEPT ![p] = row]
  BY <1>1, <1>3 DEF CommandRow, Advanced
<1>5. OneMoves(p, row)
  BY <1>4 DEF OneMoves
<1>6. /\ CommandOK(row) /\ row.goal = q.goal /\ row.seen = q.seen /\ row.checked = checked
      /\ row.todo = t /\ row # NoCommand
  BY <1>1, <1>2, NextRow
<1> QED BY <1>2, <1>5, <1>6 DEF HoldsChecked
LEMMA VerifyInv ==
  ASSUME GInv, NEW p \in Commands, Verify(p)
  PROVE  GInv'
<1> USE PlansListed, PlanHeads
<1>1. PICK q : /\ q = command[p] /\ q # NoCommand /\ CommandOK(q) /\ q \in CommandRow
               /\ q.todo \in Plans /\ Head(q.todo) = "verify"
               /\ "overlap" \notin disturbed => Promise(q)
               /\ disturbed = {} => Settled(q) /\ Unreadable = {}
               /\ command \in [Commands -> {NoCommand} \union CommandRow]
  BY StepFacts DEF Verify
<1>2. q.todo = TComplete /\ q.todo # TIndex /\ q.goal \in Goals /\ Tail(q.todo) = TEnd /\ TEnd # TIndex
  BY <1>1, PlanSteps, PlanTails DEF CommandOK
<1>3. /\ goal' = goal /\ validation' = validation /\ lock' = lock /\ index' = index /\ branch' = branch
      /\ disturbed' = disturbed
  BY DEF Verify
<1>4. /\ disturbed = {} => Tidy /\ Right /\ q.seen.status # "ACTIVE"
      /\ "overlap" \notin disturbed =>
           /\ goal[q.goal].status \notin Terminal
           /\ q.seen.status = "COMPLETED" => q.seen.gates = goal[q.goal].gates
  BY <1>1, <1>2 DEF Settled, Promise
<1>5. CASE ~validation[q.goal].evidence
  <2>1. OneMoves(p, NoCommand)
    BY <1>1, <1>3, <1>5 DEF Verify, Fail, OneMoves
  <2> QED BY <1>3, <1>4, <2>1, KeepInv
<1>6. CASE validation[q.goal].evidence /\ ~q.seen.gates
  <2>1. Proceed(p)
    BY <1>1, <1>6 DEF Verify
  <2>2. PICK row : /\ OneMoves(p, row) /\ CommandOK(row) /\ row # NoCommand
                   /\ row.goal = q.goal /\ row.seen = q.seen /\ row.checked = q.checked /\ row.todo = TEnd
    <3>1. GoesOn(p, q, TEnd)
      BY <1>1, <1>2, <1>3, <2>1, ProceedFacts
    <3> QED BY <3>1 DEF GoesOn
  <2>3. "overlap" \notin disturbed => Promise(row)
    BY <1>4, <1>6, <2>2 DEF Promise, Earned
  <2>4. disturbed = {} => Settled(row)
    BY <1>4, <2>2 DEF Settled
  <2> QED BY <1>3, <2>2, <2>3, <2>4, KeepInv
<1>7. CASE validation[q.goal].evidence /\ q.seen.gates
  <2>1. \/ Checked(p, "passed", TProved)
        \/ Checked(p, "failed", TReport)
    BY <1>1, <1>2, <1>7, ProvedPlan DEF Verify, Rest, TReport
  <2>2. ASSUME Checked(p, "passed", TProved) PROVE GInv'
    <3>1. HoldsChecked(p, q, "passed", TProved)
      BY <1>1, <1>2, <1>3, <2>2, CheckedFacts
    <3>2. PICK row : /\ OneMoves(p, row) /\ CommandOK(row) /\ row # NoCommand
                     /\ row.goal = q.goal /\ row.seen = q.seen /\ row.todo = TProved
                     /\ row.checked.evidence = validation[q.goal].evidence /\ row.checked.gates = "passed"
      BY <3>1 DEF HoldsChecked
    <3>3. "overlap" \notin disturbed => Promise(row)
      BY <1>4, <1>7, <3>2 DEF Promise
    <3>4. disturbed = {} => Settled(row)
      BY <1>4, <3>2 DEF Settled
    <3> QED BY <1>3, <3>2, <3>3, <3>4, KeepInv
  <2>3. ASSUME Checked(p, "failed", TReport) PROVE GInv'
    <3>1. HoldsChecked(p, q, "failed", TReport)
      BY <1>1, <1>2, <1>3, <2>3, CheckedFacts
    <3>2. PICK row : OneMoves(p, row) /\ CommandOK(row) /\ row # NoCommand /\ row.todo = TReport
      BY <3>1 DEF HoldsChecked
    <3>3. Promise(row)
      BY <3>2 DEF Promise
    <3>4. disturbed = {} => Settled(row)
      BY <1>4, <3>2 DEF Settled
    <3> QED BY <1>3, <3>2, <3>3, <3>4, KeepInv
  <2> QED BY <2>1, <2>2, <2>3
<1> QED BY <1>5, <1>6, <1>7

LEMMA RunGatesInv ==
  ASSUME GInv, NEW p \in Commands, RunGates(p)
  PROVE  GInv'
<1> USE PlansListed, PlanHeads
<1>1. PICK q : /\ q = command[p] /\ q # NoCommand /\ CommandOK(q) /\ q \in CommandRow
               /\ q.todo \in Plans /\ Head(q.todo) = "runGates"
               /\ "overlap" \notin disturbed => Promise(q)
               /\ disturbed = {} => Settled(q) /\ Unreadable = {}
               /\ command \in [Commands -> {NoCommand} \union CommandRow]
  BY StepFacts DEF RunGates
<1>2. q.todo = TValidate /\ q.todo # TIndex /\ q.goal \in Goals /\ Tail(q.todo) = TReport /\ TReport # TIndex
  BY <1>1, PlanSteps, PlanTails DEF CommandOK
<1>3. /\ goal' = goal /\ validation' = validation /\ lock' = lock /\ index' = index /\ branch' = branch
      /\ disturbed' = disturbed
  BY DEF RunGates
<1>4. PICK gates \in {"passed", "failed"} : Checked(p, gates, TReport)
  BY <1>1, <1>2 DEF RunGates, Rest
<1>5. HoldsChecked(p, q, gates, TReport)
  BY <1>1, <1>2, <1>3, <1>4, CheckedFacts
<1>6. PICK row : OneMoves(p, row) /\ CommandOK(row) /\ row # NoCommand /\ row.todo = TReport
  BY <1>5 DEF HoldsChecked
<1>7. Promise(row)
  BY <1>6 DEF Promise
<1>8. disturbed = {} => Settled(row)
  BY <1>1, <1>2, <1>6 DEF Settled
<1> QED BY <1>3, <1>6, <1>7, <1>8, KeepInv

LEMMA WriteValidationInv ==
  ASSUME GInv, NEW p \in Commands, WriteValidation(p)
  PROVE  GInv'
<1> USE PlansListed, PlanHeads
<1>1. PICK q : /\ q = command[p] /\ q # NoCommand /\ CommandOK(q) /\ q \in CommandRow
               /\ q.todo \in Plans /\ Head(q.todo) = "writeValidation"
               /\ "overlap" \notin disturbed => Promise(q)
               /\ disturbed = {} => Settled(q) /\ Unreadable = {}
               /\ command \in [Commands -> {NoCommand} \union CommandRow]
  BY StepFacts DEF WriteValidation
<1>2. q.todo \in {TProved, TReport} /\ q.todo # TIndex /\ q.goal \in Goals /\ q.checked \in ValidRow
  BY <1>1, PlanSteps DEF CommandOK, CommandRow
<1>3. /\ validation' = [validation EXCEPT ![q.goal] = q.checked] /\ Proceed(p)
      /\ goal' = goal /\ lock' = lock /\ index' = index /\ branch' = branch
      /\ disturbed' = disturbed
  BY <1>1 DEF WriteValidation
<1>4. validation' \in [Goals -> ValidRow] /\ validation'[q.goal] = q.checked
  BY <1>2, <1>3 DEF GInv, RunnerFilesOK
<1>5. RunnerFilesOK' /\ Unreadable' = Unreadable
  BY <1>3, <1>4 DEF GInv, RunnerFilesOK, Readable, Unreadable
<1>6. ActiveGoals' = ActiveGoals /\ (Tidy' <=> Tidy) /\ (Right' <=> Right)
  BY <1>3 DEF Tidy, Right, Indexed, ActiveGoals, Readable
<1>7. disturbed = {} => Tidy /\ Right
  BY <1>1, <1>2 DEF Settled
<1>8. CASE q.todo = TReport
  <2>1. OneMoves(p, NoCommand)
    BY <1>1, <1>3, <1>8, PlanTails, EndFacts
  <2> QED BY <1>1, <1>5, <1>6, <1>7, <2>1, OneMovesInv
<1>9. CASE q.todo = TProved
  <2>1. PICK row : /\ OneMoves(p, row) /\ CommandOK(row) /\ row # NoCommand
                   /\ row.goal = q.goal /\ row.seen = q.seen /\ row.checked = q.checked /\ row.todo = TEnd
    <3>1. GoesOn(p, q, TEnd)
      BY <1>1, <1>2, <1>3, <1>9, PlanTails, ProceedFacts
    <3> QED BY <3>1 DEF GoesOn
  <2>2. "overlap" \notin disturbed => Promise(row)'
    <3> SUFFICES ASSUME "overlap" \notin disturbed PROVE Promise(row)'
      OBVIOUS
    <3>1. /\ goal[q.goal].status \notin Terminal
          /\ q.seen.status = "COMPLETED" => q.seen.gates = goal[q.goal].gates
          /\ q.checked.evidence /\ q.checked.gates = "passed"
      BY <1>1, <1>9 DEF Promise
    <3>2. Earned(q.goal)'
      BY <1>4, <3>1 DEF Earned
    <3> QED BY <1>3, <2>1, <3>1, <3>2 DEF Promise
  <2>3. disturbed = {} => Settled(row)'
    <3>1. disturbed = {} => q.seen.status # "ACTIVE"
      BY <1>1, <1>9 DEF Settled
    <3> QED BY <1>6, <1>7, <2>1, <3>1 DEF Settled
  <2> QED BY <1>1, <1>5, <2>1, <2>2, <2>3, OneMovesInv
<1> QED BY <1>2, <1>8, <1>9

LEMMA CutOffInv ==
  ASSUME GInv, NEW p \in Commands, CutOff(p)
  PROVE  GInv'
<1>1. /\ command[p] # NoCommand /\ command \in [Commands -> {NoCommand} \union CommandRow]
      /\ command[p] \in CommandRow /\ command' = [command EXCEPT ![p] = NoCommand]
      /\ disturbed' = disturbed \union {"cut_off"} /\ branch' = branch
  BY CommandFacts DEF CutOff, Fail, GInv, CommandsOK
<1>2. command'[p] = NoCommand /\ \A r \in Commands \ {p} : command'[r] = command[r]
  BY <1>1
<1>3. goal' \in [Goals -> GoalRow] /\ \A g \in Goals : Readable(g)' => goal'[g].branch \in Branches
  <2>1. CASE goal' = goal
    BY <2>1 DEF GInv, RunnerFilesOK, Readable
  <2>2. CASE TornState(p)
    <3> DEFINE broken == Missing("broken")
    <3>1. broken \in GoalRow /\ broken.status \notin GoalStatuses
      BY DEF Missing, GoalRow, GoalStatuses
    <3> HIDE DEF broken
    <3>2. goal' \in [Goals -> GoalRow] /\ \A g \in Goals : goal'[g] = goal[g] \/ goal'[g] = broken
      BY <2>2, <3>1 DEF TornState, GInv, RunnerFilesOK, broken
    <3> QED BY <3>1, <3>2 DEF GInv, RunnerFilesOK, Readable
  <2> QED BY <2>1, <2>2 DEF CutOff, TornLock, TornValidation, TornIndex
<1>4. RunnerFilesOK'
  <2>1. NoValidation \in ValidRow
    BY DEF NoValidation, ValidRow
  <2>2. validation' \in [Goals -> ValidRow]
    BY <2>1 DEF CutOff, TornState, TornLock, TornValidation, TornIndex, GInv, RunnerFilesOK
  <2>3. index' \in [Goals -> GoalStatuses \union {"absent"}]
    BY DEF CutOff, TornState, TornLock, TornValidation, TornIndex, GInv, RunnerFilesOK
  <2>4. lock' \in {lock, NoLock}
    BY DEF CutOff, TornState, TornLock, TornValidation, TornIndex
  <2> QED BY <1>1, <1>3, <2>2, <2>3, <2>4 DEF GInv, RunnerFilesOK
<1>5. CommandsOK'
  <2>1. \A r \in Commands : command'[r] = NoCommand \/ CommandOK(command'[r])
    BY <1>2 DEF GInv, CommandsOK
  <2> QED BY <1>1, <2>1 DEF CommandsOK, CommandOK
<1>6. AloneInv'
  BY <1>1, <1>2, CommandFacts DEF AloneInv
<1>7. CalmInv'
  BY <1>1 DEF CalmInv
<1> QED BY <1>4, <1>5, <1>6, <1>7 DEF GInv

LEMMA CheckoutInv ==
  ASSUME GInv, Checkout
  PROVE  GInv'
<1>1. /\ branch' \in Branches /\ goal' = goal /\ validation' = validation /\ lock' = lock
      /\ index' = index /\ command' = command
      /\ disturbed' \in {disturbed, disturbed \union {"checkout"}}
  BY DEF Checkout
<1>2. disturbed' = {} =>
        disturbed = {} /\ ActiveGoals = {} /\ \A p \in Commands : command[p] = NoCommand
  BY DEF Checkout
<1>3. RunnerFilesOK' /\ CommandsOK'
  BY <1>1 DEF GInv, RunnerFilesOK, CommandsOK, CommandOK, Readable
<1>4. AloneInv'
  BY <1>1 DEF GInv, AloneInv, Promise, Earned
<1>5. CalmInv'
  <2> SUFFICES ASSUME disturbed' = {} PROVE CalmInv'
    BY DEF CalmInv
  <2>1. Tidy /\ Right /\ Unreadable = {}
    BY <1>2 DEF GInv, CalmInv
  <2>2. ActiveGoals' = ActiveGoals /\ (Right' <=> Right) /\ Unreadable' = Unreadable
    BY <1>1 DEF Right, Indexed, Readable, ActiveGoals, Unreadable
  <2>3. Tidy'
    BY <1>1, <1>2, <2>1, <2>2 DEF Tidy
  <2> QED BY <1>1, <1>2, <2>1, <2>2, <2>3 DEF CalmInv
<1> QED BY <1>3, <1>4, <1>5 DEF GInv

LEMMA RunnerInitInv ==
  ASSUME RunnerInit
  PROVE  GInv
<1> DEFINE absent == Missing("absent")
<1>1. absent \in GoalRow /\ absent.status = "absent"
  BY DEF Missing, GoalRow
<1> HIDE DEF absent
<1>2. /\ goal = [g \in Goals |-> absent] /\ validation = [g \in Goals |-> NoValidation] /\ lock = NoLock
      /\ index = [g \in Goals |-> "absent"] /\ branch \in Branches
      /\ command = [p \in Commands |-> NoCommand] /\ disturbed = {}
  BY DEF RunnerInit, absent
<1>3. \A g \in Goals : goal[g].status = "absent" /\ ~Readable(g)
  BY <1>1, <1>2 DEF Readable, GoalStatuses
<1>4. RunnerFilesOK
  BY <1>1, <1>2, <1>3 DEF RunnerFilesOK, NoValidation, ValidRow
<1>5. CommandsOK /\ AloneInv
  BY <1>2 DEF CommandsOK, AloneInv
<1>6. CalmInv
  <2>1. Unreadable = {} /\ ActiveGoals = {}
    BY <1>3 DEF Unreadable, ActiveGoals
  <2>2. Right
    BY <1>2, <1>3 DEF Right, Indexed
  <2> QED BY <1>2, <2>1, <2>2 DEF CalmInv, Tidy
<1> QED BY <1>4, <1>5, <1>6 DEF GInv

\* Commands that begin, write, fail or are cut off, and the person who checks out
\* another branch, keep what the running commands rely on.
THEOREM RunnerInvariance == RunnerSpec => []GInv
<1>1. GInv /\ [RunnerNext]_runnerVars => GInv'
  <2> SUFFICES ASSUME GInv, [RunnerNext]_runnerVars PROVE GInv'
    OBVIOUS
  <2>1. CASE UNCHANGED runnerVars
    BY <2>1 DEF runnerVars, GInv, RunnerFilesOK, Readable, CommandsOK, CommandOK, AloneInv, Promise,
       Earned, CalmInv, Unreadable, Tidy, ActiveGoals, Right, Indexed, Settled
  <2>2. CASE Checkout
    BY <2>2, CheckoutInv
  <2>3. ASSUME NEW p \in Commands, CommandBegins(p) PROVE GInv'
    BY <2>3, CommandBeginsInv
  <2>4. ASSUME NEW p \in Commands, CommandStep(p) PROVE GInv'
    BY <2>4, CheckLockInv, CreateLockInv, RemoveLockInv, WriteStateInv, SetGatesInv, VerifyInv,
       RunGatesInv, WriteValidationInv, DoReindexInv DEF CommandStep
  <2>5. ASSUME NEW p \in Commands, CutOff(p) PROVE GInv'
    BY <2>5, CutOffInv
  <2> QED BY <2>1, <2>2, <2>3, <2>4, <2>5 DEF RunnerNext
<1> QED BY <1>1, RunnerInitInv, PTL DEF RunnerSpec

\* What the runner's files and its commands may hold.
THEOREM RunnerTypeCorrect == RunnerSpec => []RunnerTypeOK
<1>1. ASSUME GInv PROVE RunnerTypeOK
  <2>1. \A p \in Commands :
          /\ command[p].goal \in Goals \union {NoGoal}
          /\ command[p].todo \in Seq(Steps)
          /\ command[p].todo = <<>> <=> command[p] = NoCommand
    <3> TAKE p \in Commands
    <3>1. NoCommand.goal = NoGoal /\ NoCommand.todo = <<>>
      BY DEF NoCommand
    <3>2. CASE command[p] = NoCommand
      BY <3>1, <3>2, EmptySeq
    <3>3. CASE command[p] # NoCommand
      BY <1>1, <3>3, CommandFacts, PlanTypes DEF CommandRow
    <3> QED BY <3>2, <3>3
  <2> QED BY <1>1, <2>1 DEF GInv, RunnerFilesOK, RunnerTypeOK, GoalRow, ValidRow
<1> QED BY <1>1, RunnerInvariance, PTL

LEMMA CalmHealth ==
  ASSUME GInv
  PROVE  CalmIsHealthy
<1> SUFFICES ASSUME disturbed = {}, \A p \in Commands : command[p] = NoCommand
             PROVE  ~DoctorErrors /\ Mismatched = {}
  BY DEF CalmIsHealthy
<1>1. Unreadable = {} /\ Tidy /\ Right
  BY DEF GInv, CalmInv
<1>2. ~(lock # NoLock /\ Stale)
  BY <1>1 DEF Tidy, Stale, ActiveGoals
<1>3. Unlocked = {}
  BY <1>1 DEF Tidy, Unlocked, ActiveGoals
<1>4. Mismatched = {}
  BY <1>1 DEF Right, Indexed, Mismatched
<1> QED BY <1>1, <1>2, <1>3, <1>4 DEF DoctorErrors

LEMMA HealthSound ==
  ASSUME GInv
  PROVE  HealthyIsSound
<1> SUFFICES ASSUME ~DoctorErrors, Mismatched = {}
             PROVE  /\ Cardinality(ActiveGoals) <= 1
                    /\ \A g \in ActiveGoals : Locked /\ lock.goal = g /\ goal[g].branch = branch
  BY DEF HealthyIsSound
<1>1. \A g \in ActiveGoals : lock.goal = g
  <2> SUFFICES ASSUME NEW g \in ActiveGoals, lock.goal # g PROVE FALSE
    OBVIOUS
  <2>1. g \in Goals /\ goal[g].status = "ACTIVE" /\ index[g] = "ACTIVE"
    BY DEF ActiveGoals, Mismatched, Readable, GoalStatuses
  <2> QED BY <2>1 DEF DoctorErrors, Unlocked
<1>2. \A g \in ActiveGoals : Locked /\ goal[g].branch = branch
  <2> TAKE g \in ActiveGoals
  <2>1. lock # NoLock
    BY <1>1, RunnerAssumption DEF RunnerAssumption, NoLock, ActiveGoals
  <2> QED BY <1>1, <2>1 DEF DoctorErrors, Locked, Stale
<1>3. ActiveGoals = {} \/ ActiveGoals = {lock.goal}
  BY <1>1
<1>4. Cardinality(ActiveGoals) <= 1
  <2>1. Cardinality(ActiveGoals) \in {0, 1}
    <3>1. CASE ActiveGoals = {}
      BY <3>1, FS_EmptySet
    <3>2. CASE ActiveGoals = {lock.goal}
      <4>1. Cardinality({lock.goal}) = 1
        BY FS_Singleton, Zenon
      <4> QED BY <3>2, <4>1
    <3> QED BY <1>3, <3>1, <3>2
  <2> QED BY <2>1
<1> QED BY <1>1, <1>2, <1>4

\* doctorCheck finds nothing after commands that ran alone and to their end, and when it
\* finds nothing, whatever happened, at most one goal is active and it holds the lock.
THEOREM DoctorReliable == RunnerSpec => []DoctorIsReliable
<1>1. GInv => DoctorIsReliable
  BY CalmHealth, HealthSound DEF DoctorIsReliable
<1> QED BY <1>1, RunnerInvariance, PTL

\* The only steps that change a goal's state: a command writes it, or is cut off writing it.
LEMMA GoalWrites ==
  ASSUME GInv, [RunnerNext]_runnerVars, goal' # goal
  PROVE  \E p \in Commands :
           /\ command[p] # NoCommand /\ command[p].goal \in Goals
           /\ command[p].todo \in {TResumed, TState, TEnd}
           /\ \A g \in Goals \ {command[p].goal} : goal'[g] = goal[g]
           /\ disturbed \subseteq disturbed'
           /\ \/ goal'[command[p].goal] = command[p].seen
              \/ goal'[command[p].goal].status = "broken"
<1>1. PICK p \in Commands :
        \/ WriteState(p)
        \/ CutOff(p) /\ Doing(p, "writeState") /\ goal' = [goal EXCEPT ![command[p].goal] = Missing("broken")]
  <2>1. ASSUME NEW r \in Commands, CommandBegins(r) PROVE goal' = goal
    BY <2>1 DEF CommandBegins, Reindex, Create, PlanRecord, Activate, Resume, Pause, Block, Complete,
       Abort, GatesSet, Validate, EvidenceAdd, Begin
  <2>2. ASSUME NEW r \in Commands, CommandStep(r) PROVE goal' = goal \/ WriteState(r)
    BY <2>2 DEF CommandStep, CheckLock, CreateLock, RemoveLock, SetGates, Verify, RunGates,
       WriteValidation, DoReindex
  <2>3. ASSUME NEW r \in Commands, CutOff(r)
        PROVE  \/ goal' = goal
               \/ Doing(r, "writeState") /\ goal' = [goal EXCEPT ![command[r].goal] = Missing("broken")]
    BY <2>3 DEF CutOff, TornState, TornLock, TornValidation, TornIndex
  <2>4. Checkout \/ UNCHANGED runnerVars => goal' = goal
    BY DEF Checkout, runnerVars
  <2> QED BY <2>1, <2>2, <2>3, <2>4 DEF RunnerNext
<1>2. command[p] # NoCommand /\ Head(command[p].todo) = "writeState" /\ command[p].todo \in Plans
  BY <1>1, CommandFacts DEF WriteState, Doing
<1>3. command[p].todo \in {TResumed, TState, TEnd} /\ command[p].goal \in Goals
  BY <1>2, CommandFacts, PlanSteps, PlanHeads DEF CommandOK
<1>4. disturbed \subseteq disturbed'
  BY <1>1 DEF WriteState, CutOff
<1>5. CASE WriteState(p)
  <2>1. goal' = [goal EXCEPT ![command[p].goal] = command[p].seen]
    BY <1>5 DEF WriteState
  <2>2. /\ \A g \in Goals \ {command[p].goal} : goal'[g] = goal[g]
        /\ goal'[command[p].goal] = command[p].seen
    BY <1>3, <2>1, ActiveAfter
  <2> QED BY <1>2, <1>3, <1>4, <2>2
<1>6. CASE goal' = [goal EXCEPT ![command[p].goal] = Missing("broken")]
  <2>1. Missing("broken").status = "broken"
    BY DEF Missing
  <2>2. /\ \A g \in Goals \ {command[p].goal} : goal'[g] = goal[g]
        /\ goal'[command[p].goal] = Missing("broken")
    BY <1>3, <1>6, ActiveAfter
  <2> QED BY <1>2, <1>3, <1>4, <2>1, <2>2
<1> QED BY <1>1, <1>5, <1>6

\* As long as no two commands overlap, a completed or aborted goal is never written again
\* (validateTransition), even where a command resumes from what it read before.
THEOREM TerminalFinal == RunnerSpec => TerminalIsFinal
<1>1. ASSUME GInv, [RunnerNext]_runnerVars, NEW g \in Goals, goal[g].status \in Terminal,
             "overlap" \notin disturbed'
      PROVE  goal'[g] = goal[g]
  <2> SUFFICES ASSUME goal' # goal PROVE goal'[g] = goal[g]
    OBVIOUS
  <2>1. PICK p \in Commands :
           /\ command[p] # NoCommand /\ command[p].goal \in Goals
           /\ command[p].todo \in {TResumed, TState, TEnd}
           /\ \A h \in Goals \ {command[p].goal} : goal'[h] = goal[h]
           /\ disturbed \subseteq disturbed'
    BY <1>1, GoalWrites
  <2>2. goal[command[p].goal].status \notin Terminal
    BY <1>1, <2>1, CommandFacts DEF Promise
  <2> QED BY <1>1, <2>1, <2>2
<1>2. GInv /\ [RunnerNext]_runnerVars =>
        [\A g \in Goals : goal[g].status \in Terminal /\ "overlap" \notin disturbed' => goal'[g] = goal[g]]_runnerVars
  BY <1>1
<1> QED BY <1>2, RunnerInvariance, PTL DEF RunnerSpec, TerminalIsFinal

\* When a goal becomes COMPLETED without commands that overlap, validation.json holds the
\* evidence, and passed gates if the goal has gates (complete, in verify and after it).
THEOREM CompletionEarned == RunnerSpec => CompletionIsEarned
<1>1. ASSUME GInv, [RunnerNext]_runnerVars, NEW g \in Goals,
             goal'[g].status = "COMPLETED", goal[g].status # "COMPLETED", "overlap" \notin disturbed
      PROVE  validation[g].evidence /\ (goal[g].gates => validation[g].gates = "passed")
  <2>1. goal' # goal
    BY <1>1
  <2>2. PICK p \in Commands :
           /\ command[p] # NoCommand /\ command[p].goal \in Goals
           /\ command[p].todo \in {TResumed, TState, TEnd}
           /\ \A h \in Goals \ {command[p].goal} : goal'[h] = goal[h]
           /\ \/ goal'[command[p].goal] = command[p].seen
              \/ goal'[command[p].goal].status = "broken"
    BY <1>1, <2>1, GoalWrites
  <2>3. command[p].goal = g /\ command[p].seen.status = "COMPLETED"
    BY <1>1, <2>2
  <2>4. Promise(command[p])
    BY <1>1, <2>2, CommandFacts
  <2>5. command[p].todo = TEnd
    BY <2>2, <2>3, <2>4 DEF Promise
  <2> QED BY <2>3, <2>4, <2>5 DEF Promise, Earned
<1>2. GInv /\ [RunnerNext]_runnerVars =>
        [\A g \in Goals :
           /\ goal'[g].status = "COMPLETED" /\ goal[g].status # "COMPLETED"
           /\ "overlap" \notin disturbed
           => validation[g].evidence /\ (goal[g].gates => validation[g].gates = "passed")]_runnerVars
  BY <1>1
<1> QED BY <1>2, RunnerInvariance, PTL DEF RunnerSpec, CompletionIsEarned

-----------------------------------------------------------------------------
(* The six components *)

\* The six components keep their types side by side, for every value of the constants.
THEOREM OperationsTypeCorrect == OperationsSpec => []OperationsTypeOK
<1>1. RunnerTypeOK /\ FileWorkerTypeOK /\ QueueTypeOK /\ DeskTypeOK /\ ConnectionsTypeOK /\ AdapterTypeOK
        => OperationsTypeOK
  BY DEF OperationsTypeOK
<1> QED BY <1>1, RunnerTypeCorrect, FilesTypeCorrect, QueueTypeCorrect, DeskTypeCorrect,
           ConnectionsTypeCorrect, AdapterTypeCorrect, PTL DEF OperationsSpec
=============================================================================
