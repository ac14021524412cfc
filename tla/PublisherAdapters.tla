-------------------------- MODULE PublisherAdapters --------------------------
(***************************************************************************)
(* One publish() call of an adapter (lib/publishers): a series of requests *)
(* to the network, each answered, refused or left without an answer, and   *)
(* the verdict the caller gets.  Only the last request of a series makes   *)
(* the post visible; the network may have done so whatever the answer.     *)
(***************************************************************************)
EXTENDS Naturals, Sequences

CONSTANT MaxPolls   \* status checks of a container before the adapter gives up
ASSUME PollsAssumption == MaxPolls \in Nat \ {0}

VARIABLES
  call,    \* [format, todo, polls, again]: requests still to be made
  posts,   \* external: posts the call has put on the network
  answer,  \* the last answer
  verdict  \* what publish() ended in, "none" before

adapterVars == <<call, posts, answer, verdict>>

Formats == {"INSTAGRAM_FEED", "INSTAGRAM_STORY", "FACEBOOK_FEED", "FACEBOOK_STORY_IMAGE",
            "FACEBOOK_STORY_VIDEO", "FACEBOOK_REEL", "YOUTUBE"}
Verdicts == {"none", "success", "ambiguous", "retryable_failure", "terminal_failure"}

\* "no_id" is a success without an id or an upload address; "rate_limited" is a 429; "code_1"
\* and "server_error" do not say what the network did; "not_ready" is Instagram's 9007;
\* "lost" is a request, or the reading of its answer, that throws.
Answers == {"ok", "no_id", "rejected", "rate_limited", "not_ready", "code_1", "server_error", "lost"}

\* The requests of each format, in order
InstagramFeed == <<"identity", "container", "wait", "publish">>
InstagramStory == <<"container", "wait", "publish">>
FacebookFeed == <<"post">>
FacebookStory(media) == IF media = "VIDEO" THEN <<"session", "upload", "finish">> ELSE <<"photo", "story">>
FacebookReel == <<"session", "upload", "finish">>
YouTubeVideo == <<"media", "session", "video">>

RequestsOf(format) ==
  CASE format = "INSTAGRAM_FEED"       -> InstagramFeed
    [] format = "INSTAGRAM_STORY"      -> InstagramStory
    [] format = "FACEBOOK_FEED"        -> FacebookFeed
    [] format = "FACEBOOK_STORY_IMAGE" -> FacebookStory("IMAGE")
    [] format = "FACEBOOK_STORY_VIDEO" -> FacebookStory("VIDEO")
    [] format = "FACEBOOK_REEL"        -> FacebookReel
    [] format = "YOUTUBE"              -> YouTubeVideo

Step == Head(call.todo)
Publishes(step) == step \in {"publish", "post", "finish", "story", "video"}

AdapterTypeOK ==
  /\ call.format \in Formats /\ call.polls \in 0..MaxPolls /\ call.again \in BOOLEAN
  /\ verdict = "none" => call.todo # <<>>
  /\ posts \in Nat /\ answer \in Answers \union {"none"} /\ verdict \in Verdicts

-----------------------------------------------------------------------------
(* What an answer that is not "ok" ends in *)

\* Fault: an error of the server is worth another attempt.
MetaVerdictRetrying(a) ==
  IF a \in {"rate_limited", "server_error"} THEN "retryable_failure"
  ELSE IF a = "code_1" THEN "ambiguous" ELSE "terminal_failure"

\* ProviderError as both Meta adapters make it, and as adaptPublisher reads it
MetaVerdict(a) ==
  CASE a \in {"code_1", "server_error"} -> "ambiguous"
    [] a = "rate_limited"               -> "retryable_failure"
    [] OTHER                   -> "terminal_failure"

\* A plain Error, whatever the answer; a publication without an id is a success.
InstagramFeedVerdict(step, a) ==
  IF step = "publish" /\ a = "no_id" THEN "success" ELSE "terminal_failure"

\* The hosted upload looks at the status only.
HostedUploadVerdict(a) == IF a = "code_1" THEN "terminal_failure" ELSE MetaVerdict(a)

\* Stories and reels without a post id are named after their video or photo.
FacebookVerdict(step, a) ==
  CASE step = "upload"                            -> HostedUploadVerdict(a)
    [] step \in {"finish", "story"} /\ a = "no_id" -> "success"
    [] OTHER                                      -> MetaVerdict(a)

\* A media file that cannot be fetched is never ambiguous.
MediaVerdict(a) == IF a = "rate_limited" THEN "retryable_failure" ELSE "terminal_failure"

YouTubeVerdict(step, a) ==
  CASE step = "media"          -> MediaVerdict(a)
    [] a \in {"no_id", "server_error"}  -> "ambiguous"
    [] a = "rate_limited"               -> "retryable_failure"
    [] OTHER                   -> "terminal_failure"

VerdictOn(step, a) ==
  CASE call.format = "INSTAGRAM_FEED"  -> InstagramFeedVerdict(step, a)
    [] call.format = "INSTAGRAM_STORY" -> MetaVerdict(a)
    [] call.format = "YOUTUBE"         -> YouTubeVerdict(step, a)
    [] OTHER                           -> FacebookVerdict(step, a)

-----------------------------------------------------------------------------
(* The call *)

\* The 9007 guard of both Instagram formats: the container is waited for once more.
MayPublishAgain(step, a) == step = "publish" /\ a = "not_ready" /\ ~call.again

\* External: the network answers, and has put up a post or not.
NetworkAnswers(step, a) ==
  /\ a = "not_ready" => step = "publish"
  /\ a = "code_1" => call.format # "YOUTUBE"
  /\ step \in {"upload", "media"} => a # "no_id"
  /\ posts' \in IF ~Publishes(step) \/ a \in {"rejected", "rate_limited", "not_ready"} THEN {posts}
                ELSE IF a = "ok" THEN {posts + 1} ELSE {posts, posts + 1}

End(v) == verdict' = v /\ call' = [call EXCEPT !.todo = <<>>]

Request(a) ==
  /\ verdict = "none" /\ Step # "wait"
  /\ NetworkAnswers(Step, a)
  /\ answer' = a
  /\ IF MayPublishAgain(Step, a)
       THEN call' = [call EXCEPT !.todo = <<"wait", "publish">>, !.again = TRUE, !.polls = 0]
            /\ UNCHANGED verdict
     ELSE IF a # "ok" THEN End(VerdictOn(Step, a))
     ELSE IF Len(call.todo) = 1 THEN End("success")
     ELSE call' = [call EXCEPT !.todo = Tail(@)] /\ UNCHANGED verdict

\* waitForInstagramContainerReady: the status is asked for until the container is
\* finished; an error, an expired container, a deadline that has passed or a last
\* attempt end the call.
PollContainer ==
  /\ verdict = "none" /\ Step = "wait"
  /\ \/ call' = [call EXCEPT !.todo = Tail(@)] /\ UNCHANGED verdict
     \/ call.polls < MaxPolls /\ call' = [call EXCEPT !.polls = @ + 1] /\ UNCHANGED verdict
     \/ End("terminal_failure")
  /\ UNCHANGED <<posts, answer>>

\* The input lacks what the format needs: no request is made.  The feeds ask nothing of it.
RefuseInput ==
  /\ verdict = "none" /\ answer = "none"
  /\ call.format \notin {"INSTAGRAM_FEED", "FACEBOOK_FEED"}
  /\ call.todo = RequestsOf(call.format)
  /\ End("terminal_failure")
  /\ UNCHANGED <<posts, answer>>

AdapterInit ==
  /\ call \in {[format |-> f, todo |-> RequestsOf(f), polls |-> 0, again |-> FALSE] : f \in Formats}
  /\ posts = 0 /\ answer = "none" /\ verdict = "none"

AdapterNext == (\E a \in Answers : Request(a)) \/ PollContainer \/ RefuseInput

AdapterSpec == AdapterInit /\ [][AdapterNext]_adapterVars

-----------------------------------------------------------------------------
(* Properties *)

OnePostPerCall == posts <= 1
\* The cron publisher repeats the call by itself on this verdict only.
RetriesAreSafe == verdict = "retryable_failure" => posts = 0
\* A post may be up behind a failure only where the last answer did not tell: the call
\* threw, the answer had no id, or Instagram's feed took an error as a refusal.
FailuresAreTold ==
  verdict = "terminal_failure" /\ posts > 0 =>
    answer \in {"lost", "no_id"} \/ (call.format = "INSTAGRAM_FEED" /\ answer \in {"code_1", "server_error"})
SuccessIsReal == verdict = "success" => posts = 1 \/ answer = "no_id"

\* publishers/*.ts and adaptPublisher, on which claiming, retrying and reconciliation
\* rely: a call puts up one post at most, though Instagram's publication may be
\* repeated; the verdict that is retried means there is none; and a failure hides a
\* post only where no adapter can know.
CallIsHonest == OnePostPerCall /\ RetriesAreSafe /\ FailuresAreTold /\ SuccessIsReal
=============================================================================
