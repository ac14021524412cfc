# HeptaCore: TLA+ models, checks and proofs

HeptaCore prepares social media posts for its tenants, has them reviewed, and publishes them to
Facebook and Instagram, at once or at a booked time. A post that has left cannot be taken back, and
the code runs in short-lived serverless functions that overlap, are delivered twice and are killed.
This directory models the parts of the program that keep state, model-checks them with TLC and proves
the most important of them with TLAPS.

Paths below are relative to the repository, mostly to `apps/web`; `route.ts` alone is
`app/api/cron/publisher/route.ts`, `publish/route.ts` is `app/api/publishing/publish/route.ts`, and the
executor is `lib/publishing-cron-executor.ts`. Which lines each definition stands for is in the "map" of
`PROJECT.json`.

## 1. The system

| component | state it keeps | operations | talks to |
|---|---|---|---|
| publishing store (`schema.prisma`: ContentDraft, PublishingJob, PublishingResult) | status and external id of a draft; status, attempts, claim columns of a job; the result of a job | conditional updates, transactions | everything about publishing |
| cron publisher and executor | a snapshot of the batch it listed, a claim token per job | list, claim, reclaim, check, mark the attempt, call, record | store, adapters; invoked by the platform 24 times a day |
| publish route | what a request has read | immediate: claim the draft, create the job, call, finalize; scheduled: create the job | store, adapters |
| finalization and reconciliation | none | commit a confirmed post, record a failure, repair draft and job from a result | store |
| draft workflow routes | what a request has read | approve, reject, edit, replace assets, replace a file | drafts |
| publisher adapters | the requests of one call | series of requests to a network, an outcome | networks |
| email delivery and webhook | EmailDelivery and EmailWebhookEvent rows | create and send once, apply reports | mail provider |
| roles and access | none | permission, lifecycle and role decisions | tenant and membership rows |
| tenant administration, invitations, registration | tenant status, memberships, invitations, accounts | lifecycle, members, invite, resend, revoke, register, accept | mail delivery |
| password reset | reset tokens | issue, consume | accounts, mail delivery |
| asset library | asset rows and stored files | upload, finalize, derive, replace, delete | blob storage, drafts |
| browser uploads (`dashboard-console.tsx`, `lib/asset-upload.ts`) | the upload queue of a page | upload, finalize with retries, look up, retry, replace | blob storage, asset library |
| account connections | accounts, connections, encrypted credentials | OAuth callbacks, bootstrap, select, resolve | networks; read by both publishers |
| strategy, campaigns and settings, LLM calls | settings document, campaign, project, usage entries | save, generate, decide, update | model providers |
| queue worker (`apps/worker/src/queue`) | jobs of an external queue | mock publication, campaign proposals, retries | drafts |
| file worker (`apps/worker/src`) | `publication-queue.json` | load, publish entries of a date, save | networks |
| goal runner (`scripts/goal-runner`) | goal, validation, lock and index files | create, activate, pause, block, complete, abort, doctor | git worktree |
| dashboard views, other tooling, legacy helpers | none | reading; decisions without state | store |

What makes each of them correct:

- **cron publisher**: a job is posted at most once whatever overlaps or dies; nothing posted is sent
  again; attempts are bounded; what is recorded is true; what is due is worked off.
- **publish route**: of racing requests one publishes; an unknown outcome blocks the draft; a booking
  does not disturb a job that exists.
- **finalization**: draft, job and result agree; a recorded post id is never lost nor replaced.
- **draft workflow**: what is published is what was approved.
- **adapters**: one call puts up one post at most, and the verdict that is retried means there is none.
- **email**: a mail goes out again only where calls overlapped or stopped unrecorded; each report is applied
  once and no status is invented.
- **tenants and invitations**: nobody holds a role nobody gave; a withdrawn invitation admits nobody.
- **password reset**: a link is used once; no account loses its password.
- **assets and uploads**: a stored file has one row, is not uploaded twice, and every upload ends.
- **connections**: a token is used for the page it was given for.
- **strategy desk**: settings stay as they were asked for; a call is charged once, and the usage report shows it.
- **workers**: what was sent is not sent again; the worker schedules a draft no more often than it was approved or given back.
- **goal runner**: terminal goals stay, completion is earned, and a healthy verdict can be relied on.
- **views**: a draft shown as published stays so, and what is offered for publishing is not live.

What is hard. Invocations and requests overlap; each works with what it read earlier, because a check and
the write it justifies are two statements, or a read inside a transaction at read committed; each can be
killed between any two steps and around a call to the outside; the outside may have done its part although
the answer is lost, and reports back late, twice and out of order; claims expire under a live owner; people
approve, edit, remove, revoke and check out branches meanwhile. The list of hazards, line by line, is in
`PROJECT.json`; section 5 names those no property covers.

## 2. Modules

| module | models | state |
|---|---|---|
| `PublishingStore` | the three tables, the networks' posts, the clock | `draft`, `job`, `result`, `degraded`, `posts`, `now` |
| `CronPublisher` | `route.ts` and the executor | `run`: control point, snapshot, job in hand |
| `JobLifecycle` | what is promised for one scheduled job (abstract) | `phase`, `tries` |
| `PublishRoute` | `publish/route.ts` with finalization | `click`, `booking` |
| `DraftWorkflow` | approve, reject, edit, assets, file | `content`, `approved`, `visit` |
| `DraftView` | what the queue, the calendar and the snapshot say of drafts | `page` |
| `Publishing` | all of the above but `JobLifecycle` over one store | the union |
| `CronBacklog` | hourly invocations for ever, with fairness | as `CronPublisher` |
| `PublisherAdapters` | one `publish()` call of each format | `call`, `posts`, `answer`, `verdict` |
| `TenantAccess` | the access decisions, as operators | none |
| `AccountStore` | the User table | `account` |
| `TenantAdmin` | tenant, members, invitations, registration | `tenant`, `member`, `invite`, `grants`, `req` |
| `PasswordReset` | reset requests and links | `token`, `issuer`, `resetter`, `uses` |
| `EmailDelivery` | sending, and the provider's webhook | `delivery`, `caller`, `message`, `report`, `seen`, `handler`, `applied`, `disturbed` |
| `Accounts` | the last three over one account table | the union |
| `AssetLibrary` | `asset-service.ts`: rows and blobs | `blobs`, `minted`, `asset`, `linked`, `request` |
| `AssetUploads` | browser, completion calls, library | the above, `item`, `callback` |
| `Connections` | connecting pages, resolving credentials | `social`, `connection`, `vault`, `secret`, `connector`, `renamed` |
| `StrategyDesk` | settings, generation and usage, campaigns, projects | `settings`, `typed`, `campaign`, `projects`, `desk`, `paid`, `logged`, `charged`, `lost`, `collided` |
| `QueueWorker` | queue jobs, retried and redelivered | `draftRow`, `queueJob`, `proposals`, `reviewed`, `taken`, `approvals`, `givenBack`, `writes`, `stalled` |
| `FileWorker` | runs over the queue file | `queueFile`, `workerRun`, `sent` |
| `GoalRunner` | the runner's commands, file by file, and `doctor` | `goal`, `validation`, `lock`, `index`, `branch`, `command`, `disturbed` |
| `Operations` | the six components above, `PublisherAdapters` included, that share no state | the union |
| `CronPublisherProofs`, `PublishRouteProofs`, `PublishingProofs`, `AccountsProofs`, `AssetUploadsProofs`, `ConnectionsProofs`, `StrategyDeskProofs`, `OperationsProofs` | theorems and proofs | |
| `MCRaces`, `MCPublishing`, `MCBacklog`, `MCAccounts`, `MCContent`, `MCOperations` | instances for TLC | a `focus` |

`CronPublisher`, `PublishRoute`, `DraftWorkflow` and `DraftView` extend `PublishingStore`; `Publishing` extends
the four and interleaves their steps; `CronBacklog` extends `CronPublisher`. `CronPublisher` instantiates
`JobLifecycle` under a refinement mapping. `TenantAdmin` extends `TenantAccess` and `AccountStore`,
`PasswordReset` extends `AccountStore`, and `Accounts` interleaves the two; mail delivery, which it extends too,
keeps rows of its own. `AssetUploads` extends `AssetLibrary`. The components of `Operations` share no state:
`OperationsSpec` is the conjunction of their specifications.

### Actions and code

One action is one database statement or transaction, one file operation or one call to the outside; what
the code computes between two of them is in the guards. Each process is a record with a control point and
what it has read. A refused request changes nothing and is no step.

- Cron: `StartRun` lists the batch (`listCandidates`, oldest first, up to `BatchLimit`). `Claim` is
  `claimScheduled` or `reclaimExpiredPreProvider`, chosen by the snapshot; `LoseClaim` and
  `FlagAttempted` are the other two ends of that decision. `LoadContext` evaluates the attempt limit and
  every check of `processJob` in the order of the code (`Verdict`); `CloseWithoutProvider` is the block or
  reconciliation it decided (`CheckReconcile` the looks of the latter, `Reconcile` its writes). `StartAttempt` is
  `markProviderAttemptStarted`. `CallProvider`, `CheckFinalize` and `FinalizeSuccess` (the look and the writes of
  `finalizeSuccess`), `MarkReconciliation` and `RecordFailure` follow. `EndRun` stands for the end of the
  batch, the time budget and the platform killing the function: it may happen anywhere.
- Publish route: `ClickRead`, `ClickGate`, `ClickLookup`, `ClickClaim`, `ClickCreateJob` (or
  `ClickRollback`), `ClickCall` are the immediate mode in the order of the code. A success is recorded by
  `ClickCheck` (what `finalizeConfirmedPublicationTx` looks at) and `ClickFinalize` (what it then writes), a failure by
  `ClickLook` and then `ClickFail`, or `ClickFailElsewhere` and `ClickFailed` when the draft is not SCHEDULED: the
  writes of `recordUnconfirmedProviderFailure` ask nothing of the rows. `RowFree` is the lock on the result row
  between a transaction's first write and its end. `ClickCutOff` may end a request anywhere. `BookRead` and `Book` are the scheduled mode.
- Workflow: `Open` is the read and `Approve`, `Edit`, `ReplaceAssets`, `DemoteAfterReplace` the writes;
  `Reject` and `ReplaceFile` write without depending on an earlier read.
- Views: `LoadPage` is the statement that reads the drafts, `ShowPage` the one that reads jobs and results,
  with what the page derives from both; in between anything may happen. `OperationalState` is
  `projectDraftOperationalState`, `Eligibility` `isDraftActuallyPublishable`, and `QueueEntry`,
  `CalendarEntry` and `SnapshotEntry` what each list passes to them.
- Adapters: `RequestsOf` is the series of requests of a format, `Request` one of them with its answer,
  `PollContainer` the wait of Instagram, `MayPublishAgain` the one repetition after error 9007, and the
  `...Verdict` operators what the code makes of each answer.
- Tenant administration: every operation is a `Begin...` (its reads and refusals) and a `Commit...` (its
  writes), because the transactions run at read committed; a write to a row that has gone, or a second row
  under a unique key, makes the commit impossible and only `Rollback` is left. A P2034 retry is a rollback
  and a new `Begin`. Row ids are kept as far as somebody still refers to them.
- Password reset: `BeginIssue`/`CommitIssue` and `BeginReset`/`CommitReset`; the hash lies between the
  last two. A spent row stands for a later one (`Spent`), so the use of links is not bounded.
- Mail: `CreateRow`, `DisableRow`, `SendCall`, `RecordSent`, `RecordFailed` are `createAndSendEmail`;
  `WebhookRead` and `WebhookWrite` the transaction of the webhook, `Emit` the provider's report,
  `Forget` the end of its memory of a key, `Redeploy` a change of `EMAIL_PROVIDER`.
- Library: `FinalizeRead`/`FinalizeInsert`, `ReplaceRead`/`ReplaceCommit`/`RemoveOld`,
  `DeriveRead`/`DeriveCreate`, `UpdateRead`/`UpdateWrite`, `DeleteRead`/`DeleteRow`/`DeleteBlob`: rows and
  blobs share no transaction, and `Stop` may come between any two.
- Uploads: `ClientUpload` is `uploadOne`, `CallFinalize` and `GiveUpWaiting` the attempts of
  `resolveUploadedAssetAfterUpload`, `LookUp` and `LookUpAnswered` the requests of
  `waitForRegisteredAsset` and their answers, `Retry` the person;
  `Deliver` and `LoseCallback` are `onUploadCompleted` as the blob store makes it.
- Connections: `Finds` are the reads of the two callbacks and the bootstrap, `Commits` their transaction (`Named`:
  it writes the page's id only to an account it had not found by that id),
  `Resolves`, `TokenOf` and `TargetOf` what `credential-resolver.ts` and the Facebook adapter use.
- Strategy desk: each request is entered with what it read (`Begin...`) and then writes (`Save`,
  `CallModel`, `LogGeneration`, `Decide`, `UpdateStrategy`).
- Workers: `TakeJob`, `ReadJobDraft`, `PublishMock`, `WriteDraft` (or `ProposeCampaign`), `WriteAudit`,
  with `AttemptFails` anywhere; outside the worker `ReadForApproval` and `ApproveDraft`, `RejectDraft`, and `TakeDraft`,
  `GiveBackDraft` and `PublishDraft` of the publishing routes; `LoadQueue`, `PublishEntry` or `SkipEntry`, `SaveQueue`, with
  `CutOffWorker` anywhere.
- Goal runner: a command begins with its reads and a list of the file operations it will make (`todo`);
  `CheckLock`, `CreateLock`, `WriteState`, ... carry them out one at a time, `CutOff` may end it anywhere and
  tear the file it writes (`TornState`, `TornLock`, `TornValidation`, `TornIndex`), `Checkout` changes the branch under it. `Unlocked`, `Unreadable`, `Mismatched`
  and `DoctorErrors` are `doctor`.

### Abstractions

- One tenant and one network where statements never touch the rows of another. Structural checks that read
  other tables (account, scopes, format, asset, credential, tenant) are a nondeterministic outcome, `gate`
  and `tenantOk`; so every outcome is possible for every job at every time.
- For the cron publisher and the route, a provider call has one of the four outcomes `route.ts` knows. A
  success means the post is live, a 429 that it is not; ambiguous and terminal outcomes leave both open.
  `PublisherAdapters` shows why: `CallIsHonest` says which answers can hide a post.
- A post id is the job and the process that called the provider for it. A result row with `ok` false matters only
  if it has a post id from before: those are in `degraded`, the others are left out. The second spelling of an immediate id, `pj_<draft>_<network>`, is looked
  up by the route but created by no code, so no row has it.
- An invocation draws a fresh claim token for each job and handles a job once, so the run itself stands
  for the token.
- A transaction is atomic where nothing another one writes meanwhile can change its outcome; elsewhere it is
  split at its reads (READ COMMITTED), and its writes take effect at its end, the locks they take before. The read and the update in `markProviderAttemptStarted` are one step: only the holder of the claim
  writes `attempts`, and the update is conditional on the claim.
- `reconcileDraftFromResultTx` also clears `scheduledFor`. In the model the due time of a job is fixed, so
  a reconciled job may be listed once more than in the code.
- The content of a draft is a version number, `approved` the version the approver had read. The content of
  a file, a form or a mail is its identity: a storage key, a field value, an idempotency key.
- A page reads jobs together with their results, in one step. Whether a draft is `doubtful` (it wants a review,
  or its risk is not low) is free. The calendar query (`lib/dashboard.ts` 468 to 495) selects neither the due
  time of a job nor the risk, so a SCHEDULED draft never comes up SCHEDULED there, and one that is a mere draft
  comes up REVIEW_REQUIRED; the model has it so.
- The limit on spending is counted in calls (`limit`): prices and prompts are data.
- Several administrators are one question, whether somebody is allowed (`SomeoneAllowed`): an operation
  records nothing about who asked but its audit entry.
- Operators marked `Fault` in a comment are variants a plausible mistake would give (a dropped condition,
  a forgotten reset). No specification uses them; they serve to see each property fail.

## 3. Checks

Runs that share an instance are put in one state space with a variable `focus`, chosen at the start, that
says which of the questions the behaviour is about; what is out of focus keeps its initial state.

| run | instance | shows |
|---|---|---|
| `races` | focus `runs`: 3 invocations, 1 job, 2 tries, clock 0..3; `jobs`: 2 invocations at a time, 2 jobs of one draft; `clicks`: 3 clicks and 1 booking | `OnePostPerScheduledJob`, `ClaimableIsUnpublished`, `AttemptIsExclusive`; `LInv`, the invariant of the proofs; `ImmediateIsExclusive`, `ImmediateRecordsAgree`, `UnresolvedKeepsDraftClaimed`, `UnresolvedImmediateIsBlocked` |
| `publishing` | 1 draft, 2 people; `cron`: 1 invocation, 1 click, 2 bookings, 1 person; `people`: 1 invocation, 1 click, 1 booking; `clicks`: 2 clicks, 1 booking; `pages`: 1 invocation, 1 click, 1 booking, 1 person, 1 page | jobs keep their lifecycle (`LifecycleSpec`), `PublishedDraftIsBacked`, `RecordsAreReal`, `ResultMonotone`, whatever people do to the draft meanwhile and whichever record comes late; `PublishedStaysShown`, `ReadyIsNotLive` of a page loaded again and again |
| `backlog` | 3 drafts, 3 jobs of two times, batch 1, trial 2, each hour delivered once or twice, for ever | `ReachableJobsAreWorkedOff` |
| `accounts` | `admin`: 2 requests, 2 people, one of them named by requests; `joint`: 1 request, 1 issue, 1 use of a link; `resets`: 2 issues, 2 uses, 3 tokens; `mail`: 1 key, 2 callers, 2 webhook requests, 2 reports | `HeldRolesWereGranted`, `OnlyStandingInvitationsAdmit`, `PasswordsAreKept`, `LinksAreOfConcurrentRequests`, `ReuseNeedsOverlap`, `SecondMailNeedsOverlap`, `ReportsAreFaithful` |
| `content` | 3 keys, 2 rows, 2 requests; `library`; `uploads`: 1 browser item, 2 attempts, 2 look-ups, 1 retry; `replacing`: uploads of new files for rows | `OneAssetPerFile`, `RetryKeepsFile`, `UploadsEnd` |
| `operations` | six components that share nothing: `branches`, `gates`, `overlap` (goal runner), `files`, `queue`, `settings`, `calls`, `decisions` (strategy desk), `connections`, `adapters` | `DoctorIsReliable`, `TerminalIsFinal`, `CompletionIsEarned`, `RepeatsNeedHindrance`, `SchedulingNeedsApproval`, `SettingsAreKept`, `UsageIsReported`, `TokenFitsAccount`, `CallIsHonest` |

Each run also checks the type invariant of its modules (in `races` it is part of `LInv`).

### Bounds, and why they are enough

- Three invocations are one that holds the claim, one that takes it over and one that listed the job
  before either; two tries let an attempt fail, retry and run into the limit. `Lease` is 0 ticks, so a
  claim expires at the next tick, and the clock bound lets it expire under each of the runs. Two jobs of
  the same draft let the outcome of one change what the other reads. In `publishing` the clock stands
  still: what depends on it is in `races`.
- Three clicks are the winner, one with an old lookup, one late. Two people are a stale reader and the one
  who overtakes it, and two bookings one that finds the job of the other; one content change is enough to make a version stale. One page is enough: pages do not
  see each other. It reads before and after any step of the others, and the content of a draft, which no list
  derives anything from, stays as it is beside it.
- In `backlog`, two invocations of one hour are a delivery and its duplicate. A batch of one lets the jobs that wait
  for a person crowd out the others, of the same time and of a later one; a trial of two publications lets it end
  before the last of the three jobs.
- Two administration requests are a stale reader and the one that overtakes it, each running any number
  of operations one after another; three row ids are the row there is and one for each request that still
  refers to an older one. Two people are the one the requests are about and another who signs in with the
  wrong link: in `joint` a member of the tenant or not, in `admin` never one. In `joint` only one request of
  each kind is under way: it asks what one does to the other.
- Three reset tokens are two that are checked and one being issued, and a spent row is used again.
- One mail key with two callers and two handlers: rows of different keys share nothing. The key may be forgotten
  at any time, so the second call may put up a second mail. Two reports are an earlier and a later one, of either
  mail, each delivered any number of times.
- Two library requests race for one file or row; three keys are the file of a row, the one replacing it
  and one uploaded at the same time; in `uploads`, two keys are the first upload and its repetition.
- Two goals, two branches and two commands are what it takes for a lock to be stale for one and valid for
  the other. `branches` runs one command at a time (with cut-offs and checkouts) and calls the goal that is
  never created on the second branch `g1`, which the names allow; nothing is blocked there, since a block is a pause
  (it is in `gates`). `overlap` runs two, none of them cut off, on one branch and without evidence. Each file may be torn in the
  first two.
- Two entries of two dates and two worker runs; after a hindrance the file worker's run is not followed any
  further, since repeated posts are expected then. Two queue jobs with three tries (`defaultJobOpts`), on a draft
  that is approved twice or approved and given back once. Two listed usage entries stand for the 500 of the code, and
  three may be written.
- Two accounts, two pages, two connectors, two credentials and two secrets: a connection that changes its
  page, its account and its secret once. One of the accounts may be an old row without a page id. Two status polls stand for the twelve of the code.

The permutations of invocations and clicks, of requests for administration or a reset, of runner commands and
of connectors are declared symmetries, only in runs without liveness. Runs that stop have no deadlock check, because every process has
a last step or runs into a bound of the model; `backlog` goes on for ever and is checked for deadlock.

### Fairness

`BacklogFairness`. Weak fairness of `Deliver` (an hour is delivered at least once), `NextHour` and the
end of each invocation: the platform keeps invoking, 24 times a day, and a function cannot run longer than
its limit. An invocation is omitted now and then (ADR `docs/operations/vercel-hobby-hourly-publisher.md`,
"Entrega best-effort"); omitting one is a longer wait. Duplicates may come or not: nothing is assumed
of them. Strong fairness per job of the claim, and of passing the gates and of marking the attempt or the
terminal block: `EndRun` may interrupt each of them any number of times, but not for ever at the same point,
and an account or asset out of order is mended in the end. The provider call needs no fairness: once the
attempt is marked the job is at rest, in the hands of the code that records or of a person. A trial that is used up
stays so, and nothing makes room in a batch that jobs waiting for a person fill: `ReachableJobsAreWorkedOff` exempts
both, and the run `starved_job` shows that without the second exemption the promise of the ADR fails.

`BrowserFairness`. Weak fairness of what the browser does by itself, its promises and timers: `CallFinalize`,
`GiveUpWaiting` and `LookUp`. Nothing is assumed of the server, the blob store or the person. The requests to
finalize have a time-out, those of `waitForRegisteredAsset` (`lib/asset-upload.ts` 80 to 84) have none, so the answer
to a look-up (`LookUpAnswered`) has no fairness, and `UploadsEnd` says: unless it waits for ever for one look-up, an
upload that has begun ends.

### Where the code and its documents differ

Each is a run that expects a counterexample.

| run | what TLC finds |
|---|---|
| `duplicate_invocation` | a second delivery with an old snapshot takes a job from PUBLISHED back to IN_REVIEW: `markReconciliation` has no condition on the status and the token survives the finalization |
| `lost_answer` | an error thrown after the provider accepted the post is recorded as FAILED |
| `ambiguous_then_booking` | a booking that had read the draft earlier has it published automatically while the outcome of a click is unknown |
| `late_failure` | two clicks share an immediate job after a second approval; the one that failed looks for a success before the other finalizes, and then writes `ok` false and FAILED over it |
| `starved_job` | a job that waits for a person fills the oldest-first batch of every hour, and the one behind it is never listed |
| `unreviewed_content` | a replacement of assets that stops between its transaction and the demotion leaves content nobody approved, APPROVED |

Others were met while modelling and have no run of their own; the models reach them all, except the governance
policy, which they leave out:

- `password-reset-service.test.ts` 104 says a link is used once: two requests can check it before either has
  consumed it, and both set a password (`ReuseNeedsOverlap` says it takes that).
- `asset-service.ts` 707 compares the expected file only when there is one: a completion call repeated for a
  derivative takes the file the derivative has just got for its old one and removes it.
- `email-provider.test.ts` 582 says late reports do not degrade DELIVERED: two webhook requests that have both read
  SENT can, one after the other (`webhooks/resend/route.ts` 78 to 91).
- `campaigns/[id]/approve/route.ts` 34 lets only a proposed campaign be approved: the update is by id, after the read,
  and can overwrite a rejection.
- `jean-distributed-certification.md` 24 allows one ACTIVE goal: `createLock` takes for stale the lock of an activation
  that has not written its goal ACTIVE yet, and lets a second one in.
- `S-HC-AI-01-LLM-SELECTION-COST-GOVERNANCE.md` 12 and 13 have usage tracking and the policy DONE: a paid answer that
  cannot be used becomes a fallback without usage (`llm-adapter.ts` 380), and no route consults the policy.

Beside these, the comment in `lib/trial.ts` line 4 says two free posts per network where the constant is
999999; nothing depends on the number here.

## 4. Proofs

All theorems hold for every value of the constants that satisfies the assumptions of the modules.

### Cron publisher

`CronPublisherProofs` proves for any sets of drafts, jobs and invocations, any limits and any clock:

    Invariance            CronSpec => []IInv
    TypeCorrect           CronSpec => []CronTypeOK
    AtMostOnePost         CronSpec => []OnePostPerScheduledJob
    AttemptsExclusive     CronSpec => []AttemptIsExclusive
    ClaimableUnpublished  CronSpec => []ClaimableIsUnpublished
    RecordsReal           CronSpec => []RecordsAreReal
    SuccessIsMonotone     CronSpec => ResultMonotone
    LifecycleInvariance   CronSpec => []LInv
    Refinement            CronSpec => LifecycleSpec

They rest on
`StoreAssumption`, which types the constants and keeps the kinds of ids apart.
TLC evaluates it, and `DeterministicIds`, in every run about publishing.

None of the safety properties is inductive. `AttemptIsExclusive` says what a run in its attempt holds, but
not why a run that is still checking cannot disturb it; and nothing in it speaks of snapshots, which can be
arbitrarily old. `IInv` adds

- `CurInv`: a run past its claim, and no other, has a scheduled job in hand;
- `RowInv`: what the columns of one job row say together: a SCHEDULED job is not marked as attempted, a
  marked job keeps a token, only IN_REVIEW and PUBLISHED jobs have one, a live job that is not marked has no
  post, and an ok result needs a mark;
- `AttemptInv`: a run in its attempt holds the claim of a job that is IN_REVIEW and marked, without a
  result, and without a post as long as the provider was not called or has refused;
- `PrepareInv`: a run that prepares a job may have lost it, but if it holds it nobody marked an attempt;
- `FreshInv`: nobody, neither a row nor a snapshot, has seen the token a run is going to claim a job with;
- `SnapInv`: a snapshot of a marked attempt names its token, and as long as the row has that token the
  attempt is still marked.

The proof that a step preserves `IInv` has one lemma per action. The key step is `StartAttempt`: the update
under the token and IN_REVIEW succeeds only if the claim was not taken over, and from then on `Reclaimable` is
false because the attempt is marked. For the refinement, `LInv` adds `TriesInv`: a job that may still be attempted has
a try left, although the limit is compared with the attempts of a snapshot that may be old. Each action is then a
stutter or one step of `JobLifecycle`; the mapping takes a job with an ok result as published (so the
regression of `duplicate_invocation` is a stutter: the status goes back, the success stays).

It follows from the theorems that the branch of `processJob` that reconciles a durable success
(executor lines 195 to 221) is not reached by invocations alone: a job with an ok result is never claimable.

### Publish route

`PublishRouteProofs` proves for any number of drafts, clicks and bookings:

    RouteInvariance     RouteSpec => []RInv
    RouteTypeCorrect    RouteSpec => []RouteTypeOK
    ClicksAreExclusive  RouteSpec => []ImmediateIsExclusive
    RecordsAgree        RouteSpec => []ImmediateRecordsAgree
    DraftStaysClaimed   RouteSpec => []UnresolvedKeepsDraftClaimed
    UnresolvedBlocked   RouteSpec => UnresolvedImmediateIsBlocked

A click owns its draft because the draft is SCHEDULED, and nothing in `ImmediateIsExclusive` says so.
`RInv` adds `InHandInv` (a request under way has a job of its own mode), `HoldInv` (a click in flight keeps
its draft claimed; before the job is created no attempt of it is open; after a success the post is there)
and `OpenInv` (the draft of an open immediate attempt is claimed, in flight or not). `OpenInv` is what makes
`ClickClaim` safe with an old lookup: a click that looked before the attempt was opened finds the draft
claimed until the attempt is resolved, and only the click that opened it, or its roll-back, resolves it.

### Publishing as a whole

`PublishingProofs` proves of `Spec`, in which invocations, clicks, bookings, people and pages interleave:

    PublishingInvariance                   Spec => []PInv
    PublishingTypeCorrect                  Spec => []PublishingTypeOK
    OnePostWhateverPeopleDo                Spec => []OnePostPerScheduledJob
    ClaimableUnpublishedWhateverPeopleDo   Spec => []ClaimableIsUnpublished
    AttemptsStayExclusive                  Spec => []AttemptIsExclusive
    AllRecordsReal                         Spec => []RecordsAreReal
    PublishedDraftsAreBacked               Spec => []PublishedDraftIsBacked
    ResultIdsStay                          Spec => ResultMonotone
    PublishingRefinement                   Spec => LifecycleSpec
    BadgesFit                              Spec => []BadgeFitsEligibility
    PublishedKeepsShown                    Spec => PublishedStaysShown
    ReadyHasNoLivePost                     Spec => ReadyIsNotLive

Besides `StoreAssumption` they use `WorkflowAssumption` (the bound on versions is a number). `PInv` starts from
`LInv`, the invariant of the cron publisher: what the others write to the tables must not disturb it. They write to
jobs of their own (`HandInv`: a request under way has a job of its own mode in hand, and of the transactions
that record answers one at a time has written the result row of a job; `NotWaitingInv`: an
immediate job never waits, so no invocation claims it) and create jobs where there is nothing (`NoneInv`: an id
that is not used has left no post or result behind). `RInv` is not part of it: that clicks exclude each other
is a theorem about the route, without people who approve the draft of a click again.

Every step of any actor obeys `TablesGrow`: posts stay, a job that exists is not erased, a post id on a result row
never changes and shows on the draft from the step that writes it, and the external id of a draft stays or is that
of a result row. None of this speaks of `ok`: a late failure record takes it away (`degraded`; `DegradedInv` says
that the job is then no longer PUBLISHED), so what is proved of a PUBLISHED draft is that its post is on record. From
`TablesGrow` follow `NoneInv`, `RecordedInv` and `BackedInv` once for all actors, instead of once for each, and `ShownInv`: what a page has read or shows as
published has a result by now. `PublishedStaysShown` needs the latter because a page may have read the draft
before the job that published it was taken back to IN_REVIEW. For `ReadyIsNotLive` a page that read the draft
as APPROVED says nothing about the draft now; the argument is about jobs: one with a live post is IN_REVIEW,
PUBLISHED or FAILED, and the first two show when the jobs are read.

### Accounts

`AccountsProofs` proves for any number of people, administration requests, invitation rows, reset links and
requests to issue or to use one, and of keys, callers, webhook requests and reports of the mail:

    AccountsInvariance   AccountsSpec => []Inv
    RolesWereGranted     AccountsSpec => []HeldRolesWereGranted
    StandingInvitations  AccountsSpec => OnlyStandingInvitationsAdmit
    PasswordsStay        AccountsSpec => PasswordsAreKept
    LinksConcurrent      AccountsSpec => []LinksAreOfConcurrentRequests
    ReuseOverlaps        AccountsSpec => []ReuseNeedsOverlap
    MailInvariance       MailSpec => []MInv
    SecondMails          MailSpec => []SecondMailNeedsOverlap
    FaithfulReports      MailSpec => []ReportsAreFaithful
    AccountsTypeCorrect  AccountsSpec /\ MailSpec => []AccountsTypeOK

`Inv` is `AInv /\ PInv`, over the account rows both parts write. In `AInv`, `ReqInv` says that a request
between its read and its write carries only a role that was granted to its person, and `InviteInv` that a
standing invitation offers a granted one: without both nothing keeps an old read from giving a role nobody
meant. In `PInv`, `UsesInv` says that a link that is not consumed was never used; `HandInv` types what the
requests hold. The number of working links is not inductive: `LinkInv` says, for every set of requests under
way, that the links these will leave working are of the other requests, so a request that revokes what it
has read can leave no more than the concurrent ones have added.

For the mail, `MInv` adds `MessageInv` (for a key whose calls have neither overlapped nor stopped before their
record: one mail at most, one call at a time at work, no mail before that call has asked the provider, and a mail
without a record only while the call that is to write it is at work), `ServedInv` (a
report being served is served by one handler and not on file yet: the unique key of EmailWebhookEvent) and
`AppliedInv` (a report is applied in the transaction that files it).

### Asset uploads

`AssetUploadsProofs` proves for any number of files, rows, requests, browser items and attempts:

    UploadInvariance  UploadSpec => []KeyInv
    OneRowPerFile     UploadSpec => []OneAssetPerFile
    UploadTypeCorrect UploadSpec => []ContentTypeOK
    RetriesKeepFiles  UploadSpec => RetryKeepsFile

That two rows never share a file depends on who may still write it. `OnePurpose` says so: a file is uploaded
either to be registered or to become that of one asset, never both, and whoever may still do the latter
(a callback on its way, a request between read and write) means the same row. `Aims` and `ItemAims` say that
what is under way refers to real rows and files. `FilesInv` says that a draft uses only assets there are and that
what a request carries to a second row came from a first. `RetryKeepsFile` is about an item whose url the browser
has received (without the url the file is uploaded again, stored or not). For it the answer that sends the browser
to upload again must be about its own file: `WaitInv` says that the one request an item waits for registers the
key of the item (a request whose answer came too late is nobody's), and `ItemsInv` that an item that has not begun
knows of no stored file.

### Connections

`ConnectionsProofs` proves for any number of pages, accounts, callbacks and bootstraps:

    ConnectionsInvariance  ConnectionsSpec => []CInv
    TokensFit              ConnectionsSpec => []TokenFitsAccount
    ConnectionsTypeCorrect ConnectionsSpec => []ConnectionsTypeOK

`FoundInv` says that what a callback found stays an account of its network, and that one it found by its page
keeps the page unless another callback, which had found none, replaces it (`renamed`): the branch of the exact
match does not write the page id, so nothing else would put it right. `LinkInv` says that a connection leads to a
credential given for the page of its account as long as the account keeps its page, also between another
callback's read and its transaction, and that a Facebook connection names the page of its credential. The type invariant is more than types: one row for a page of a network rests on the unique
key the commit runs into, whatever its read had found (`KInv`).

### Strategy desk

`StrategyDeskProofs` proves for any number of requests, providers and keys:

    DeskInvariance   DeskSpec => []DInv
    UsageReported    DeskSpec => []UsageIsReported
    SettingsKept     DeskSpec => []SettingsAreKept
    DeskTypeCorrect  DeskSpec => []DeskTypeOK

`Balance` counts: a paid call is charged, lost, or held by a request that is about to record it. `Calm`
holds until two requests meet: at most one is under way, and what it has read is still so. The assumption
is that there are finitely many requests at a time; `BoundsInv` counts with it: the projects, and
the requests that found none and will create one, are together no more than the requests at a time.

### Adapters, workers and goal runner

`OperationsProofs` proves of the remaining components of `Operations`, for any number of polls, jobs, entries,
runs, goals, branches and commands:

    CallInvariance         AdapterSpec => []CallInv
    CallsAreHonest         AdapterSpec => []CallIsHonest
    QueueInvariance        QueueSpec => []QInv
    ApprovalsAreNeeded     QueueSpec => []SchedulingNeedsApproval
    FileWorkerInvariance   FileWorkerSpec => []FInv
    NoRepeatUnhindered     FileWorkerSpec => []RepeatsNeedHindrance
    RunnerInvariance       RunnerSpec => []GInv
    DoctorReliable         RunnerSpec => []DoctorIsReliable
    TerminalFinal          RunnerSpec => TerminalIsFinal
    CompletionEarned       RunnerSpec => CompletionIsEarned
    OperationsTypeCorrect  OperationsSpec => []OperationsTypeOK

- `CallInv`: while there is no verdict nothing is posted, and what is left to ask for is a tail of a series that
  ends in its only publication.
- `QInv`: as long as one process works at a time, a draft that is APPROVED, or that a job has read as APPROVED and
  is about to write, has an approval or a giving back (the rollback of a click) that no write has used up yet.
- `FInv`: until runs overlap, one is cut off or an answer is unclear, an entry that was sent is `ready` in the queue
  that counts: the file while no run has loaded it, the copy of the run that has.
- `GInv` has two levels. `AloneInv` holds until two commands overlap: there is one at most, and what it has read
  and checked is still so (`Promise`); that is enough for `TerminalIsFinal` and `CompletionIsEarned`, also with
  commands cut off. `CalmInv` holds until anything disturbs the commands: between two of them lock, active goal
  and index agree (`Tidy`, `Right`), and in the middle of one `Settled` says for every rest of its plan what is
  in order already. `HealthyIsSound` needs none of it: it is about what `doctor` computes.

`RunnerAssumption` says that the value for no goal is none of the goals.

### Only model-checked

Liveness (`ReachableJobsAreWorkedOff`, `UploadsEnd`), which the proof system does not treat, nor ENABLED. All other
properties of the passing runs are theorems. Nothing in the modules is recursive, so no induction over data is
needed.

## 5. Not modelled, and plan

Left out on purpose:

- the exchanges of OAuth and the payloads of the adapters (their results are inputs here), the checks of a
  file's content, formatting, audit entries and lists;
- of the views, the counters and reports computed from the states (`lib/dashboard.ts`), and what the console
  changes in its own copy of a row after an answer (`dashboard-queue.ts`; the approve route answers
  READY_TO_PUBLISH, line 91, without deriving it): the next load replaces it. The administration pages show rows
  of other modules, and what the session and the landing page show is not modelled;
- creation and ordering of drafts, and an edit of the format that changes a draft's network;
- what `enforceGovernance` (`packages/core/src/llm-governance.ts`) would decide, since no route calls it, and prices;
- the dry-run rollback route (it accepts only external ids that no code writes), the reconciliation
  classifier (called by no route), the legacy claim, budget and revalidation helpers (called by tests);
- the queues that validate assets and test the mode (they write audit entries), `step-start`,
  `step-complete` and `finding-add` of the goal runner (notes nothing reads), seeds and reports.

Hazards met while modelling that no property covers, beside those with a note in `PROJECT.json`:

- `route.ts` 253: a draft rejected during an attempt is put back to SCHEDULED by a retryable failure.
- `publish/route.ts` 225: a draft that is SCHEDULED gets a second job for another time, and both may be posted.
- `publish/route.ts` 499: a request stops between claiming the draft and creating its job, and the draft is SCHEDULED
  for ever: a person can only reject it and approve it again.
- `tenant-admin-service.ts` 341: what read a tenant ACTIVE commits in a tenant suspended meanwhile.
- `asset-service.ts` 805: a draft takes an asset between the count of its uses and its deletion, or two requests each
  find no derivative and create one.
- `publish/route.ts` 574: an immediate job left IN_REVIEW has no due time and is listed by nobody.
- `route.ts` 236: a terminal block fails the job and leaves the draft SCHEDULED.
- `publish/route.ts` 421: the trial limit is read long before a publication is recorded.
- `asset-service.ts` 338: a completion call that comes late registers a deleted file anew; 471: metadata
  are written back as read.
- `api/oauth/instagram/callback` 245: the user id of an Instagram connection stays that of the first page.

The models reach those of publishing and of deletion (`RecordFailure`, `Book`, `ClickCutOff`, `CloseWithoutProvider`,
`ClickGate`, `DeleteRead`, `DeriveRead`) and that of Instagram (`LinkedInstagram`); what they should lead to is a decision of the product that
no text of the repository takes, so there is nothing to state yet.

Next, most important first: an abstract specification of an invitation (offered, then accepted or withdrawn,
once) that `TenantAdmin` implements; what remains of `RInv` with invocations and people beside the clicks; draft
creation and reordering as part of `DraftWorkflow`.

## 6. Running

    tlc -config races.cfg MCRaces
    tlc -config late_failure.cfg MCPublishing
    tlapm CronPublisherProofs.tla

A configuration belongs to the module `PROJECT.json` names. The longest runs, `operations`, `publishing`,
`backlog` and `accounts`, take two to four minutes with two workers, and each of the larger proof modules as long
from nothing.
