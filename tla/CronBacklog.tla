----------------------------- MODULE CronBacklog -----------------------------
(***************************************************************************)
(* The hourly schedule of the cron publisher, for ever.  The platform may  *)
(* deliver an hour's invocation more than once; whatever it starts is over *)
(* long before the next hour.  A lease lasts five minutes, so it has       *)
(* expired by then; only that matters of the time between two hours, and   *)
(* the claims of earlier hours are all dated 0.  An invocation may use the *)
(* token of an earlier hour: nobody has a snapshot of that hour any more,  *)
(* and it only acts on jobs it has claimed itself.                         *)
(***************************************************************************)
EXTENDS CronPublisher

Aged(row) == IF row.claimedAt = Never THEN row ELSE [row EXCEPT !.claimedAt = 0]

NextHour ==
  /\ \A r \in Runs : run[r].pc \in {"idle", "done"}
  /\ \E r \in Runs : run[r].pc = "done"
  /\ run' = [r \in Runs |-> NewRun("idle")]
  /\ job' = [j \in JobIds |-> Aged(job[j])]
  /\ UNCHANGED <<draft, result, degraded, posts, now>>

\* Every job is due and the clock is past the lease.
BacklogInit ==
  /\ draft = [d \in Drafts |-> [status |-> "SCHEDULED", ext |-> {}]]
  /\ job = [j \in JobIds |-> NewJob("SCHEDULED")]
  /\ result = [j \in JobIds |-> {}]
  /\ degraded = {}
  /\ posts = {}
  /\ now = MaxTime
  /\ run = [r \in Runs |-> NewRun("idle")]

\* An invocation lasts a minute (route.ts 14), a claim five: the clock stands still and
\* no claim expires under a live run, so none finds its job recorded by another.
BacklogNext == ((\E r \in Runs : RunStep(r)) /\ now' = now) \/ NextHour

\* Each hour is delivered once at least, and each invocation comes to an end
\* (WF).  Invocations are not for ever stopped at the same job before they handle
\* it, nor always between the checks and their conclusion, and accounts, assets
\* and credentials are not for ever out of order (SF).  A used-up trial stays so.
Deliver == (\A s \in Runs : run[s].pc = "idle") /\ \E r \in Runs : StartRun(r)
PassesGates(r) == ~TrialReached /\ LoadContext(r) /\ run'[r].pc # "block_retry"
BlocksForGood(r) == run[r].pc = "block_terminal" /\ CloseWithoutProvider(r)
BacklogFairness ==
  /\ WF_cronVars(Deliver)
  /\ WF_cronVars(NextHour)
  /\ \A r \in Runs : WF_cronVars(EndRun(r))
  /\ \A j \in ScheduledJobs : SF_cronVars(\E r \in Runs : Claim(r, j) \/ FlagAttempted(r, j))
  /\ SF_cronVars(\E r \in Runs : PassesGates(r))
  /\ SF_cronVars(\E r \in Runs : StartAttempt(r) \/ BlocksForGood(r))

BacklogSpec == BacklogInit /\ [][BacklogNext]_cronVars /\ BacklogFairness

-----------------------------------------------------------------------------
(* Properties *)

\* Published, failed, or attempted and in the hands of a person
WaitsForPerson(j) == job[j].status = "IN_REVIEW" /\ job[j].started
AtRest(j) == job[j].status \in {"PUBLISHED", "FAILED"} \/ WaitsForPerson(j)

\* vercel-hobby-hourly-publisher.md 51 "Cada invocación procesa todo job elegible con
\* `scheduledFor <= now`" and 52 "El sistema recupera backlog. Un job no se pierde":
\* in the end every due job is handled.
BacklogIsWorkedOff == \A j \in ScheduledJobs : <>[]AtRest(j)

\* Jobs that wait for a person stay due and are listed again every hour
\* (cron/publisher/route.ts 94-101): as many of them as a batch holds, none of them
\* younger, keep a job from being listed.
CrowdedOut(j) ==
  Cardinality({i \in Due \ {j} : DueAt[i] <= DueAt[j] /\ WaitsForPerson(i)}) >= BatchLimit

\* Whatever invocations are lost, doubled or stopped, in the end every due job is
\* handled unless the batch is full of jobs that wait for a person, or the trial of
\* the network is used up.
ReachableJobsAreWorkedOff ==
  \A j \in ScheduledJobs : <>[](AtRest(j) \/ CrowdedOut(j) \/ TrialReached)
=============================================================================
