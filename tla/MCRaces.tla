------------------------------- MODULE MCRaces -------------------------------
(***************************************************************************)
(* Requests of one kind racing for one draft: three invocations for one    *)
(* job, two invocations for two jobs at most, or three clicks beside a     *)
(* booking.                                                                *)
(***************************************************************************)
EXTENDS CronPublisherProofs, PublishRoute, TLC
CONSTANTS d1, s1, s2, i1, r1, r2, r3, c1, c2, c3, b1, Focus
VARIABLE focus

mcVars == <<cronVars, click, booking, focus>>

OneDraft == [j \in JobIds |-> d1]
Times == [j \in ScheduledJobs |-> IF j = s1 THEN 0 ELSE 1]
RaceSymmetry == Permutations(Runs) \union Permutations(Clicks)

MCInit ==
  /\ focus \in Focus
  /\ CASE focus = "runs"   -> CronInitWith({s1})
       [] focus = "jobs"   -> CronInitWith(ScheduledJobs)
       [] focus = "clicks" -> RouteInit /\ run = [r \in Runs |-> NewRun("idle")]
  /\ focus # "clicks" => click = [c \in Clicks |-> NewClick("idle")]
                         /\ booking = [b \in Bookings |-> NewBooking("idle")]
MCNext ==
  /\ UNCHANGED focus
  /\ IF focus = "clicks" THEN RouteNext /\ UNCHANGED run
     ELSE CronNext /\ UNCHANGED <<click, booking>>
  /\ focus = "jobs" => now' <= 2 /\ \E r \in Runs : run'[r].pc = "idle"
  /\ focus = "clicks" => job'[s2] = NoRow
MCSpec == MCInit /\ [][MCNext]_mcVars
=============================================================================
