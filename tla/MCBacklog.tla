------------------------------ MODULE MCBacklog ------------------------------
EXTENDS CronBacklog, TLC
CONSTANTS d1, d2, d3, s1, s2, s3, r1, r2

\* Each job on a draft of its own; the first two are due at the same time.
DraftsOfJobs == [j \in ScheduledJobs |-> CASE j = s1 -> d1 [] j = s2 -> d2 [] j = s3 -> d3]
Times == [j \in ScheduledJobs |-> IF j = s3 THEN 1 ELSE 0]
=============================================================================
