SPECIFICATION BacklogSpec
CONSTANTS
  d1 = d1
  d2 = d2
  d3 = d3
  s1 = s1
  s2 = s2
  s3 = s3
  r1 = r1
  r2 = r2
  Drafts = {d1, d2, d3}
  ScheduledJobs = {s1, s2, s3}
  ImmediateJobs = {}
  DraftOf <- DraftsOfJobs
  DueAt <- Times
  Runs = {r1, r2}
  Clicks = {}
  NoToken = NoToken
  NoJob = NoJob
  MaxAttempts = 2
  BatchLimit = 1
  TrialLimit = 2
  Lease = 0
  MaxTime = 1
PROPERTY
  ReachableJobsAreWorkedOff
