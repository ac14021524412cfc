SPECIFICATION MCSpec
CONSTANTS
  d1 = d1
  s1 = s1
  s2 = s2
  i1 = i1
  r1 = r1
  r2 = r2
  r3 = r3
  c1 = c1
  c2 = c2
  c3 = c3
  b1 = b1
  Drafts = {d1}
  ScheduledJobs = {s1, s2}
  ImmediateJobs = {i1}
  DraftOf <- OneDraft
  DueAt <- Times
  Runs = {r1, r2, r3}
  Clicks = {c1, c2, c3}
  Bookings = {b1}
  NoToken = NoToken
  NoJob = NoJob
  MaxAttempts = 2
  BatchLimit = 2
  TrialLimit = 1
  Lease = 0
  MaxTime = 3
  Focus = {"runs", "jobs", "clicks"}
INVARIANTS
  OnePostPerScheduledJob
  ClaimableIsUnpublished
  AttemptIsExclusive
  LInv
  ImmediateIsExclusive
  ImmediateRecordsAgree
  UnresolvedKeepsDraftClaimed
PROPERTIES
  UnresolvedImmediateIsBlocked
SYMMETRY RaceSymmetry
CHECK_DEADLOCK FALSE
