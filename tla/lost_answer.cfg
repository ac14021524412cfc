SPECIFICATION MCSpec
CONSTANTS
  d1 = d1
  s1 = s1
  s2 = s2
  i1 = i1
  r1 = r1
  r2 = r2
  r3 = r3
  c1 = c1
  c2 = c2
  c3 = c3
  b1 = b1
  Drafts = {d1}
  ScheduledJobs = {s1, s2}
  ImmediateJobs = {i1}
  DraftOf <- OneDraft
  DueAt <- Times
  Runs = {r1}
  Clicks = {}
  Bookings = {b1}
  NoToken = NoToken
  NoJob = NoJob
  MaxAttempts = 2
  BatchLimit = 1
  TrialLimit = 2
  Lease = 0
  MaxTime = 0
  Focus = {"runs"}
INVARIANTS
  LiveJobIsNotFailed
CHECK_DEADLOCK FALSE
