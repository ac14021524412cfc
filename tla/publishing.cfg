SPECIFICATION MCSpec
CONSTANTS
  d1 = d1
  s1 = s1
  s2 = s2
  i1 = i1
  r1 = r1
  c1 = c1
  c2 = c2
  b1 = b1
  b2 = b2
  p1 = p1
  p2 = p2
  v1 = v1
  Drafts = {d1}
  ScheduledJobs = {s1}
  ImmediateJobs = {i1}
  DraftOf <- OneDraft
  DueAt <- Times
  Runs = {r1}
  Clicks = {c1, c2}
  Bookings = {b1, b2}
  People = {p1, p2}
  Pages = {v1}
  MaxVersion = 1
  Focus = {"cron", "people", "clicks", "pages"}
  NoToken = NoToken
  NoJob = NoJob
  MaxAttempts = 2
  BatchLimit = 2
  TrialLimit = 2
  Lease = 0
  MaxTime = 0
INVARIANTS
  PublishingTypeOK
  PublishedDraftIsBacked
  RecordsAreReal
PROPERTIES
  LifecycleSpec
  ResultMonotone
  PublishedStaysShown
  ReadyIsNotLive
CHECK_DEADLOCK FALSE
