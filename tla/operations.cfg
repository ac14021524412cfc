SPECIFICATION MCSpec
CONSTANTS
  g1 = g1
  g2 = g2
  b1 = b1
  b2 = b2
  p1 = p1
  p2 = p2
  e1 = e1
  e2 = e2
  d1 = d1
  d2 = d2
  w1 = w1
  w2 = w2
  n1 = n1
  j1 = j1
  j2 = j2
  v1 = v1
  k1 = k1
  k2 = k2
  r1 = r1
  r2 = r2
  f1 = f1
  f2 = f2
  a1 = a1
  a2 = a2
  c1 = c1
  c2 = c2
  Goals = {g1, g2}
  Branches = {b1, b2}
  Commands = {p1, p2}
  Entries = {e1, e2}
  Dates = {d1, d2}
  DateOf <- Of
  WorkerRuns = {w1, w2}
  MaxPosts = 2
  QueueDrafts = {n1}
  QueueJobs = {j1, j2}
  Tries = 3
  MaxApprovals = 2
  Providers = {v1}
  ApiKeys = {k1, k2}
  DeskRequests = {r1, r2}
  MaxCalls = 2
  MaxEntries = 3
  MaxListed = 2
  Pages = {f1, f2}
  EnvPage = f1
  AccountIds = {a1, a2}
  Connectors = {c1, c2}
  MaxCredentials = 3
  MaxSecrets = 2
  MaxPolls = 2
  Focus = {"branches", "gates", "overlap", "files", "queue", "settings", "calls", "decisions", "connections", "adapters"}
INVARIANTS
  OperationsTypeOK
  DoctorIsReliable
  RepeatsNeedHindrance
  SchedulingNeedsApproval
  UsageIsReported
  SettingsAreKept
  TokenFitsAccount
  CallIsHonest
PROPERTIES
  TerminalIsFinal
  CompletionIsEarned
SYMMETRY RequestSymmetry
CHECK_DEADLOCK FALSE
