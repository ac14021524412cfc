SPECIFICATION MCSpec
CONSTANTS
  ann = ann
  bob = bob
  root = root
  q1 = q1
  q2 = q2
  t1 = t1
  t2 = t2
  t3 = t3
  i1 = i1
  i2 = i2
  u1 = u1
  u2 = u2
  k1 = k1
  c1 = c1
  c2 = c2
  h1 = h1
  h2 = h2
  e1 = e1
  e2 = e2
  People = {ann, bob}
  Named = {ann}
  Platform = {root}
  Requests = {q1, q2}
  Ids = {1, 2, 3}
  Tokens = {t1, t2, t3}
  Issuers = {i1, i2}
  Resetters = {u1, u2}
  Keys = {k1}
  Callers = {c1, c2}
  Handlers = {h1, h2}
  Events = {e1, e2}
  Focus = {"admin", "joint", "resets", "mail"}
INVARIANTS
  AccountsTypeOK
  HeldRolesWereGranted
  LinksAreOfConcurrentRequests
  ReuseNeedsOverlap
  SecondMailNeedsOverlap
  ReportsAreFaithful
PROPERTIES
  OnlyStandingInvitationsAdmit
  PasswordsAreKept
SYMMETRY RequestSymmetry
CHECK_DEADLOCK FALSE
