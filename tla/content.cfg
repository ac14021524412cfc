SPECIFICATION MCSpec
CONSTANTS
  k1 = k1
  k2 = k2
  k3 = k3
  a1 = a1
  a2 = a2
  r1 = r1
  r2 = r2
  f1 = f1
  Keys = {k1, k2, k3}
  AssetIds = {a1, a2}
  Requests = {r1, r2}
  Items = {f1}
  FinalizeAttempts = 2
  Lookups = 2
  Retries = 1
  Focus = {"library", "uploads", "replacing"}
INVARIANTS
  ContentTypeOK
  OneAssetPerFile
PROPERTIES
  RetryKeepsFile
  UploadsEnd
CHECK_DEADLOCK FALSE
