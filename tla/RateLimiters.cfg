SPECIFICATION Spec
CONSTANTS
  Server = {s1, s2}
  Request = {r1, r2}
  Limit = {l1, l2}
  NoLimit = NoLimit
  NoLimiter = NoLimiter
  NoRateLimit = NoRateLimit
  MaxStarts = 4
  MaxFailures = 2
SYMMETRY Ids
INVARIANTS
  RateLimiterTypeOK
  ServersAgree
  StoredIsEnforced
CHECK_DEADLOCK FALSE
