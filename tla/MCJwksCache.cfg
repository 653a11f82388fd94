CONSTANTS
  k1 = k1
  k2 = k2
  Kids = {k1, k2}
  Requests = {r1, r2}
  Arrivals <- MCArrivals
  TTL = 2
  Timeout = 1
SPECIFICATION Spec
INVARIANTS
  TypeOK
  ServedOnCredentials
  PublishedKeyFound
PROPERTY VerifyReturns
