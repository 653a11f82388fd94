\* Runs and sessions end, so the system may stop.
CONSTANTS
  c1 = c1
  c2 = c2
  c3 = c3
  w1 = w1
  w2 = w2
  t1 = t1
  u1 = u1
  p1 = p1
  Conns = {c1, c2, c3}
  Workers = {w1, w2}
  WorkerOf <- MCWorkerOf
  Tenants = {t1}
  TenantOf <- MCTenantOf
  Users = {u1}
  UserOf <- MCUserOf
  Providers = {p1}
  QueryProviders <- MCQueryProviders
  LoginTiers = {"heavy", "lightweight"}
  Capabilities <- MCCapabilities
  Runs = {r1, r2}
  None = None
SPECIFICATION Spec
SYMMETRY MCSymmetry
CONSTRAINT MCSessionBound
INVARIANTS
  TypeOK
  NoGhostWorker
  LoadSound
  
  CapacityWithoutRaces
CHECK_DEADLOCK FALSE
