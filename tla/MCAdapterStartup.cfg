\* A process that has started, or failed to, stops here: no deadlock check.
CONSTANTS
  a1 = a1
  a2 = a2
  unknown = unknown
  m1 = m1
  m2 = m2
  gateway = gateway
  free = free
  Adapters = {a1, a2}
  NameLists <- MCNameLists
  Tools = {t1, t2}
  Keys = {k1}
  Paths = {m1, m2, gateway, free}
  MountOf <- MCMountOf
  GatewayPaths = {gateway}
  MaxOps = 2
  Shared = Shared
  None = None
SPECIFICATION Spec
CHECK_DEADLOCK FALSE
INVARIANTS
  TypeOK
  HoldListsMatchWire
  OwnServer
  AllOrNothing
