\* One tick makes a silent session stale here (three in the code): what counts is
\* before, at and after the threshold.  Handlers finish, so the system may stop.
CONSTANTS
  c1 = c1
  c2 = c2
  i1 = i1
  Conns = {c1, c2}
  Instances = {i1}
  InstanceOf <- MCInstanceOf
  Fwds = {}
  StaleTicks = 1
  ControlCallback = TRUE
  CallbacksMayFail = TRUE
  None = None
SPECIFICATION SessionSpec
INVARIANTS
  NoGhostSession
  NobodyVanishesUnreported
PROPERTIES
  EndsAreFinal
  SilentEvicted
CHECK_DEADLOCK FALSE
