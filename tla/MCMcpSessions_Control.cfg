\* All callbacks arrive, in any order.
CONSTANTS
  c1 = c1
  c2 = c2
  i1 = i1
  Conns = {c1, c2}
  Instances = {i1}
  InstanceOf <- MCInstanceOf
  Fwds = {}
  StaleTicks = 3
  ControlCallback = TRUE
  CallbacksMayFail = FALSE
  None = None
SPECIFICATION SessionSpec
INVARIANT
  ControlAgrees
CHECK_DEADLOCK FALSE
