\* An instance reconnects before the relay notices the end of its old socket.
CONSTANTS
  c1 = c1
  c2 = c2
  i1 = i1
  Conns = {c1, c2}
  Instances = {i1}
  InstanceOf <- MCInstanceOf
  Fwds = {}
  StaleTicks = 1
  ControlCallback = TRUE
  CallbacksMayFail = FALSE
  None = None
SPECIFICATION SessionSpec
INVARIANT
  LiveSessionReachable
CHECK_DEADLOCK FALSE
