\* Callbacks are off: what becomes of them is the question of MCMcpSessions.
\* The forward and the sessions end, so the system may stop.
CONSTANTS
  c1 = c1
  c2 = c2
  i1 = i1
  Conns = {c1, c2}
  Instances = {i1}
  InstanceOf <- MCInstanceOf
  Fwds = {f1}
  StaleTicks = 1
  ControlCallback = FALSE
  CallbacksMayFail = FALSE
  None = None
SPECIFICATION Spec
INVARIANTS
  TypeOK
  AnswerOnSameSession
PROPERTIES
  OrphanedForwardsTimeOut
CHECK_DEADLOCK FALSE
