\* Two forwards, two answers per id, and two readers whose Complete calls may overlap.
\* All forwards finish, so the system may stop.
CONSTANTS
  Reqs = {r1, r2}
  Readers = {d1, d2}
  Bodies = {b1, b2}
  None = None
SPECIFICATION Spec
INVARIANTS
  TypeOK
  NoPanic
  OnlyRealTimeouts
  OnlyAsyncLeaks
PROPERTIES
  ForwardEnds
  ImplementsReplyOnce
CHECK_DEADLOCK FALSE
