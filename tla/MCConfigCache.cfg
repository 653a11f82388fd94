\* Scaled down, in units of time: a lifetime longer than a fetch, a budget
\* that fits several waits, and a 429 that asks for more than the budget.
CONSTANTS
  a = a
  b = b
  c = c
  d = d
  tok = tok
  inst = inst
  conn1 = conn1
  conn2 = conn2
  Callers = {a, b, c, d}
  ContextOf <- MCContextOf
  TTL = 2
  RetryBudget = 3
  Timeout = 1
  DefaultWait = 1
  MaxWait = 4
  RetryAfters = {0, 2, 5}
  Error = Error
  None = None
CONSTRAINT MCAlone
SPECIFICATION Spec
INVARIANTS
  TypeOK
  NoRedundantFetch
  BoundedStaleness
  OwnConfig
  WithinBudget
PROPERTIES
  CallsReturn
