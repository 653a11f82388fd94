\* Two attempts may overlap; two targets suffice for one that fails first,
\* last, or alone.
CONSTANTS
  a1 = a1
  a2 = a2
  a3 = a3
  d1 = d1
  s1 = s1
  s2 = s2
  Attempts = {a1, a2, a3}
  DeliveryOf <- MCDeliveryOf
  Subscriptions = {s1, s2}
  Routes <- MCRoutes
  Blank = Blank
  None = None
SPECIFICATION Spec
INVARIANTS
  TypeOK
  
  AccountsForAll
