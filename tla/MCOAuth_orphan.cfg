CONSTANTS
  c1 = c1
  c2 = c2
  g1 = g1
  g2 = g2
  Callers = {c1, c2}
  Grants = {g1}
  Ways = {"none", "one forever", "rotates", "once only"}
  Life = 3
  Skew = 2
  StateLife = 2
  MaxTime = 4
  Faults = {"network", "crash"}
  None = None
SPECIFICATION Spec
INVARIANT NoOrphanToken
SYMMETRY Interchangeable
CHECK_DEADLOCK FALSE
