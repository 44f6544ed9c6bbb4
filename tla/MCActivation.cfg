CONSTANTS
  g1 = g1
  g2 = g2
  b1 = b1
  b2 = b2
  w1 = w1
  w2 = w2
  Graphs = {g1, g2}
  Under <- Nested
  K = 2
  Bots = {}
  BotsOf <- NoBots
  Specs <- CronSpecs
  Workers = {w1, w2}
  Kinds = {"activate", "deactivate", "delete"}
  Faults = {"crash"}
  None = None
SPECIFICATION Spec
INVARIANTS JobsFollowActive StoreMatchesMemory
SYMMETRY Interchangeable
CHECK_DEADLOCK FALSE
