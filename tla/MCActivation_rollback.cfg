CONSTANTS
  g1 = g1
  g2 = g2
  b1 = b1
  b2 = b2
  w1 = w1
  w2 = w2
  Graphs = {g1, g2}
  Under <- Nested
  K = 2
  Bots = {b1, b2}
  BotsOf <- OneGraphsBots
  Specs <- RollBackSpecs
  Workers = {w1}
  Kinds = {"activate", "deactivate", "delete", "put", "post"}
  Faults = {"crash", "sync", "store", "validate"}
  None = None
SPECIFICATION Spec
INVARIANTS AllOrNothing ActiveIsWired
CHECK_DEADLOCK FALSE
