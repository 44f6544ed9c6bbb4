CONSTANTS
  g1 = g1
  g2 = g2
  b1 = b1
  b2 = b2
  w1 = w1
  w2 = w2
  Graphs = {g1}
  Under <- Apart
  K = 2
  Bots = {b1, b2}
  BotsOf <- OneGraphsBots
  Specs <- BotSpecs
  Workers = {w1}
  Kinds = {"activate", "deactivate", "delete", "put", "post"}
  Faults = {"sync"}
  None = None
SPECIFICATION Spec
INVARIANTS NoOrphans
CHECK_DEADLOCK FALSE
