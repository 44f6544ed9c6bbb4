CONSTANTS
  Types = {"plain", "source", "code", "agent", "model", "trigger"}
  Unregistered = "unknown"
  Definition <- SmallRegistry
  SlotType = {"text", "json"}
  SubSlots = {"model", "tools"}
  Role = {"model"}
  Missing = 0
  None = None
  N = 4
  M = 2
  OutSlots = {"a", "b"}
  Graphs <- PlainGraphs
SPECIFICATION Spec
INVARIANT NothingLeftCouldRun
CHECK_DEADLOCK FALSE
