CONSTANTS
  plain = plain
  mcp = mcp
  Tools = {plain, mcp}
  Remote = {mcp}
  Gated = {mcp}
  Unknown = unknown
  Model = model
  Memory = memory
  Group = group
  SubNodes = {model, memory, group}
  Window = 3
  MaxIterations = 3
  MaxCalls = 2
  Arguments = {"object", "other"}
  None = None
SPECIFICATION FairSpec
INVARIANTS ConversationFits NewResultsHaveCalls LitInUse AnswerIsTraced
PROPERTIES Ends
CHECK_DEADLOCK FALSE
