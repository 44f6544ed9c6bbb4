CONSTANTS
  RunIds = {r1}
  N = 2
  Subs = {s1, s2}
  Clients = {c1}
  Invoked = {r1}
  Faults = {"store", "dump", "invalid", "unregistered", "crash"}
  None = None
SPECIFICATION Spec
INVARIANTS CompletedIsWhole SubNodesShown RecordedWhenOver InvokeTellsTruth
PROPERTIES PollsGoForward
SYMMETRY Interchangeable
CHECK_DEADLOCK FALSE
