CONSTANTS
  a = a
  u = u
  w1 = w1
  w2 = w2
  Names = {n}
  Users = {a, u}
  Admins = {a}
  Workers = {w1, w2}
  Requests <- EachTheirOwn
  ToolLists <- TwoTools
  None = None
SPECIFICATION Spec
INVARIANTS FailedCreateUndone
