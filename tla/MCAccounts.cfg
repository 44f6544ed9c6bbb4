CONSTANTS
  p = p
  q = q
  i1 = i1
  i2 = i2
  c1 = c1
  c2 = c2
  b = b
  g1 = g1
  g2 = g2
  k1 = k1
  Emails = {p, q}
  AdminEmails = {p, q}
  Ids = {i1, i2}
  Browsers = {b}
  Logins = 2
  Callbacks = {c1, c2}
  Graphs = {g1, g2}
  Keys = {k1}
  Invocations = {w1}
  Ended = Ended
  Absent = Absent
  FieldNames = {"x", "y", "z"}
  Texts = {"t"}
  Empty = ""
  Null = "null"
SPECIFICATION AccountsSpec
INVARIANTS SessionsHaveAccounts RolesWereGranted KeysInvokeTheirGraph
SYMMETRY Interchangeable
CHECK_DEADLOCK FALSE
