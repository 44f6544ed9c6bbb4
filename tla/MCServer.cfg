CONSTANTS
  c1 = c1
  c2 = c2
  c3 = c3
  c4 = c4
  r1 = r1
  r2 = r2
  t1 = t1
  t2 = t2
  v1 = v1
  v2 = v2
  v3 = v3
  v4 = v4
  v5 = v5
  Calls = {c1, c2, c3, c4}
  Runs = {r1, r2}
  Tools = {t1, t2}
  RunOf <- CallRuns
  ToolOf <- CallTools
  Resolvers = {v1, v2, v3, v4, v5}
  Answers <- TwoKeysMore
  Tokens = 3
SPECIFICATION FairServerSpec
INVARIANTS TypeOK AnswerWasGiven NeverAsksAgain BlockedIsListed TidyAfterRun
PROPERTIES RunsEnd
CHECK_DEADLOCK FALSE
