CONSTANTS
  author = author
  runner = runner
  w1 = w1
  w2 = w2
  x = x
  y = y
  Users = {author, runner}
  Names = {x, y}
  Connected <- OneEach
  Changing <- TwoOfThem
  Bodies <- OneBody
  Requests <- AuthorAndRunner
  Workers = {w1, w2}
  RunIds = {r1}
  Faults = {"crash"}
  None = None
SPECIFICATION Spec
INVARIANTS PrivateIsClean SlotsAreTheRunners
PROPERTIES MappingsAreKept
CHECK_DEADLOCK FALSE
