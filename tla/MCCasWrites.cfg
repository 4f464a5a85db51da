CONSTANTS
  e1 = e1
  e2 = e2
  v1 = v1
  c1 = c1
  c2 = c2
  c3 = c3
  Absent = Absent
  Ids = {e1, e2}
  Values = {v1}
  Calls = {c1, c2, c3}
  Populations <- Mixes
  MaxAttempts = 2
SPECIFICATION Spec
INVARIANTS ExhaustionIsHonest IndexMatchesBoard
PROPERTIES OnlyAskedChanges GuardedSaveSeesItsBase ImplementsAtomicFile
CHECK_DEADLOCK FALSE
