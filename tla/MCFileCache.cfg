CONSTANTS
  p1 = p1
  p2 = p2
  r1 = r1
  r2 = r2
  w1 = w1
  w2 = w2
  Processes = {p1, p2}
  Readers = {r1, r2}
  Writers = {w1, w2}
  WsWriters = {g1}
  ProcessOf <- Placement
  MaxWrites = 2
  Flaky = TRUE
SPECIFICATION FairCacheSpec
INVARIANT StalenessExplained OneTimeoutPerCooldown
PROPERTY StalenessHeals
CHECK_DEADLOCK TRUE
