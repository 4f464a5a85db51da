SPECIFICATION LimiterSpec
CONSTANTS
    r1 = r1
    r2 = r2
    Replicas = {r1, r2}
    MaxAttempts = 2
    Window = 3
INVARIANTS AttemptsBounded RefusalsAnnouncedOnce
PROPERTIES EveryLockoutEnds
