SPECIFICATION EditsSpec
CONSTANTS
    c1 = c1
    c2 = c2
    c3 = c3
    f1 = f1
    f2 = f2
    p = p
    Calls = {c1, c2, c3}
    PathOf <- OnePath
    FileOf <- TwoFiles
    Refused = {c3}
    MaxSockets = 2
    MaxMishaps = 2
CHECK_DEADLOCK FALSE
INVARIANTS EditsAccountedFor
PROPERTIES EveryCallSettles AnsweredEntriesLeave
