SPECIFICATION SessionSpec
CONSTANTS
    v1 = v1
    v2 = v2
    f1 = f1
    Files <- OneFile
    Views = {v1}
    QueryOf <- SameQuery
    None = None
    MaxWrites = 1
    MaxSteps = 2
    MaxFaults = 2
    MaxDown = 2
INVARIANTS OneSocket GatewayKnowsTheTab
PROPERTIES ViewsCatchUp
CHECK_DEADLOCK FALSE
