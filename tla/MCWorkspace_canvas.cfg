SPECIFICATION Spec
CONSTANTS
    t1 = t1
    t2 = t2
    Tabs = {t1, t2}
    MaxEdits = 2
    Plans <- EditPlans
    MaxMounts = 2
    Overtaken = 1
    MaxFaults = 2
    MaxTries = 2
    MaxHistory = 2
PROPERTIES IdleCanvasShowsPush
CHECK_DEADLOCK FALSE
