SPECIFICATION Spec
CONSTANTS
    c1 = c1
    c2 = c2
    c3 = c3
    c4 = c4
    Calls = {c1, c2, c3, c4}
    Retained = 2
    MaxTries = 2
    MaxEdits = 1
    None = None
INVARIANTS NeverOutOfTries DeletedLeavesNothing
PROPERTIES ImplementsCheckpoints EveryCallAnswers
CHECK_DEADLOCK FALSE
