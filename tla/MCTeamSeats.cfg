SPECIFICATION Spec
CONSTANTS
    c1 = c1
    c2 = c2
    c3 = c3
    c4 = c4
    u1 = u1
    u2 = u2
    Calls = {c1, c2, c3, c4}
    Users = {u1, u2}
    Registered = {u1}
    Asks <- Populations
    DefaultLimit = 2
INVARIANTS NoticesTellMembership
PROPERTIES OverbookedOnlyByOverlap OldInvitesSpareDeletion
CHECK_DEADLOCK FALSE
