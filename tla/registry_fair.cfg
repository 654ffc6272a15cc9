SPECIFICATION FairSpec
CONSTANTS
    Users = {u1}
    NoUser = NoUser
    Sessions = {s1, s2}
    NoSession = NoSession
    MaxUsers = 1
    PendingHeadroom = 1
    MaxAuthAttempts = 2
    SnapshotFails = FALSE
    Statuses = {"visible", "hidden"}
INVARIANTS
    PresenceSettles
PROPERTIES
    ClosedEnds
    
CHECK_DEADLOCK FALSE
