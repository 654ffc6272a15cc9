SPECIFICATION Spec
CONSTANTS
    Users = {u1}
    NoUser = NoUser
    Sessions = {s1, s2}
    NoSession = NoSession
    MaxUsers = 1
    PendingHeadroom = 1
    MaxAuthAttempts = 1
    SnapshotFails = TRUE
    Statuses = {"visible"}
INVARIANTS
    NobodyLingers
CHECK_DEADLOCK FALSE
