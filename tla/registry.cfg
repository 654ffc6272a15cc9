SPECIFICATION Spec
CONSTANTS
    Users = {u1, u2}
    NoUser = NoUser
    Sessions = {s1, s2, s3}
    NoSession = NoSession
    MaxUsers = 1
    PendingHeadroom = 1
    MaxAuthAttempts = 2
    SnapshotFails = TRUE
    Statuses = {"visible"}
SYMMETRY Symmetry
INVARIANTS
    TypeOK
    RegistryCoherent
    NothingLeftBehind
PROPERTIES
    NewerSurvives
    SlotsSpec
CHECK_DEADLOCK FALSE
