SPECIFICATION Spec
CONSTANTS
    a = a
    s = s
    t = t
    NoKey = NoKey
    NoUser = NoUser
    Users = {a}
    Threads = {s, t}
    MaxKeys = 3
    MaxMessages = 2
    MaxFile = 2
    Plans <- OneSweep
INVARIANTS
    PostedFilesStay
CHECK_DEADLOCK FALSE
