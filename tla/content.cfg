SPECIFICATION Spec
CONSTANTS
    a = a
    s = s
    t = t
    NoKey = NoKey
    NoUser = NoUser
    Users = {a}
    Threads = {s, t}
    MaxKeys = 3
    MaxMessages = 2
    MaxFile = 2
    Plans <- Deployments
SYMMETRY Alike
INVARIANTS
    TypeOK
    RowsHaveBytes
    PostedOnce
    QuotaHolds
CHECK_DEADLOCK FALSE
