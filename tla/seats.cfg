SPECIFICATION Spec
CONSTANTS
    u1 = u1
    u2 = u2
    s1 = s1
    s2 = s2
    s3 = s3
    a = a
    b = b
    Users = {u1, u2}
    Sessions = {s1, s2, s3}
    NoSession = NoSession
    Owner <- Connections
    Channels = {a, b}
    None = None
    Relay = Relay
    MaxParticipants = 0
    UserLimit = 0
    Plans <- SmallDeployments
INVARIANTS
    TypeOK
    
    
    EpochNamesOneHost
CHECK_DEADLOCK FALSE
