SPECIFICATION Spec
CONSTANTS
    o = o
    m = m
    n = n
    manage = manage
    kick = kick
    admin = admin
    NoUser = NoUser
    Same = Same
    Users = {o, m, n}
    LastRole = 6
    Everyone = 1
    Member = 2
    Admin = 3
    Registered = {m}
    Bits = {manage, kick, admin}
    ManageRoles = manage
    Administrator = admin
    OwnerRank = 99
    Plans <- OneRenaming
PROPERTIES
    FlipsOnlyHeldBits
CHECK_DEADLOCK FALSE
