SPECIFICATION Spec
CONSTANTS
    Plans <- TheBridgePlans
    ClientPlans <- TheClientPlans
    MaxRetries = 1
    People = {a, b}
    MaxMissed = 2
    Frozen = Frozen
    Scenes = {"talk", "posts", "links", "guilds", "restarts", "reboots", "full", "errors", "dropped", "repoints",
              "losses", "ends"}
INVARIANTS
    EveryTypeOK
    
    
    MessagesOnce
    RosterShown
PROPERTIES
    ComesBack
CHECK_DEADLOCK FALSE
