SPECIFICATION SceneSpec
CONSTANTS
    Users = {u1, u2}
    Channels = {a, b}
    Joins = {j1, j2}
    Calls = {x1}
    None = None
    Purposes = {"mic", "screen"}
    MaxJoins = 2
    MaxRequests = 3
    Scenes = {"rooms", "media"}
SYMMETRY Symmetry
INVARIANTS
    EveryTypeOK
    RoomsOrphansExplained
    RoomsKeepNothingOld
    
CHECK_DEADLOCK FALSE
