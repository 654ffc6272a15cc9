SPECIFICATION Spec
CONSTANTS
    ScreeningPlans <- TheScreeningPlans
    ReadingPlans <- TheReadingPlans
    PrivatePlans <- ThePrivatePlans
    PostPlans <- ThePostPlans
    HookPlans <- TheHookPlans
    PicturePlans <- ThePicturePlans
    DoorPlans <- TheDoorPlans
    TreePlans <- TheTreePlans
    Scenes = {"pace", "texts", "admins", "lines", "threads", "badges", "search", "private", "consent",
              "events", "places", "rules", "hookpace", "manage", "files", "edits", "emoji", "pictures", "sounds",
              "bans", "kicks", "days", "staff", "turns", "tree", "crowd"}
    MaxRecent = 3
    RecentWindow = 3
    Limit = 2
    Cap = 2
    MaxFiles = 2
    MaxParts = 3
    Burst = 2
    Idle = 4
    MaxTime = 6
    MaxMarks = 1
    MaxTries = 2
    Keep = 1
    MaxDays = 2
    None = None
INVARIANTS
    EveryTypeOK
    
    PagesWhole
    
    PostsAreTheirs
    HooksHold
    
    DoorHolds
    TreeHolds
PROPERTIES
    ReadStaysRead
CHECK_DEADLOCK FALSE
