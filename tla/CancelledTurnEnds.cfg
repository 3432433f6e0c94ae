CONSTANTS
    u1 = u1
    u2 = u2
    u3 = u3
    a1 = a1
    NoTurn = NoTurn
    Turns <- OneUser
    UserTurns <- OneUser
    AutoTurns = {}
    Outcomes <- AnyOutcome
    Faults = {}
    MaxToken = 3
    MaxCrashes = 0
    MaxCancels = 1
SPECIFICATION FairSpec
PROPERTIES
    CancelledTurnEnds
CHECK_DEADLOCK FALSE
