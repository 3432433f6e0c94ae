CONSTANTS
    u1 = u1
    u2 = u2
    u3 = u3
    a1 = a1
    NoTurn = NoTurn
    Turns <- ThreeUsers
    UserTurns <- ThreeUsers
    AutoTurns = {}
    Outcomes <- AnyOutcome
    Faults = {"hook", "executor"}
    MaxToken = 11
    MaxCrashes = 2
    MaxCancels = 0
SPECIFICATION FairSpec
INVARIANTS
    QueueNeverStalls
PROPERTIES
    TurnsEnd
    ImplementsTaskTurns
CHECK_DEADLOCK FALSE
