CONSTANTS
    u1 = u1
    u2 = u2
    u3 = u3
    a1 = a1
    NoTurn = NoTurn
    Turns <- UserAndAuto
    UserTurns <- OneUser
    AutoTurns <- OneAuto
    Outcomes <- AnyOutcome
    Faults = {"hook", "executor", "storage"}
    MaxToken = 6
    MaxCrashes = 1
    MaxCancels = 1
SPECIFICATION Spec
INVARIANT TypeOK
PROPERTIES
    EndedTurnStaysEnded
    EndedNodeNeverStarts
CHECK_DEADLOCK FALSE
