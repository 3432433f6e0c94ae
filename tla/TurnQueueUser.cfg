CONSTANTS
    u1 = u1
    u2 = u2
    u3 = u3
    a1 = a1
    NoTurn = NoTurn
    Turns <- ThreeUsers
    UserTurns <- ThreeUsers
    AutoTurns = {}
    Outcomes <- AnyOutcome
    Faults = {"hook", "executor", "deadline"}
    MaxToken = 7
    MaxCrashes = 0
    MaxCancels = 1
SPECIFICATION Spec
SYMMETRY UserSymmetry
INVARIANTS
    MemoryMatchesRows
    
CHECK_DEADLOCK FALSE
