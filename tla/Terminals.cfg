CONSTANTS
    r1 = r1
    r2 = r2
    UI = ui
    Nobody = nobody
    Requests <- TwoRequests
    MaxSessions = 2
    MaxCalls = 4
SPECIFICATION Spec
SYMMETRY RequestSymmetry
INVARIANTS
    TypeOK
    NoProcessWithoutOwner
    OneRunAtATime
    
    SomeoneGoesOn
CHECK_DEADLOCK FALSE
