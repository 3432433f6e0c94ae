CONSTANTS
    t1 = t1
    t2 = t2
    t3 = t3
    Turns <- MCTurns
    NoTurn = NoTurn
    MaxId = 5
    MaxToken = 5
    Versions = {1, 2}
SPECIFICATION Spec
SYMMETRY Symmetry
INVARIANTS
    ClaimedIsFirst
    NewestHolderOwns
    NothingOlderIsLeft
PROPERTY StaleHolderNeverRetires
CHECK_DEADLOCK FALSE
