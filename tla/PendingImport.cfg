CONSTANTS
    Kinds <- TwoKinds
    Helpers = {helper}
    App = app
    Cli = cli
    Nobody = Nobody
    MaxCrashes = 1
    MaxFaults = 2
SPECIFICATION FairSpec
INVARIANTS
    TypeOK
    OneInside
    NothingIsLost
    ImportIsWhole
PROPERTIES
    UserRowsStay
    ActivationMovesOn
    ActivationEnds
