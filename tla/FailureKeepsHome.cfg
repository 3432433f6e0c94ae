CONSTANTS
    Kinds <- TwoKinds
    Helpers = {}
    App = app
    Cli = cli
    Nobody = Nobody
    MaxCrashes = 1
    MaxFaults = 0
SPECIFICATION Spec
INVARIANT FailureKeepsHome
