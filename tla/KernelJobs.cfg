CONSTANTS
    ui = ui
    poller = poller
    lane = lane
    once = once
    None = None
    Callers <- MCCallers
    Worker = poller
    Slots <- MCSlots
    Keys <- MCKeys
    MaxJobs = 2
    Retention = 1
SPECIFICATION FairSpec
INVARIANTS
    OneJobPerLane
    
    LosersAreAskedToStop

    
CHECK_DEADLOCK FALSE
