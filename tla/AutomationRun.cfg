SPECIFICATION FairSpec
CONSTANTS
  N = 4
  Graphs <- MCGraphs
  MaxCrashes = 1
  MaxFaults = 1
CHECK_DEADLOCK FALSE
INVARIANTS TypeOK OneAtATime RunMatchesNodes 
PROPERTIES HistoryStands NoLateUpstream 
