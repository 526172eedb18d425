SPECIFICATION FairSpec
CONSTANTS
  Starts = {"r1", "r2"}
  Ends = {"e1", "e2"}
  Overlaps = {}
INVARIANTS
  EndLeavesIdle
CHECK_DEADLOCK FALSE
