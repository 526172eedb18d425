SPECIFICATION Spec
CONSTANTS
  Extensions = {"x", "y"}
  Calls = {"c1", "c2", "c3"}
INVARIANTS
  StraysHaveFailed
  TellsTheTruth
CHECK_DEADLOCK FALSE
