SPECIFICATION FairSpec
CONSTANTS
  Starts = {"r1", "r2"}
  Ends = {"e1", "e2"}
  Overlaps = {}
INVARIANTS
  NoPlaintextTrace
  SourcesFirst
  ArtifactsWhole
PROPERTIES
  CallsEnd
CHECK_DEADLOCK FALSE
