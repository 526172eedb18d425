SPECIFICATION FairSpec
CONSTANTS
  s1 = s1
  s2 = s2
  Sessions <- OneSession
  MaxStreams = 1
  MaxSources = 2
  MaxStarts = 3
  MaxQueue = 2
  MaxRetunes = 1
INVARIANTS NothingStreamsForNobody EndsAreTold NoLeakedScreencast
CHECK_DEADLOCK FALSE
PROPERTY UnregisterEnds
