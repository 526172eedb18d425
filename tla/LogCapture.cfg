SPECIFICATION Spec
CONSTANTS
  Sizes = {1, 4}
  MaxEvents = 6
  MaxBytes = 13
  FlushBytes = 3
  MaxPending = 6
  Offers = 8
INVARIANTS
  WindowBounded
  EveryEventCounted
  StatsTrue
PROPERTIES
  StreamSpec
CHECK_DEADLOCK FALSE
