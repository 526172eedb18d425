SPECIFICATION Spec
CONSTANTS
  Ids = {a, b}
  Profiles = {}
  NoProfile = NoProfile
  Calls = {c1, c2}
  Engines = {"chromium"}
  DefaultPlace = NoProfile
  DefaultEngine = "chromium"
  MaxBrowsers = 3
  MaxVictims = 2
  Override = FALSE
SYMMETRY Symmetry
INVARIANTS
  SingleCreation
  NeverHandsOutClosing
  NoBrowserOrphaned
CHECK_DEADLOCK FALSE
