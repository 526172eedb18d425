SPECIFICATION FairSpec
CONSTANTS
  Ids = {a}
  Profiles = {p}
  NoProfile = NoProfile
  Calls = {c1, c2}
  Engines = {"chromium", "firefox"}
  DefaultPlace = p
  DefaultEngine = "chromium"
  MaxBrowsers = 2
  MaxVictims = 1
  Override = FALSE
INVARIANTS
  GrantEndsWithBrowser
  NoBrowserOrphaned
  HoldRespected
PROPERTIES
  HoldNotForgotten
  CallersAnswered
CHECK_DEADLOCK FALSE
