SPECIFICATION FairSpec
CONSTANTS
  a1 = a1
  a2 = a2
  a3 = a3
  b1 = b1
  b2 = b2
  Asks = {a1, a2, a3}
  Bridges = {b1, b2}
  SessionOf <- TwoSessions
  Texts = {"x"}
  MaxPending = 3
  ClassLimit <- SmallClasses
  SessionLimit <- SmallSessions
INVARIANTS
  NoStarvation
  DaemonInSync
  RequestsAfterProof
PROPERTIES
  DecidedByDaemon
  SettlesOnce
  LinkRecovers
CHECK_DEADLOCK FALSE
