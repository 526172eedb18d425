SPECIFICATION FairSpec
CONSTANTS
  n1 = n1
  n2 = n2
  n3 = n3
  a = a
  b = b
  Sessions = {n1, n2, n3}
  Names = {a, b}
  Servers = {"A"}
  NameOf <- TwoOfA
  ServerOf <- OneServer
  Tabs = {1, 2, 3}
  Theirs = {1}
  NoTab = NoTab
  MaxLeases = 2
  CanCreate = TRUE
INVARIANTS ExclusiveLeases NeverSharedPage
PROPERTY AcquisitionsEnd
CHECK_DEADLOCK FALSE
