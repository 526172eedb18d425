SPECIFICATION PluginSpec
CONSTANTS
  a = a
  b = b
  c = c
  Plugins = {a, b, c}
  Rank <- InNameOrder
  Declared <- InFileOrder
  Namespaces = {"na", "nb", "nc"}
  Tools = {"x"}
  Inputs <- Everything
INVARIANTS
  SearchFindsCycles
  LoadOrderSound
  PluginsKeepApart
CHECK_DEADLOCK FALSE
