SPECIFICATION Spec
CONSTANTS
  p1 = p1  p2 = p2
  Plugins = {p1, p2}
  Backends = {"sqlite", "d1", "postgres", "mysql", "mongo", "loose", "dexie", "pouch"}
  Tables = {1, 2}  Identities = {2}
  Saves <- SomeSaves  Malformed <- SomeMalformed
  Composites = {p2}
  Limit = 1  MaxCalls = 2  MaxFaults = 1
INVARIANT FailuresHaveACause
PROPERTIES PromiseKept EveryCallAnswered
CHECK_DEADLOCK FALSE
