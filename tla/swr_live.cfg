SPECIFICATION Spec
CONSTANTS
  e1 = e1  e2 = e2
  Ids = {e1}
  MaxChanges = 3
  MaxFaults = 1
  Trims = {TRUE}
  Direct = TRUE
  Batches = FALSE
  Poison = {1}
  ServerUpserts = FALSE
  UpdateReplaces = FALSE
  Races = {"late", "retry", "writeBack", "reuse"}
PROPERTY QueueDrains
CHECK_DEADLOCK FALSE
