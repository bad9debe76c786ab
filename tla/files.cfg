SPECIFICATION Spec
CONSTANTS
  Files = {1, 2}
  LastRow = 2
  Named = {2}
  Numbering = {2}
  MaxPersists = 2
  MaxFaults = 2
  Overlaps = TRUE
  Readds = FALSE
INVARIANTS StoredRowsKept FailedSavesDoNothing AnsweredIsStored
PROPERTY EveryPersistEnds
CHECK_DEADLOCK FALSE
