SPECIFICATION StoreSpec
CONSTANTS
  Rows = {1, 2}
  Starts = {{}, {1}}
  MaxValue = 2
  During = {"read", "save"}
  Careless = {}
  MaxSaves = 2
  MaxRefusals = 1
  MaxReads = 1
  Crashes = TRUE
  MaxIndexFailures = 1
  MaxRebuilds = 1
  Collections <- Chosen
INVARIANTS SavedAsAsked CleanMeansStored IndexDescribesDocuments
CHECK_DEADLOCK FALSE
