SPECIFICATION Spec
CONSTANTS
  e1 = e1  e2 = e2
  Ids = {e1, e2}
  MaxChanges = 4
  MaxFaults = 1
  Trims = {TRUE, FALSE}
  Direct = FALSE
  Batches = FALSE
  Poison = {2}
  ServerUpserts = FALSE
  UpdateReplaces = FALSE
  Races = {"late"}
INVARIANTS NewestIntentKept EditsKept OpIdDescribesBytes SettledMeansEqual
PROPERTY ServerNeverRegresses
SYMMETRY Entities
CHECK_DEADLOCK FALSE
