SPECIFICATION FairSpec
CONSTANTS
  e1 = e1  e2 = e2
  Ids = {e1}  MaxChanges = 2  MaxMerges = 1
  Queries = {"all", "some"}  Matching = {1, 3}
  Direct = TRUE  Echo = TRUE  InsertOnly = FALSE
  Poison = {2}  Races = {"unrecorded", "unread"}
INVARIANTS UnsyncedShielded ConfirmedStaysLocal
PROPERTY EventuallyFresh
