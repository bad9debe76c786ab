SPECIFICATION FairSpec
CONSTANTS
  src = src  m1 = m1  m2 = m2  e1 = e1  e2 = e2
  Source = src  Mirrors = {m1, m2}  Ids = {e1}  MaxSaves = 2
  Options <- Engines
INVARIANTS SourceDecides MirrorsAgree OwnChangesShown
PROPERTIES EveryoneAnswered
CHECK_DEADLOCK FALSE
