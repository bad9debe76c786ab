SPECIFICATION FairSpec
CONSTANTS
  i1 = i1
  mirror = mirror
  history = history
  viewing = viewing
  Ids = {i1}
  Stores = {viewing}
  Subs = {mirror, history}
  Home <- Homes
  Filtered = {mirror}
  Histories = {history}
  Behind = 1
  MaxChanges = 3
  MaxAsked = 2
INVARIANTS
  StaleOnlyByRace
  MirrorFollowsSource
  HistoryKeepsEveryVersion
PROPERTIES
  ReconcilesEnd
CHECK_DEADLOCK FALSE
