SPECIFICATION Spec
CONSTANTS
  a = a  b = b  r1 = r1  q1 = q1  q2 = q2
  Stores = {a, b}  CacheOutside = {a}
  Rows = {r1}  Queries = {q1, q2}  Slots = {1}
  Max = 1  Attempts = 2  UpsertMissing = TRUE  Atomic = FALSE  MaxCalls = 2  MaxWrites = 2
INVARIANTS StaleOnlyByLateAnswer ReadRowsAreChecked
PROPERTY CheckedReplacesObserved
