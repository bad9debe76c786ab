SPECIFICATION Spec
CONSTANTS
  s1 = s1  s2 = s2
  w1 = w1  w2 = w2  w3 = w3  w4 = w4
  d1 = d1  d2 = d2
  Writes = {w1, w2, w3, w4}
  Schemas = {s1, s2}
  SchemasOf <- OverlapSchemas
  Destroyers = {d1, d2}
  IsAtomic = TRUE
  MaxBatchSize = 3
  NoDestroyer = NoDestroyer
INVARIANTS EachWriteHeldOrAnsweredOnce AnswersMatchEffects
PROPERTIES SerialSpec EveryCallAnswered
CHECK_DEADLOCK FALSE
