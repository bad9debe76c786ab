SPECIFICATION SchedulerSpec
CONSTANTS
  Callers = {timer, online, app}
  MaxFlushes = 5
  timer = timer  online = online  app = app
INVARIANTS
  OverlapOnlyByJumping
  AnsweredByALaterFlush
PROPERTY EveryoneAnswered
CHECK_DEADLOCK FALSE
