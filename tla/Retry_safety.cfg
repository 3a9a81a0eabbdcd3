SPECIFICATION PacedSpec
CONSTANTS
  MaxRetries = 3
  MaxInt = 127
  DefaultInterval = 20
  Int63n <- Ends
  Configs <- Paces
  Statuses = {200, 504}
  Errors <- Outcomes
INVARIANTS BodiesCleanedUp AttemptsCounted TimerReleased RequestBodiesSentOnce
  OneLateRetry WaitsAsConfigured WaitsNotNegative OnlyWarrantedRetries
PROPERTY CancellationEndsDo
CHECK_DEADLOCK FALSE
