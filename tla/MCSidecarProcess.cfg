SPECIFICATION Spec
CONSTANTS
  Sockets = {x, y}
  Timers = {t1, t2}
  InitialDelay = 1
  MaxDelay = 3
  MaxConnects = 1
  None = None
  Configs <- MCConfigs
  HealthyPeriods = {1, 2, 3}
  FailurePeriods = {1, 2, 3, 4, 5}
  MaxFailure = 5
  MinStateDuration = 3
  RandomDrain = 1
  AlwaysDrain = 0
INVARIANTS OneAttempt StopIsFinal WriteIfConnected DrainCoversFailure
PROPERTIES Reconnects ChecksStart VerdictRecovers
CHECK_DEADLOCK FALSE
