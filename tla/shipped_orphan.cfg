SPECIFICATION FairSpec
CONSTANTS
  M = 1
  R = 1
  MAX_ATTEMPTS = 2
  TaskTimeout = 0
  SweepEvery = 1
  ClientTimeout = 0
  Examined = {0}
  Fds = {4, 5}
  Workers = {w1, w2}
  AppendOutcomes = {"ok"}
  BeforeSleepCalled = FALSE
  MaxMasterStops = 0
  MaxWorkerCrashes = 1
PROPERTIES
  OrphansReleased
CHECK_DEADLOCK FALSE
