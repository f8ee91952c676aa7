SPECIFICATION FairSpec
CONSTANTS
  M = 1
  R = 2
  MAX_ATTEMPTS = 1
  TaskTimeout = 0
  SweepEvery = 1
  ClientTimeout = 0
  Examined = {0}
  Fds = {4, 5}
  Workers = {w1, w2}
  AppendOutcomes = {"ok", "none", "torn"}
  BeforeSleepCalled = FALSE
  MaxMasterStops = 1
  MaxWorkerCrashes = 0
INVARIANTS
  CompletedPublished
  ReduceInputsPublished
PROPERTIES
  EventuallyFinished
CHECK_DEADLOCK FALSE
