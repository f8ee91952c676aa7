SPECIFICATION Spec
CONSTANTS
  M = 1
  R = 1
  MAX_ATTEMPTS = 2
  TaskTimeout = 0
  SweepEvery = 1
  ClientTimeout = 1
  Examined = {0, 1, 2}
  Fds = {4, 5}
  Workers = {w1, w2}
  AppendOutcomes = {"ok"}
  BeforeSleepCalled = TRUE
  MaxMasterStops = 1
  MaxWorkerCrashes = 0
SYMMETRY WorkerSymmetry
INVARIANTS
  CompletedMapsPublished
  SlotsConsistent
  JobFailedIffTaskFailed
  AofPublished
CHECK_DEADLOCK FALSE
