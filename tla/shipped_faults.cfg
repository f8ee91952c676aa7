SPECIFICATION Spec
CONSTANTS
  M = 2
  R = 1
  MAX_ATTEMPTS = 2
  TaskTimeout = 0
  SweepEvery = 1
  ClientTimeout = 0
  Examined = {0}
  Fds = {4, 5}
  Workers = {w1, w2}
  AppendOutcomes = {"ok"}
  BeforeSleepCalled = FALSE
  MaxMasterStops = 1
  MaxWorkerCrashes = 1
SYMMETRY WorkerSymmetry
INVARIANTS
  TypeOK
  DoneCounts
  WaitAssertHolds
  JobDoneComplete
  ReportsCurrent
  ExclusiveExecution
  AofNoDuplicates
  DurableCompletions
PROPERTIES
  ImplementsJob
CHECK_DEADLOCK FALSE
