SPECIFICATION Spec
CONSTANTS
  M = 2
  R = 1
  MAX_ATTEMPTS = 1
  TaskTimeout = 0
  Fds = {4}
  AppendOutcomes = {"ok", "none", "torn"}
  Masters = {m1}
INVARIANTS
  AckedSurvives
  ReplayExact
  LogInOrder
  RefusalsAreTorn
  LoadsAsModelled
PROPERTY
  AppendsAsModelled
