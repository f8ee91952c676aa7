SPECIFICATION FairSpec
CONSTANTS
  Base = 9
  MAPREDUCE_PATH_MAX = 3
  MSG_MAX = 18
  Numbers = {9, 6560}
  PathBytes = {1, 8}
  MaxLead = 15
  MaxTail = 3
INVARIANTS
  Understood
PROPERTIES
  Canonical
  Answered
CHECK_DEADLOCK FALSE
