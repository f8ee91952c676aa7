SPECIFICATION MCSpec
CONSTANTS
  MAX_MAP_TASKS = 2
  MAX_REDUCE_TASKS = 4
  MaxTimeout = 600000
  Confs <- ShortConfs
  Texts = {"./input", "./none", "./mr.aof", "./b.aof"}
  MaxEntries = 3
  EntryKinds = {"absent", "hidden", "regular", "directory"}
  NoJob = NoJob
INVARIANTS
  ConfigAsScanned
  JobFromLog
  InputsExact
