SPECIFICATION Spec
CONSTANTS
  Fds = {4, 5, 6}
  MAX_FDS = 6
  MAX_EVENTS = 3
  FRAME_HDR_SIZE = 2
  MSG_MAX = 2
  ReplyLen = 1
  MaxBacklog = 1
  CountWidth = 3
  ClientTimeout = 3
  Settings <- SafetySettings
INVARIANTS
  StreamIntact
  RepliesIntact
  HandlersMatch
  WorkersHarmless
PROPERTIES
  NoSpuriousRemoval
CHECK_DEADLOCK FALSE
