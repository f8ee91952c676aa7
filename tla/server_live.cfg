SPECIFICATION FairSpec
CONSTANTS
  Fds = {4, 5, 6, 7}
  MAX_FDS = 7
  MAX_EVENTS = 3
  FRAME_HDR_SIZE = 2
  MSG_MAX = 2
  ReplyLen = 1
  MaxBacklog = 1
  CountWidth = 3
  ClientTimeout = 3
  Settings <- LiveSettings
PROPERTIES
  FramesAnswered
  SilentRemoved
  ShutdownHonoured
CHECK_DEADLOCK FALSE
