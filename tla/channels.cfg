SPECIFICATION Spec
CONSTANTS
  BUFSIZE = 3
  WRITE_FRAMES_SYNC = 2
  KillReportsExit = TRUE
  MaxWorkers = 2
  MaxFrame = 3
  MaxRequests = 0
  MaxWakeups = 0
INVARIANTS NoReadAfterFree
PROPERTIES ChannelStreams WorkersLive
