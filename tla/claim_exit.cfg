SPECIFICATION FairSpec
CONSTANTS
  BUFSIZE = 2
  WRITE_FRAMES_SYNC = 2
  KillReportsExit = TRUE
  MaxWorkers = 1
  MaxFrame = 4
  MaxRequests = 0
  MaxWakeups = 0

PROPERTIES DisabledWorkerExits
