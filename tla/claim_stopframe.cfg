SPECIFICATION Spec
CONSTANTS
  BUFSIZE = 3
  WRITE_FRAMES_SYNC = 2
  KillReportsExit = TRUE
  MaxWorkers = 0
  MaxFrame = 4
  MaxRequests = 1
  MaxWakeups = 0

PROPERTIES RecordingEndsAtStopframe
