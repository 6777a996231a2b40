SPECIFICATION Spec
CONSTANTS
  BUFSIZE = 3
  WRITE_FRAMES_SYNC = 2
  KillReportsExit = TRUE
  MaxWorkers = 0
  MaxFrame = 5
  MaxRequests = 2
  MaxWakeups = 1

PROPERTIES MetaStream RecorderNotLapped RecordedAsAsked GuiStopHolds
