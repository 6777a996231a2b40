SPECIFICATION FairSpec
CONSTANTS
  BUFSIZE = 3
  WRITE_FRAMES_SYNC = 2
  KillReportsExit = TRUE
  MaxWorkers = 1
  MaxFrame = 5
  MaxRequests = 0
  MaxWakeups = 0
INVARIANTS TypeOK MetadataIntact OutbufIntact PlaysFromAskedLine IInv LineInv
PROPERTIES StreamDrains ChannelDelivers DestroyedReaped
