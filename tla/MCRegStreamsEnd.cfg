\* A stream that reads slower than its job goes on.
CONSTANTS
  Job = {j1}
  Rows = 1
  Stream = {s1}
  Concurrency = 1
  MemCap = 1
  ChannelCap = 1
  Persistent = FALSE
  MaxRestarts = 0
  MaxFaults = 0
  NoJob = NoJob
SPECIFICATION FairSpec
PROPERTIES StreamsEnd
\* Jobs, streams and restarts are limited, so the system stops.
CHECK_DEADLOCK FALSE
