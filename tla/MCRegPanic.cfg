\* A client leaves while an event is sent to it.
CONSTANTS
  Job = {j1}
  Rows = 1
  Stream = {s1}
  Concurrency = 1
  MemCap = 1
  ChannelCap = 2
  Persistent = FALSE
  MaxRestarts = 0
  MaxFaults = 0
  NoJob = NoJob
SPECIFICATION Spec
INVARIANTS NoSendOnClosed
\* Jobs, streams and restarts are limited, so the system stops.
CHECK_DEADLOCK FALSE
