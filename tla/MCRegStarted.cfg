\* A job is started.
CONSTANTS
  Job = {j1}
  Rows = 1
  Stream = {}
  Concurrency = 1
  MemCap = 1
  ChannelCap = 1
  Persistent = TRUE
  MaxRestarts = 0
  MaxFaults = 0
  NoJob = NoJob
SPECIFICATION Spec
INVARIANTS StartedDurable
\* Jobs, streams and restarts are limited, so the system stops.
CHECK_DEADLOCK FALSE
