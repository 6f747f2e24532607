\* Two jobs in a memory for one, the second may be a retry; a crash and a failing
\* write at any moment.
CONSTANTS
  Job = {j1, j2}
  Rows = 1
  Stream = {}
  Concurrency = 1
  MemCap = 1
  ChannelCap = 1
  Persistent = TRUE
  MaxRestarts = 1
  MaxFaults = 1
  NoJob = NoJob
SPECIFICATION Spec
INVARIANTS TypeOK DoneIsComplete OkHasAccount CompletedDurable
\* Jobs, streams and restarts are limited, so the system stops.
CHECK_DEADLOCK FALSE
