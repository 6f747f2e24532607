\* Who waits for whom: two jobs of two rows and one worker each, the second may be a
\* retry; a delete and a restart at any moment, no stream and no failing write.
CONSTANTS
  Job = {j1, j2}
  Rows = 2
  Stream = {}
  Concurrency = 1
  MemCap = 1
  ChannelCap = 1
  Persistent = TRUE
  MaxRestarts = 1
  MaxFaults = 0
  NoJob = NoJob
SPECIFICATION Spec
INVARIANTS NobodyStuck GuardsExact
PROPERTIES JobsGoForward
\* Jobs, streams and restarts are limited, so the system stops.
CHECK_DEADLOCK FALSE
