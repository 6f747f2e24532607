\* One job of two concurrent rows and a stream of its events, in memory only; the job
\* may be deleted.
CONSTANTS
  Job = {j1}
  Rows = 2
  Stream = {s1}
  Concurrency = 2
  MemCap = 1
  ChannelCap = 2
  Persistent = FALSE
  MaxRestarts = 0
  MaxFaults = 0
  NoJob = NoJob
SPECIFICATION FairSpec
INVARIANTS DoneViewIsFinal
PROPERTIES ViewNeverGoesBack JobsEnd
\* Jobs, streams and restarts are limited, so the system stops.
CHECK_DEADLOCK FALSE
