CONSTANTS
  Foci = {"batch", "history", "totals", "answer"}
  a1 = a1
  a2 = a2
  m1 = m1
  None = None
  Absent = Absent
  NoFlush = NoFlush
  Account = {a1, a2}
  Caller = {c1, c2}
  MailOf <- Mails
  Actions = {"delete_missing"}
  Selections <- Selected
  Concurrency = 2
  HistoryLimit = 1
  MaxJobs = 2
  MaxRestarts = 1
  Request = {r1, r2}
  Bridged = {r1}
  Admin = {admin}
  MaxEntries = 2
  MaxAttempts = 1
  MaxClears = 1
  MaxFaults = 1
  RetainDays = 1
  MaxTotal = 4
  MaxDay = 4
  MaxCrashes = 1
  Clients = {"sse", "whole", "chat", "responses"}
  Asks = {"text", "json", "tools", "required", "research"}
  Cap = 1
  MaxEvents = 3
  MaxCalls = 2
SPECIFICATION ServicesSpec
INVARIANTS TypesOK Counts OneJob CleanHistoryIsOnDisk ClearedStaysCleared OneAnswer PartsInOrder NobodyWaits
PROPERTIES RowsAreFinal TotalsNeverFall
\* What is asked for and what may fail is bounded, so each component stops.
CHECK_DEADLOCK FALSE
