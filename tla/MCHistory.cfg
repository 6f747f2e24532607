CONSTANTS
 Request = {r1, r2}
 Bridged = {r1}
 Admin = {a}
 None = None
 MaxEntries = 2
 MaxAttempts = 1
 MaxClears = 1
 MaxFaults = 1
SPECIFICATION Spec
INVARIANTS CleanHistoryIsOnDisk ClearedStaysCleared
PROPERTY RowsAreFinal
CHECK_DEADLOCK FALSE
