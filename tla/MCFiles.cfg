\* Two handlers, or handlers and a backup handler; a file operation may fail and the
\* process may start again.
CONSTANTS
  a1 = a1
  a2 = a2
  t1 = t1
  t2 = t2
  t3 = t3
  Account = {a1, a2}
  Token = {t1, t2, t3}
  Handler = {h1, h2}
  Obj = {1, 2, 3, 4, 5, 6}
  MaxVisits <- Visits
  None = None
  Logins <- BothLogins
  Scenarios <- Together
  MaxFaults = 1
  MaxUndoFaults = 1
  MaxCrashes = 1
SYMMETRY Symmetry
SPECIFICATION Spec
INVARIANTS TypeOK DeletedStaysDeleted PoolIsOnDisk SwitchIsOnDisk RestoreIsExact
\* Every handler is called once, so the system stops.
CHECK_DEADLOCK FALSE
