\* A login is rejected after the process has started.
CONSTANTS
  a1 = a1
  a2 = a2
  t1 = t1
  t2 = t2
  t3 = t3
  Account = {a1, a2}
  Token = {t1, t2, t3}
  Handler = {h1}
  Obj = {1, 2, 3, 4, 5, 6}
  MaxVisits <- Visits
  None = None
  Logins <- BothLogins
  Scenarios <- Rejects
  MaxFaults = 0
  MaxUndoFaults = 0
  MaxCrashes = 0
SYMMETRY Symmetry
SPECIFICATION Spec
INVARIANTS InvalidIsOnDisk
\* Every handler is called once, so the system stops.
CHECK_DEADLOCK FALSE
