\* A login is rejected while a backup is restored.
CONSTANTS
  a1 = a1
  a2 = a2
  t1 = t1
  t2 = t2
  t3 = t3
  Account = {a1, a2}
  Token = {t1, t2, t3}
  Handler = {h1, h2}
  Obj = {1, 2, 3, 4, 5, 6}
  MaxVisits <- Visits
  None = None
  Logins <- BothLogins
  Scenarios <- RejectsInRestore
  MaxFaults = 0
  MaxUndoFaults = 0
  MaxCrashes = 0
SYMMETRY Symmetry
SPECIFICATION Spec
INVARIANTS RestoreIsExact
\* Every handler is called once, so the system stops.
CHECK_DEADLOCK FALSE
