\* A sweep while an invalidated session is still in flight.
CONSTANTS
  Request = {r1, r2}
  Account = {a1}
  Session = {s1, s2, s3}
  Salt = {k1}
  Stateless = FALSE
  Turn = {t1}
  MaxHistory = 1
  MaxAttempts = 1
  MaxPurges = 1
  MaxSweeps = 1
  NoKey = NoKey
  NoSession = NoSession
  NoOne = NoOne
SPECIFICATION Spec
SYMMETRY Symmetry
INVARIANTS NoResurrection
\* Every request runs once, so the system stops when all are answered.
CHECK_DEADLOCK FALSE
