\* Progress of both kinds of request under a fair scheduler, with a sweep.
CONSTANTS
  Request = {r1, r2}
  Account = {a1}
  Session = {s1, s2, s3}
  Salt = {k1}
  Stateless = TRUE
  Turn = {t1}
  MaxHistory = 1
  MaxAttempts = 1
  MaxPurges = 0
  MaxSweeps = 1
  NoKey = NoKey
  NoSession = NoSession
  NoOne = NoOne
SPECIFICATION FairSpec
INVARIANTS MutexNotStranded
PROPERTIES RequestsEnd
\* Every request runs once, so the system stops when all are answered.
CHECK_DEADLOCK FALSE
