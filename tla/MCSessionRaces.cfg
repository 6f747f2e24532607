\* Two requests, of a client with a conversation id or without one, so that one
\* continues a thread while another races it; failover, and one purge.
CONSTANTS
  Request = {r1, r2}
  Account = {a1}
  Session = {s1, s2, s3}
  Salt = {k1}
  Stateless = TRUE
  Turn = {t1}
  MaxHistory = 1
  MaxAttempts = 2
  MaxPurges = 1
  MaxSweeps = 0
  NoKey = NoKey
  NoSession = NoSession
  NoOne = NoOne
SPECIFICATION Spec
SYMMETRY Symmetry
INVARIANTS BindingCurrent AmbiguousUnbound ContinuationExact NoResurrection
\* Every request runs once, so the system stops when all are answered.
CHECK_DEADLOCK FALSE
