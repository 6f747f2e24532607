\* A plan comes and goes while a request marks.
CONSTANTS
  Account = {a1}
  TokenOf <- OwnTokens
  Proc = {p1, p2, p3, p4}
  Kinds = {"inference", "refresh"}
  Plans = {"free", "team"}
  NoAccount = NoAccount
  NoProc = NoProc
SYMMETRY Symmetry
SPECIFICATION Spec
PROPERTIES NeverRevived
\* Every goroutine and every import runs once, so the system stops.
CHECK_DEADLOCK FALSE
