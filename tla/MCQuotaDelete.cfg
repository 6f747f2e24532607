\* A refresh finds a better plan after a clean-up has looked.
CONSTANTS
  Account = {a1}
  TokenOf <- OwnTokens
  Proc = {p1, p2}
  Kinds = {"refresh", "cleanup"}
  Plans = {"free", "team"}
  NoAccount = NoAccount
  NoProc = NoProc
SYMMETRY Symmetry
SPECIFICATION Spec
PROPERTIES DeletesExhausted
\* Every goroutine and every import runs once, so the system stops.
CHECK_DEADLOCK FALSE
