\* Who waits for whom: three goroutines of three kinds, imports and removals in between.
CONSTANTS
  Account = {a1, a2}
  TokenOf <- OwnTokens
  Proc = {p1, p2, p3}
  Kinds = {"inference", "register", "cleanup"}
  Plans = {"free"}
  NoAccount = NoAccount
  NoProc = NoProc
SYMMETRY Symmetry
SPECIFICATION Spec
INVARIANTS NoneLeftBehind GuardsExact
PROPERTIES OnlyForward
\* Every goroutine and every import runs once, so the system stops.
CHECK_DEADLOCK FALSE
