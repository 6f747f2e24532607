\* Three goroutines of any kind on one object; plans come and go, one includes AI.
CONSTANTS
  Account = {a1}
  TokenOf <- OwnTokens
  Proc = {p1, p2, p3}
  Kinds = {"inference", "background", "refresh", "register", "cleanup"}
  Plans = {"free", "plus", "team"}
  NoAccount = NoAccount
  NoProc = NoProc
SYMMETRY Symmetry
SPECIFICATION Spec
INVARIANTS NewestAnswerWins
PROPERTIES PermanentKept
\* Every goroutine and every import runs once, so the system stops.
CHECK_DEADLOCK FALSE
