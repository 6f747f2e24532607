\* A request is told no, another is told yes before the first one marks.
CONSTANTS
  Account = {a1}
  TokenOf <- OwnTokens
  Proc = {p1, p2}
  Kinds = {"inference"}
  Plans = {"plus"}
  NoAccount = NoAccount
  NoProc = NoProc
SYMMETRY Symmetry
SPECIFICATION Spec
INVARIANTS MarkMatchesAnswer
\* Every goroutine and every import runs once, so the system stops.
CHECK_DEADLOCK FALSE
