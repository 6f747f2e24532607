\* The workspace is imported again with the same login during a clean-up.
CONSTANTS
  Account = {a1, a2}
  TokenOf <- SameToken
  Proc = {p1, p2}
  Kinds = {"cleanup"}
  Plans = {"free"}
  NoAccount = NoAccount
  NoProc = NoProc
SYMMETRY Symmetry
SPECIFICATION Spec
PROPERTIES ReplacementKept
\* Every goroutine and every import runs once, so the system stops.
CHECK_DEADLOCK FALSE
