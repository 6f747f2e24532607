\* Two goroutines, two imports with a login each, a plan that includes AI.
CONSTANTS
  Account = {a1, a2}
  TokenOf <- OwnTokens
  Proc = {p1, p2}
  Kinds = {"inference", "refresh", "cleanup"}
  Plans = {"free", "team"}
  NoAccount = NoAccount
  NoProc = NoProc
SPECIFICATION FairSpec
INVARIANTS SingleFlight
PROPERTIES RegisterSpec ReplacementKept ChecksEnd
\* Every goroutine and every import runs once, so the system stops.
CHECK_DEADLOCK FALSE
