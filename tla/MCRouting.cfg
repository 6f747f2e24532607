\* Two requests on a login with two workspaces and on a better one, one slot each.
CONSTANTS
  Request = {r1, r2}
  a1 = a1
  a2 = a2
  b1 = b1
  c1 = c1
  w1 = w1
  w2 = w2
  w3 = w3
  la = la
  lb = lb
  ta = ta
  tb = tb
  tc = tc
  Account = {a1, a2, b1}
  Workspace = {w1, w2, w3}
  Login = {la, lb}
  Token = {ta, tb, tc}
  WorkspaceOf <- Workspaces
  LoginOf <- Logins
  TokenOf <- Tokens
  TierOf <- Tiers
  Included = {b1}
  InitialPool = {a1, a2, b1}
  MaxSlots = 1
  MaxCalls = 2
  MaxEmpty = 1
  MaxEvents = 0
  NoAccount = NoAccount
  NoWorkspace = NoWorkspace
SPECIFICATION Spec
SYMMETRY Symmetry
INVARIANTS TypeOK FreshAccounts SlotsBounded SiblingsInvalid
\* Every request runs once, so the system stops when all are answered.
CHECK_DEADLOCK FALSE
