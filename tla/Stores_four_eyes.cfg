SPECIFICATION StoresSpec
CONSTANTS
  Parts = {"counts"}
  e1 = e1
  r1 = r1
  r2 = r2
  rr = rr
  Key = {e1, r1, r2, rr}
  Orig <- OrigV
  Caller = {c1, c2, c3}
  None = None
  Pending = Pending
  Count = {n1, n2}
  Item = {i1}
  User = {u1, u2}
  Request = {q1, q2}
  Nobody = Nobody
  MaxDeaths = 1
  MaxCalls = 8
  Inputs <- InputsV
  MaxLevel = 3
  Sweep = {q1, q2}
  Person = {u1, u2}
  MaxTurns = 3
  MaxHandled = 1
  MaxAlerts = 5
SYMMETRY Symmetry
CONSTRAINT Followed
CHECK_DEADLOCK FALSE
INVARIANTS
  FourEyes
