SPECIFICATION BackOfficeSpec
CONSTANTS
  Parts = {"import", "upcoming", "timeline", "report", "sessions"}
  r1 = r1
  r2 = r2
  r3 = r3
  Row = {r1, r2, r3}
  ChunkOf <- ChunkV
  Figure <- FigureV
  OnHand <- OnHandV
  Reserved <- ReservedV
  Worker = {w1, w2}
  MaxLosses = 1
  m1 = m1
  m2 = m2
  s1 = s1
  s2 = s2
  Arrival = {m1, m2}
  Amount <- AmountV
  Shipment = {s1, s2}
  Standing = {s1}
  Expected <- ExpectedV
  Eta <- EtaV
  Edits = {2}
  Pass = {x1, x2}
  Waiting <- WaitingV
  Lookback = 1
  Unknown = 9
  MaxTime = 3
  MaxCalls = 1
  OrderLine = {l1, l2}
  Stage = {1, 2}
  Mover = {x1, x2}
  MaxMoves = 3
  Attempt = {x1, x2, f}
  Forced = {f}
  MailTries = 1
  b1 = b1
  b2 = b2
  x1 = x1
  x2 = x2
  Browser = {b1, b2}
  Tab = {x1, x2}
  BrowserOf <- BrowserOfV
  OldHolder = {b1}
  MaxSessions = 2
  MaxTokens = 3
SYMMETRY Symmetry
CHECK_DEADLOCK FALSE
INVARIANTS
  BackOfficeTypeOK
  RowsMoveOnce
  JobTellsTruth
  ArrivalsAddUp
  NothingMissed
  FifoShares
  AnnouncedOnce
  MailedOnce
  StaysSignedIn
