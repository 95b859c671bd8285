SPECIFICATION LanSpec
CONSTANTS
  n1 = n1
  n2 = n2
  n3 = n3
  c1 = c1
  c2 = c2
  c3 = c3
  a1 = a1
  a2 = a2
  a3 = a3
  Node = {n1, n2, n3}
  Conn = {c1, c2, c3}
  NoNode = NoNode
  NoConn = NoConn
  Address = {a1, a2, a3}
  NoAddress = NoAddress
  Goals <- MCGoals
  Books <- MCBooks
  MaxSends = 2
  MaxFaults = 1
  Passing = {n3}
  Homes <- MCHomes
  Quota <- MCQuota
  MaxNews = 1
SYMMETRY ConnSymmetry
INVARIANTS
  LanTypeOK
  GoneSessionWasMisdialled
  ReceivedWasWritten
  ReceivedOnce
  OvertakenAfterLoss
PROPERTY
  AnswerIsDialledAfterBadDial
CHECK_DEADLOCK FALSE
