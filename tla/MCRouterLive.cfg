SPECIFICATION FairSpec
CONSTANTS
  n1 = n1
  n2 = n2
  c1 = c1
  c2 = c2
  c3 = c3
  Node <- MCNode2
  Conn = {c1, c2, c3}
  NoNode = NoNode
  NoConn = NoConn
  Goals <- MCGoals2
  MaxSends = 1
  MaxFaults = 1
PROPERTY
  WrittenIsEmitted
CHECK_DEADLOCK FALSE
