SPECIFICATION Spec
CONSTANTS
  n1 = n1
  n2 = n2
  c1 = c1
  c2 = c2
  c3 = c3
  Node <- MCNode2
  Conn = {c1, c2, c3}
  NoNode = NoNode
  NoConn = NoConn
  Goals <- MCGoals2
  MaxSends = 2
  MaxFaults = 1
SYMMETRY ConnSymmetry
INVARIANTS
  TypeOK
  OwnDialIsSession
  NoKeyForGoneSocket
  NoLineLeftBehind
  EmittedIsPrefixOfWritten
PROPERTIES
  SessionIsSticky
  ImplementsDelivery
CHECK_DEADLOCK FALSE
