SPECIFICATION Spec
CONSTANTS
  n1 = n1
  n2 = n2
  x1 = x1
  Node = {n1, n2}
  Passing = {x1}
  V6 = V6
  NoAddress = NoAddress
  W <- MCWidth
  LanPrefix <- MCLanPrefix
  HostAddress <- MCHosts
  Homes <- MCHomes
  SubnetInput <- MCSubnets
  BlockedInput <- MCBlocked
  MaxMoves = 0
  MaxStops = 0
  MaxChanges = 1
INVARIANT
  CurrentSegmentIsAnnounced
CHECK_DEADLOCK FALSE
