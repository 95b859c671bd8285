SPECIFICATION FairSpec
CONSTANTS
  n1 = n1
  n2 = n2
  x1 = x1
  Node = {n1, n2}
  Passing = {x1}
  V6 = V6
  NoAddress = NoAddress
  W <- MCWidth
  LanPrefix <- MCLanPrefix
  HostAddress <- MCHosts
  Homes <- MCHomes
  SubnetInput <- MCSubnets
  BlockedInput <- MCBlocked
  MaxMoves = 1
  MaxStops = 1
  MaxChanges = 1
INVARIANTS
  TypeOK
  NotOwnContact
  TablesAgree
PROPERTIES
  ContactKeepsFirstAddress
  RestartFindsNewestAddress
  BlockedIsNotAdded
  HeartbeatIsHeard
CHECK_DEADLOCK FALSE
