SPECIFICATION Spec
CONSTANTS
  Peer = {1, 2}
  NoPeer = NoPeer
  HistoryLimit = 2
  RecentLimit = 1
  FileName <- MCFileName
  MaxMessages = 3
  MaxClock = 1
  MaxStops = 1
INVARIANTS
  TypeOK
  ConversationIsWhole
  ShownInOrder
  HistoryMatchesSent
  RecentIsFreshAfterChat
PROPERTY
  FileRowsKeepTheirFile
CHECK_DEADLOCK FALSE
