SPECIFICATION Spec
CONSTANTS
  W = 4
  V6 = V6
  NoAddress = NoAddress
  NoPrefix = NoPrefix
  Place <- MCPlace
  Typed <- MCTyped
  LanPrefix = 2
  MaxMoves = 1
  MaxStops = 1
  MaxChanges = 4
INVARIANTS
  TypeOK
  DialogShowsLists
PROPERTY
  OnlyTheChosenIsLost
CHECK_DEADLOCK FALSE
