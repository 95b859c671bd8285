SPECIFICATION FairSpec
CONSTANTS
  n1 = n1
  n2 = n2
  n3 = n3
  x2 = x2
  d1 = d1
  d2 = d2
  f1 = f1
  f2 = f2
  Node = {n1, n2, n3, x2}
  NoNode = NoNode
  Passing = {x2}
  Home <- MCHome
  Dir = {d1, d2}
  File = {f1, f2}
  DirOf <- MCDirOf
  Known <- MCKnown
  User = {n1, n2}
  StoredDirs <- MCStored
  MaxSends = 2
  MaxChanges = 1
  MaxFaults = 1
INVARIANTS
  TypeOK
  DialogShowsChosenPeer
  DownloadWasOffered
PROPERTIES
  ServedIsShared
  AsksAreAnswered
CHECK_DEADLOCK FALSE
