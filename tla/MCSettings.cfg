SPECIFICATION Spec
CONSTANTS
  p1 = p1
  p2 = p2
  host = host
  role = role
  ann = ann
  placeholder = placeholder
  motto = motto
  default = default
  other = other
  Process = {p1, p2}
  NoText = NoText
  Name = {host, role, ann}
  HostName = host
  RoleName = role
  Signature = {placeholder, motto}
  Placeholder = placeholder
  Option = {default, other}
  Default = default
  MaxStarts = 3
  MaxEdits = 2
  MaxFailures = 1
  MaxDeaths = 1
INVARIANTS
  TypeOK
  IdentitiesAreAccountedFor
  SecondRowNeedsOverlap
  ChangesAreStored
  RestartShowsStoredState
SYMMETRY Processes
CHECK_DEADLOCK FALSE
