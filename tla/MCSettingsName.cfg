SPECIFICATION Spec
CONSTANTS
  p1 = p1
  p2 = p2
  host = host
  role = role
  ann = ann
  placeholder = placeholder
  motto = motto
  default = default
  other = other
  Process = {p1}
  NoText = NoText
  Name = {host, role, ann}
  HostName = host
  RoleName = role
  Signature = {placeholder, motto}
  Placeholder = placeholder
  Option = {default, other}
  Default = default
  MaxStarts = 2
  MaxEdits = 1
  MaxFailures = 1
  MaxDeaths = 1
INVARIANT
  SentUnderProfile
CHECK_DEADLOCK FALSE
