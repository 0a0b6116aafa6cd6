SPECIFICATION Spec
CONSTANTS
  x = x
  m1 = m1
  e1 = e1
  p1 = p1
  d1 = d1
  d2 = d2
  r1 = r1
  NoOne = NoOne
  Nicks = {x}
  Msgs = {m1}
  Inbound = {e1}
  Box <- BoxOfX
  DirectMail = {m1}
  Peers = {p1}
  Name <- NamedX
  Daemons = {d1, d2}
  Rival = r1
  AllowOutbound = TRUE
  SerialStart = TRUE
  MaxFaults = 1
CHECK_DEADLOCK FALSE
INVARIANTS
  RosterReachable
