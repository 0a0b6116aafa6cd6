SPECIFICATION FairSpec
CONSTANTS
  h1 = h1
  h2 = h2
  d1 = d1
  d2 = d2
  e1 = e1
  m1 = m1
  m2 = m2
  Hosts = {h1, h2}
  Daemons = {d1, d2, e1}
  HostOf <- Places
  Single = {d2}
  MaxStarts = 2
  Msgs = {m1}
  Origin <- Senders
INVARIANTS
  NothingSkipped
  NoEcho
  NoSilentDrop
  NoTwins
  HandledOnce
PROPERTIES
  CaughtUp
CHECK_DEADLOCK FALSE
