SPECIFICATION Spec
CONSTANTS
  s1 = s1
  s2 = s2
  c1 = c1
  c2 = c2
  NoOne = NoOne
  Sessions = {s1, s2}
  Channels = {c1, c2}
  EnvChannels = {c2}
  Asked = {c1}
  Apart = TRUE
SYMMETRY Symmetry
CHECK_DEADLOCK FALSE
INVARIANTS
  TypeOK
  LocalNeverRemote
  PostReaches
PROPERTY
  RoomsKept
