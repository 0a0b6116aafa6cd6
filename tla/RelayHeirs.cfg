SPECIFICATION Spec
CONSTANTS
  a1 = a1
  a2 = a2
  r1 = r1
  A = A
  B = B
  Nicks = {A}
  Sessions = {a1, a2}
  NickOf <- NickOfPair
  Remote = {}
  Msgs = {m1, m2}
  MustRead = {m2}
  Cli = Cli
  Everyone = Everyone
SYMMETRY Heirs
CHECK_DEADLOCK FALSE
INVARIANTS
  TypeOK
  AdoptedOnce
  NothingLost
PROPERTIES
  LiveMailStays
  OnlyUnreadInherited
