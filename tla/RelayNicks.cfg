SPECIFICATION FairSpec
CONSTANTS
  a1 = a1
  a2 = a2
  r1 = r1
  A = A
  B = B
  Nicks = {A, B}
  Sessions = {a1, a2, r1}
  NickOf <- NickOfWithRemote
  Remote = {r1}
  Msgs = {m1}
  MustRead = {}
  Cli = Cli
  Everyone = Everyone
CHECK_DEADLOCK FALSE
PROPERTIES
  ImplementsMailbox
  OrphansAdopted
