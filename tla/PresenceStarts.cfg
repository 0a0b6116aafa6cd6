SPECIFICATION Spec
CONSTANTS
  Starters = {p1, p2, p3}
  Others = {o1, o2}
  Probers = {q1}
  MaxInodes = 4
SYMMETRY Contenders
INVARIANTS
  OneHolder
  HolderVisible
PROPERTIES
  ReapsOnlyTheDead
  DeadIsDead
