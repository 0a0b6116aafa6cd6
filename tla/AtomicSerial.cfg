SPECIFICATION Spec
CONSTANTS
  Writers = {w1, w2}
  OneAtATime = TRUE
  MaxInodes = 3
SYMMETRY Callers
INVARIANTS
  PathComplete
  ReturnedIsDurable
PROPERTIES
  ImplementsFile
