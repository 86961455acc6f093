CONSTANTS
  Window = {w1, w2}
  App = {a, b}
  Stranger = {x}
  NoId = NoId
  Treeland = TRUE
  MaxSteps = 5
  MaxQueued = 3
SPECIFICATION Spec
CONSTRAINT Few
SYMMETRY Symmetry
CHECK_DEADLOCK FALSE
INVARIANTS
  TypeOK
  BindingsFollow
  EntriesFit
  WindowsTogether
  GroupsPartition
PROPERTY
  BindingsKept
