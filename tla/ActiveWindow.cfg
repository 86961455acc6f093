CONSTANTS
  Window = {w1, w2}
  App = {a, b}
  Stranger = {x}
  NoId = NoId
  Treeland = FALSE
  MaxSteps = 6
  MaxQueued = 2
SPECIFICATION Spec
SYMMETRY Symmetry
CHECK_DEADLOCK FALSE
PROPERTY
  TrackingRemoved
