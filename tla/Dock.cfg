SPECIFICATION Spec
SYMMETRY Symmetry
CONSTANTS
  Screen = {s1, s2}
  Popup = {p}
  Dock = Dock
  NoScreen = NoScreen
  MaxSwitches = 1
INVARIANTS
  TypeOK
  HideIsComing
  ShowIsComing
  AreasFit
  OnPrimary
