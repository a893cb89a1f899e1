CONSTANTS
  a = a
  b = b
  Texts = {a, b}
  MaxPresses = 2
  MaxFaults = 2
SYMMETRY Symmetry
SPECIFICATION Spec
INVARIANTS
  PanelIsRight
  KeysAreHandled
