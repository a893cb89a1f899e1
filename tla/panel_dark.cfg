CONSTANTS
  a = a
  b = b
  Texts = {a, b}
  MaxPresses = 2
  MaxFaults = 0
SYMMETRY Symmetry
SPECIFICATION Spec
INVARIANTS
  NeverDarkUnnoticed
