CONSTANTS
  Admins = {a1, a2}
  Values = {x, y}
  MaxLoggers = 4
SYMMETRY Symmetry
SPECIFICATION Spec
INVARIANT SavesAreWhole
