SPECIFICATION Spec
CONSTANTS
  None = None
  Other = Other
  Odd = Odd
  Replacers = {r1}
  Pathers = {p1}
  Exclusives = {e1, e2}
  Dirs = {d1, d2}
  Inodes = {i1, i2, i3}
  MaxMoves = 1
SYMMETRY Alike
INVARIANTS
  OutputsWhole
  
  AnswersHold
CHECK_DEADLOCK FALSE
