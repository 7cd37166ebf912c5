SPECIFICATION Spec
CONSTANTS
  W = 4
  N = 8
  Values = 16
  Loaded = {0, 1, 2, 3, 4, 5, 6, 7}
INVARIANTS ShiftsPop
