SPECIFICATION Spec
CONSTANTS
  W = 4
  N = 8
  Values = 16
  Depth = 3
  Images <- Programs
INVARIANTS Agrees Balanced NoDangling OnInstruction
