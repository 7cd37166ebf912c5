SPECIFICATION RegularSpec
CONSTANTS
  LoadKinds = {}
  a = a
  b = b
  s0 = s0
  done = done
  None = None
  Names <- MCNames
  ProofStates <- MCProofStates
  Statement = s0
  Solved <- MCSolved
  MaxLabel = 4
  MaxSteps = 2
INVARIANT Restorable
PROPERTY ImplementsDocument
SYMMETRY Sym
CHECK_DEADLOCK FALSE
VIEW View
