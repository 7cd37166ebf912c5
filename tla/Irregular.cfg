SPECIFICATION Spec
CONSTANTS
  LoadKinds = {"each"}
  a = a
  b = b
  s0 = s0
  done = done
  None = None
  Names <- MCNames
  ProofStates <- MCProofStates
  Statement = s0
  Solved <- MCSolved
  MaxLabel = 3
  MaxSteps = 1
INVARIANTS TypeOK BottomEntry
PROPERTY ResetInitialIsBackTo
SYMMETRY Sym
CHECK_DEADLOCK FALSE
VIEW View
