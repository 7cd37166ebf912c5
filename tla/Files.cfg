SPECIFICATION RegularSpec
CONSTANTS
  LoadKinds = {"atomic", "each"}
  a = a
  b = b
  s0 = s0
  done = done
  None = None
  Names = {a}
  ProofStates <- MCProofStates
  Statement = s0
  Solved <- MCSolved
  MaxLabel = 4
  MaxSteps = 3
INVARIANT LibraryRestorable
PROPERTY BackWorks
CHECK_DEADLOCK FALSE
VIEW View
