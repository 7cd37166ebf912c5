SPECIFICATION Spec
CONSTANTS
  W = 4
  B = 16
INVARIANTS OperationsAgree Euclidean
PROPERTIES ImplementsDivision Terminates
CHECK_DEADLOCK FALSE
