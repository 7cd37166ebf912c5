SPECIFICATION Spec
CONSTANTS
  dash = dash
  star = star
  standard = standard
  other = other
  Bullets = {dash}
  Modes <- MCModes
  DefaultMode = standard
  Async = FALSE
  MaxEvars = 3
  MaxIndex = 2
  MaxUndo = 4
  MaxFocus = 2
INVARIANT NoTrace
PROPERTY ImplementsHistory
