SPECIFICATION Spec
CONSTANTS
  dash = dash
  star = star
  standard = standard
  other = other
  Bullets = {dash}
  Modes = {standard}
  DefaultMode = standard
  Async = TRUE
  MaxEvars = 3
  MaxIndex = 1
  MaxUndo = 3
  MaxFocus = 1
INVARIANT TypeOK
PROPERTIES SoundSave CommandEnds
