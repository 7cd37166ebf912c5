SPECIFICATION ForwardSpec
CONSTANTS
  dash = dash
  star = star
  standard = standard
  other = other
  Bullets <- MCBullets
  Modes = {standard}
  DefaultMode = standard
  Async = FALSE
  MaxEvars = 4
  MaxIndex = 2
  MaxUndo = 100
  MaxFocus = 3
INVARIANTS GoalsAccounted NeverBare BulletsDistinct BracesMatch
VIEW ForwardView
