SPECIFICATION Spec
CONSTANTS
  Imported = 3
  MaxId = 4
  Ratings = {1}
  Colors = {red}
  DoubleTap = FALSE
  MaxOps = 4
INVARIANTS  ThumbsTrue UndoSeen
CHECK_DEADLOCK FALSE
