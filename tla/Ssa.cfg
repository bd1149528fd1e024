SPECIFICATION Spec
CONSTANTS
  Menus <- AllMenus
  Fuel = 6
  MaxBlocks = 60
  Inputs = {0, 1}
INVARIANTS SameOutcome NoUndefinedRead WellFormed LoopsEnd
CHECK_DEADLOCK FALSE
