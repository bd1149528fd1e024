SPECIFICATION Spec
CONSTANTS
  Menus <- CopyMenu
  Fuel = 6
  MaxBlocks = 60
  Inputs = {0, 1}
INVARIANTS SameOutcome
CHECK_DEADLOCK FALSE
