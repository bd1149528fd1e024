CONSTANTS
  Width = 2
  Menus <- MCAgain
SPECIFICATION Spec
CHECK_DEADLOCK FALSE
INVARIANT ElidedInBounds
