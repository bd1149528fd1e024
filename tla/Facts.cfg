CONSTANTS
  Width = 2
  Menus <- MCMenus
SPECIFICATION Spec
CHECK_DEADLOCK FALSE
INVARIANTS
  ProvedHolds
  ElidedInBounds
  InvariantsHold
  EnsuresHold
