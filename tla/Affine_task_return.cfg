SPECIFICATION Spec
CONSTANTS
  Names = {x, y}
  Mutexes = {1, 2}
  Callees <- AllCallees
  Menus <- TaskMenu
SYMMETRY Symmetry
INVARIANTS TasksJoined
CHECK_DEADLOCK FALSE
