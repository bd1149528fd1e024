SPECIFICATION Spec
CONSTANTS
  Names = {x, y}
  Mutexes = {1, 2}
  Callees <- AllCallees
  Menus <- AllMenus
SYMMETRY Symmetry
INVARIANTS NoDoubleFree NoStaleUse NothingLeaked TasksJoined NoDeadlock
CHECK_DEADLOCK FALSE
