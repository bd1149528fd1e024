SPECIFICATION Spec
CONSTANTS
    Kinds = {"bst"}
    Keys = {1, 2, 3}
    TreeKeys = {1, 2, 3, 4, 5}
    Values = {TRUE, FALSE}
    Elements = {1, 2}
    Words <- MCWords
    Letters = {1, 2}
    N = 4
    GraphSizes = {0, 3}
    GraphEdges <- MCGraphEdges
    GraphBounds <- MCGraphBounds
    Heuristics <- MCHeuristics
    Hash <- MCHash
    Shapes <- MCShapes
    Step <- MCStep
    Word = 128
    TableCapacities <- MCTableCapacities
    RingCapacities <- MCRingCapacities
    ArenaSizes <- MCArenaSizes
    MaxLen = 5
    SlotReuse = TRUE
    VecNames = {"xs", "ys"}
    VecTypes <- MCVecTypes
    MaxCells = 3
    Ints = {0, 1, 2}
    IntArguments <- MCIntArguments
    SortCutoff = 2
    NumberArguments <- MCNumberArguments
    Allowed = {}
    None = None
INVARIANTS LookupsAgree
CHECK_DEADLOCK FALSE
