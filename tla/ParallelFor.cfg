SPECIFICATION Spec
CONSTANTS
    WideHalf = 32
    NarrowHalf = 4
    Captured = {"acc", "x"}
    Acc = "acc"
    Container = "xs"
    Backends = {"c", "tree_llvm", "ssa_llvm"}
    Ops = {"rmw", "mul"}
    MaxBody = 5
    MaxSimple = 2
    MaxThreads = 3
    Loops <- MCLoops
    SmallLoops <- MCSmallLoops
    Allowed = {}
INVARIANTS NoDataRace EachIndexOnce ReductionExact
PROPERTIES LoopEnds
CHECK_DEADLOCK FALSE
