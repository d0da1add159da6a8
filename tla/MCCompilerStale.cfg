SPECIFICATION Spec
CHECK_DEADLOCK FALSE
CONSTANTS
    MaxInt = 3
    MaxIters = 6
    BareExpressions = TRUE
    AliasStarts = FALSE
    Names <- NamesInOrder
    Programs <- SmallPrograms
    Levels = {"off"}
INVARIANT MergesBranchExit
