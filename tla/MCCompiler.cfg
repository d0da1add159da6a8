SPECIFICATION Spec
CHECK_DEADLOCK FALSE
CONSTANTS
    MaxInt = 3
    MaxIters = 6
    BareExpressions = FALSE
    AliasStarts = TRUE
    Names <- NamesInOrder
    Programs <- SmallPrograms
    Levels = {"off", "basic"}
INVARIANTS CompiledAgrees LoweringVerifies NoUndefRead CanonicalFixpoint
