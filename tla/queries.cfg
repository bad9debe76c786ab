CONSTANTS
    Null = Null
    Undefined = Undefined
    Rows <- SomeRows
    Inners <- SomeInners
    Conditions <- SomeConditions
    Shapes <- SomeShapes
    Kinds = {"inner", "left"}
    Threshold = 1
    MaxCalls = 4

SPECIFICATION Spec
INVARIANTS
    TreesMeanTheirClosures
    TargetsKeepTheAnswer
    StatementsMeanTheOptions
CHECK_DEADLOCK FALSE
