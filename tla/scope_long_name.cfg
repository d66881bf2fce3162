SPECIFICATION Spec
CONSTANTS
    x = x
    y = y
    Names = {x, y}
    Values = {"e", "a"}
    Empty = "e"
    Unset = Unset
    Free = Free
    MaxCallDepth = 1
    MaxParams = 0
    MaxLocals = 1
    MaxActivations = 2
    LongNames = {y}
    Prefix = x
    Statements = {"local"}
    LocalInLoop = FALSE
INVARIANT NothingLeaks
