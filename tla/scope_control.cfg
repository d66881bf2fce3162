SPECIFICATION Spec
CONSTANTS
    x = x
    y = y
    Names = {x, y}
    Values = {"e"}
    Empty = "e"
    Unset = Unset
    Free = Free
    MaxCallDepth = 2
    MaxParams = 1
    MaxLocals = 1
    MaxActivations = 3
    LongNames = {}
    Prefix = x
    Statements = {"assign", "export", "unset", "local", "for", "params"}
    LocalInLoop = TRUE
PROPERTY ScopesRefined
INVARIANTS TypeOK FramesMatchCalls
