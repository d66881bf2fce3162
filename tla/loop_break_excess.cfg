SPECIFICATION Spec
CONSTANTS
    MaxLoopIterations = 1
    MaxCallDepth = 1
    MaxLevel = 2
    MaxSpan = 2
    MaxStack = 4
    WordLists <- PlainLists
    Constructs = {"while", "break"}
    Habits = {"excess"}
INVARIANT NothingPendingOutside
