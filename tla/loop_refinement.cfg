SPECIFICATION Spec
CONSTANTS
    MaxLoopIterations = 2
    MaxCallDepth = 1
    MaxLevel = 2
    MaxSpan = 2
    MaxStack = 4
    WordLists <- PlainLists
    Constructs = {"while", "until", "for", "break", "continue", "function", "source"}
    Habits = {}
PROPERTY NestRefined
INVARIANTS PendingInsideLoop
