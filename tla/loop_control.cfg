SPECIFICATION FairSpec
CONSTANTS
    MaxLoopIterations = 2
    MaxCallDepth = 1
    MaxLevel = 2
    MaxSpan = 2
    MaxStack = 4
    WordLists <- AllLists
    Constructs = {"if", "case", "while", "until", "for", "break", "continue", "function", "source", "eval"}
    Habits = {"excess", "condition", "after"}
INVARIANTS TypeOK DepthIsNesting
PROPERTY PromptComesBack
