SPECIFICATION FairSpec
CONSTANTS
    None = None
    Lines <- TypedLines
    ChildLines <- QuietChildren
    IntLines <- IntCommands
    ExitLines <- ExitCommands
    MaxLines = 3
    MaxCtrlC = 2
    MaxStack = 5
INVARIANTS TypeOK LostForACtrlC ExitTrapOnce ExitCodeKept
PROPERTY PromptOrEnd
CHECK_DEADLOCK FALSE
