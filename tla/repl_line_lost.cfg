SPECIFICATION Spec
CONSTANTS
    None = None
    Lines <- TypedLines
    ChildLines <- QuietChildren
    IntLines <- IntCommands
    ExitLines <- ExitCommands
    MaxLines = 3
    MaxCtrlC = 2
    MaxStack = 5
INVARIANTS NoLineLost
CHECK_DEADLOCK FALSE
