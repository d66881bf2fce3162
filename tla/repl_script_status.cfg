SPECIFICATION Spec
CONSTANTS
    None = None
    Lines <- ScriptLines
    ChildLines <- QuietChildren
    IntLines <- IntCommands
    ExitLines <- ExitCommands
    MaxLines = 3
    MaxCtrlC = 0
    MaxStack = 5
INVARIANTS ScriptStatusKept
CHECK_DEADLOCK FALSE
