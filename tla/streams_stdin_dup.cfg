SPECIFICATION Spec
CONSTANTS
    MaxProcs = 3
    MaxFd = 6
    MaxPrints = 2
    MaxFrames = 2
    MaxStages = 2
    LineBuffered = TRUE
    Redirections <- StdinDup
    Habits = {}
INVARIANTS DescriptorsRestored
CHECK_DEADLOCK FALSE
