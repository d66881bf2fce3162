SPECIFICATION Spec
CONSTANTS
    MaxProcs = 3
    MaxFd = 7
    MaxPrints = 1
    MaxFrames = 1
    MaxStages = 2
    LineBuffered = TRUE
    Redirections <- Fewest
    Habits = {"stage", "subst", "exec"}
INVARIANTS DescriptorsRestored OwnPipesClosed
CHECK_DEADLOCK FALSE
