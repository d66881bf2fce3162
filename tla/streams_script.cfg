SPECIFICATION Spec
CONSTANTS
    MaxProcs = 2
    MaxFd = 8
    MaxPrints = 2
    MaxFrames = 2
    MaxStages = 2
    LineBuffered = FALSE
    Redirections <- Some
    Habits = {"fail"}
INVARIANTS TypeOK WrittenWhereItBelongs AtMostOnce NothingLost
CHECK_DEADLOCK FALSE
