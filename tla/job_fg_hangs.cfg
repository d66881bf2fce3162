SPECIFICATION FairSpec
CONSTANTS
    Pids = {p1, p2}
    NoPid = NoPid
    ShellPgrp = ShellPgrp
    MaxJobs = 3
    MaxStages = 2
    ExitCodes = {0}
    UserCmds = {"run&", "fg"}
    EnvEvents = {"ctrlz"}
    MayFail = FALSE
    PidReuse = FALSE
    MaxJobId = 3
PROPERTY FgReturns
CHECK_DEADLOCK FALSE
