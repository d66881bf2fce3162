SPECIFICATION FairSpec
CONSTANTS
    Pids = {p1, p2}
    NoPid = NoPid
    ShellPgrp = ShellPgrp
    MaxJobs = 3
    MaxStages = 2
    ExitCodes = {0,1}
    UserCmds = {"run", "run&", "jobs"}
    EnvEvents = {"ctrlc", "ctrlz", "stop", "kill"}
    MayFail = TRUE
    PidReuse = FALSE
    MaxJobId = 3
PROPERTIES PromptReturns ZombiesReaped
INVARIANT JobAccuracy
CHECK_DEADLOCK FALSE
