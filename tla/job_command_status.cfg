SPECIFICATION Spec
CONSTANTS
    Pids = {p1, p2}
    NoPid = NoPid
    ShellPgrp = ShellPgrp
    MaxJobs = 3
    MaxStages = 2
    ExitCodes = {0, 1}
    UserCmds = {"command"}
    EnvEvents = {}
    MayFail = FALSE
    PidReuse = FALSE
    MaxJobId = 3
PROPERTY CommandStatus
CHECK_DEADLOCK FALSE
