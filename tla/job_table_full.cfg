SPECIFICATION Spec
CONSTANTS
    Pids = {p1, p2, p3}
    NoPid = NoPid
    ShellPgrp = ShellPgrp
    MaxJobs = 1
    MaxStages = 2
    ExitCodes = {0, 1}
    UserCmds = {"run", "run&"}
    EnvEvents = {"ctrlz"}
    MayFail = FALSE
    PidReuse = FALSE
    MaxJobId = 3
SYMMETRY PidSymmetry
INVARIANT StopRegistered
CHECK_DEADLOCK FALSE
