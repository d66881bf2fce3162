SPECIFICATION Spec
CONSTANTS
    Pids = {p1, p2, p3}
    NoPid = NoPid
    ShellPgrp = ShellPgrp
    MaxJobs = 3
    MaxStages = 2
    ExitCodes = {0, 1}
    UserCmds = {"run&"}
    EnvEvents = {}
    MayFail = FALSE
    PidReuse = FALSE
    MaxJobId = 3
SYMMETRY PidSymmetry
INVARIANT DoneMeansFinished
CHECK_DEADLOCK FALSE
