SPECIFICATION Spec
CONSTANTS
    Pids = {p1, p2, p3}
    NoPid = NoPid
    ShellPgrp = ShellPgrp
    MaxJobs = 3
    MaxStages = 2
    ExitCodes = {1}
    UserCmds = {"run", "run&", "fg", "bg", "jobs", "command"}
    EnvEvents = {"ctrlc", "ctrlz", "cont"}
    MayFail = TRUE
    PidReuse = FALSE
    MaxJobId = 3
SYMMETRY PidSymmetry
INVARIANTS TypeOK SignalState NoLostSigchld StagesHeld ForegroundStatus StopRegistered DoneMeansLeaderReaped
CHECK_DEADLOCK FALSE
