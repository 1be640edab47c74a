\* Times in units of a quarter of APP_CTRL_PERIOD_MS, shortened where only
\* the order of the timeouts matters.
SPECIFICATION Spec
CONSTANTS
    NWheels = 2
    Twists <- MCTwists
    Modes = {"IDLE", "MANUAL"}
    Idle = "IDLE"
    BadMode = "MODE_4"
    TickMod = 14
    CtrlPeriod = 2
    CmdTimeout = 3
    HeartbeatTimeout = 5
    StatusPeriod = 3
    ReportPeriod = 3
    SendBudget = 1
    ReportBudget = 1
    CpuBudget = 1
    WatchdogTimeout = 2
PROPERTY TimeoutsAreReal
