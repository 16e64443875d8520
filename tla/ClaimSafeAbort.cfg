SPECIFICATION Spec
CONSTANTS
    CancelTimelock = 2
    PunishTimelock = 2
    FinalityConfirmations = 1
    MaxAliceStops = 1
    MaxBobStops = 0
    CrashBeforeSave = TRUE
    RpcFaults = FALSE
    ChangeOutputs = {FALSE}
    ShortLocks = {FALSE}
    ManualCommands = FALSE
INVARIANT AbortedBeforeLocking
