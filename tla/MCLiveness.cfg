SPECIFICATION FairSpec
CONSTANTS
    CancelTimelock = 2
    PunishTimelock = 2
    FinalityConfirmations = 1
    MaxAliceStops = 0
    MaxBobStops = 1
    CrashBeforeSave = FALSE
    RpcFaults = FALSE
    ChangeOutputs <- Never
    ShortLocks <- Either
    ManualCommands = FALSE
INVARIANT AbortIsSafe
PROPERTIES
    AliceTerminates
    BobSettles
