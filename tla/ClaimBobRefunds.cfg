SPECIFICATION FairSpec
CONSTANTS
    CancelTimelock = 2
    PunishTimelock = 2
    FinalityConfirmations = 1
    MaxAliceStops = 0
    MaxBobStops = 0
    CrashBeforeSave = FALSE
    RpcFaults = FALSE
    ChangeOutputs = {FALSE}
    ShortLocks = {FALSE}
    ManualCommands = FALSE
PROPERTY BobRefundsAfterExpiry
