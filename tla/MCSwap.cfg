SPECIFICATION Spec
CONSTANTS
    CancelTimelock = 2
    PunishTimelock = 2
    FinalityConfirmations = 1
    MaxAliceStops = 1
    MaxBobStops = 1
    CrashBeforeSave = TRUE
    RpcFaults = TRUE
    ChangeOutputs <- Either
    ShortLocks <- Either
    ManualCommands = TRUE
INVARIANTS
    TypeOK
    Atomicity
    RedeemBacked
    AliceRecordsTruth
    BobRecordsTruth
PROPERTIES
    RecordsNeverRegress
    ImplementsContract
