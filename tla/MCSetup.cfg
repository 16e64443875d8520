CONSTANTS
    Session = {s1, s2}
    NoMessage = NoMessage
    Btc = {3, 4, 5}
    Rate = {2}
    MinBuy = 4
    MaxBuy = 4
    Unlocked = 18
    LockFee = 2
SPECIFICATION SetupSpec
CHECK_DEADLOCK FALSE
INVARIANTS
    EitherGetsOut
    SetupAgreement
    SpendKeyRevealed
    HonestPsbtAccepted
    UncoveredOnlyIfOvertaken
