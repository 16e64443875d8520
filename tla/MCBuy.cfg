CONSTANTS
    U64 = 1000000
    OneBdx = 1000
    BeldexFee = 20
    Reserve = 1000
    DustAmount = 546
    MaxAbsoluteFee = 900
    MinRelayFee = 300
    Price = {0, 41, 2500}
    Spread = 2
    BdxBalance = {900, 3000, 40000}
    MinBuy = 1500
    MaxBuy = 4000
    Preferred = {500, 600}
    AnyAmount = AnyAmount
    Recommended = {200, 800, 1000}
    Deposit = {700, 2700}
    MaxCoins = 3400
SPECIFICATION BuySpec
CHECK_DEADLOCK FALSE
INVARIANTS
    QuoteSound
    AmountSound
    FeesLeaveRefund
PROPERTY WaitEnds
