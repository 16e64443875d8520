CONSTANTS
    Locker = {l1}
    Refunder = {r1, r2}
    Main = Main
    NoWallet = NoWallet
    MainFunds = 1
    MaxFaults = 2
SPECIFICATION FairWalletSpec
CHECK_DEADLOCK FALSE
INVARIANT RefundKept
PROPERTIES
    WatchConcludes
    RefundsConclude
    RedeemConcludes
