SPECIFICATION FairMsgSpec
CONSTANTS
    Swap = {s1, s2}
    NoSwap = NoSwap
    MaxLoops = 2
    MaxFaults = 2
CHECK_DEADLOCK FALSE
INVARIANTS
    AckedIsKept
    NothingStranded
PROPERTY SendingConcludes
