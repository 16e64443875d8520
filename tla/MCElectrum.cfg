CONSTANTS
    Polled = {t1}
    Called = {t2}
    Free = Free
    Target = 2
    MaxHeight = 3
    MaxFetchFaults = 1
SPECIFICATION FairElectrumSpec
CHECK_DEADLOCK FALSE
INVARIANT StatusSound
PROPERTIES
    StatusNeverGoesBack
    WaitConcludes
