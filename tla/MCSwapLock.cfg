SPECIFICATION FairLockSpec
CONSTANTS
    Buy = {b1}
    Resume = {r1, r2}
    Cancel = {c1}
    Suspender = {s1, s2}
    NoRequest = NoRequest
INVARIANTS
    OneSwap
    ReleaseOwned
PROPERTY SuspensionTakesEffect
