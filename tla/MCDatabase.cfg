SPECIFICATION DbSpec
CONSTANTS
    Swap = {w1, w2}
    Peer = {p1, p2}
    None = None
    MaxRows = 8
    MaxHeight = 1
    MaxStops = 2
INVARIANTS
    ListedIsUsable
    MovedIsStored
    RunsFromRecord
    SecretsOnRecord
    RestoreCoversTransfer
CHECK_DEADLOCK FALSE
