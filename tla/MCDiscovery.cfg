CONSTANTS
    Node = {n1, Self}
    Self = Self
    Point = n1
    Seller = {asb, s2}
    Asb = asb
    MaxDrops = 2
    MaxRefusals = 1
SPECIFICATION DiscoverySpec
CHECK_DEADLOCK FALSE
INVARIANT EverybodyAccounted
PROPERTIES
    Relisted
    ListingConcludes
