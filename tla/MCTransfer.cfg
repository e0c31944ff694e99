SPECIFICATION FairSpec
CONSTANTS
    Members = 4
    Capacity = 1
    MaxFaults = 3
INVARIANTS
    TypeOK
    CompleteStreamOnly
    InvalidSourceTouchesNothing
PROPERTY ImplementsCopy
