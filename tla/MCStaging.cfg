SPECIFICATION FairSpec
CONSTANTS
    Proc = {p1, p2}
    Stage = {s1, s2, s3}
    Slot = {a}
    Lease = Lease
    Foreign = Foreign
    None = None
    MaxFaults = 2
INVARIANTS
    TypeOK
    OwnPayloadIntact
    PayloadHasLease
    RecoveryComplete
PROPERTIES
    UnfamiliarPreserved
    OrphanReaped
