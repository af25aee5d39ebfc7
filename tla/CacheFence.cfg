SPECIFICATION Spec
CONSTANTS
    Identities = {d1, d2, d3}
    Tokens = {t1, t2, t3}
    Keys = {k1}
    MaxEpoch = 2
    None = None
INVARIANTS
    TypeOK
    NoStaleHit
    HeldWriterFences
PROPERTIES
    IdentityOpensOnce
    MaintenanceHolds
    ImplementsWriteFence
SYMMETRY Symmetry
CHECK_DEADLOCK FALSE
