SPECIFICATION Spec
CONSTANTS
    Identities = {d1}
    Tokens = {t1, t2}
    Readers = {r1}
    Keys = {k1}
    Parts = {p1}
    MaxEpoch = 2
    None = None
    Garbled = Garbled
INVARIANTS
    TypeOK
    HitsAreCurrent
    UncertaintyFences
    NoNeedlessFence
PROPERTIES
    NoLostAdministration
SYMMETRY Symmetry
CHECK_DEADLOCK FALSE
