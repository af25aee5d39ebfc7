SPECIFICATION Spec
CONSTANTS
    Identities = {d1, d2}
    Tokens = {t1}
    Readers = {r1, r2}
    Keys = {k1}
    Parts = {p1, p2}
    MaxEpoch = 2
    None = None
    Garbled = Garbled
INVARIANTS
    HitsAreCurrent
SYMMETRY Symmetry
CHECK_DEADLOCK FALSE
