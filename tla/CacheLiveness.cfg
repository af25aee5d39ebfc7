SPECIFICATION FairSpec
CONSTANTS
    Identities = {d1}
    Tokens = {t1, t2}
    Readers = {}
    Keys = {k1}
    Parts = {p1}
    MaxEpoch = 2
    None = None
    Garbled = Garbled
PROPERTIES
    FenceReopens
CHECK_DEADLOCK FALSE
