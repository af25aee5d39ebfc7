SPECIFICATION FairSpec
CONSTANTS
    Callers = {c1, c2, c3}
    MaxConnections = 3
    None = None
INVARIANTS NeverReplayed NoNeedlessConnection
PROPERTIES BrokenIsReplaced CallsEnd
