SPECIFICATION Spec
CONSTANTS
    a = a
    b = b
    text = text
    snake = snake
    dotted = dotted
    meta = meta
    other = other
    vText = vText
    vSnake = vSnake
    vMeta = vMeta
    vOther = vOther
    Clients = {c1}
    ReplicaOf <- MCReplicaOf
    TextFields = {text, snake}
    MetaFields = {meta}
    OtherFields = {other, dotted}
    StringFields = {text, snake, dotted, meta, other}
    VectorOf <- MCVectorOf
    FieldOf <- MCFieldOf
    TextAll = TextAll
    Values = {a, b}
    Operations <- MCOperations
    Configurations <- MCProjected
    AsyncWriteQueue = 1
    MaxOperations = 3
    MaxLost = 0
    None = None
SYMMETRY Symmetric
INVARIANTS SparseIndexFollows
CHECK_DEADLOCK FALSE
