SPECIFICATION Spec
CONSTANTS
    a = a
    b = b
    text = text
    snake = snake
    dotted = dotted
    meta = meta
    other = other
    vText = vText
    vSnake = vSnake
    vMeta = vMeta
    vOther = vOther
    Clients = {c1, c2}
    ReplicaOf <- MCReplicaOf
    TextFields = {text, snake}
    MetaFields = {meta}
    OtherFields = {other, dotted}
    StringFields = {text, snake, dotted, meta, other}
    VectorOf <- MCVectorOf
    FieldOf <- MCFieldOf
    TextAll = TextAll
    Values = {a, b}
    Operations <- MCCreates
    Configurations <- MCProjected
    AsyncWriteQueue = 1
    MaxOperations = 1
    MaxLost = 1
    None = None
SYMMETRY Symmetric
PROPERTIES CreateNeverOverwrites
CHECK_DEADLOCK FALSE
