SPECIFICATION Spec
CONSTANTS
    n1 = n1
    n2 = n2
    n3 = n3
    c1 = c1
    c2 = c2
    c3 = c3
    f = f
    Requests = {r1, r2, r3}
    Names = {n1, n2, n3}
    Collections = {c1, c2, c3}
    SearchOf <- MCSearchOf
    DocumentsOf <- MCDocumentsOf
    Fields = {f}
    FastFields = FastFields
    Operations <- MCOperations
    Projection = TRUE
    Shared = TRUE
    MaxLost = 1
    None = None
SYMMETRY Symmetric
INVARIANTS CatalogWellFormed DisagreementIsClaimed FailedCreateLeavesNothing
PROPERTIES LiveIndexSurvives
CHECK_DEADLOCK FALSE
