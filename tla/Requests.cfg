SPECIFICATION RequestSpec
CONSTANTS
    a = a
    b = b
    Spellings <- MCSpellings
    Fields <- MCFields
    Documents <- MCDocuments
    Leaves <- MCLeaves
    Siblings <- MCSiblings
    Minimums <- MCMinimums
    MaxDepth = 3
    None = None
    Requests <- MCRequests
    SearchLines <- MCSearchLines
    SentDepth = 2
INVARIANTS WritesAreFenced ViewsFitHandlers
           PublishedAreReads CallsAreProvable CachedSearchesAreExact
           FindsWhatItMeans EvaluationsAgree
CHECK_DEADLOCK FALSE
