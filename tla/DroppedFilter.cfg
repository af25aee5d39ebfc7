CONSTANTS
    None = None
    Malformed = Malformed
    ScrollOrder <- MCScrollOrder
    TextFields = {1, 2}
    Values <- MCValues
    Contents <- MCContents
    Populations <- MCPopulations
    Writable <- MCWritable
    MaxWrites = 2
    AggregationPage = 2
    MaxBuckets = 2
    Bucket <- MCBucket
    Batches <- ExcludingBatches
    MaxPageSize = 2
    MaxWindow = 5
SPECIFICATION Spec
INVARIANTS
    FiltersHold
