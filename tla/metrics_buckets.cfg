SPECIFICATION Spec
CONSTANTS
    Series = {s1, s2}
    Buckets <- MCBuckets
    MaxValue = 3
    MaxObservations = 3
INVARIANT RenderedBuckets
