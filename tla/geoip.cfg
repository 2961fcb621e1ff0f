SPECIFICATION GeoFairSpec
CONSTANTS
    MaxAge = 5
    MaxEnds = 2
INVARIANTS
    BehindByOne
PROPERTIES
    Repaired
    RewrittenMonthly
