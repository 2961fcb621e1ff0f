SPECIFICATION MiddlewareSpec
CONSTANTS
    k1 = k1  k2 = k2  c1 = c1  c2 = c2
    Keys = {k1, k2}
    RequestsPerMinute = 2
    Minute = 3
    MaxWindow = 4
    Editors = {c1, c2}
    Lists <- MCLists
    Headers <- MCHeaders
SYMMETRY ConsoleSymmetry
INVARIANTS
    MiddlewareTypeOK
    ServedInWindow
    AdmitsAsAsked
PROPERTIES
    PatientIsServed
    TokenBucketSpec
