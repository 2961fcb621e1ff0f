SPECIFICATION MiddlewareSpec
CONSTANTS
    k1 = k1  k2 = k2  c1 = c1  c2 = c2
    Keys = {k1}
    RequestsPerMinute = 2
    Minute = 4
    MaxWindow = 4
    Editors = {}
    Lists <- OneList
    Headers <- OneHeader
PROPERTIES
    RefusedOnlyAtLimit
