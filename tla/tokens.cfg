SPECIFICATION Spec
CONSTANTS
    r1 = r1  r2 = r2  r3 = r3  r4 = r4  r5 = r5
    d1 = d1  d2 = d2  a1 = a1  a2 = a2  e1 = e1  e2 = e2
    Driver = "sqlite"
    DeviceIds = {d1}
    AnonymousIds = {a1}
    EventIds = {e1, e2}
    Requests = {r1, r2}
    MaxProjects = 2
    MaxTokens = 3
    MaxUsers = 1
    Seed = 1
    Registered <- NoneRegistered
    Call <- TokenCalls
    MaxEventsPerBatch = 1
    Faults = TRUE
    Admins = {c1, c2}
    AdminOps = {"create project", "delete project", "create token", "delete token", "update", "disable", "enable"}
    RetentionChoices = {1}
    MaxDays = 0
    Unhealthy = {}
INVARIANTS
    TypeOK
    FiledUnderToken
SYMMETRY ConsoleSymmetry
PROPERTIES
    TokenBindingIsFinal
    ReenabledAsRead
