SPECIFICATION Spec
CONSTANTS
    r1 = r1  r2 = r2  r3 = r3  r4 = r4  r5 = r5
    d1 = d1  d2 = d2  a1 = a1  a2 = a2  e1 = e1  e2 = e2
    Driver = "postgres"
    DeviceIds = {d1, d2}
    AnonymousIds = {a1, a2}
    EventIds = {e1}
    Requests = {r1, r2, r3, r4, r5}
    MaxProjects = 2
    MaxTokens = 2
    MaxUsers = 3
    Seed = 2
    Registered <- RegisteredBoth
    Call <- IdentityCalls
    MaxEventsPerBatch = 3
    Faults = TRUE
    Admins = {c1}
    AdminOps = {"delete project"}
    RetentionChoices = {1}
    MaxDays = 0
    Unhealthy = {}
INVARIANTS
    LinkedAsIdentified
    FiledAsIdentified
    UniqueKeys
    ReferentialIntegrity
