SPECIFICATION AnalyticsSpec
CONSTANTS
    r1 = r1  r2 = r2  d1 = d1  d2 = d2  a1 = a1  e1 = e1  e2 = e2  v1 = v1  c1 = c1
    Driver = "sqlite"
    DeviceIds = {d1, d2}
    AnonymousIds = {a1}
    EventIds = {e1, e2}
    Requests = {r1, r2}
    MaxProjects = 1
    MaxTokens = 1
    MaxUsers = 1
    Seed = 1
    Registered <- BothOfFirst
    Call <- TwoDeviceCalls
    MaxEventsPerBatch = 2
    Faults = FALSE
    Admins = {c1}
    AdminOps = {"delete project"}
    RetentionChoices = {1}
    MaxDays = 1
    Unhealthy = {}
    Viewers = {v1}
    Reports = {"overview", "events", "properties", "geo"}
INVARIANTS
    AnswersAgree
