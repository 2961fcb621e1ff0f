SPECIFICATION PeriodsFairSpec
CONSTANTS
    r1 = r1  r2 = r2  r3 = r3  r4 = r4  r5 = r5
    d1 = d1  d2 = d2  a1 = a1  a2 = a2  e1 = e1  e2 = e2
    Driver = "postgres"
    DeviceIds = {d1}
    AnonymousIds = {a1}
    EventIds = {e1, e2}
    Requests = {r1}
    MaxProjects = 2
    MaxTokens = 1
    MaxUsers = 1
    Seed = 1
    Registered <- RegisteredBoth
    Call <- TwoEvents
    MaxEventsPerBatch = 3
    Faults = FALSE
    Admins = {c1, c2}
    AdminOps = {"create project", "delete project", "update project"}
    RetentionChoices = {1}
    MaxDays = 3
    Unhealthy = {2}
INVARIANTS
    PeriodsAsAsked
PROPERTIES
    PurgedAsAsked
    NewProjectsAreUnknown
    NoEarlyPurge
    ExpiredIsPurged
