SPECIFICATION ConsoleSpec
CONSTANTS
    Driver = "postgres"
    Sessions = {s1, s2}
    Usernames = {root, eve}
    AdminUsername = root
    Passwords = {p1}
    MaxTOTPFailures = 1
    ConsoleOps = {"login", "setup", "enable", "disable", "password", "create user", "update user", "delete user"}
    RoleChoices = {"admin", "viewer"}
    MaxAccounts = 3
    MaxSecrets = 1
    MaxJwts = 2
SYMMETRY SessionSymmetry
INVARIANTS
    RememberedIdsHold
    EnabledHasSecret
    FailuresBounded
