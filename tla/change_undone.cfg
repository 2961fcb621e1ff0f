SPECIFICATION ConsoleSpec
CONSTANTS
    Driver = "postgres"
    Sessions = {s1, s2}
    Usernames = {root, eve}
    AdminUsername = root
    Passwords = {p1, p2}
    MaxTOTPFailures = 5
    ConsoleOps = {"login", "password", "create user", "update user"}
    RoleChoices = {"admin", "viewer"}
    MaxAccounts = 2
    MaxSecrets = 1
    MaxJwts = 2
SYMMETRY SessionSymmetry
PROPERTIES
    EachChangesItsOwn
