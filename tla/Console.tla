------------------------------ MODULE Console ------------------------------
(***************************************************************************)
(* The accounts of the console: internal/handler/auth.go and users.go, the *)
(* JWTs of internal/auth, and bootstrapAdmin of cmd/oximetric/main.go.     *)
(*                                                                         *)
(* Every change of an account but its creation and deletion reads the row, *)
(* changes it in memory and writes all of it back by id, in no             *)
(* transaction: a frame holds the row in between.  Checks of passwords and *)
(* codes are made on the row that was read.  An e-mail, which is a second  *)
(* name to sign in with, is left out.                                      *)
(***************************************************************************)
EXTENDS RowIds, FiniteSets

CONSTANTS
    Sessions,         \* console requests in flight together
    Usernames,
    AdminUsername,    \* OXIMETRIC_ADMIN_USERNAME
    Passwords,        \* two hashes are of one password or of two
    MaxTOTPFailures,  \* the 5 of checkTOTPLimit
    ConsoleOps,       \* bound: the operations that are tried
    RoleChoices,      \* bound: the roles that are given to accounts
    MaxAccounts,      \* bound on the accounts ever created
    MaxSecrets,       \* bound on the TOTP secrets ever generated
    MaxJwts           \* bound on the JWTs that have not expired

Roles == {"admin", "manager", "viewer"}

AllConsoleOps == {"login", "password", "setup", "enable", "disable",
                  "create user", "update user", "delete user"}

ASSUME ConsoleAssumption ==
    /\ IsFiniteSet(Sessions)
    /\ AdminUsername \in Usernames
    /\ ConsoleOps \subseteq AllConsoleOps
    /\ RoleChoices \subseteq Roles
    /\ {MaxTOTPFailures, MaxAccounts, MaxSecrets, MaxJwts} \subseteq Nat
    /\ MaxTOTPFailures > 0 /\ MaxAccounts > 0

VARIABLES
    console_users,
    numbers,    \* the last id issued, and how many accounts and secrets were made
    jwts,       \* the claims that were signed and have not expired
    frames,     \* the requests between two calls on the store
    attempts    \* failures in the running window of totpAttempts, by login

consoleVars == <<console_users, numbers, jwts, frames, attempts>>

AccountIds == 1 .. MaxAccounts

\* `born` is a history field: the how-many-th account this is.
Account == [id : AccountIds, username : Usernames, password : Passwords, role : Roles,
            totp_secret : 0 .. MaxSecrets, totp_enabled : BOOLEAN, born : AccountIds]
Claims == [user : AccountIds, role : Roles, born : AccountIds]

\* pc names the call the request makes next; `row` is what it has read, or, when
\* it is to be written, what that has been changed into.
Writing == {"password", "setup", "enable", "disable", "update user"}
Idle == [pc |-> "idle"]
Frame == {Idle} \cup [pc : {"check", "code"} \cup Writing, row : Account]

ConsoleTypeOK ==
    /\ console_users \subseteq Account
    /\ numbers \in [last : Nat, born : 0 .. MaxAccounts, secrets : 0 .. MaxSecrets]
    /\ jwts \subseteq Claims
    /\ frames \in [Sessions -> Frame]
    /\ attempts \in [Usernames -> Nat]

-----------------------------------------------------------------------------
(* Statements on console_users.                                             *)

NameTaken(username, id) == \E u \in console_users : u.username = username /\ u.id # id

InsertAccount(username, password, role) ==
    \E id \in AccountIds :
        /\ numbers.born < MaxAccounts
        /\ IsNextId(id, Ids(console_users), numbers.last)
        /\ console_users' = console_users \cup
             {[id |-> id, username |-> username, password |-> password, role |-> role,
               totp_secret |-> Null, totp_enabled |-> FALSE, born |-> numbers.born + 1]}
        /\ numbers' = [numbers EXCEPT !.last = id, !.born = @ + 1]

\* All columns, by id.  (`born` is not a column: it stays that of the row hit.)
UpdateConsoleUser(row) ==
    console_users' = {IF u.id = row.id THEN [row EXCEPT !.born = u.born] ELSE u :
                        u \in console_users}

-----------------------------------------------------------------------------
Free(s, op) == frames[s] = Idle /\ op \in ConsoleOps
Keep(s, pc, row) == frames' = [frames EXCEPT ![s] = [pc |-> pc, row |-> row]]
Answer(s) == frames' = [frames EXCEPT ![s] = Idle]

IssueJWT(row) ==
    /\ Cardinality(jwts) < MaxJwts
    /\ jwts' = jwts \cup {[user |-> row.id, role |-> row.role, born |-> row.born]}

-----------------------------------------------------------------------------
(* Login.  A wrong user name or password changes nothing.                   *)

Login(s) ==
    /\ Free(s, "login")
    /\ \E row \in console_users :
         IF row.totp_enabled /\ row.totp_secret # Null
         THEN Keep(s, "check", row) /\ UNCHANGED jwts
         ELSE IssueJWT(row) /\ UNCHANGED frames
    /\ UNCHANGED <<console_users, numbers, attempts>>

\* What CheckTOTPLimit must not be: without the limit.
CheckNoLimit(s) ==
    /\ frames[s].pc = "check"
    /\ Keep(s, "code", frames[s].row)
    /\ UNCHANGED <<console_users, numbers, jwts, attempts>>

CheckTOTPLimit(s) ==
    /\ frames[s].pc = "check"
    /\ IF attempts[frames[s].row.username] < MaxTOTPFailures
       THEN Keep(s, "code", frames[s].row)
       ELSE Answer(s)
    /\ UNCHANGED <<console_users, numbers, jwts, attempts>>

RightCode(s) ==
    /\ frames[s].pc = "code"
    /\ IssueJWT(frames[s].row)
    /\ Answer(s)
    /\ UNCHANGED <<console_users, numbers, attempts>>

\* recordTOTPFailure.
WrongCode(s) ==
    /\ frames[s].pc = "code"
    /\ attempts' = [attempts EXCEPT ![frames[s].row.username] = @ + 1]
    /\ Answer(s)
    /\ UNCHANGED <<console_users, numbers, jwts>>

\* resetAt has passed: the entry counts as absent, for the check and the record.
WindowEnds(login) ==
    /\ attempts[login] > 0
    /\ attempts' = [attempts EXCEPT ![login] = 0]
    /\ UNCHANGED <<console_users, numbers, jwts, frames>>

JwtExpires ==
    /\ \E c \in jwts : jwts' = jwts \ {c}
    /\ UNCHANGED <<console_users, numbers, frames, attempts>>

-----------------------------------------------------------------------------
(* The account of the session: the row with the id of the claims.           *)

Own(c) == {row \in console_users : row.id = c.user}

ChangePassword(s) ==
    /\ Free(s, "password")
    /\ \E c \in jwts : \E row \in Own(c), password \in Passwords :
         Keep(s, "password", [row EXCEPT !.password = password])
    /\ UNCHANGED <<console_users, numbers, jwts, attempts>>

TOTPSetup(s) ==
    /\ Free(s, "setup")
    /\ numbers.secrets < MaxSecrets
    /\ numbers' = [numbers EXCEPT !.secrets = @ + 1]
    /\ \E c \in jwts : \E row \in Own(c) :
         Keep(s, "setup", [row EXCEPT !.totp_secret = numbers.secrets + 1])
    /\ UNCHANGED <<console_users, jwts, attempts>>

\* What TOTPEnable must not be: without asking for a secret.
TOTPEnableUnprepared(s) ==
    /\ Free(s, "enable")
    /\ \E c \in jwts : \E row \in Own(c) :
         Keep(s, "enable", [row EXCEPT !.totp_enabled = TRUE])
    /\ UNCHANGED <<console_users, numbers, jwts, attempts>>

TOTPEnable(s) ==
    /\ Free(s, "enable")
    /\ \E c \in jwts : \E row \in Own(c) :
         /\ row.totp_secret # Null
         /\ Keep(s, "enable", [row EXCEPT !.totp_enabled = TRUE])
    /\ UNCHANGED <<console_users, numbers, jwts, attempts>>

TOTPDisable(s) ==
    /\ Free(s, "disable")
    /\ \E c \in jwts : \E row \in Own(c) :
         Keep(s, "disable", [row EXCEPT !.totp_enabled = FALSE, !.totp_secret = Null])
    /\ UNCHANGED <<console_users, numbers, jwts, attempts>>

-----------------------------------------------------------------------------
(* Other accounts: RequireRole("admin") looks at the role in the claims.    *)

AdminClaims == {c \in jwts : c.role = "admin"}

CreateUser(s) ==
    /\ Free(s, "create user")
    /\ AdminClaims # {}
    /\ \E username \in Usernames, password \in Passwords, role \in RoleChoices :
         ~ NameTaken(username, Null) /\ InsertAccount(username, password, role)
    /\ UNCHANGED <<jwts, frames, attempts>>

UpdateUser(s) ==
    /\ Free(s, "update user")
    /\ \E c \in AdminClaims, row \in console_users, username \in Usernames, role \in RoleChoices :
         /\ row.id # c.user
         /\ Keep(s, "update user", [row EXCEPT !.username = username, !.role = role])
    /\ UNCHANGED <<console_users, numbers, jwts, attempts>>

\* (The bound leaves room for the account that the next start may create.)
DeleteUser(s) ==
    /\ Free(s, "delete user") /\ numbers.born < MaxAccounts
    /\ \E c \in AdminClaims, row \in console_users :
         row.id # c.user /\ console_users' = console_users \ {row}
    /\ UNCHANGED <<numbers, jwts, frames, attempts>>

-----------------------------------------------------------------------------
\* The write of the five read-modify-write handlers.  A name that is taken by
\* now is an error; an account that is gone is not.
WriteAccount(s) ==
    /\ frames[s].pc \in Writing
    /\ ~ NameTaken(frames[s].row.username, frames[s].row.id)
    /\ UpdateConsoleUser(frames[s].row)
    /\ Answer(s)
    /\ UNCHANGED <<numbers, jwts, attempts>>

\* 500, and nothing written.  (Of an UPDATE that committed, 200 and 500 leave the
\* same state: WriteAccount is both.)
WriteFails(s) ==
    /\ frames[s].pc \in Writing
    /\ Answer(s)
    /\ UNCHANGED <<console_users, numbers, jwts, attempts>>

-----------------------------------------------------------------------------
\* bootstrapAdmin with the password of the configuration: the account is created,
\* or its password replaced and 2FA reset, or nothing is changed.
BootstrapAdmin(password) ==
    IF ~ NameTaken(AdminUsername, Null)
    THEN InsertAccount(AdminUsername, password, "admin")
    ELSE /\ console_users' =
              {IF u.username = AdminUsername /\ u.password # password
               THEN [u EXCEPT !.password = password, !.totp_enabled = FALSE,
                              !.totp_secret = Null]
               ELSE u : u \in console_users}
         /\ UNCHANGED numbers

\* A crash or a shutdown, and the next start.  JWTs outlive it; the configuration
\* may have changed.
Restart ==
    /\ \E password \in Passwords : BootstrapAdmin(password)
    /\ frames' = [s \in Sessions |-> Idle]
    /\ attempts' = [login \in Usernames |-> 0]
    /\ UNCHANGED jwts

\* After the first start.
ConsoleInit ==
    /\ \E password \in Passwords :
         console_users = {[id |-> 1, username |-> AdminUsername, password |-> password,
                           role |-> "admin", totp_secret |-> Null, totp_enabled |-> FALSE,
                           born |-> 1]}
    /\ numbers = [last |-> 1, born |-> 1, secrets |-> 0]
    /\ jwts = {}
    /\ frames = [s \in Sessions |-> Idle]
    /\ attempts = [login \in Usernames |-> 0]

SessionStep(s) ==
    \/ Login(s) \/ CheckTOTPLimit(s) \/ RightCode(s) \/ WrongCode(s)
    \/ ChangePassword(s) \/ TOTPSetup(s) \/ TOTPEnable(s) \/ TOTPDisable(s)
    \/ CreateUser(s) \/ UpdateUser(s) \/ DeleteUser(s)
    \/ WriteAccount(s) \/ WriteFails(s)

ConsoleNext ==
    \/ \E s \in Sessions : SessionStep(s)
    \/ \E login \in Usernames : WindowEnds(login)
    \/ JwtExpires
    \/ Restart

ConsoleSpec == ConsoleInit /\ [][ConsoleNext]_consoleVars

-----------------------------------------------------------------------------
\* An id that a JWT or a write in flight remembers names the account it was read
\* from, or none: no request acts on an account that was created later.
RememberedIdsHold ==
    \A u \in console_users :
        /\ \A c \in jwts : c.user = u.id => c.born = u.born
        /\ \A s \in Sessions :
             frames[s].pc \in Writing /\ frames[s].row.id = u.id => frames[s].row.born = u.born

\* An account with 2FA has a secret (login skips 2FA without one), however the
\* set-up, enabling and disabling of several sessions of the account interleave.
EnabledHasSecret == \A u \in console_users : u.totp_enabled => u.totp_secret # Null

\* The limiter checks and records under two holds of its lock: it can overshoot,
\* but in a window by no more than the requests that are in flight together.
FailuresBounded ==
    \A login \in Usernames : attempts[login] < MaxTOTPFailures + Cardinality(Sessions)

Written(s, ops) == frames[s].pc \in ops /\ frames'[s] = Idle

\* While the server runs, a password is changed by the account's owner, a role by
\* an administrator's update, and 2FA by the three requests that are about it.
EachChangesItsOwn ==
    [][Restart \/ \A u \in console_users, v \in console_users' : u.born = v.born =>
         /\ u.password # v.password => \E s \in Sessions : Written(s, {"password"})
         /\ u.role # v.role => \E s \in Sessions : Written(s, {"update user"})
         /\ u.totp_enabled # v.totp_enabled =>
              \E s \in Sessions : Written(s, {"enable", "disable"})]_consoleVars
=============================================================================
