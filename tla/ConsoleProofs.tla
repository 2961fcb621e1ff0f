--------------------------- MODULE ConsoleProofs ---------------------------
(***************************************************************************)
(* Theorems of Console.                                                    *)
(***************************************************************************)
EXTENDS Console, TLAPS, FiniteSetTheorems

USE DEF Null

-----------------------------------------------------------------------------
(* Types.                                                                   *)

LEMMA BoundsAreNat ==
    /\ MaxSecrets \in Nat /\ MaxAccounts \in Nat /\ MaxAccounts > 0
    /\ MaxTOTPFailures \in Nat /\ MaxTOTPFailures > 0
    /\ 1 \in AccountIds /\ 0 \in 0 .. MaxSecrets
BY ConsoleAssumption DEF AccountIds

\* What the handlers make of the row of an account is a row of an account.
LEMMA RowChanges ==
    ASSUME NEW row \in Account
    PROVE  /\ \A password \in Passwords : [row EXCEPT !.password = password] \in Account
           /\ \A secret \in 0 .. MaxSecrets :
                [row EXCEPT !.totp_secret = secret] \in Account
           /\ [row EXCEPT !.totp_enabled = TRUE] \in Account
           /\ [row EXCEPT !.totp_enabled = FALSE, !.totp_secret = Null] \in Account
           /\ \A username \in Usernames, role \in Roles :
                [row EXCEPT !.username = username, !.role = role] \in Account
           /\ \A password \in Passwords :
                [row EXCEPT !.password = password, !.totp_enabled = FALSE,
                            !.totp_secret = Null] \in Account
           /\ \A born \in AccountIds : [row EXCEPT !.born = born] \in Account
<1> USE BoundsAreNat DEF Account
<1>1. \A password \in Passwords : [row EXCEPT !.password = password] \in Account
  OBVIOUS
<1>2. \A secret \in 0 .. MaxSecrets : [row EXCEPT !.totp_secret = secret] \in Account
  OBVIOUS
<1>3. [row EXCEPT !.totp_enabled = TRUE] \in Account
  OBVIOUS
<1>4. [row EXCEPT !.totp_enabled = FALSE, !.totp_secret = Null] \in Account
  OBVIOUS
<1>5. \A username \in Usernames, role \in Roles :
        [row EXCEPT !.username = username, !.role = role] \in Account
  OBVIOUS
<1>6. \A password \in Passwords :
        [row EXCEPT !.password = password, !.totp_enabled = FALSE,
                    !.totp_secret = Null] \in Account
  OBVIOUS
<1>7. \A born \in AccountIds : [row EXCEPT !.born = born] \in Account
  OBVIOUS
<1> QED
  BY <1>1, <1>2, <1>3, <1>4, <1>5, <1>6, <1>7

Busy == [pc : {"check", "code"} \cup Writing, row : Account]

LEMMA FrameIs == Frame = {Idle} \cup Busy
BY DEF Frame, Busy

LEMMA IdleOrBusy ==
    ASSUME ConsoleTypeOK, NEW s \in Sessions
    PROVE  /\ frames[s] = Idle \/ frames[s] \in Busy
           /\ frames[s].pc \in {"check", "code"} \cup Writing => frames[s] \in Busy
           /\ frames[s] \in Busy => frames[s].row \in Account
<1>1. frames[s] = Idle \/ frames[s] \in Busy
  BY FrameIs DEF ConsoleTypeOK
<1>2. frames[s] = Idle => frames[s].pc = "idle"
  BY DEF Idle
<1>3. frames[s] \in Busy => frames[s].row \in Account
  BY DEF Busy
<1> QED
  BY <1>1, <1>2, <1>3 DEF Writing

LEMMA KeepType ==
    ASSUME ConsoleTypeOK, NEW s \in Sessions, NEW pc \in {"check", "code"} \cup Writing,
           NEW row \in Account, Keep(s, pc, row)
    PROVE  frames' \in [Sessions -> Frame]
<1>1. [pc |-> pc, row |-> row] \in Frame
  BY FrameIs DEF Busy
<1> QED
  BY <1>1 DEF Keep, ConsoleTypeOK

LEMMA AnswerType ==
    ASSUME ConsoleTypeOK, NEW s \in Sessions, Answer(s)
    PROVE  frames' \in [Sessions -> Frame]
BY FrameIs DEF Answer, ConsoleTypeOK

LEMMA IssueType ==
    ASSUME ConsoleTypeOK, NEW row \in Account, IssueJWT(row)
    PROVE  jwts' \subseteq Claims
BY DEF IssueJWT, ConsoleTypeOK, Account, Claims

LEMMA InsertType ==
    ASSUME ConsoleTypeOK, NEW username \in Usernames, NEW password \in Passwords,
           NEW role \in Roles, InsertAccount(username, password, role)
    PROVE  /\ console_users' \subseteq Account
           /\ numbers' \in [last : Nat, born : 0 .. MaxAccounts, secrets : 0 .. MaxSecrets]
<1>1. PICK id \in AccountIds :
        /\ numbers.born < MaxAccounts
        /\ console_users' = console_users \cup
             {[id |-> id, username |-> username, password |-> password, role |-> role,
               totp_secret |-> Null, totp_enabled |-> FALSE, born |-> numbers.born + 1]}
        /\ numbers' = [numbers EXCEPT !.last = id, !.born = @ + 1]
  BY DEF InsertAccount
<1>2. numbers.born + 1 \in AccountIds /\ Null \in 0 .. MaxSecrets
  BY <1>1, ConsoleAssumption DEF ConsoleTypeOK, AccountIds
<1>3. [id |-> id, username |-> username, password |-> password, role |-> role,
       totp_secret |-> Null, totp_enabled |-> FALSE, born |-> numbers.born + 1] \in Account
  BY <1>2 DEF Account
<1>4. numbers' \in [last : Nat, born : 0 .. MaxAccounts, secrets : 0 .. MaxSecrets]
  <2>1. numbers.born + 1 \in 0 .. MaxAccounts /\ id \in Nat
    BY <1>2 DEF AccountIds
  <2> QED
    BY <1>1, <2>1 DEF ConsoleTypeOK
<1> QED
  BY <1>1, <1>3, <1>4 DEF ConsoleTypeOK

LEMMA BootstrapType ==
    ASSUME ConsoleTypeOK, NEW password \in Passwords, BootstrapAdmin(password)
    PROVE  /\ console_users' \subseteq Account
           /\ numbers' \in [last : Nat, born : 0 .. MaxAccounts, secrets : 0 .. MaxSecrets]
<1>1. CASE ~ NameTaken(AdminUsername, Null)
  <2>1. InsertAccount(AdminUsername, password, "admin")
    BY <1>1 DEF BootstrapAdmin
  <2> QED
    BY <2>1, InsertType, ConsoleAssumption DEF Roles
<1>2. CASE NameTaken(AdminUsername, Null)
  <2>1. /\ console_users' =
              {IF u.username = AdminUsername /\ u.password # password
               THEN [u EXCEPT !.password = password, !.totp_enabled = FALSE,
                              !.totp_secret = Null]
               ELSE u : u \in console_users}
        /\ numbers' = numbers
    BY <1>2 DEF BootstrapAdmin
  <2>2. \A u \in Account : [u EXCEPT !.password = password, !.totp_enabled = FALSE,
                                     !.totp_secret = Null] \in Account
    BY RowChanges
  <2> QED
    BY <2>1, <2>2 DEF ConsoleTypeOK
<1> QED
  BY <1>1, <1>2

LEMMA UpdateType ==
    ASSUME ConsoleTypeOK, NEW row \in Account, UpdateConsoleUser(row)
    PROVE  console_users' \subseteq Account
<1>1. \A u \in console_users : [row EXCEPT !.born = u.born] \in Account
  BY RowChanges DEF ConsoleTypeOK, Account
<1> QED
  BY <1>1 DEF UpdateConsoleUser, ConsoleTypeOK

LEMMA SessionType ==
    ASSUME ConsoleTypeOK, NEW s \in Sessions, SessionStep(s)
    PROVE  ConsoleTypeOK'
<1>1. CASE Login(s)
  <2>1. PICK row \in console_users :
           IF row.totp_enabled /\ row.totp_secret # Null
           THEN Keep(s, "check", row) /\ UNCHANGED jwts
           ELSE IssueJWT(row) /\ UNCHANGED frames
    BY <1>1 DEF Login
  <2>2. row \in Account
    BY DEF ConsoleTypeOK
  <2>3. CASE Keep(s, "check", row) /\ UNCHANGED jwts
    BY <1>1, <2>2, <2>3, KeepType DEF Login, ConsoleTypeOK
  <2>4. CASE IssueJWT(row) /\ UNCHANGED frames
    BY <1>1, <2>2, <2>4, IssueType DEF Login, ConsoleTypeOK
  <2> QED
    BY <2>1, <2>3, <2>4
<1>2. CASE CheckTOTPLimit(s)
  <2>1. frames[s].row \in Account
    BY <1>2, IdleOrBusy DEF CheckTOTPLimit
  <2>2. CASE Keep(s, "code", frames[s].row)
    BY <1>2, <2>1, <2>2, KeepType DEF CheckTOTPLimit, ConsoleTypeOK
  <2>3. CASE Answer(s)
    BY <1>2, <2>3, AnswerType DEF CheckTOTPLimit, ConsoleTypeOK
  <2> QED
    BY <1>2, <2>2, <2>3 DEF CheckTOTPLimit
<1>3. CASE RightCode(s)
  <2>1. frames[s].row \in Account
    BY <1>3, IdleOrBusy DEF RightCode
  <2> QED
    BY <1>3, <2>1, AnswerType, IssueType DEF RightCode, ConsoleTypeOK
<1>4. CASE WrongCode(s)
  <2>1. frames[s].row.username \in Usernames
    BY <1>4, IdleOrBusy DEF WrongCode, Account
  <2>2. attempts' \in [Usernames -> Nat]
    BY <1>4, <2>1 DEF WrongCode, ConsoleTypeOK
  <2> QED
    BY <1>4, <2>2, AnswerType DEF WrongCode, ConsoleTypeOK
<1>5. CASE ChangePassword(s)
  <2>1. PICK row \in console_users, password \in Passwords :
           Keep(s, "password", [row EXCEPT !.password = password])
    BY <1>5 DEF ChangePassword, Own
  <2>2. [row EXCEPT !.password = password] \in Account
    BY RowChanges DEF ConsoleTypeOK
  <2>3. frames' \in [Sessions -> Frame]
    BY <2>1, <2>2, KeepType DEF Writing
  <2> QED
    BY <1>5, <2>3 DEF ChangePassword, ConsoleTypeOK
<1>6. CASE TOTPSetup(s)
  <2>1. PICK row \in console_users :
           Keep(s, "setup", [row EXCEPT !.totp_secret = numbers.secrets + 1])
    BY <1>6 DEF TOTPSetup, Own
  <2>2. numbers.secrets + 1 \in 0 .. MaxSecrets
    BY <1>6, BoundsAreNat DEF TOTPSetup, ConsoleTypeOK
  <2>3. [row EXCEPT !.totp_secret = numbers.secrets + 1] \in Account
    BY <2>2, RowChanges DEF ConsoleTypeOK
  <2>4. frames' \in [Sessions -> Frame]
    BY <2>1, <2>3, KeepType DEF Writing
  <2>5. numbers' \in [last : Nat, born : 0 .. MaxAccounts, secrets : 0 .. MaxSecrets]
    BY <1>6, <2>2 DEF TOTPSetup, ConsoleTypeOK
  <2> QED
    BY <1>6, <2>4, <2>5 DEF TOTPSetup, ConsoleTypeOK
<1>7. CASE TOTPEnable(s)
  <2>1. PICK row \in console_users : Keep(s, "enable", [row EXCEPT !.totp_enabled = TRUE])
    BY <1>7 DEF TOTPEnable, Own
  <2>2. [row EXCEPT !.totp_enabled = TRUE] \in Account
    BY RowChanges DEF ConsoleTypeOK
  <2>3. frames' \in [Sessions -> Frame]
    BY <2>1, <2>2, KeepType DEF Writing
  <2> QED
    BY <1>7, <2>3 DEF TOTPEnable, ConsoleTypeOK
<1>8. CASE TOTPDisable(s)
  <2>1. PICK row \in console_users :
           Keep(s, "disable", [row EXCEPT !.totp_enabled = FALSE, !.totp_secret = Null])
    BY <1>8 DEF TOTPDisable, Own
  <2>2. [row EXCEPT !.totp_enabled = FALSE, !.totp_secret = Null] \in Account
    BY RowChanges DEF ConsoleTypeOK
  <2>3. frames' \in [Sessions -> Frame]
    BY <2>1, <2>2, KeepType DEF Writing
  <2> QED
    BY <1>8, <2>3 DEF TOTPDisable, ConsoleTypeOK
<1>9. CASE CreateUser(s)
  <2>1. PICK username \in Usernames, password \in Passwords, role \in RoleChoices :
           InsertAccount(username, password, role)
    BY <1>9 DEF CreateUser
  <2> QED
    BY <1>9, <2>1, InsertType, ConsoleAssumption DEF CreateUser, ConsoleTypeOK
<1>10. CASE UpdateUser(s)
  <2>1. PICK row \in console_users, username \in Usernames, role \in RoleChoices :
           Keep(s, "update user", [row EXCEPT !.username = username, !.role = role])
    BY <1>10 DEF UpdateUser
  <2>2. [row EXCEPT !.username = username, !.role = role] \in Account
    BY RowChanges, ConsoleAssumption DEF ConsoleTypeOK
  <2>3. frames' \in [Sessions -> Frame]
    BY <2>1, <2>2, KeepType DEF Writing
  <2> QED
    BY <1>10, <2>3 DEF UpdateUser, ConsoleTypeOK
<1>11. CASE DeleteUser(s)
  BY <1>11 DEF DeleteUser, ConsoleTypeOK
<1>12. CASE WriteAccount(s)
  <2>1. frames[s].row \in Account
    BY <1>12, IdleOrBusy DEF WriteAccount
  <2> QED
    BY <1>12, <2>1, UpdateType, AnswerType DEF WriteAccount, ConsoleTypeOK
<1>13. CASE WriteFails(s)
  BY <1>13, AnswerType DEF WriteFails, ConsoleTypeOK
<1> QED
  BY <1>1, <1>2, <1>3, <1>4, <1>5, <1>6, <1>7, <1>8, <1>9, <1>10, <1>11, <1>12, <1>13
  DEF SessionStep

\* The accounts, the claims and the requests in flight are always well formed:
\* every interleaving of reads, writes, deletions and restarts keeps the rows in
\* the domain of the schema.
THEOREM ConsoleTypeCorrect == ConsoleSpec => []ConsoleTypeOK
<1>1. ConsoleInit => ConsoleTypeOK
  <2> SUFFICES ASSUME ConsoleInit PROVE ConsoleTypeOK
    OBVIOUS
  <2>1. PICK password \in Passwords :
         console_users = {[id |-> 1, username |-> AdminUsername, password |-> password,
                           role |-> "admin", totp_secret |-> Null, totp_enabled |-> FALSE,
                           born |-> 1]}
    BY DEF ConsoleInit
  <2>2. console_users \subseteq Account
    BY <2>1, BoundsAreNat, ConsoleAssumption DEF Account, Roles
  <2>3. numbers \in [last : Nat, born : 0 .. MaxAccounts, secrets : 0 .. MaxSecrets]
    BY BoundsAreNat DEF ConsoleInit
  <2> QED
    BY <2>2, <2>3, FrameIs DEF ConsoleInit, ConsoleTypeOK
<1>2. ConsoleTypeOK /\ [ConsoleNext]_consoleVars => ConsoleTypeOK'
  <2> SUFFICES ASSUME ConsoleTypeOK, [ConsoleNext]_consoleVars PROVE ConsoleTypeOK'
    OBVIOUS
  <2>1. CASE \E s \in Sessions : SessionStep(s)
    BY <2>1, SessionType
  <2>2. CASE \E login \in Usernames : WindowEnds(login)
    BY <2>2 DEF WindowEnds, ConsoleTypeOK
  <2>3. CASE JwtExpires
    BY <2>3 DEF JwtExpires, ConsoleTypeOK
  <2>4. CASE Restart
    <3>1. PICK password \in Passwords : BootstrapAdmin(password)
      BY <2>4 DEF Restart
    <3>2. frames' \in [Sessions -> Frame] /\ attempts' \in [Usernames -> Nat]
      BY <2>4, FrameIs DEF Restart
    <3> QED
      BY <2>4, <3>1, <3>2, BootstrapType DEF Restart, ConsoleTypeOK
  <2>5. CASE UNCHANGED consoleVars
    BY <2>5 DEF consoleVars, ConsoleTypeOK
  <2> QED
    BY <2>1, <2>2, <2>3, <2>4, <2>5 DEF ConsoleNext
<1> QED
  BY <1>1, <1>2, PTL DEF ConsoleSpec

-----------------------------------------------------------------------------
(* 2FA: the write of a stale row cannot break EnabledHasSecret, because a   *)
(* row is written whole and each row ever read or changed has the property. *)

HasSecret(row) == row.totp_enabled => row.totp_secret # Null

RowsHaveSecret ==
    /\ \A u \in console_users : HasSecret(u)
    /\ \A s \in Sessions : frames[s] \in Busy => HasSecret(frames[s].row)

LEMMA KeepHasSecret ==
    ASSUME ConsoleTypeOK, RowsHaveSecret, NEW s \in Sessions,
           NEW pc \in {"check", "code"} \cup Writing, NEW row \in Account,
           Keep(s, pc, row), HasSecret(row)
    PROVE  \A t \in Sessions : frames'[t] \in Busy => HasSecret(frames'[t].row)
<1> TAKE t \in Sessions
<1>1. CASE t = s
  <2>1. frames'[t].row = row
    BY <1>1 DEF Keep, ConsoleTypeOK
  <2> QED
    BY <2>1
<1>2. CASE t # s
  <2>1. frames'[t] = frames[t]
    BY <1>2 DEF Keep, ConsoleTypeOK
  <2> QED
    BY <2>1 DEF RowsHaveSecret
<1> QED
  BY <1>1, <1>2

LEMMA AnswerHasSecret ==
    ASSUME ConsoleTypeOK, RowsHaveSecret, NEW s \in Sessions, Answer(s)
    PROVE  \A t \in Sessions : frames'[t] \in Busy => HasSecret(frames'[t].row)
<1> SUFFICES ASSUME NEW t \in Sessions, frames'[t] \in Busy
             PROVE  HasSecret(frames'[t].row)
  OBVIOUS
<1>1. Idle \notin Busy
  BY DEF Idle, Busy
<1>2. t # s
  BY <1>1 DEF Answer, ConsoleTypeOK
<1>3. frames'[t] = frames[t]
  BY <1>2 DEF Answer, ConsoleTypeOK
<1> QED
  BY <1>3 DEF RowsHaveSecret

\* A change that leaves 2FA alone, or sets a secret, or enables with one, or
\* takes both away, leaves no row enabled without a secret.
LEMMA ChangesHaveSecret ==
    ASSUME NEW row \in Account, HasSecret(row)
    PROVE  /\ \A password \in Passwords : HasSecret([row EXCEPT !.password = password])
           /\ \A secret \in 1 .. MaxSecrets :
                HasSecret([row EXCEPT !.totp_secret = secret])
           /\ row.totp_secret # Null => HasSecret([row EXCEPT !.totp_enabled = TRUE])
           /\ HasSecret([row EXCEPT !.totp_enabled = FALSE, !.totp_secret = Null])
           /\ \A username \in Usernames, role \in RoleChoices :
                HasSecret([row EXCEPT !.username = username, !.role = role])
           /\ \A password \in Passwords :
                HasSecret([row EXCEPT !.password = password, !.totp_enabled = FALSE,
                                      !.totp_secret = Null])
           /\ \A born \in AccountIds : HasSecret([row EXCEPT !.born = born])
<1> USE DEF HasSecret, Account
<1>1. \A password \in Passwords : HasSecret([row EXCEPT !.password = password])
  OBVIOUS
<1>2. \A secret \in 1 .. MaxSecrets : HasSecret([row EXCEPT !.totp_secret = secret])
  OBVIOUS
<1>3. row.totp_secret # Null => HasSecret([row EXCEPT !.totp_enabled = TRUE])
  OBVIOUS
<1>4. HasSecret([row EXCEPT !.totp_enabled = FALSE, !.totp_secret = Null])
  OBVIOUS
<1>5. \A username \in Usernames, role \in RoleChoices :
        HasSecret([row EXCEPT !.username = username, !.role = role])
  OBVIOUS
<1>6. \A password \in Passwords :
        HasSecret([row EXCEPT !.password = password, !.totp_enabled = FALSE,
                              !.totp_secret = Null])
  OBVIOUS
<1>7. \A born \in AccountIds : HasSecret([row EXCEPT !.born = born])
  OBVIOUS
<1> QED
  BY <1>1, <1>2, <1>3, <1>4, <1>5, <1>6, <1>7

LEMMA InsertHasSecret ==
    ASSUME RowsHaveSecret, NEW username, NEW password, NEW role,
           InsertAccount(username, password, role)
    PROVE  \A u \in console_users' : HasSecret(u)
<1>1. PICK id \in AccountIds :
        console_users' = console_users \cup
             {[id |-> id, username |-> username, password |-> password, role |-> role,
               totp_secret |-> Null, totp_enabled |-> FALSE, born |-> numbers.born + 1]}
  BY DEF InsertAccount
<1>2. HasSecret([id |-> id, username |-> username, password |-> password, role |-> role,
               totp_secret |-> Null, totp_enabled |-> FALSE, born |-> numbers.born + 1])
  BY DEF HasSecret
<1> QED
  BY <1>1, <1>2 DEF RowsHaveSecret

LEMMA SessionHasSecret ==
    ASSUME ConsoleTypeOK, RowsHaveSecret, NEW s \in Sessions, SessionStep(s)
    PROVE  RowsHaveSecret'
<1> DEFINE FramesKept == \A t \in Sessions : frames'[t] \in Busy => HasSecret(frames'[t].row)
<1>0. \A u \in console_users : u \in Account /\ HasSecret(u)
  BY DEF ConsoleTypeOK, RowsHaveSecret
<1>1. CASE Login(s)
  <2>1. PICK row \in console_users :
           IF row.totp_enabled /\ row.totp_secret # Null
           THEN Keep(s, "check", row) ELSE UNCHANGED frames
    BY <1>1 DEF Login
  <2>2. CASE Keep(s, "check", row)
    BY <1>0, <1>1, <2>2, KeepHasSecret DEF Login, RowsHaveSecret
  <2>3. CASE UNCHANGED frames
    BY <1>1, <2>3 DEF Login, RowsHaveSecret
  <2> QED
    BY <2>1, <2>2, <2>3
<1>2. CASE CheckTOTPLimit(s)
  <2>1. frames[s] \in Busy /\ frames[s].row \in Account
    BY <1>2, IdleOrBusy DEF CheckTOTPLimit
  <2>2. CASE Keep(s, "code", frames[s].row)
    <3>1. HasSecret(frames[s].row)
      BY <2>1 DEF RowsHaveSecret
    <3> QED
      BY <1>2, <2>1, <2>2, <3>1, KeepHasSecret DEF CheckTOTPLimit, RowsHaveSecret
  <2>3. CASE Answer(s)
    BY <1>2, <2>3, AnswerHasSecret DEF CheckTOTPLimit, RowsHaveSecret
  <2> QED
    BY <1>2, <2>2, <2>3 DEF CheckTOTPLimit
<1>3. CASE RightCode(s)
  BY <1>3, AnswerHasSecret DEF RightCode, RowsHaveSecret
<1>4. CASE WrongCode(s)
  BY <1>4, AnswerHasSecret DEF WrongCode, RowsHaveSecret
<1>5. CASE ChangePassword(s)
  <2>1. PICK row \in console_users, password \in Passwords :
           Keep(s, "password", [row EXCEPT !.password = password])
    BY <1>5 DEF ChangePassword, Own
  <2>2. /\ [row EXCEPT !.password = password] \in Account
        /\ HasSecret([row EXCEPT !.password = password])
    BY <1>0, RowChanges, ChangesHaveSecret
  <2>3. FramesKept
    BY <2>1, <2>2, KeepHasSecret DEF Writing
  <2> QED
    BY <1>5, <2>3 DEF ChangePassword, RowsHaveSecret
<1>6. CASE TOTPSetup(s)
  <2>1. PICK row \in console_users :
           Keep(s, "setup", [row EXCEPT !.totp_secret = numbers.secrets + 1])
    BY <1>6 DEF TOTPSetup, Own
  <2>2. /\ numbers.secrets + 1 \in 1 .. MaxSecrets
        /\ numbers.secrets + 1 \in 0 .. MaxSecrets
    BY <1>6, BoundsAreNat DEF TOTPSetup, ConsoleTypeOK
  <2>3. /\ [row EXCEPT !.totp_secret = numbers.secrets + 1] \in Account
        /\ HasSecret([row EXCEPT !.totp_secret = numbers.secrets + 1])
    BY <1>0, <2>2, RowChanges, ChangesHaveSecret
  <2>4. FramesKept
    BY <2>1, <2>3, KeepHasSecret DEF Writing
  <2> QED
    BY <1>6, <2>4 DEF TOTPSetup, RowsHaveSecret
<1>7. CASE TOTPEnable(s)
  <2>1. PICK row \in console_users :
           row.totp_secret # Null /\ Keep(s, "enable", [row EXCEPT !.totp_enabled = TRUE])
    BY <1>7 DEF TOTPEnable, Own
  <2>2. /\ [row EXCEPT !.totp_enabled = TRUE] \in Account
        /\ HasSecret([row EXCEPT !.totp_enabled = TRUE])
    BY <1>0, <2>1, RowChanges, ChangesHaveSecret
  <2>3. FramesKept
    BY <2>1, <2>2, KeepHasSecret DEF Writing
  <2> QED
    BY <1>7, <2>3 DEF TOTPEnable, RowsHaveSecret
<1>8. CASE TOTPDisable(s)
  <2>1. PICK row \in console_users :
           Keep(s, "disable", [row EXCEPT !.totp_enabled = FALSE, !.totp_secret = Null])
    BY <1>8 DEF TOTPDisable, Own
  <2>2. /\ [row EXCEPT !.totp_enabled = FALSE, !.totp_secret = Null] \in Account
        /\ HasSecret([row EXCEPT !.totp_enabled = FALSE, !.totp_secret = Null])
    BY <1>0, RowChanges, ChangesHaveSecret
  <2>3. FramesKept
    BY <2>1, <2>2, KeepHasSecret DEF Writing
  <2> QED
    BY <1>8, <2>3 DEF TOTPDisable, RowsHaveSecret
<1>9. CASE CreateUser(s)
  <2>1. PICK username \in Usernames, password \in Passwords, role \in RoleChoices :
           InsertAccount(username, password, role)
    BY <1>9 DEF CreateUser
  <2> QED
    BY <1>9, <2>1, InsertHasSecret DEF CreateUser, RowsHaveSecret
<1>10. CASE UpdateUser(s)
  <2>1. PICK row \in console_users, username \in Usernames, role \in RoleChoices :
           Keep(s, "update user", [row EXCEPT !.username = username, !.role = role])
    BY <1>10 DEF UpdateUser
  <2>2. /\ [row EXCEPT !.username = username, !.role = role] \in Account
        /\ HasSecret([row EXCEPT !.username = username, !.role = role])
    BY <1>0, RowChanges, ChangesHaveSecret, ConsoleAssumption
  <2>3. FramesKept
    BY <2>1, <2>2, KeepHasSecret DEF Writing
  <2> QED
    BY <1>10, <2>3 DEF UpdateUser, RowsHaveSecret
<1>11. CASE DeleteUser(s)
  BY <1>11 DEF DeleteUser, RowsHaveSecret
<1>12. CASE WriteAccount(s)
  <2>1. frames[s].row \in Account /\ HasSecret(frames[s].row)
    BY <1>12, IdleOrBusy DEF WriteAccount, RowsHaveSecret
  <2>2. \A u \in console_users : HasSecret([frames[s].row EXCEPT !.born = u.born])
    BY <1>0, <2>1, ChangesHaveSecret DEF Account
  <2>3. \A u \in console_users' : HasSecret(u)
    BY <1>0, <1>12, <2>2 DEF WriteAccount, UpdateConsoleUser
  <2>4. FramesKept
    BY <1>12, AnswerHasSecret DEF WriteAccount
  <2> QED
    BY <2>3, <2>4 DEF RowsHaveSecret
<1>13. CASE WriteFails(s)
  BY <1>13, AnswerHasSecret DEF WriteFails, RowsHaveSecret
<1> QED
  BY <1>1, <1>2, <1>3, <1>4, <1>5, <1>6, <1>7, <1>8, <1>9, <1>10, <1>11, <1>12, <1>13
  DEF SessionStep

LEMMA RestartHasSecret ==
    ASSUME ConsoleTypeOK, RowsHaveSecret, Restart
    PROVE  RowsHaveSecret'
<1>1. PICK password \in Passwords : BootstrapAdmin(password)
  BY DEF Restart
<1>2. \A u \in console_users' : HasSecret(u)
  <2>1. CASE ~ NameTaken(AdminUsername, Null)
    BY <1>1, <2>1, InsertHasSecret DEF BootstrapAdmin
  <2>2. CASE NameTaken(AdminUsername, Null)
    <3>1. console_users' =
              {IF u.username = AdminUsername /\ u.password # password
               THEN [u EXCEPT !.password = password, !.totp_enabled = FALSE,
                              !.totp_secret = Null]
               ELSE u : u \in console_users}
      BY <1>1, <2>2 DEF BootstrapAdmin
    <3>2. \A u \in console_users :
            /\ HasSecret(u)
            /\ HasSecret([u EXCEPT !.password = password, !.totp_enabled = FALSE,
                                   !.totp_secret = Null])
      BY ChangesHaveSecret DEF ConsoleTypeOK, RowsHaveSecret
    <3> QED
      BY <3>1, <3>2
  <2> QED
    BY <2>1, <2>2
<1>3. \A s \in Sessions : frames'[s] \notin Busy
  BY DEF Restart, Idle, Busy
<1> QED
  BY <1>2, <1>3 DEF RowsHaveSecret

\* However the set-up, enabling and disabling of 2FA, the other changes of an
\* account, the start of the server and several sessions interleave, an account
\* whose 2FA is enabled has a secret, so login asks for a code.
THEOREM EnabledHaveSecrets == ConsoleSpec => []EnabledHasSecret
<1>1. ConsoleInit => RowsHaveSecret
  <2> SUFFICES ASSUME ConsoleInit PROVE RowsHaveSecret
    OBVIOUS
  <2>1. \A s \in Sessions : frames[s] \notin Busy
    BY DEF ConsoleInit, Idle, Busy
  <2>2. \A u \in console_users : HasSecret(u)
    BY DEF ConsoleInit, HasSecret
  <2> QED
    BY <2>1, <2>2 DEF RowsHaveSecret
<1>2. ConsoleTypeOK /\ RowsHaveSecret /\ [ConsoleNext]_consoleVars => RowsHaveSecret'
  <2> SUFFICES ASSUME ConsoleTypeOK, RowsHaveSecret, [ConsoleNext]_consoleVars
               PROVE  RowsHaveSecret'
    OBVIOUS
  <2>1. CASE \E s \in Sessions : SessionStep(s)
    BY <2>1, SessionHasSecret
  <2>2. CASE \E login \in Usernames : WindowEnds(login)
    BY <2>2 DEF WindowEnds, RowsHaveSecret
  <2>3. CASE JwtExpires
    BY <2>3 DEF JwtExpires, RowsHaveSecret
  <2>4. CASE Restart
    BY <2>4, RestartHasSecret
  <2>5. CASE UNCHANGED consoleVars
    BY <2>5 DEF consoleVars, RowsHaveSecret
  <2> QED
    BY <2>1, <2>2, <2>3, <2>4, <2>5 DEF ConsoleNext
<1>3. RowsHaveSecret => EnabledHasSecret
  BY DEF RowsHaveSecret, HasSecret, EnabledHasSecret
<1> QED
  BY <1>1, <1>2, <1>3, ConsoleTypeCorrect, PTL DEF ConsoleSpec

-----------------------------------------------------------------------------
(* The limiter: a request that has passed checkTOTPLimit and not yet been   *)
(* answered may still record a failure.                                     *)

Passed(login) == {s \in Sessions : frames[s].pc = "code" /\ frames[s].row.username = login}

FailuresToCome ==
    \A login \in Usernames :
        attempts[login] + Cardinality(Passed(login)) < MaxTOTPFailures + Cardinality(Sessions)

LEMMA PassedSize ==
    /\ IsFiniteSet(Sessions) /\ Cardinality(Sessions) \in Nat
    /\ \A S : S \subseteq Sessions =>
         IsFiniteSet(S) /\ Cardinality(S) \in Nat /\ Cardinality(S) <= Cardinality(Sessions)
BY ConsoleAssumption, FS_CardinalityType, FS_Subset

\* A step that neither records a failure nor lets a request pass.
LEMMA PassedShrinks ==
    ASSUME ConsoleTypeOK, FailuresToCome, UNCHANGED attempts,
           \A login \in Usernames : Passed(login)' \subseteq Passed(login)
    PROVE  FailuresToCome'
<1> SUFFICES ASSUME NEW login \in Usernames
             PROVE  attempts[login] + Cardinality(Passed(login)') <
                      MaxTOTPFailures + Cardinality(Sessions)
  BY DEF FailuresToCome
<1>1. Passed(login) \subseteq Sessions
  BY DEF Passed
<1>2. /\ IsFiniteSet(Passed(login))
      /\ Cardinality(Passed(login)) \in Nat /\ Cardinality(Passed(login)') \in Nat
  BY <1>1, PassedSize
<1>3. Cardinality(Passed(login)') <= Cardinality(Passed(login))
  BY <1>2, FS_Subset
<1> QED
  BY <1>2, <1>3, PassedSize, BoundsAreNat DEF FailuresToCome, ConsoleTypeOK

LEMMA KeepShrinks ==
    ASSUME ConsoleTypeOK, NEW s \in Sessions, NEW pc, NEW row, Keep(s, pc, row), pc # "code"
    PROVE  \A login \in Usernames : Passed(login)' \subseteq Passed(login)
<1> SUFFICES ASSUME NEW login \in Usernames, NEW t \in Passed(login)'
             PROVE  t \in Passed(login)
  OBVIOUS
<1>1. t # s
  BY DEF Keep, Passed, ConsoleTypeOK
<1> QED
  BY <1>1 DEF Keep, Passed, ConsoleTypeOK

LEMMA AnswerShrinks ==
    ASSUME ConsoleTypeOK, NEW s \in Sessions, Answer(s)
    PROVE  \A login \in Usernames : Passed(login)' \subseteq Passed(login) \ {s}
<1> SUFFICES ASSUME NEW login \in Usernames, NEW t \in Passed(login)'
             PROVE  t \in Passed(login) \ {s}
  OBVIOUS
<1>1. t # s
  BY DEF Answer, Idle, Passed, ConsoleTypeOK
<1> QED
  BY <1>1 DEF Answer, Passed, ConsoleTypeOK

LEMMA CheckBounded ==
    ASSUME ConsoleTypeOK, FailuresToCome, NEW s \in Sessions, CheckTOTPLimit(s)
    PROVE  FailuresToCome'
<1>1. CASE attempts[frames[s].row.username] < MaxTOTPFailures
  <2> SUFFICES ASSUME NEW login \in Usernames
               PROVE  attempts[login] + Cardinality(Passed(login)') <
                        MaxTOTPFailures + Cardinality(Sessions)
    BY DEF FailuresToCome, CheckTOTPLimit
  <2>1. Keep(s, "code", frames[s].row)
    BY <1>1 DEF CheckTOTPLimit
  <2>2. CASE login = frames[s].row.username
    <3>1. Passed(login)' \subseteq Sessions
      BY DEF Passed
    <3> QED
      BY <1>1, <2>2, <3>1, PassedSize, BoundsAreNat DEF ConsoleTypeOK
  <2>3. CASE login # frames[s].row.username
    <3>1. Passed(login)' \subseteq Passed(login)
      <4> SUFFICES ASSUME NEW t \in Passed(login)' PROVE t \in Passed(login)
        OBVIOUS
      <4>1. t # s
        BY <2>1, <2>3 DEF Keep, Passed, ConsoleTypeOK
      <4> QED
        BY <2>1, <4>1 DEF Keep, Passed, ConsoleTypeOK
    <3>2. Passed(login) \subseteq Sessions
      BY DEF Passed
    <3>3. /\ Cardinality(Passed(login)') <= Cardinality(Passed(login))
          /\ Cardinality(Passed(login)') \in Nat /\ Cardinality(Passed(login)) \in Nat
      BY <3>1, <3>2, PassedSize, FS_Subset
    <3> QED
      BY <3>3, PassedSize, BoundsAreNat DEF FailuresToCome, ConsoleTypeOK
  <2> QED
    BY <2>2, <2>3
<1>2. CASE ~ (attempts[frames[s].row.username] < MaxTOTPFailures)
  BY <1>2, AnswerShrinks, PassedShrinks DEF CheckTOTPLimit
<1> QED
  BY <1>1, <1>2

LEMMA WrongCodeBounded ==
    ASSUME ConsoleTypeOK, FailuresToCome, NEW s \in Sessions, WrongCode(s)
    PROVE  FailuresToCome'
<1> SUFFICES ASSUME NEW login \in Usernames
             PROVE  attempts'[login] + Cardinality(Passed(login)') <
                      MaxTOTPFailures + Cardinality(Sessions)
  BY DEF FailuresToCome
<1>1. Passed(login) \subseteq Sessions /\ Passed(login)' \subseteq Passed(login) \ {s}
  BY AnswerShrinks DEF WrongCode, Passed
<1>2. /\ IsFiniteSet(Passed(login)) /\ IsFiniteSet(Passed(login) \ {s})
      /\ Cardinality(Passed(login)') \in Nat /\ Cardinality(Passed(login)) \in Nat
      /\ Cardinality(Passed(login) \ {s}) \in Nat
  BY <1>1, PassedSize
<1>3. Cardinality(Passed(login)') <= Cardinality(Passed(login) \ {s})
  BY <1>1, <1>2, FS_Subset
<1>4. attempts' = [attempts EXCEPT ![frames[s].row.username] = @ + 1]
  BY DEF WrongCode
<1>5. CASE login = frames[s].row.username
  <2>1. s \in Passed(login)
    BY <1>5 DEF WrongCode, Passed
  <2>2. Cardinality(Passed(login) \ {s}) = Cardinality(Passed(login)) - 1
    BY <1>2, <2>1, FS_RemoveElement
  <2>3. attempts'[login] = attempts[login] + 1
    BY <1>4, <1>5 DEF ConsoleTypeOK
  <2> QED
    BY <1>2, <1>3, <2>2, <2>3, PassedSize, BoundsAreNat DEF FailuresToCome, ConsoleTypeOK
<1>6. CASE login # frames[s].row.username
  <2>1. attempts'[login] = attempts[login]
    BY <1>4, <1>6 DEF ConsoleTypeOK
  <2>2. Cardinality(Passed(login)') <= Cardinality(Passed(login))
    BY <1>1, <1>2, FS_Subset
  <2> QED
    BY <1>2, <2>1, <2>2, PassedSize, BoundsAreNat DEF FailuresToCome, ConsoleTypeOK
<1> QED
  BY <1>5, <1>6

LEMMA SessionBounded ==
    ASSUME ConsoleTypeOK, FailuresToCome, NEW s \in Sessions, SessionStep(s)
    PROVE  FailuresToCome'
<1>0. ASSUME UNCHANGED <<attempts, frames>> PROVE FailuresToCome'
  BY <1>0, PassedShrinks DEF Passed
<1>1. CASE Login(s)
  <2>1. PICK row \in console_users : Keep(s, "check", row) \/ UNCHANGED frames
    BY <1>1 DEF Login
  <2>2. CASE Keep(s, "check", row)
    BY <1>1, <2>2, KeepShrinks, PassedShrinks DEF Login
  <2>3. CASE UNCHANGED frames
    BY <1>0, <1>1, <2>3 DEF Login
  <2> QED
    BY <2>1, <2>2, <2>3
<1>2. CASE CheckTOTPLimit(s)
  BY <1>2, CheckBounded
<1>3. CASE RightCode(s)
  BY <1>3, AnswerShrinks, PassedShrinks DEF RightCode
<1>4. CASE WrongCode(s)
  BY <1>4, WrongCodeBounded
<1>5. CASE ChangePassword(s)
  <2>1. PICK row : Keep(s, "password", row)
    BY <1>5 DEF ChangePassword
  <2> QED
    BY <1>5, <2>1, KeepShrinks, PassedShrinks DEF ChangePassword
<1>6. CASE TOTPSetup(s)
  <2>1. PICK row : Keep(s, "setup", row)
    BY <1>6 DEF TOTPSetup
  <2> QED
    BY <1>6, <2>1, KeepShrinks, PassedShrinks DEF TOTPSetup
<1>7. CASE TOTPEnable(s)
  <2>1. PICK row : Keep(s, "enable", row)
    BY <1>7 DEF TOTPEnable
  <2> QED
    BY <1>7, <2>1, KeepShrinks, PassedShrinks DEF TOTPEnable
<1>8. CASE TOTPDisable(s)
  <2>1. PICK row : Keep(s, "disable", row)
    BY <1>8 DEF TOTPDisable
  <2> QED
    BY <1>8, <2>1, KeepShrinks, PassedShrinks DEF TOTPDisable
<1>9. CASE CreateUser(s)
  BY <1>0, <1>9 DEF CreateUser
<1>10. CASE UpdateUser(s)
  <2>1. PICK row : Keep(s, "update user", row)
    BY <1>10 DEF UpdateUser
  <2> QED
    BY <1>10, <2>1, KeepShrinks, PassedShrinks DEF UpdateUser
<1>11. CASE DeleteUser(s)
  BY <1>0, <1>11 DEF DeleteUser
<1>12. CASE WriteAccount(s)
  BY <1>12, AnswerShrinks, PassedShrinks DEF WriteAccount
<1>13. CASE WriteFails(s)
  BY <1>13, AnswerShrinks, PassedShrinks DEF WriteFails
<1> QED
  BY <1>1, <1>2, <1>3, <1>4, <1>5, <1>6, <1>7, <1>8, <1>9, <1>10, <1>11, <1>12, <1>13
  DEF SessionStep

\* The end of a window, or a restart, leaves the failures of a login at 0, or as
\* they were: those to come are then at most one for each request.
LEMMA ResetBounded ==
    ASSUME ConsoleTypeOK, FailuresToCome,
           (\E login \in Usernames : WindowEnds(login)) \/ Restart
    PROVE  FailuresToCome'
<1> SUFFICES ASSUME NEW login \in Usernames
             PROVE  attempts'[login] + Cardinality(Passed(login)') <
                      MaxTOTPFailures + Cardinality(Sessions)
  BY DEF FailuresToCome
<1>1. Passed(login)' \subseteq Sessions
  BY DEF Passed
<1>2. CASE attempts'[login] = 0
  BY <1>1, <1>2, PassedSize, BoundsAreNat
<1>3. CASE attempts'[login] # 0
  <2>1. \E l \in Usernames : WindowEnds(l)
    BY <1>3 DEF Restart
  <2>2. attempts'[login] = attempts[login] /\ UNCHANGED frames
    BY <1>3, <2>1 DEF WindowEnds, ConsoleTypeOK
  <2>3. Passed(login)' = Passed(login)
    BY <2>2 DEF Passed
  <2> QED
    BY <2>2, <2>3 DEF FailuresToCome
<1> QED
  BY <1>2, <1>3

\* In a window the limiter lets a login fail fewer times than the limit plus the
\* requests that can be in flight together, in every interleaving of the checks
\* and records of checkTOTPLimit and recordTOTPFailure.
THEOREM FailuresAreBounded == ConsoleSpec => []FailuresBounded
<1>1. ConsoleInit => FailuresToCome
  <2> SUFFICES ASSUME ConsoleInit, NEW login \in Usernames
               PROVE  attempts[login] + Cardinality(Passed(login)) <
                        MaxTOTPFailures + Cardinality(Sessions)
    BY DEF FailuresToCome
  <2>1. attempts[login] = 0
    BY DEF ConsoleInit
  <2>2. Passed(login) \subseteq Sessions
    BY DEF Passed
  <2> QED
    BY <2>1, <2>2, PassedSize, BoundsAreNat
<1>2. ConsoleTypeOK /\ FailuresToCome /\ [ConsoleNext]_consoleVars => FailuresToCome'
  <2> SUFFICES ASSUME ConsoleTypeOK, FailuresToCome, [ConsoleNext]_consoleVars
               PROVE  FailuresToCome'
    OBVIOUS
  <2>1. CASE \E s \in Sessions : SessionStep(s)
    BY <2>1, SessionBounded
  <2>2. CASE (\E login \in Usernames : WindowEnds(login)) \/ Restart
    BY <2>2, ResetBounded
  <2>3. CASE JwtExpires
    BY <2>3, PassedShrinks DEF JwtExpires, Passed
  <2>4. CASE UNCHANGED consoleVars
    BY <2>4, PassedShrinks DEF consoleVars, Passed
  <2> QED
    BY <2>1, <2>2, <2>3, <2>4 DEF ConsoleNext
<1>3. ConsoleTypeOK /\ FailuresToCome => FailuresBounded
  <2> SUFFICES ASSUME ConsoleTypeOK, FailuresToCome, NEW login \in Usernames
               PROVE  attempts[login] < MaxTOTPFailures + Cardinality(Sessions)
    BY DEF FailuresBounded
  <2>1. Passed(login) \subseteq Sessions
    BY DEF Passed
  <2> QED
    BY <2>1, PassedSize, BoundsAreNat DEF FailuresToCome, ConsoleTypeOK
<1> QED
  BY <1>1, <1>2, <1>3, ConsoleTypeCorrect, PTL DEF ConsoleSpec

-----------------------------------------------------------------------------
(* With PostgreSQL an id is never issued twice: it says the how-many-th     *)
(* account it is of, wherever it is remembered.                             *)

Numbered ==
    /\ numbers.last = numbers.born
    /\ \A u \in console_users : u.born = u.id
    /\ \A c \in jwts : c.born = c.user
    /\ \A s \in Sessions : frames[s] \in Busy => frames[s].row.born = frames[s].row.id

LEMMA KeepNumbered ==
    ASSUME ConsoleTypeOK, Numbered, NEW s \in Sessions, NEW pc, NEW row,
           Keep(s, pc, row), row.born = row.id
    PROVE  \A t \in Sessions : frames'[t] \in Busy => frames'[t].row.born = frames'[t].row.id
<1> TAKE t \in Sessions
<1>1. CASE t = s
  <2>1. frames'[t].row = row
    BY <1>1 DEF Keep, ConsoleTypeOK
  <2> QED
    BY <2>1
<1>2. CASE t # s
  BY <1>2 DEF Keep, ConsoleTypeOK, Numbered
<1> QED
  BY <1>1, <1>2

LEMMA AnswerNumbered ==
    ASSUME ConsoleTypeOK, Numbered, NEW s \in Sessions, Answer(s)
    PROVE  \A t \in Sessions : frames'[t] \in Busy => frames'[t].row.born = frames'[t].row.id
<1> SUFFICES ASSUME NEW t \in Sessions, frames'[t] \in Busy
             PROVE  frames'[t].row.born = frames'[t].row.id
  OBVIOUS
<1>1. Idle \notin Busy
  BY DEF Idle, Busy
<1>2. t # s
  BY <1>1 DEF Answer, ConsoleTypeOK
<1> QED
  BY <1>2 DEF Answer, ConsoleTypeOK, Numbered

LEMMA IssueNumbered ==
    ASSUME Numbered, NEW row, row.born = row.id, IssueJWT(row)
    PROVE  \A c \in jwts' : c.born = c.user
BY DEF IssueJWT, Numbered

LEMMA InsertNumbered ==
    ASSUME Driver = "postgres", ConsoleTypeOK, Numbered, NEW username, NEW password, NEW role,
           InsertAccount(username, password, role)
    PROVE  /\ numbers'.last = numbers'.born
           /\ \A u \in console_users' : u.born = u.id
<1>1. PICK id \in AccountIds :
        /\ IsNextId(id, Ids(console_users), numbers.last)
        /\ console_users' = console_users \cup
             {[id |-> id, username |-> username, password |-> password, role |-> role,
               totp_secret |-> Null, totp_enabled |-> FALSE, born |-> numbers.born + 1]}
        /\ numbers' = [numbers EXCEPT !.last = id, !.born = @ + 1]
  BY DEF InsertAccount
<1>2. id = numbers.born + 1
  BY <1>1 DEF IsNextId, Numbered
<1>3. numbers'.last = numbers'.born
  BY <1>1, <1>2 DEF ConsoleTypeOK
<1> QED
  BY <1>1, <1>2, <1>3 DEF Numbered

LEMMA SessionNumbered ==
    ASSUME Driver = "postgres", ConsoleTypeOK, Numbered, NEW s \in Sessions, SessionStep(s)
    PROVE  Numbered'
<1> DEFINE FramesKept ==
             \A t \in Sessions : frames'[t] \in Busy => frames'[t].row.born = frames'[t].row.id
<1>0. \A u \in console_users : u \in Account /\ u.born = u.id
  BY DEF ConsoleTypeOK, Numbered
<1>1. CASE Login(s)
  <2>1. PICK row \in console_users :
           IF row.totp_enabled /\ row.totp_secret # Null
           THEN Keep(s, "check", row) /\ UNCHANGED jwts
           ELSE IssueJWT(row) /\ UNCHANGED frames
    BY <1>1 DEF Login
  <2>2. CASE Keep(s, "check", row) /\ UNCHANGED jwts
    BY <1>0, <1>1, <2>2, KeepNumbered DEF Login, Numbered
  <2>3. CASE IssueJWT(row) /\ UNCHANGED frames
    BY <1>0, <1>1, <2>3, IssueNumbered DEF Login, Numbered
  <2> QED
    BY <2>1, <2>2, <2>3
<1>2. CASE CheckTOTPLimit(s)
  <2>1. frames[s].row.born = frames[s].row.id
    BY <1>2, IdleOrBusy DEF CheckTOTPLimit, Numbered
  <2>2. CASE Keep(s, "code", frames[s].row)
    BY <1>2, <2>1, <2>2, KeepNumbered DEF CheckTOTPLimit, Numbered
  <2>3. CASE Answer(s)
    BY <1>2, <2>3, AnswerNumbered DEF CheckTOTPLimit, Numbered
  <2> QED
    BY <1>2, <2>2, <2>3 DEF CheckTOTPLimit
<1>3. CASE RightCode(s)
  <2>1. frames[s].row.born = frames[s].row.id
    BY <1>3, IdleOrBusy DEF RightCode, Numbered
  <2> QED
    BY <1>3, <2>1, IssueNumbered, AnswerNumbered DEF RightCode, Numbered
<1>4. CASE WrongCode(s)
  BY <1>4, AnswerNumbered DEF WrongCode, Numbered
<1>5. CASE ChangePassword(s)
  <2>1. PICK row \in console_users, password \in Passwords :
           Keep(s, "password", [row EXCEPT !.password = password])
    BY <1>5 DEF ChangePassword, Own
  <2>2. FramesKept
    <3> DEFINE new == [row EXCEPT !.password = password]
    <3>1. new.born = new.id
      BY <1>0 DEF Account
    <3> QED
      BY <2>1, <3>1, KeepNumbered
  <2> QED
    BY <1>5, <2>2 DEF ChangePassword, Numbered
<1>6. CASE TOTPSetup(s)
  <2>1. PICK row \in console_users :
           Keep(s, "setup", [row EXCEPT !.totp_secret = numbers.secrets + 1])
    BY <1>6 DEF TOTPSetup, Own
  <2>2. FramesKept
    <3> DEFINE new == [row EXCEPT !.totp_secret = numbers.secrets + 1]
    <3>1. new.born = new.id
      BY <1>0 DEF Account
    <3> QED
      BY <2>1, <3>1, KeepNumbered
  <2>3. numbers'.last = numbers.last /\ numbers'.born = numbers.born
    BY <1>6 DEF TOTPSetup, ConsoleTypeOK
  <2> QED
    BY <1>6, <2>2, <2>3 DEF TOTPSetup, Numbered
<1>7. CASE TOTPEnable(s)
  <2>1. PICK row \in console_users : Keep(s, "enable", [row EXCEPT !.totp_enabled = TRUE])
    BY <1>7 DEF TOTPEnable, Own
  <2>2. FramesKept
    <3> DEFINE new == [row EXCEPT !.totp_enabled = TRUE]
    <3>1. new.born = new.id
      BY <1>0 DEF Account
    <3> QED
      BY <2>1, <3>1, KeepNumbered
  <2> QED
    BY <1>7, <2>2 DEF TOTPEnable, Numbered
<1>8. CASE TOTPDisable(s)
  <2>1. PICK row \in console_users :
           Keep(s, "disable", [row EXCEPT !.totp_enabled = FALSE, !.totp_secret = Null])
    BY <1>8 DEF TOTPDisable, Own
  <2>2. FramesKept
    <3> DEFINE new == [row EXCEPT !.totp_enabled = FALSE, !.totp_secret = Null]
    <3>1. new.born = new.id
      BY <1>0 DEF Account
    <3> QED
      BY <2>1, <3>1, KeepNumbered
  <2> QED
    BY <1>8, <2>2 DEF TOTPDisable, Numbered
<1>9. CASE CreateUser(s)
  <2>1. PICK username \in Usernames, password \in Passwords, role \in RoleChoices :
           InsertAccount(username, password, role)
    BY <1>9 DEF CreateUser
  <2> QED
    BY <1>9, <2>1, InsertNumbered DEF CreateUser, Numbered
<1>10. CASE UpdateUser(s)
  <2>1. PICK row \in console_users, username \in Usernames, role \in RoleChoices :
           Keep(s, "update user", [row EXCEPT !.username = username, !.role = role])
    BY <1>10 DEF UpdateUser
  <2>2. FramesKept
    <3> DEFINE new == [row EXCEPT !.username = username, !.role = role]
    <3>1. new.born = new.id
      BY <1>0 DEF Account
    <3> QED
      BY <2>1, <3>1, KeepNumbered
  <2> QED
    BY <1>10, <2>2 DEF UpdateUser, Numbered
<1>11. CASE DeleteUser(s)
  BY <1>11 DEF DeleteUser, Numbered
<1>12. CASE WriteAccount(s)
  <2>1. frames[s].row \in Account /\ frames[s].row.born = frames[s].row.id
    BY <1>12, IdleOrBusy DEF WriteAccount, Numbered
  <2>2. ASSUME NEW u \in console_users'
        PROVE  u.born = u.id
    <3>1. PICK v \in console_users :
            u = IF v.id = frames[s].row.id THEN [frames[s].row EXCEPT !.born = v.born] ELSE v
      BY <1>12, <2>2 DEF WriteAccount, UpdateConsoleUser
    <3> QED
      BY <1>0, <2>1, <3>1 DEF Account
  <2>3. FramesKept
    BY <1>12, AnswerNumbered DEF WriteAccount
  <2> QED
    BY <1>12, <2>2, <2>3 DEF WriteAccount, Numbered
<1>13. CASE WriteFails(s)
  BY <1>13, AnswerNumbered DEF WriteFails, Numbered
<1> QED
  BY <1>1, <1>2, <1>3, <1>4, <1>5, <1>6, <1>7, <1>8, <1>9, <1>10, <1>11, <1>12, <1>13
  DEF SessionStep

LEMMA RestartNumbered ==
    ASSUME Driver = "postgres", ConsoleTypeOK, Numbered, Restart
    PROVE  Numbered'
<1>1. PICK password \in Passwords : BootstrapAdmin(password)
  BY DEF Restart
<1>2. numbers'.last = numbers'.born /\ \A u \in console_users' : u.born = u.id
  <2>1. CASE ~ NameTaken(AdminUsername, Null)
    BY <1>1, <2>1, InsertNumbered DEF BootstrapAdmin
  <2>2. CASE NameTaken(AdminUsername, Null)
    <3>1. /\ console_users' =
                {IF u.username = AdminUsername /\ u.password # password
                 THEN [u EXCEPT !.password = password, !.totp_enabled = FALSE,
                                !.totp_secret = Null]
                 ELSE u : u \in console_users}
          /\ numbers' = numbers
      BY <1>1, <2>2 DEF BootstrapAdmin
    <3>2. ASSUME NEW u \in console_users
          PROVE  LET new == [u EXCEPT !.password = password, !.totp_enabled = FALSE,
                                      !.totp_secret = Null]
                 IN  u.born = u.id /\ new.born = new.id
      BY DEF ConsoleTypeOK, Numbered, Account
    <3> QED
      BY <3>1, <3>2 DEF Numbered
  <2> QED
    BY <2>1, <2>2
<1>3. \A s \in Sessions : frames'[s] \notin Busy
  BY DEF Restart, Idle, Busy
<1> QED
  BY <1>2, <1>3 DEF Restart, Numbered

\* With PostgreSQL a JWT, or the write of a request in flight, never reaches an
\* account created after the one it was issued for or read from.
THEOREM RememberedIds ==
    ASSUME Driver = "postgres"
    PROVE  ConsoleSpec => []RememberedIdsHold
<1>1. ConsoleInit => Numbered
  <2> SUFFICES ASSUME ConsoleInit PROVE Numbered
    OBVIOUS
  <2>1. \A s \in Sessions : frames[s] \notin Busy
    BY DEF ConsoleInit, Idle, Busy
  <2> QED
    BY <2>1 DEF ConsoleInit, Numbered
<1>2. ConsoleTypeOK /\ Numbered /\ [ConsoleNext]_consoleVars => Numbered'
  <2> SUFFICES ASSUME ConsoleTypeOK, Numbered, [ConsoleNext]_consoleVars
               PROVE  Numbered'
    OBVIOUS
  <2>1. CASE \E s \in Sessions : SessionStep(s)
    BY <2>1, SessionNumbered
  <2>2. CASE \E login \in Usernames : WindowEnds(login)
    BY <2>2 DEF WindowEnds, Numbered
  <2>3. CASE JwtExpires
    BY <2>3 DEF JwtExpires, Numbered
  <2>4. CASE Restart
    BY <2>4, RestartNumbered
  <2>5. CASE UNCHANGED consoleVars
    BY <2>5 DEF consoleVars, Numbered
  <2> QED
    BY <2>1, <2>2, <2>3, <2>4, <2>5 DEF ConsoleNext
<1>3. ConsoleTypeOK /\ Numbered => RememberedIdsHold
  BY IdleOrBusy DEF Numbered, RememberedIdsHold
<1> QED
  BY <1>1, <1>2, <1>3, ConsoleTypeCorrect, PTL DEF ConsoleSpec
=============================================================================
