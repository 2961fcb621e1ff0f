------------------------------ MODULE Projects ------------------------------
(***************************************************************************)
(* Project and token management from the console:                          *)
(* internal/handler/projects.go.  Create and delete are one statement.     *)
(* UpdateProject, UpdateToken, DisableToken and EnableToken read the row,  *)
(* change it in memory and write all of it back by id: a frame of `admin`  *)
(* is between its read and its write.  No transaction spans the two.       *)
(***************************************************************************)
EXTENDS Store

CONSTANTS
    Admins,            \* console requests that may be in flight together
    AdminOps,          \* bound: the console operations that are tried
    RetentionChoices   \* bound: the values of retention_days that are tried

ASSUME AdminAssumption ==
    /\ AdminOps \subseteq {"create project", "delete project", "create token",
                           "delete token", "update project", "update", "disable", "enable"}
    /\ RetentionChoices \subseteq Int

VARIABLE admin   \* the frames

\* id is that of the row read, days and active what will be written.
AdminFrame == [op : {"idle", "update project", "update", "disable", "enable"},
               id : Nat, days : Int, active : BOOLEAN]
IdleAdmin == [op |-> "idle", id |-> 0, days |-> 0, active |-> FALSE]

ProjectsTypeOK == admin \in [Admins -> AdminFrame]

ProjectsInit == admin = [a \in Admins |-> IdleAdmin]

Idle(a) == admin[a].op = "idle"
Free(a, op) == Idle(a) /\ op \in AdminOps
Done(a) == admin' = [admin EXCEPT ![a] = IdleAdmin]

-----------------------------------------------------------------------------
CreateProject(a) == Free(a, "create project") /\ InsertProject /\ UNCHANGED admin

RemoveProject(a) ==
    /\ Free(a, "delete project")
    /\ \E p \in Ids(projects) : DeleteProject(p)
    /\ UNCHANGED admin

CreateToken(a) ==
    /\ Free(a, "create token")
    /\ \E p \in Ids(projects) : InsertProjectToken(p)
    /\ UNCHANGED admin

\* By the id of the token alone.
DeleteToken(a) ==
    /\ Free(a, "delete token")
    /\ \E t \in project_tokens : DeleteProjectToken(t.id)
    /\ UNCHANGED admin

-----------------------------------------------------------------------------
(* Update: a request that only renames writes back the retention it read.   *)

ReadProject(a) ==
    /\ Free(a, "update project")
    /\ \E row \in projects, days \in RetentionChoices :
         \E written \in {days, row.retention_days} :
           admin' = [admin EXCEPT ![a] = [op |-> "update project", id |-> row.id,
                                          days |-> written, active |-> FALSE]]
    /\ UNCHANGED storeVars

WriteProject(a) ==
    /\ admin[a].op = "update project"
    /\ UpdateProject(admin[a].id, admin[a].days)
    /\ Done(a)

-----------------------------------------------------------------------------
(* UpdateToken sets label and origins and writes back the `active` it read; *)
(* DisableToken and EnableToken set it.                                     *)

\* (First what it must not be: a rename writes the default of the column.)
WrittenDefault(op, row) == op # "disable"

WrittenActive(op, row) ==
    CASE op = "update"  -> row.active
      [] op = "disable" -> FALSE
      [] op = "enable"  -> TRUE

ReadToken(a) ==
    /\ \E row \in project_tokens, op \in {"update", "disable", "enable"} :
         /\ Free(a, op)
         /\ admin' = [admin EXCEPT ![a] = [op |-> op, id |-> row.id, days |-> 0,
                                           active |-> WrittenActive(op, row)]]
    /\ UNCHANGED storeVars

WriteToken(a) ==
    /\ admin[a].op \in {"update", "disable", "enable"}
    /\ UpdateProjectToken(admin[a].id, admin[a].active)
    /\ Done(a)

\* 500, and nothing written.  (Of a write that committed, 200 and 500 leave the
\* same state: the statements above are both.)
WriteFails(a) ==
    /\ ~ Idle(a)
    /\ Done(a)
    /\ UNCHANGED storeVars

AdminStep(a) ==
    \/ CreateProject(a) \/ RemoveProject(a) \/ CreateToken(a) \/ DeleteToken(a)
    \/ ReadProject(a) \/ WriteProject(a)
    \/ ReadToken(a) \/ WriteToken(a)
    \/ WriteFails(a)

ProjectsNext == \E a \in Admins : AdminStep(a)
=============================================================================
