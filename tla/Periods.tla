------------------------------ MODULE Periods ------------------------------
(***************************************************************************)
(* The server with a history of the retention periods that were asked for  *)
(* each project: what a console request may leave on it, though every      *)
(* request writes a period back, also those that only rename.              *)
(***************************************************************************)
EXTENDS Server

VARIABLE asked   \* history: for each project id the periods asked for the
                 \* project that has it, or had it last

periodsVars == <<vars, asked>>

PeriodsInit == Init /\ asked = [p \in ProjectIds |-> {0}]

\* Request a has read project p in this step, to give it another period.
AsksFor(a, p) ==
    /\ admin[a].op # "update project" /\ admin'[a].op = "update project"
    /\ admin'[a].id = p
    /\ \A row \in projects : row.id = p => row.retention_days # admin'[a].days

\* A project is created without a period, which is 0.
AskedAfter(p) ==
    IF p \in Ids(projects') \ Ids(projects)
    THEN {0}
    ELSE asked[p] \cup {admin'[a].days : a \in {b \in Admins : AsksFor(b, p)}}

PeriodsNext == Next /\ asked' = [p \in ProjectIds |-> AskedAfter(p)]

PeriodsSpec == PeriodsInit /\ [][PeriodsNext]_periodsVars

PeriodsFairSpec == PeriodsSpec /\ Fairness

-----------------------------------------------------------------------------
\* The period a project has, and the one a sweep is about to use on it, was asked
\* for this project: a request that renames may bring back a period that was
\* replaced meanwhile, but never one of a project that was deleted.  (PostgreSQL;
\* under SQLite a write in flight meets the project that was given the id.)
PeriodsAsAsked ==
    /\ \A p \in projects : p.retention_days \in asked[p.id]
    /\ \A row \in sweep : row.id \in Ids(projects) => row.retention_days \in asked[row.id]

\* Events are not deleted, but with their project or their device, before they are
\* older than some period that was asked for their project.
PurgedAsAsked ==
    [][\A e \in events : e.id \notin Ids(events') =>
         \/ e.project_id \notin Ids(projects')
         \/ e.device_id \notin Ids(devices')
         \/ \E days \in asked[e.project_id] : days > 0 /\ e.created_at + days < now]_periodsVars
=============================================================================
