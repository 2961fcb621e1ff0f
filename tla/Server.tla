------------------------------- MODULE Server -------------------------------
(***************************************************************************)
(* The server: tracking requests, console requests and the retention sweep *)
(* run as goroutines of one process over one store, and the process may    *)
(* crash (or be stopped) and start again over the store as it was left.    *)
(***************************************************************************)
EXTENDS Tracking, Projects, Retention

vars == <<storeVars, reqs, admin, due, sweep>>

Init == StoreInit /\ TrackingInit /\ ProjectsInit /\ RetentionInit

Crash ==
    /\ DropRequests
    /\ admin' = [a \in Admins |-> IdleAdmin]
    /\ RestartSweeper
    /\ UNCHANGED storeVars

Next ==
    \/ TrackingNext /\ UNCHANGED <<admin, due, sweep>>
    \/ ProjectsNext /\ UNCHANGED <<reqs, due, sweep>>
    \/ RetentionNext /\ UNCHANGED <<reqs, admin>>
    \/ Crash

Spec == Init /\ [][Next]_vars

\* The ticker ticks; a run that is due is started, and reads the projects
\* without an error, again and again; a run that has started goes on to its end;
\* the process crashes finitely often.  The DELETE for a project may fail, but of
\* those that are tried not every one does, except for a project of Unhealthy.
\* Nothing is assumed of the requests.
Fairness ==
    /\ WF_vars(Tick /\ UNCHANGED <<reqs, admin>>)
    /\ SF_vars(StartSweep /\ UNCHANGED <<reqs, admin>>)
    /\ WF_vars(SweepStep /\ UNCHANGED <<reqs, admin>>)
    /\ \A p \in ProjectIds \ Unhealthy :
         []<><<Tried(p)>>_vars => []<><<Cleanup(p)>>_vars
    /\ <>[][~ Crash]_vars

-----------------------------------------------------------------------------
TypeOK == StoreTypeOK /\ TrackingTypeOK /\ ProjectsTypeOK /\ RetentionTypeOK

-----------------------------------------------------------------------------
(* Ingestion.                                                               *)

EventIdAt(r, i) == Call[r].batch[i].id

\* The positions of r's batch whose event row r has inserted: those it counted,
\* and the one whose properties it is about to store.
Claims(r) == reqs[r].accepted \cup {i \in {reqs[r].i} : reqs[r].pc = "props"}

StoredBy(id, r) == \E e \in events : e.id = id /\ e.by = r

\* The event that request r stored under this id was deleted.
Deleted(id, r) == [id |-> id, by |-> r] \in purged

\* An event is ingested exactly once, however often it is sent, by however many
\* requests at a time, and whatever crashes: unless it was deleted, what a
\* request claims is stored, from the body of that request, and whoever else
\* claims the same id (another request, or another position of the batch) had
\* stored an event that was deleted.
ExactlyOnce ==
    \A r \in Requests : \A i \in Claims(r) :
        \/ Deleted(EventIdAt(r, i), r)
        \/ /\ StoredBy(EventIdAt(r, i), r)
           /\ \A s \in Requests : \A j \in Claims(s) :
                EventIdAt(s, j) = EventIdAt(r, i) =>
                  (s = r /\ j = i) \/ Deleted(EventIdAt(s, j), s)

\* No request stores properties for an event it has not stored itself: the id was
\* known already, and the properties are those of the call that was first.  So
\* the properties of an event came in its own call, with one exception: between
\* the two transactions of a call its event is deleted and the id sent anew.
\* Then InsertEventProperties, which knows the id only, adds the properties of
\* the deleted event to the new one, even to one of another project.
PropertiesAfterOwnEvent ==
    \A x \in event_properties :
        StoredBy(x.event_id, x.by) \/ Deleted(x.event_id, x.by)

\* The request loop is inside its batch, and has counted only what it passed.
LoopInBatch ==
    \A r \in Requests :
        /\ reqs[r].accepted \subseteq 1 .. (reqs[r].i - 1)
        /\ reqs[r].pc \in {"insert", "props"} => reqs[r].i \in 1 .. (Len(Call[r].batch) + 1)
        /\ reqs[r].pc = "props" => reqs[r].i <= Len(Call[r].batch)

-----------------------------------------------------------------------------
(* Identity.                                                                *)

\* Request r named the user with this row for its device, and has sent the UPDATE
\* that links the two; an UPDATE that committed may have been answered with an
\* error.
Identified(r, device, user) ==
    /\ Call[r].kind = "identify" /\ reqs[r].user # Null
    /\ reqs[r].pc \in {"ok", "error"}
    /\ Call[r].device = device /\ Call[r].anonymous_id = user.anonymous_id

\* A device that is linked is linked to the user some identify call named for
\* that device: rows that are deleted, and the ids that are issued between the
\* lookup of the user and the UPDATE of the device, do not divert the link.
LinkedAsIdentified ==
    \A d \in devices : d.user_id # Null =>
        \E u \in app_users : u.id = d.user_id /\ \E r \in Requests : Identified(r, d.id, u)

\* An event is filed under the user its own call named, or under a user that
\* an identify call named for its device.
FiledAsIdentified ==
    \A e \in events : e.user_id # Null =>
        \/ Call[e.by].user = e.user_id
        \/ \E u \in app_users : u.id = e.user_id
                                /\ \E r \in Requests : Identified(r, e.device_id, u)

-----------------------------------------------------------------------------
(* Tokens.                                                                  *)

Bound(token) == {row.project_id : row \in {x \in project_tokens : x.token = token}}

\* A token string opens one project for good: once it is deleted, alone or with
\* its project, no write that was still in flight brings it back, and no write
\* moves it to another project.
TokenBindingIsFinal ==
    [][\A token \in TokenIds :
         token <= serial.minted => Bound(token)' \subseteq Bound(token)]_vars

\* Tenants stay apart: what is written under a token is of the project the token
\* opens, for as long as the token exists, though a request reads the token once
\* and writes much later, and though projects and tokens are deleted and their ids
\* issued again (SQLite) to others meanwhile.
FiledUnderToken ==
    \A t \in project_tokens :
        /\ \A e \in events : Call[e.by].token = t.token => e.project_id = t.project_id
        /\ \A r \in Requests : reqs[r].project # Null /\ Call[r].token = t.token
                                => reqs[r].project = t.project_id

\* Request a has read the row, or an earlier one with its id, and will write `active`.
Activates(a, row) ==
    admin[a].op \in {"update", "disable", "enable"} /\ admin[a].id = row.id /\ admin[a].active

\* A disabled token works again by a request that enables it, or that changes its
\* label or origins and has read it before it was disabled: no request that has
\* begun since then sets `active`, and nothing but the write of one does.
ReenabledAsRead ==
    [][\A row \in {x \in project_tokens : ~ x.active} :
         /\ \A a \in Admins : Activates(a, row)' /\ ~ Activates(a, row) => admin'[a].op = "enable"
         /\ (\E x \in project_tokens' : x.token = row.token /\ x.active) =>
              \E a \in Admins : Activates(a, row) /\ admin'[a] = IdleAdmin]_vars

-----------------------------------------------------------------------------
(* Deletion and retention.                                                  *)

\* An event is deleted with its project, with its device, or by a sweep that has
\* found a retention period on its project and the event older than that.
NoEarlyPurge ==
    [][\A e \in events : e.id \notin Ids(events') =>
         \/ e.project_id \notin Ids(projects')
         \/ e.device_id \notin Ids(devices')
         \/ \E row \in sweep : /\ row.id = e.project_id /\ row.retention_days > 0
                               /\ e.created_at + row.retention_days < now]_vars

\* A project that is created is unknown to whatever is in flight: no request that
\* has authenticated, no update that has read its project and no sweep holds its
\* id, and the id is all they remember of a project.  (PostgreSQL; under SQLite
\* they would write into it, change it or delete from it.)
NewProjectsAreUnknown ==
    [][\A p \in Ids(projects') \ Ids(projects) :
         /\ \A r \in Requests : reqs[r].project # p
         /\ \A a \in Admins : admin[a].op = "update project" => admin[a].id # p
         /\ p \notin Ids(sweep)]_vars

\* Deleting a project deletes the events of that project only.
DeleteIsLocal ==
    [][\A e \in events : e.id \notin Ids(events') /\ Ids(projects') # Ids(projects)
         => e.project_id \notin Ids(projects')]_vars

Expired(id) ==
    \E e \in events, p \in projects :
        /\ e.id = id /\ p.id = e.project_id
        /\ p.retention_days > 0 /\ p.id \notin Unhealthy
        /\ e.created_at + p.retention_days < now

\* An event that has outlived the retention period of its project does not stay,
\* though the clean-up of other projects fails every time.
ExpiredIsPurged == \A id \in EventIds : Expired(id) ~> ~ Expired(id)

IngestInv == LoopInBatch /\ ExactlyOnce /\ PropertiesAfterOwnEvent

-----------------------------------------------------------------------------
(* Refinement.                                                              *)

Logged  == Arrivals(events)
Counted == [r \in Requests |-> Claims(r)]
Open    == {r \in Requests : reqs[r].pc \notin Answered}

Log == INSTANCE EventLog WITH
         log <- Logged, described <- event_properties, gone <- purged,
         counted <- Counted, open <- Open

\* To a client the tables, the loop over the batch with its statements, the
\* retries and the crashes are the log of EventLog: an event is stored and
\* counted in one step, its properties follow from the same call (or, if it was
\* deleted before them, fall to the next event with its id), only deletions take
\* events (no UPDATE, cascade or SET NULL changes whose they are), and an answer
\* is final.
EventLogSpec == Log!LogSpec
=============================================================================
