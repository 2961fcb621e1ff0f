------------------------------- MODULE Store -------------------------------
(***************************************************************************)
(* The relational store behind the server: internal/storage (the Store     *)
(* interface, its SQLite and PostgreSQL implementations) over the schema   *)
(* of internal/storage/migrations.  Every operator of the second half is   *)
(* one SQL statement, atomic, with the constraints the schema puts on it:  *)
(* primary keys, UNIQUE, REFERENCES ... ON DELETE CASCADE | SET NULL.      *)
(*                                                                         *)
(* A table is the set of its rows, a row a record of the columns that      *)
(* steer the program.  Columns that are only displayed (names, labels,     *)
(* platform, IP, geography ...) are left out.                              *)
(***************************************************************************)
EXTENDS RowIds, FiniteSets

CONSTANTS
    DeviceIds,     \* devices.id, chosen by the client SDK
    AnonymousIds,  \* app_users.anonymous_id, hashed by the client SDK
    EventIds,      \* events.id, chosen by the client SDK
    Requests,      \* the tracking requests of one execution
    MaxProjects,   \* bound on projects.id
    MaxTokens,     \* bound on project_tokens.id and on the tokens generated
    MaxUsers,      \* bound on app_users.id
    Seed,          \* projects that exist at the start, each with one token
    Registered     \* DeviceIds -> 0 .. Seed: devices registered at the start

ASSUME BoundsAssumption ==
    /\ {MaxProjects, MaxTokens, MaxUsers, Seed} \subseteq Nat
    /\ Seed <= MaxProjects /\ Seed <= MaxTokens
ASSUME RegisteredAssumption == Registered \in [DeviceIds -> 0 .. Seed]

VARIABLES
    projects, project_tokens, app_users, devices, events, event_properties,
    serial,   \* the ids last issued by each sequence, and the tokens generated
    now,      \* the clock, in days: one tick of the retention ticker
    purged    \* history: the arrivals of all events that were deleted

tables == <<projects, project_tokens, app_users, devices, events, event_properties>>
storeVars == <<tables, serial, now, purged>>

ProjectIds == 1 .. MaxProjects
TokenIds   == 1 .. MaxTokens
UserIds    == 1 .. MaxUsers

-----------------------------------------------------------------------------
(* Rows.  `token` stands for the random string auth.GenerateToken returned: *)
(* the n-th call returned n.  `disabled_at` is written together with        *)
(* `active` and is left out.  `by` stands for the payload columns: the      *)
(* request whose body the row was built from.                               *)

ProjectRow  == [id : ProjectIds, retention_days : Int]
TokenRow    == [id : TokenIds, project_id : ProjectIds, token : TokenIds, active : BOOLEAN]
AppUserRow  == [id : UserIds, project_id : ProjectIds, anonymous_id : AnonymousIds]
DeviceRow   == [id : DeviceIds, project_id : ProjectIds, user_id : UserIds \cup {Null}]
EventRow    == [id : EventIds, project_id : ProjectIds, device_id : DeviceIds,
                user_id : UserIds \cup {Null}, created_at : Nat, by : Requests]
PropertyRow == [event_id : EventIds, by : Requests]

StoreTypeOK ==
    /\ projects \subseteq ProjectRow
    /\ project_tokens \subseteq TokenRow
    /\ app_users \subseteq AppUserRow
    /\ devices \subseteq DeviceRow
    /\ events \subseteq EventRow
    /\ event_properties \subseteq PropertyRow
    /\ serial \in [projects : Nat, tokens : Nat, users : Nat, minted : Nat]
    /\ now \in Nat
    /\ purged \subseteq [id : EventIds, by : Requests]

\* What NewToken must not be: a generator that starts over.
RepeatedToken == 1

\* auth.GenerateToken: a random string, other than every one before.
NewToken == serial.minted + 1

Issued(sequence, id) ==
    serial' = IF Driver = "postgres" THEN [serial EXCEPT ![sequence] = id] ELSE serial

-----------------------------------------------------------------------------
(* The database after Seed projects were created with a token each and the  *)
(* devices of Registered registered.                                        *)

StoreInit ==
    /\ projects = {[id |-> p, retention_days |-> 0] : p \in 1 .. Seed}
    /\ project_tokens =
         {[id |-> p, project_id |-> p, token |-> p, active |-> TRUE] : p \in 1 .. Seed}
    /\ app_users = {}
    /\ devices = {[id |-> d, project_id |-> Registered[d], user_id |-> Null] :
                    d \in {x \in DeviceIds : Registered[x] # Null}}
    /\ events = {} /\ event_properties = {}
    /\ serial = IF Driver = "postgres"
                THEN [projects |-> Seed, tokens |-> Seed, users |-> 0, minted |-> Seed]
                ELSE [projects |-> 0, tokens |-> 0, users |-> 0, minted |-> Seed]
    /\ now = 0
    /\ purged = {}

-----------------------------------------------------------------------------
(* Statements.                                                              *)

InsertProject ==
    \E id \in ProjectIds :
        /\ IsNextId(id, Ids(projects), serial.projects)
        /\ projects' = projects \cup {[id |-> id, retention_days |-> 0]}
        /\ Issued("projects", id)
        /\ UNCHANGED <<project_tokens, app_users, devices, events,
                       event_properties, now, purged>>

UpdateProject(id, days) ==
    /\ projects' = {IF row.id = id THEN [row EXCEPT !.retention_days = days] ELSE row :
                      row \in projects}
    /\ UNCHANGED <<project_tokens, app_users, devices, events, event_properties,
                   serial, now, purged>>

\* The DELETE and the cascades and SET NULLs it sets off.  An event goes with
\* its project and also with the project of its device.
GoneUsers(p)   == Ids({row \in app_users : row.project_id = p})
GoneDevices(p) == Ids({row \in devices : row.project_id = p})

\* What GoneEvents must not be: without ON DELETE CASCADE from device to event.
GoneEventsOfProject(p) == {row \in events : row.project_id = p}

GoneEvents(p) == {row \in events : row.project_id = p \/ row.device_id \in GoneDevices(p)}
Unlinked(row, users) == IF row.user_id \in users THEN [row EXCEPT !.user_id = Null] ELSE row

\* Which event came with which request.
Arrivals(rows) == {[id |-> row.id, by |-> row.by] : row \in rows}

DeleteEvents(gone) ==
    /\ event_properties' = {row \in event_properties : row.event_id \notin Ids(gone)}
    /\ purged' = purged \cup Arrivals(gone)

DeleteProject(p) ==
    /\ projects' = {row \in projects : row.id # p}
    /\ project_tokens' = {row \in project_tokens : row.project_id # p}
    /\ app_users' = {row \in app_users : row.project_id # p}
    /\ devices' = {Unlinked(row, GoneUsers(p)) : row \in {r \in devices : r.project_id # p}}
    /\ events' = {Unlinked(row, GoneUsers(p)) : row \in events \ GoneEvents(p)}
    /\ DeleteEvents(GoneEvents(p))
    /\ UNCHANGED <<serial, now>>

InsertProjectToken(p) ==
    \E id \in TokenIds :
        /\ p \in Ids(projects)
        /\ NewToken \in TokenIds
        /\ IsNextId(id, Ids(project_tokens), serial.tokens)
        /\ project_tokens' = project_tokens \cup
             {[id |-> id, project_id |-> p, token |-> NewToken, active |-> TRUE]}
        /\ serial' = [serial EXCEPT !.minted = @ + 1,
                                    !.tokens = IF Driver = "postgres" THEN id ELSE @]
        /\ UNCHANGED <<projects, app_users, devices, events, event_properties, now, purged>>

UpdateProjectToken(id, active) ==
    /\ project_tokens' = {IF row.id = id THEN [row EXCEPT !.active = active] ELSE row :
                            row \in project_tokens}
    /\ UNCHANGED <<projects, app_users, devices, events, event_properties,
                   serial, now, purged>>

DeleteProjectToken(id) ==
    /\ project_tokens' = {row \in project_tokens : row.id # id}
    /\ UNCHANGED <<projects, app_users, devices, events, event_properties,
                   serial, now, purged>>

\* An id that is registered keeps its project: the upsert sets only the columns
\* left out here.  CanUpsertDevice is the REFERENCES check of the INSERT.
CanUpsertDevice(d, p) == d \in Ids(devices) \/ p \in Ids(projects)

UpsertDevice(d, p) ==
    /\ devices' = IF d \in Ids(devices)
                  THEN devices
                  ELSE devices \cup {[id |-> d, project_id |-> p, user_id |-> Null]}
    /\ UNCHANGED <<projects, project_tokens, app_users, events, event_properties,
                   serial, now, purged>>

\* UPDATE devices SET user_id: no row, no error; a row, and user_id must exist.
CanLinkDevice(d, u) == d \notin Ids(devices) \/ u \in Ids(app_users)

LinkDeviceToUser(d, u) ==
    /\ devices' = {IF row.id = d THEN [row EXCEPT !.user_id = u] ELSE row : row \in devices}
    /\ UNCHANGED <<projects, project_tokens, app_users, events, event_properties,
                   serial, now, purged>>

\* The INSERT of GetOrCreateAppUser, under UNIQUE (project_id, anonymous_id).
\* (First without the UNIQUE, which it must not be.)
CanInsertAppUserAgain(p, a) == p \in Ids(projects)

CanInsertAppUser(p, a) ==
    /\ p \in Ids(projects)
    /\ ~ \E row \in app_users : row.project_id = p /\ row.anonymous_id = a

InsertAppUser(p, a, id) ==
    /\ IsNextId(id, Ids(app_users), serial.users)
    /\ app_users' = app_users \cup {[id |-> id, project_id |-> p, anonymous_id |-> a]}
    /\ Issued("users", id)
    /\ UNCHANGED <<projects, project_tokens, devices, events, event_properties, now, purged>>

\* INSERT OR IGNORE (ON CONFLICT(id) DO NOTHING): a known id inserts nothing, a
\* dangling reference is an error; the caller treats both alike.
CanInsertEvent(id, p, d, u) ==
    /\ id \notin Ids(events)
    /\ p \in Ids(projects) /\ d \in Ids(devices) /\ u \in Ids(app_users) \cup {Null}

\* What InsertEvent must not be: it files an event in the project of its device.
InsertEventOfDevice(id, p, d, u, r) ==
    /\ \E row \in devices :
         /\ row.id = d
         /\ events' = events \cup {[id |-> id, project_id |-> row.project_id, device_id |-> d,
                                    user_id |-> u, created_at |-> now, by |-> r]}
    /\ UNCHANGED <<projects, project_tokens, app_users, devices, event_properties,
                   serial, now, purged>>

InsertEvent(id, p, d, u, r) ==
    /\ events' = events \cup {[id |-> id, project_id |-> p, device_id |-> d, user_id |-> u,
                               created_at |-> now, by |-> r]}
    /\ UNCHANGED <<projects, project_tokens, app_users, devices, event_properties,
                   serial, now, purged>>

\* One transaction for all properties of an event: all of them or none.
CanInsertEventProperties(id) == id \in Ids(events)

InsertEventProperties(id, r) ==
    /\ event_properties' = event_properties \cup {[event_id |-> id, by |-> r]}
    /\ UNCHANGED <<projects, project_tokens, app_users, devices, events,
                   serial, now, purged>>

\* What ExpiredEvents must not be: with what is exactly as old as the period.
ExpiringEvents(p, days) == {row \in events : row.project_id = p /\ row.created_at + days <= now}

\* created_at < now - days: strictly older than the retention period.
ExpiredEvents(p, days) == {row \in events : row.project_id = p /\ row.created_at + days < now}

CleanupEvents(p, days) ==
    /\ events' = events \ ExpiredEvents(p, days)
    /\ DeleteEvents(ExpiredEvents(p, days))
    /\ UNCHANGED <<projects, project_tokens, app_users, devices, serial, now>>

-----------------------------------------------------------------------------
(* What the schema promises and the statements must keep.                   *)

\* Every reference a row holds is to a row that exists: deleting a project
\* leaves no token, user, device, event or property behind that still points
\* into it, whatever was in flight when it was deleted.
ReferentialIntegrity ==
    /\ \A t \in project_tokens : t.project_id \in Ids(projects)
    /\ \A u \in app_users : u.project_id \in Ids(projects)
    /\ \A d \in devices : d.project_id \in Ids(projects)
                          /\ d.user_id \in Ids(app_users) \cup {Null}
    /\ \A e \in events : /\ e.project_id \in Ids(projects)
                         /\ e.device_id \in Ids(devices)
                         /\ e.user_id \in Ids(app_users) \cup {Null}
    /\ \A x \in event_properties : x.event_id \in Ids(events)

\* No two rows of a table share a primary key, no two tokens a token string,
\* and no two users of a project an anonymous id, although GetOrCreateAppUser
\* looks for the user and creates it in two statements.
UniqueKeys ==
    /\ IsKeyOf(projects) /\ IsKeyOf(project_tokens) /\ IsKeyOf(app_users)
    /\ IsKeyOf(devices) /\ IsKeyOf(events)
    /\ \A s, t \in project_tokens : s.token = t.token => s = t
    /\ \A u, v \in app_users :
         u.project_id = v.project_id /\ u.anonymous_id = v.anonymous_id => u = v

\* PostgreSQL issues ids upwards, and no token string was generated before: why
\* a row that is inserted brings back no key.
IssuedUpwards ==
    /\ \A row \in project_tokens : row.token <= serial.minted
    /\ Driver = "postgres" =>
         /\ \A row \in projects : row.id <= serial.projects
         /\ \A row \in project_tokens : row.id <= serial.tokens
         /\ \A row \in app_users : row.id <= serial.users

StoreInv == ReferentialIntegrity /\ UniqueKeys /\ IssuedUpwards
=============================================================================
