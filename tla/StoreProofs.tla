---------------------------- MODULE StoreProofs ----------------------------
(***************************************************************************)
(* The store alone: whatever sequence of statements is run on it, under    *)
(* the constraints of the schema, its rows keep their types, references    *)
(* and keys.                                                               *)
(***************************************************************************)
EXTENDS Store, TLAPS

\* Any one statement that succeeds, or the clock.
StoreNext ==
    \/ InsertProject
    \/ \E id \in Nat, days \in Int : UpdateProject(id, days)
    \/ \E p \in Nat : DeleteProject(p)
    \/ \E p \in Nat : InsertProjectToken(p)
    \/ \E id \in Nat, active \in BOOLEAN : UpdateProjectToken(id, active)
    \/ \E id \in Nat : DeleteProjectToken(id)
    \/ \E d \in DeviceIds, p \in Nat : CanUpsertDevice(d, p) /\ UpsertDevice(d, p)
    \/ \E d \in DeviceIds, u \in Nat : CanLinkDevice(d, u) /\ LinkDeviceToUser(d, u)
    \/ \E p \in Nat, a \in AnonymousIds, id \in UserIds :
         CanInsertAppUser(p, a) /\ InsertAppUser(p, a, id)
    \/ \E id \in EventIds, p \in Nat, d \in DeviceIds, u \in Nat, r \in Requests :
         CanInsertEvent(id, p, d, u) /\ InsertEvent(id, p, d, u, r)
    \/ \E id \in EventIds, r \in Requests :
         CanInsertEventProperties(id) /\ InsertEventProperties(id, r)
    \/ \E p \in Nat, days \in Int : CleanupEvents(p, days)
    \/ now' \in Nat /\ UNCHANGED <<tables, serial, purged>>

-----------------------------------------------------------------------------
USE DEF Null

\* The initial database has rows of the right types: Seed is within the bounds.
LEMMA StoreInitType == StoreInit => StoreTypeOK
<1>1. \A p \in 1 .. Seed : p \in ProjectIds /\ p \in TokenIds
  BY BoundsAssumption DEF ProjectIds, TokenIds
<1>2. \A d \in DeviceIds : Registered[d] # Null => Registered[d] \in ProjectIds
  BY <1>1, BoundsAssumption, RegisteredAssumption
<1> SUFFICES ASSUME StoreInit PROVE StoreTypeOK
  OBVIOUS
<1>3. projects \subseteq ProjectRow
  BY <1>1 DEF StoreInit, ProjectRow
<1>4. project_tokens \subseteq TokenRow
  <2>1. \A p \in 1 .. Seed :
           [id |-> p, project_id |-> p, token |-> p, active |-> TRUE] \in TokenRow
    BY <1>1 DEF TokenRow
  <2> QED
    BY <2>1 DEF StoreInit
<1>5. devices \subseteq DeviceRow
  BY <1>2 DEF StoreInit, DeviceRow
<1>6. serial \in [projects : Nat, tokens : Nat, users : Nat, minted : Nat]
  BY BoundsAssumption DEF StoreInit
<1> QED
  BY <1>3, <1>4, <1>5, <1>6 DEF StoreInit, StoreTypeOK

\* Every statement writes rows of the right types.
LEMMA StoreStepType == StoreTypeOK /\ StoreNext => StoreTypeOK'
<1> SUFFICES ASSUME StoreTypeOK, StoreNext PROVE StoreTypeOK'
  OBVIOUS
<1> USE DEF StoreTypeOK
<1>1. CASE InsertProject
  BY <1>1 DEF InsertProject, Issued, ProjectRow, ProjectIds
<1>2. CASE \E id \in Nat, days \in Int : UpdateProject(id, days)
  BY <1>2 DEF UpdateProject, ProjectRow
<1>3. CASE \E p \in Nat : DeleteProject(p)
  <2> PICK p \in Nat : DeleteProject(p)
    BY <1>3
  <2>1. \A row \in DeviceRow : Unlinked(row, GoneUsers(p)) \in DeviceRow
    BY DEF Unlinked, DeviceRow
  <2>2. \A row \in EventRow : Unlinked(row, GoneUsers(p)) \in EventRow
    BY DEF Unlinked, EventRow
  <2>3. Arrivals(GoneEvents(p)) \subseteq [id : EventIds, by : Requests]
    BY DEF Arrivals, GoneEvents, EventRow
  <2>4. devices' \subseteq DeviceRow
    BY <2>1 DEF DeleteProject
  <2>5. events' \subseteq EventRow
    BY <2>2 DEF DeleteProject
  <2> QED
    BY <2>3, <2>4, <2>5 DEF DeleteProject, DeleteEvents
<1>4. CASE \E p \in Nat : InsertProjectToken(p)
  <2> PICK p \in Nat, id \in TokenIds :
         /\ p \in Ids(projects)
         /\ NewToken \in TokenIds
         /\ project_tokens' = project_tokens \cup
              {[id |-> id, project_id |-> p, token |-> NewToken, active |-> TRUE]}
         /\ serial' = [serial EXCEPT !.minted = @ + 1,
                                     !.tokens = IF Driver = "postgres" THEN id ELSE @]
         /\ UNCHANGED <<projects, app_users, devices, events, event_properties, now, purged>>
    BY <1>4 DEF InsertProjectToken
  <2>1. [id |-> id, project_id |-> p, token |-> NewToken, active |-> TRUE] \in TokenRow
    BY DEF TokenRow, ProjectRow, Ids
  <2>2. id \in Nat /\ serial.minted + 1 \in Nat
    BY DEF TokenIds
  <2>3. serial' \in [projects : Nat, tokens : Nat, users : Nat, minted : Nat]
    BY <2>2
  <2> QED
    BY <2>1, <2>3
<1>5. CASE \E id \in Nat, active \in BOOLEAN : UpdateProjectToken(id, active)
  BY <1>5 DEF UpdateProjectToken, TokenRow
<1>6. CASE \E id \in Nat : DeleteProjectToken(id)
  BY <1>6 DEF DeleteProjectToken
<1>7. CASE \E d \in DeviceIds, p \in Nat : CanUpsertDevice(d, p) /\ UpsertDevice(d, p)
  BY <1>7 DEF CanUpsertDevice, UpsertDevice, DeviceRow, ProjectRow, Ids
<1>8. CASE \E d \in DeviceIds, u \in Nat : CanLinkDevice(d, u) /\ LinkDeviceToUser(d, u)
  BY <1>8 DEF CanLinkDevice, LinkDeviceToUser, DeviceRow, AppUserRow, Ids
<1>9. CASE \E p \in Nat, a \in AnonymousIds, id \in UserIds :
             CanInsertAppUser(p, a) /\ InsertAppUser(p, a, id)
  BY <1>9 DEF CanInsertAppUser, InsertAppUser, Issued, AppUserRow, ProjectRow, Ids, UserIds
<1>10. CASE \E id \in EventIds, p \in Nat, d \in DeviceIds, u \in Nat, r \in Requests :
              CanInsertEvent(id, p, d, u) /\ InsertEvent(id, p, d, u, r)
  BY <1>10 DEF CanInsertEvent, InsertEvent, EventRow, ProjectRow, AppUserRow, Ids
<1>11. CASE \E id \in EventIds, r \in Requests :
              CanInsertEventProperties(id) /\ InsertEventProperties(id, r)
  BY <1>11 DEF InsertEventProperties, PropertyRow
<1>12. CASE \E p \in Nat, days \in Int : CleanupEvents(p, days)
  BY <1>12 DEF CleanupEvents, DeleteEvents, ExpiredEvents, EventRow, Arrivals
<1>13. CASE now' \in Nat /\ UNCHANGED <<tables, serial, purged>>
  BY <1>13 DEF tables
<1> QED
  BY <1>1, <1>2, <1>3, <1>4, <1>5, <1>6, <1>7, <1>8, <1>9, <1>10, <1>11, <1>12, <1>13
     DEF StoreNext
-----------------------------------------------------------------------------
\* The tables Seed projects, tokens and devices start with.
LEMMA StoreInitInv == StoreInit => StoreInv
<1> SUFFICES ASSUME StoreInit PROVE StoreInv
  OBVIOUS
<1>1. \A p \in 1 .. Seed : p \in Ids(projects)
  <2> TAKE p \in 1 .. Seed
  <2>1. [id |-> p, retention_days |-> 0] \in projects
    BY DEF StoreInit
  <2> QED
    BY <2>1 DEF Ids
<1>2. \A t \in project_tokens : /\ t.project_id \in 1 .. Seed /\ t.token \in 1 .. Seed
                                /\ t.id = t.token
  BY DEF StoreInit
<1>3. \A d \in devices : d.project_id \in 1 .. Seed /\ d.user_id = Null
  BY BoundsAssumption, RegisteredAssumption DEF StoreInit
<1>4. app_users = {} /\ events = {} /\ event_properties = {}
  BY DEF StoreInit
<1>5. ReferentialIntegrity
  BY <1>1, <1>2, <1>3, <1>4 DEF ReferentialIntegrity
<1>6. IsKeyOf(projects)
  BY DEF StoreInit, IsKeyOf
<1>7. \A s, t \in project_tokens : s.token = t.token => s = t
  <2> DEFINE row(k) == [id |-> k, project_id |-> k, token |-> k, active |-> TRUE]
  <2>1. \A t \in project_tokens : t = row(t.token)
    BY DEF StoreInit
  <2> QED
    BY <2>1
<1>8. IsKeyOf(project_tokens)
  BY <1>2, <1>7 DEF IsKeyOf
<1>9. IsKeyOf(devices)
  BY DEF StoreInit, IsKeyOf
<1>10. UniqueKeys
  BY <1>4, <1>6, <1>7, <1>8, <1>9 DEF UniqueKeys, IsKeyOf
<1>11. serial.minted = Seed /\ (Driver = "postgres" => serial.projects = Seed /\ serial.tokens = Seed)
  BY DEF StoreInit
<1>12. \A row \in projects : row.id \in 1 .. Seed
  BY DEF StoreInit
<1>13. IssuedUpwards
  BY <1>2, <1>4, <1>11, <1>12, BoundsAssumption DEF IssuedUpwards
<1> QED
  BY <1>5, <1>10, <1>13 DEF StoreInv

\* Setting user_id to NULL leaves the other columns alone.
LEMMA UnlinkedDevice ==
    ASSUME NEW row \in DeviceRow, NEW users
    PROVE  /\ Unlinked(row, users).id = row.id
           /\ Unlinked(row, users).project_id = row.project_id
           /\ Unlinked(row, users).user_id = IF row.user_id \in users THEN Null ELSE row.user_id
BY DEF Unlinked, DeviceRow

LEMMA UnlinkedEvent ==
    ASSUME NEW row \in EventRow, NEW users
    PROVE  /\ Unlinked(row, users).id = row.id
           /\ Unlinked(row, users).project_id = row.project_id
           /\ Unlinked(row, users).device_id = row.device_id
           /\ Unlinked(row, users).by = row.by
           /\ Unlinked(row, users).user_id = IF row.user_id \in users THEN Null ELSE row.user_id
BY DEF Unlinked, EventRow

\* DELETE FROM projects: the cascades reach every row that pointed into the
\* project, directly or through a device, a user or an event.
LEMMA DeleteProjectReferences ==
    ASSUME StoreTypeOK, ReferentialIntegrity, NEW p \in Nat, DeleteProject(p)
    PROVE  ReferentialIntegrity'
<1> USE DEF Ids, StoreTypeOK
<1>1. \A x \in Ids(projects) : x # p => x \in Ids(projects')
  BY DEF DeleteProject
<1>2. \A x \in Ids(app_users) : x \notin GoneUsers(p) => x \in Ids(app_users')
  BY DEF DeleteProject, GoneUsers
<1>3. \A x \in Ids(devices) : x \notin GoneDevices(p) => x \in Ids(devices')
  <2> TAKE x \in Ids(devices)
  <2> HAVE x \notin GoneDevices(p)
  <2> PICK row \in devices : row.id = x
    OBVIOUS
  <2>1. row.project_id # p
    BY DEF GoneDevices
  <2>2. Unlinked(row, GoneUsers(p)) \in devices'
    BY <2>1 DEF DeleteProject
  <2> QED
    BY <2>2, UnlinkedDevice
<1>4. \A t \in project_tokens' : t.project_id \in Ids(projects')
  BY <1>1 DEF DeleteProject, ReferentialIntegrity
<1>5. \A u \in app_users' : u.project_id \in Ids(projects')
  BY <1>1 DEF DeleteProject, ReferentialIntegrity
<1>6. \A d \in devices' : d.project_id \in Ids(projects')
                          /\ d.user_id \in Ids(app_users') \cup {Null}
  <2> TAKE d \in devices'
  <2> PICK row \in devices : row.project_id # p /\ d = Unlinked(row, GoneUsers(p))
    BY DEF DeleteProject
  <2>1. row.project_id \in Ids(projects) /\ row.user_id \in Ids(app_users) \cup {Null}
    BY DEF ReferentialIntegrity
  <2> QED
    BY <2>1, <1>1, <1>2, UnlinkedDevice
<1>7. \A e \in events' : /\ e.project_id \in Ids(projects')
                         /\ e.device_id \in Ids(devices')
                         /\ e.user_id \in Ids(app_users') \cup {Null}
  <2> TAKE e \in events'
  <2> PICK row \in events : row \notin GoneEvents(p) /\ e = Unlinked(row, GoneUsers(p))
    BY DEF DeleteProject
  <2>1. /\ row.project_id \in Ids(projects) /\ row.device_id \in Ids(devices)
        /\ row.user_id \in Ids(app_users) \cup {Null}
    BY DEF ReferentialIntegrity
  <2>2. row.project_id # p /\ row.device_id \notin GoneDevices(p)
    BY DEF GoneEvents
  <2> QED
    BY <2>1, <2>2, <1>1, <1>2, <1>3, UnlinkedEvent
<1>8. \A x \in event_properties' : x.event_id \in Ids(events')
  <2> TAKE x \in event_properties'
  <2>1. x.event_id \in Ids(events) /\ x.event_id \notin Ids(GoneEvents(p))
    BY DEF DeleteProject, DeleteEvents, ReferentialIntegrity
  <2> PICK row \in events : row.id = x.event_id
    BY <2>1
  <2>2. Unlinked(row, GoneUsers(p)) \in events'
    BY <2>1 DEF DeleteProject
  <2> QED
    BY <2>2, UnlinkedEvent
<1> QED
  BY <1>4, <1>5, <1>6, <1>7, <1>8 DEF ReferentialIntegrity

\* Whatever is inserted, its references were checked; whatever is deleted takes
\* with it, or sets to NULL, the references to it.
LEMMA StoreStepReferences ==
    StoreTypeOK /\ ReferentialIntegrity /\ StoreNext => ReferentialIntegrity'
<1> SUFFICES ASSUME StoreTypeOK, ReferentialIntegrity, StoreNext PROVE ReferentialIntegrity'
  OBVIOUS
<1>1. CASE InsertProject
  BY <1>1 DEF InsertProject, ReferentialIntegrity, Ids
<1>2. CASE \E id \in Nat, days \in Int : UpdateProject(id, days)
  <2> PICK id \in Nat, days \in Int : UpdateProject(id, days)
    BY <1>2
  <2>1. ASSUME NEW x \in Ids(projects) PROVE x \in Ids(projects')
    <3> PICK row \in projects : row.id = x
      BY DEF Ids
    <3> DEFINE new == IF row.id = id THEN [row EXCEPT !.retention_days = days] ELSE row
    <3>1. new \in projects' /\ new.id = x
      BY DEF UpdateProject, StoreTypeOK, ProjectRow
    <3> QED
      BY <3>1 DEF Ids
  <2> QED
    BY <2>1 DEF UpdateProject, ReferentialIntegrity
<1>3. CASE \E p \in Nat : DeleteProject(p)
  BY <1>3, DeleteProjectReferences
<1>4. CASE \E p \in Nat : InsertProjectToken(p)
  BY <1>4 DEF InsertProjectToken, ReferentialIntegrity
<1>5. CASE \E id \in Nat, active \in BOOLEAN : UpdateProjectToken(id, active)
  <2>1. \A t \in project_tokens' : \E s \in project_tokens : s.project_id = t.project_id
    BY <1>5 DEF UpdateProjectToken, StoreTypeOK, TokenRow
  <2> QED
    BY <2>1, <1>5 DEF UpdateProjectToken, ReferentialIntegrity
<1>6. CASE \E id \in Nat : DeleteProjectToken(id)
  BY <1>6 DEF DeleteProjectToken, ReferentialIntegrity
<1>7. CASE \E d \in DeviceIds, p \in Nat : CanUpsertDevice(d, p) /\ UpsertDevice(d, p)
  BY <1>7 DEF CanUpsertDevice, UpsertDevice, ReferentialIntegrity, Ids
<1>8. CASE \E d \in DeviceIds, u \in Nat : CanLinkDevice(d, u) /\ LinkDeviceToUser(d, u)
  <2> PICK d \in DeviceIds, u \in Nat : CanLinkDevice(d, u) /\ LinkDeviceToUser(d, u)
    BY <1>8
  <2> DEFINE new(row) == IF row.id = d THEN [row EXCEPT !.user_id = u] ELSE row
  <2>1. \A row \in devices : /\ new(row) \in devices'
                             /\ new(row).id = row.id
                             /\ new(row).project_id = row.project_id
                             /\ new(row).user_id \in {row.user_id} \cup Ids(app_users)
    BY DEF CanLinkDevice, LinkDeviceToUser, StoreTypeOK, DeviceRow, Ids
  <2>2. \A x \in devices' : \E row \in devices : x = new(row)
    BY DEF LinkDeviceToUser
  <2>3. Ids(devices) \subseteq Ids(devices')
    BY <2>1 DEF Ids
  <2> HIDE DEF new
  <2> QED
    BY <2>1, <2>2, <2>3 DEF LinkDeviceToUser, ReferentialIntegrity
<1>9. CASE \E p \in Nat, a \in AnonymousIds, id \in UserIds :
             CanInsertAppUser(p, a) /\ InsertAppUser(p, a, id)
  BY <1>9 DEF CanInsertAppUser, InsertAppUser, ReferentialIntegrity, Ids
<1>10. CASE \E id \in EventIds, p \in Nat, d \in DeviceIds, u \in Nat, r \in Requests :
              CanInsertEvent(id, p, d, u) /\ InsertEvent(id, p, d, u, r)
  BY <1>10 DEF CanInsertEvent, InsertEvent, ReferentialIntegrity, Ids
<1>11. CASE \E id \in EventIds, r \in Requests :
              CanInsertEventProperties(id) /\ InsertEventProperties(id, r)
  BY <1>11 DEF CanInsertEventProperties, InsertEventProperties, ReferentialIntegrity
<1>12. CASE \E p \in Nat, days \in Int : CleanupEvents(p, days)
  BY <1>12 DEF CleanupEvents, DeleteEvents, ReferentialIntegrity, Ids
<1>13. CASE now' \in Nat /\ UNCHANGED <<tables, serial, purged>>
  BY <1>13 DEF tables, ReferentialIntegrity
<1> QED
  BY <1>1, <1>2, <1>3, <1>4, <1>5, <1>6, <1>7, <1>8, <1>9, <1>10, <1>11, <1>12, <1>13
     DEF StoreNext
-----------------------------------------------------------------------------
\* The id a new row is given is the key of no row there is.
LEMMA NextIdIsFresh ==
    ASSUME NEW table, NEW id \in Nat, NEW last \in Nat,
           IsNextId(id, Ids(table), last),
           Ids(table) \subseteq Nat,
           Driver = "postgres" => \A row \in table : row.id <= last
    PROVE  /\ \A row \in table : row.id # id
           /\ Driver = "postgres" => \A row \in table : row.id <= id
<1> SUFFICES ASSUME NEW row \in table
             PROVE  row.id # id /\ (Driver = "postgres" => row.id <= id)
  OBVIOUS
<1>1. row.id \in Ids(table) /\ row.id \in Nat
  BY DEF Ids
<1>2. CASE Driver = "postgres"
  <2>1. id = last + 1 /\ row.id <= last
    BY <1>2 DEF IsNextId
  <2> QED
    BY <2>1, <1>1
<1>3. CASE Driver # "postgres"
  <2>1. row.id < id
    BY <1>1, <1>3 DEF IsNextId
  <2> QED
    BY <2>1, <1>1, <1>3
<1> QED
  BY <1>2, <1>3

\* A row with a new key keeps the key of the table unique.
LEMMA NewKey ==
    ASSUME NEW table, NEW new, IsKeyOf(table), \A row \in table : row.id # new.id
    PROVE  IsKeyOf(table \cup {new})
BY DEF IsKeyOf

\* No statement makes two rows with the same key, and every id and token string
\* in the tables stays below those to come.
LEMMA StoreStepKeys ==
    StoreTypeOK /\ UniqueKeys /\ IssuedUpwards /\ StoreNext => UniqueKeys' /\ IssuedUpwards'
<1> SUFFICES ASSUME StoreTypeOK, UniqueKeys, IssuedUpwards, StoreNext
             PROVE  UniqueKeys' /\ IssuedUpwards'
  OBVIOUS
<1>0. /\ \A row \in projects : row.id \in Nat
      /\ \A row \in project_tokens : row.id \in Nat /\ row.token \in Nat
      /\ \A row \in app_users : row.id \in Nat
      /\ serial \in [projects : Nat, tokens : Nat, users : Nat, minted : Nat]
  BY DEF StoreTypeOK, ProjectRow, TokenRow, AppUserRow, ProjectIds, TokenIds, UserIds
<1>1. CASE InsertProject
  <2> PICK id \in ProjectIds :
         /\ IsNextId(id, Ids(projects), serial.projects)
         /\ projects' = projects \cup {[id |-> id, retention_days |-> 0]}
         /\ Issued("projects", id)
         /\ UNCHANGED <<project_tokens, app_users, devices, events,
                        event_properties, now, purged>>
    BY <1>1 DEF InsertProject
  <2>1. id \in Nat
    BY DEF ProjectIds
  <2>2. /\ \A row \in projects : row.id # id
        /\ Driver = "postgres" => \A row \in projects : row.id <= id
    BY <2>1, <1>0, NextIdIsFresh DEF IssuedUpwards, Ids
  <2>3. IsKeyOf(projects')
    BY <2>2, NewKey DEF UniqueKeys
  <2>4. /\ serial'.minted = serial.minted /\ serial'.tokens = serial.tokens
        /\ serial'.users = serial.users /\ (Driver = "postgres" => serial'.projects = id)
    BY <1>0 DEF Issued
  <2>5. UniqueKeys'
    BY <2>3 DEF UniqueKeys, IsKeyOf
  <2>6. IssuedUpwards'
    BY <2>1, <2>2, <2>4 DEF IssuedUpwards
  <2> QED
    BY <2>5, <2>6
<1>2. CASE \E id \in Nat, days \in Int : UpdateProject(id, days)
  <2> PICK id \in Nat, days \in Int : UpdateProject(id, days)
    BY <1>2
  <2> DEFINE new(row) == IF row.id = id THEN [row EXCEPT !.retention_days = days] ELSE row
  <2>1. \A row \in projects : new(row).id = row.id
    BY DEF StoreTypeOK, ProjectRow
  <2>2. \A x \in projects' : \E row \in projects : x = new(row)
    BY DEF UpdateProject
  <2> HIDE DEF new
  <2>3. IsKeyOf(projects')
    BY <2>1, <2>2 DEF UniqueKeys, IsKeyOf
  <2>4. \A x \in projects' : \E row \in projects : x.id = row.id
    BY <2>1, <2>2
  <2> QED
    BY <2>3, <2>4 DEF UpdateProject, UniqueKeys, IsKeyOf, IssuedUpwards
<1>3. CASE \E p \in Nat : DeleteProject(p)
  <2> PICK p \in Nat : DeleteProject(p)
    BY <1>3
  <2>1. IsKeyOf(devices')
    <3>1. \A x \in devices' : \E row \in devices : x = Unlinked(row, GoneUsers(p)) /\ x.id = row.id
      BY UnlinkedDevice DEF DeleteProject, StoreTypeOK
    <3> QED
      BY <3>1 DEF UniqueKeys, IsKeyOf
  <2>2. IsKeyOf(events')
    <3>1. \A x \in events' : \E row \in events : x = Unlinked(row, GoneUsers(p)) /\ x.id = row.id
      BY UnlinkedEvent DEF DeleteProject, StoreTypeOK
    <3> QED
      BY <3>1 DEF UniqueKeys, IsKeyOf
  <2>3. /\ projects' \subseteq projects /\ project_tokens' \subseteq project_tokens
        /\ app_users' \subseteq app_users /\ serial' = serial
    BY DEF DeleteProject
  <2> QED
    BY <2>1, <2>2, <2>3 DEF UniqueKeys, IsKeyOf, IssuedUpwards
<1>4. CASE \E p \in Nat : InsertProjectToken(p)
  <2> PICK p \in Nat, id \in TokenIds :
         /\ IsNextId(id, Ids(project_tokens), serial.tokens)
         /\ project_tokens' = project_tokens \cup
              {[id |-> id, project_id |-> p, token |-> NewToken, active |-> TRUE]}
         /\ serial' = [serial EXCEPT !.minted = @ + 1,
                                     !.tokens = IF Driver = "postgres" THEN id ELSE @]
         /\ UNCHANGED <<projects, app_users, devices, events, event_properties, now, purged>>
    BY <1>4 DEF InsertProjectToken
  <2> DEFINE new == [id |-> id, project_id |-> p, token |-> NewToken, active |-> TRUE]
  <2>1. id \in Nat
    BY DEF TokenIds
  <2>2. /\ \A row \in project_tokens : row.id # id
        /\ Driver = "postgres" => \A row \in project_tokens : row.id <= id
    BY <2>1, <1>0, NextIdIsFresh DEF IssuedUpwards, Ids
  <2>3. IsKeyOf(project_tokens')
    BY <2>2, NewKey DEF UniqueKeys
  <2>4. \A row \in project_tokens : row.token < new.token
    BY <1>0 DEF IssuedUpwards, NewToken
  <2>5. \A s, t \in project_tokens' : s.token = t.token => s = t
    <3>1. \A row \in project_tokens : row.token # new.token
      BY <2>4, <1>0 DEF NewToken
    <3> HIDE DEF new
    <3>2. project_tokens' = project_tokens \cup {new}
      BY DEF new
    <3> QED
      BY <3>1, <3>2 DEF UniqueKeys
  <2>6. /\ serial'.minted = serial.minted + 1 /\ serial'.projects = serial.projects
        /\ serial'.users = serial.users /\ (Driver = "postgres" => serial'.tokens = id)
    BY <1>0
  <2>7. UniqueKeys'
    BY <2>3, <2>5 DEF UniqueKeys, IsKeyOf
  <2>8. \A row \in project_tokens' : row.token <= serial'.minted
    BY <2>4, <2>6, <1>0 DEF NewToken
  <2>9. Driver = "postgres" => \A row \in project_tokens' : row.id <= serial'.tokens
    BY <2>1, <2>2, <2>6
  <2> QED
    BY <2>6, <2>7, <2>8, <2>9 DEF IssuedUpwards
<1>5. CASE \E id \in Nat, active \in BOOLEAN : UpdateProjectToken(id, active)
  <2> PICK id \in Nat, active \in BOOLEAN : UpdateProjectToken(id, active)
    BY <1>5
  <2> DEFINE new(row) == IF row.id = id THEN [row EXCEPT !.active = active] ELSE row
  <2>1. \A row \in project_tokens : new(row).id = row.id /\ new(row).token = row.token
    BY DEF StoreTypeOK, TokenRow
  <2>2. \A x \in project_tokens' : \E row \in project_tokens : x = new(row)
    BY DEF UpdateProjectToken
  <2> HIDE DEF new
  <2>3. \A s, t \in project_tokens' : s.id = t.id \/ s.token = t.token => s = t
    BY <2>1, <2>2 DEF UniqueKeys, IsKeyOf
  <2>4. \A x \in project_tokens' : \E row \in project_tokens : x.id = row.id /\ x.token = row.token
    BY <2>1, <2>2
  <2> QED
    BY <2>3, <2>4 DEF UpdateProjectToken, UniqueKeys, IsKeyOf, IssuedUpwards
<1>6. CASE \E id \in Nat : DeleteProjectToken(id)
  BY <1>6 DEF DeleteProjectToken, UniqueKeys, IsKeyOf, IssuedUpwards
<1>7. CASE \E d \in DeviceIds, p \in Nat : CanUpsertDevice(d, p) /\ UpsertDevice(d, p)
  BY <1>7 DEF UpsertDevice, UniqueKeys, IsKeyOf, IssuedUpwards, Ids
<1>8. CASE \E d \in DeviceIds, u \in Nat : CanLinkDevice(d, u) /\ LinkDeviceToUser(d, u)
  <2> PICK d \in DeviceIds, u \in Nat : LinkDeviceToUser(d, u)
    BY <1>8
  <2> DEFINE new(row) == IF row.id = d THEN [row EXCEPT !.user_id = u] ELSE row
  <2>1. \A row \in devices : new(row).id = row.id
    BY DEF StoreTypeOK, DeviceRow
  <2>2. \A x \in devices' : \E row \in devices : x = new(row)
    BY DEF LinkDeviceToUser
  <2> HIDE DEF new
  <2>3. IsKeyOf(devices')
    BY <2>1, <2>2 DEF UniqueKeys, IsKeyOf
  <2> QED
    BY <2>3 DEF LinkDeviceToUser, UniqueKeys, IsKeyOf, IssuedUpwards
<1>9. CASE \E p \in Nat, a \in AnonymousIds, id \in UserIds :
             CanInsertAppUser(p, a) /\ InsertAppUser(p, a, id)
  <2> PICK p \in Nat, a \in AnonymousIds, id \in UserIds :
         CanInsertAppUser(p, a) /\ InsertAppUser(p, a, id)
    BY <1>9
  <2>1. id \in Nat
    BY DEF UserIds
  <2>2. /\ \A row \in app_users : row.id # id
        /\ Driver = "postgres" => \A row \in app_users : row.id <= id
    BY <2>1, <1>0, NextIdIsFresh DEF IssuedUpwards, InsertAppUser, Ids
  <2>3. IsKeyOf(app_users')
    BY <2>2, NewKey DEF UniqueKeys, InsertAppUser
  <2>4. \A u, v \in app_users' :
          u.project_id = v.project_id /\ u.anonymous_id = v.anonymous_id => u = v
    BY DEF UniqueKeys, InsertAppUser, CanInsertAppUser
  <2>5. /\ serial'.minted = serial.minted /\ serial'.tokens = serial.tokens
        /\ serial'.projects = serial.projects /\ (Driver = "postgres" => serial'.users = id)
    BY <1>0 DEF InsertAppUser, Issued
  <2>6. UniqueKeys'
    BY <2>3, <2>4 DEF UniqueKeys, IsKeyOf, InsertAppUser
  <2>7. Driver = "postgres" => \A row \in app_users' : row.id <= serial'.users
    BY <2>1, <2>2, <2>5 DEF InsertAppUser
  <2> QED
    BY <2>5, <2>6, <2>7 DEF IssuedUpwards, InsertAppUser
<1>10. CASE \E id \in EventIds, p \in Nat, d \in DeviceIds, u \in Nat, r \in Requests :
              CanInsertEvent(id, p, d, u) /\ InsertEvent(id, p, d, u, r)
  <2>1. IsKeyOf(events')
    BY <1>10 DEF CanInsertEvent, InsertEvent, UniqueKeys, IsKeyOf, Ids
  <2> QED
    BY <1>10, <2>1 DEF InsertEvent, UniqueKeys, IsKeyOf, IssuedUpwards
<1>11. CASE \E id \in EventIds, r \in Requests :
              CanInsertEventProperties(id) /\ InsertEventProperties(id, r)
  BY <1>11 DEF InsertEventProperties, UniqueKeys, IsKeyOf, IssuedUpwards
<1>12. CASE \E p \in Nat, days \in Int : CleanupEvents(p, days)
  BY <1>12 DEF CleanupEvents, UniqueKeys, IsKeyOf, IssuedUpwards
<1>13. CASE now' \in Nat /\ UNCHANGED <<tables, serial, purged>>
  BY <1>13 DEF tables, UniqueKeys, IsKeyOf, IssuedUpwards
<1> QED
  BY <1>1, <1>2, <1>3, <1>4, <1>5, <1>6, <1>7, <1>8, <1>9, <1>10, <1>11, <1>12, <1>13
     DEF StoreNext

\* The store's invariant holds at the start and whatever statement is run on it.
LEMMA StoreStepInv == StoreTypeOK /\ StoreInv /\ StoreNext => StoreInv'
BY StoreStepReferences, StoreStepKeys DEF StoreInv
=============================================================================
