--------------------------- MODULE ProjectsProofs ---------------------------
(***************************************************************************)
(* Theorems about what the console and the sweep may do to a project:      *)
(* what deletes an event, what makes a disabled token work again, which    *)
(* project a token's requests write into, and which retention periods a    *)
(* project may have.  The action properties are shown for one step from    *)
(* the invariants of ServerProofs, the others by ScopeInv and PeriodsInv.  *)
(***************************************************************************)
EXTENDS ServerProofs, Periods

-----------------------------------------------------------------------------
\* The sweep only holds rows of projects that had a retention period.
SweepHasPeriod == \A row \in sweep : row.retention_days > 0

LEMMA StepSweepHasPeriod == SweepHasPeriod /\ [Next]_vars => SweepHasPeriod'
<1> SUFFICES ASSUME SweepHasPeriod, [Next]_vars PROVE SweepHasPeriod'
  OBVIOUS
<1>1. CASE sweep' \subseteq sweep
  BY <1>1 DEF SweepHasPeriod
<1>2. CASE StartSweep
  BY <1>2 DEF StartSweep, WithRetention, SweepHasPeriod
<1> QED
  BY <1>1, <1>2 DEF Next, vars, RetentionNext, Tick, StartFails, SweepStep, CleanupProject,
     CleanupFails, Crash, RestartSweeper

LEMMA AlwaysSweepHasPeriod == Spec => []SweepHasPeriod
<1>1. Init => SweepHasPeriod
  BY DEF Init, RetentionInit, SweepHasPeriod
<1> QED
  BY <1>1, StepSweepHasPeriod, PTL DEF Spec

\* No step of a tracking request deletes an event.
LEMMA TrackingKeepsEvents ==
    ASSUME NEW r \in Requests, TrackingStep(r)
    PROVE  events \subseteq events'
BY DEF TrackingStep, Authenticate, Refuse, BadRequest, InternalError, TrackStart, SkipEvent,
       TrackEvent, InsertEvent, TrackProperties, InsertEventProperties, LoseProperties,
       TrackDone, Device, LookupAppUser, CreateAppUser, LinkDevice, UpsertDevice,
       InsertAppUser, LinkDeviceToUser, storeVars, tables

\* Of the others only the DELETE of a project and the clean-up of one do.
LEMMA OnlyDeletions ==
    ASSUME [Next]_vars, ~ events \subseteq events'
    PROVE  \/ \E p \in Ids(projects) : DeleteProject(p)
           \/ \E row \in sweep : CleanupProject(row)
BY TrackingKeepsEvents
   DEF Next, vars, TrackingNext, ProjectsNext, AdminStep, CreateProject, RemoveProject,
       CreateToken, DeleteToken, ReadProject, WriteProject, ReadToken, WriteToken, WriteFails,
       RetentionNext, Tick, StartSweep, StartFails, SweepStep, CleanupFails, storeVars, tables,
       InsertProject, UpdateProject, InsertProjectToken, UpdateProjectToken,
       DeleteProjectToken, Crash

\* The DELETE of p takes an event together with its project or its device.
LEMMA DeletedWithOwner ==
    ASSUME StoreTypeOK, IsKeyOf(devices), NEW p \in Ids(projects), DeleteProject(p),
           NEW e \in events, e.id \notin Ids(events')
    PROVE  e.project_id \notin Ids(projects') \/ e.device_id \notin Ids(devices')
<1>1. e \in GoneEvents(p)
  <2> SUFFICES ASSUME e \notin GoneEvents(p) PROVE FALSE
    OBVIOUS
  <2>1. Unlinked(e, GoneUsers(p)) \in events'
    BY DEF DeleteProject
  <2>2. Unlinked(e, GoneUsers(p)).id = e.id
    BY UnlinkedEvent DEF StoreTypeOK
  <2> QED
    BY <2>1, <2>2 DEF Ids
<1>2. CASE e.project_id = p
  BY <1>2 DEF DeleteProject, Ids
<1>3. CASE e.device_id \in GoneDevices(p)
  <2> SUFFICES ASSUME NEW d \in devices' PROVE d.id # e.device_id
    BY DEF Ids
  <2>1. PICK row \in devices : row.project_id # p /\ d = Unlinked(row, GoneUsers(p))
    BY DEF DeleteProject
  <2>2. d.id = row.id
    BY <2>1, UnlinkedDevice DEF StoreTypeOK
  <2>3. PICK x \in devices : x.project_id = p /\ x.id = e.device_id
    BY <1>3 DEF GoneDevices, Ids
  <2> QED
    BY <2>1, <2>2, <2>3 DEF IsKeyOf
<1> QED
  BY <1>1, <1>2, <1>3 DEF GoneEvents

\* The clean-up of a project takes what is older than the period it has read.
LEMMA CleanedWhenExpired ==
    ASSUME SweepHasPeriod, NEW row \in sweep, CleanupProject(row),
           NEW e \in events, e.id \notin Ids(events')
    PROVE  /\ row.id = e.project_id /\ row.retention_days > 0
           /\ e.created_at + row.retention_days < now
<1>1. e \in ExpiredEvents(row.id, row.retention_days)
  BY DEF CleanupProject, CleanupEvents, Ids
<1> QED
  BY <1>1 DEF ExpiredEvents, SweepHasPeriod

LEMMA DeletedInTime ==
    ASSUME Typed, StoreInv, SweepHasPeriod, [Next]_vars,
           NEW e \in events, e.id \notin Ids(events')
    PROVE  \/ e.project_id \notin Ids(projects')
           \/ e.device_id \notin Ids(devices')
           \/ \E row \in sweep : /\ row.id = e.project_id /\ row.retention_days > 0
                                 /\ e.created_at + row.retention_days < now
<1>1. ~ events \subseteq events'
  BY DEF Ids
<1>2. CASE \E p \in Ids(projects) : DeleteProject(p)
  BY <1>2, DeletedWithOwner DEF Typed, TypeOK, StoreInv, UniqueKeys
<1>3. CASE \E row \in sweep : CleanupProject(row)
  BY <1>3, CleanedWhenExpired
<1> QED
  BY <1>1, <1>2, <1>3, OnlyDeletions

\* Nothing is deleted early: an event goes with its project, with its device, or
\* by a sweep that has read a period on its project that the event has outlived.
THEOREM NothingPurgedEarly == Spec => NoEarlyPurge
<1>1. Typed /\ StoreInv /\ SweepHasPeriod /\ [Next]_vars =>
        \A e \in events : e.id \notin Ids(events') =>
          \/ e.project_id \notin Ids(projects')
          \/ e.device_id \notin Ids(devices')
          \/ \E row \in sweep : /\ row.id = e.project_id /\ row.retention_days > 0
                                /\ e.created_at + row.retention_days < now
  BY DeletedInTime
<1> QED
  BY <1>1, AlwaysTyped, AlwaysStoreInv, AlwaysSweepHasPeriod, PTL DEF Spec, NoEarlyPurge

-----------------------------------------------------------------------------
\* A console request comes to set `active` of a disabled token only by enabling it.
LEMMA ReadsAsDisabled ==
    ASSUME Typed, StoreInv, [Next]_vars, NEW row \in project_tokens, ~ row.active,
           NEW a \in Admins, Activates(a, row)', ~ Activates(a, row)
    PROVE  admin'[a].op = "enable"
<1>0. admin \in [Admins -> AdminFrame] /\ IsKeyOf(project_tokens)
  BY DEF Typed, TypeOK, ProjectsTypeOK, StoreInv, UniqueKeys
<1>1. admin'[a] # admin[a]
  BY Zenon DEF Activates
<1>2. admin'[a] # IdleAdmin /\ admin'[a].op # "update project"
  <2>1. admin'[a].op \in {"update", "disable", "enable"}
    BY Zenon DEF Activates
  <2>2. IdleAdmin.op = "idle"
    BY DEF IdleAdmin
  <2> QED
    BY <2>1, <2>2
<1>3. ReadToken(a)
  <2>1. PICK b \in Admins : AdminStep(b)
    BY <1>0, <1>1, <1>2 DEF Next, vars, ProjectsNext, Crash
  <2>2. b = a
    BY <1>0, <1>1, <2>1 DEF AdminStep, CreateProject, RemoveProject, CreateToken, DeleteToken,
       ReadProject, WriteProject, ReadToken, WriteToken, WriteFails, Done
  <2>3. ~ UNCHANGED admin /\ ~ Done(a)
    BY <1>0, <1>1, <1>2 DEF Done
  <2>4. ASSUME ReadProject(a) PROVE FALSE
    <3>1. PICK id, days : admin' = [admin EXCEPT ![a] = [op |-> "update project", id |-> id,
                                                         days |-> days, active |-> FALSE]]
      BY <2>4, Zenon DEF ReadProject
    <3>2. admin'[a].op = "update project"
      BY <1>0, <3>1
    <3> QED
      BY <1>2, <3>2
  <2> QED
    BY <2>1, <2>2, <2>3, <2>4 DEF AdminStep, CreateProject, RemoveProject, CreateToken,
       DeleteToken, WriteProject, WriteToken, WriteFails
<1>4. PICK read \in project_tokens, op \in {"update", "disable", "enable"} :
         admin' = [admin EXCEPT ![a] = [op |-> op, id |-> read.id, days |-> 0,
                                        active |-> WrittenActive(op, read)]]
  BY <1>3 DEF ReadToken
<1>5. /\ admin'[a].op = op /\ admin'[a].id = read.id
      /\ admin'[a].active = WrittenActive(op, read)
  BY <1>0, <1>4
<1>6. read = row
  BY <1>0, <1>5 DEF Activates, IsKeyOf
<1>7. WrittenActive(op, row)
  BY <1>5, <1>6 DEF Activates
<1>8. op = "enable"
  BY <1>7 DEF WrittenActive
<1> QED
  BY <1>5, <1>8

\* A disabled token works after a step only if the step is the UPDATE of a request
\* that sets `active`.
LEMMA EnabledByWrite ==
    ASSUME Typed, StoreInv, [Next]_vars, NEW row \in project_tokens, ~ row.active,
           NEW x \in project_tokens', x.token = row.token, x.active
    PROVE  \E a \in Admins : Activates(a, row) /\ admin'[a] = IdleAdmin
<1>0. /\ admin \in [Admins -> AdminFrame]
      /\ project_tokens \subseteq TokenRow
      /\ \A s, t \in project_tokens : s.token = t.token => s = t
      /\ row.token \in Nat /\ serial.minted \in Nat /\ row.token <= serial.minted
  BY DEF Typed, TypeOK, ProjectsTypeOK, StoreTypeOK, StoreInv, UniqueKeys, IssuedUpwards,
         TokenRow, TokenIds
<1>1. x \notin project_tokens
  BY <1>0
<1>2. CASE \E p \in Ids(projects) : InsertProjectToken(p)
  <2>1. x.token = serial.minted + 1
    BY <1>1, <1>2 DEF InsertProjectToken, NewToken
  <2> QED
    BY <1>0, <2>1
<1>3. CASE \E a \in Admins : WriteToken(a)
  <2>1. PICK a \in Admins : WriteToken(a)
    BY <1>3
  <2>2. PICK y \in project_tokens :
           x = IF y.id = admin[a].id THEN [y EXCEPT !.active = admin[a].active] ELSE y
    BY <2>1 DEF WriteToken, UpdateProjectToken
  <2>3. y.id = admin[a].id /\ x = [y EXCEPT !.active = admin[a].active]
    BY <1>1, <2>2
  <2>4. y \in TokenRow
    BY <1>0
  <2>5. x.token = y.token /\ x.active = admin[a].active
    BY <2>3, <2>4 DEF TokenRow
  <2>6. y = row
    BY <1>0, <2>5
  <2>7. admin[a].op \in {"update", "disable", "enable"} /\ admin'[a] = IdleAdmin
    BY <1>0, <2>1 DEF WriteToken, Done
  <2> QED
    BY <2>3, <2>5, <2>6, <2>7 DEF Activates
<1>4. CASE project_tokens' \subseteq project_tokens
  BY <1>1, <1>4
<1>5. ASSUME NEW r \in Requests, TrackingStep(r) PROVE UNCHANGED project_tokens
  BY <1>5 DEF TrackingStep, Authenticate, Refuse, BadRequest, InternalError, TrackStart,
     SkipEvent, TrackEvent, InsertEvent, TrackProperties, InsertEventProperties, LoseProperties,
     TrackDone, Device, LookupAppUser, CreateAppUser, LinkDevice, UpsertDevice, InsertAppUser,
     LinkDeviceToUser, storeVars, tables
<1> QED
  BY <1>2, <1>3, <1>4, <1>5
     DEF Next, vars, TrackingNext, ProjectsNext, AdminStep, CreateProject, RemoveProject,
         CreateToken, DeleteToken, ReadProject, WriteProject, ReadToken, WriteFails,
         RetentionNext, Tick, StartSweep, StartFails, SweepStep, CleanupProject, CleanupFails,
         CleanupEvents, storeVars, tables, InsertProject, DeleteProject, UpdateProject,
         DeleteProjectToken, Crash

\* A disabled token works again only by a request that enables it or that has read
\* it before it was disabled, for any number of console requests in flight.
THEOREM TokensReenabledAsRead == Spec => ReenabledAsRead
<1>1. Typed /\ StoreInv /\ [Next]_vars =>
        \A row \in {x \in project_tokens : ~ x.active} :
          /\ \A a \in Admins : Activates(a, row)' /\ ~ Activates(a, row) => admin'[a].op = "enable"
          /\ (\E x \in project_tokens' : x.token = row.token /\ x.active) =>
               \E a \in Admins : Activates(a, row) /\ admin'[a] = IdleAdmin
  BY ReadsAsDisabled, EnabledByWrite
<1> QED
  BY <1>1, AlwaysTyped, AlwaysStoreInv, PTL DEF Spec, ReenabledAsRead

-----------------------------------------------------------------------------
(* The project of a request is that of its token.                           *)

USE DEF Null

ScopeInv ==
    /\ \A r \in Requests : reqs[r].pc = "idle" => reqs[r].project = Null
    /\ \A r \in Requests : reqs[r].project # Null =>
         /\ Call[r].token <= serial.minted
         /\ Bound(Call[r].token) \subseteq {reqs[r].project}
    /\ \A e \in events : e.project_id = reqs[e.by].project

\* TokenAuth alone sets the project of a request.
LEMMA ProjectIsFinal ==
    ASSUME Typed, NEW r \in Requests, TrackingStep(r), ~ Authenticate(r)
    PROVE  reqs'[r].project = reqs[r].project /\ reqs'[r].pc # "idle"
<1>0. reqs \in [Requests -> Frame]
  BY DEF Typed, TypeOK, TrackingTypeOK
<1>1. ASSUME NEW pc \in {"error", "ok", "props", "create"}, Goto(r, pc)
      PROVE  reqs'[r].project = reqs[r].project /\ reqs'[r].pc # "idle"
  BY <1>0, <1>1 DEF Goto, Frame
<1>2. ASSUME NEW counted, NextEvent(r, counted)
      PROVE  reqs'[r].project = reqs[r].project /\ reqs'[r].pc # "idle"
  BY <1>0, <1>2 DEF NextEvent, Frame
<1>3. ASSUME NEW user, reqs' = [reqs EXCEPT ![r].pc = "link", ![r].user = user]
      PROVE  reqs'[r].project = reqs[r].project /\ reqs'[r].pc # "idle"
  BY <1>0, <1>3 DEF Frame
<1>4. CASE TrackStart(r)
  <2> PICK u \in EventUsers(r) :
        reqs' = [reqs EXCEPT ![r].pc = "insert", ![r].user = u, ![r].i = 1,
                             ![r].accepted = {}]
    BY <1>4, Zenon DEF TrackStart
  <2> QED
    BY <1>0 DEF Frame
<1>5. CASE LookupAppUser(r) \/ CreateAppUser(r)
  BY <1>1, <1>3, <1>5 DEF LookupAppUser, CreateAppUser
<1>6. CASE TrackEvent(r)
  BY <1>1, <1>2, <1>6, TrackEventGoesOn
<1>7. CASE SkipEvent(r) \/ TrackProperties(r) \/ LoseProperties(r)
  BY <1>2, <1>7, Zenon DEF SkipEvent, TrackProperties, LoseProperties
<1>8. CASE Refuse(r) \/ BadRequest(r) \/ InternalError(r) \/ TrackDone(r)
  BY <1>1, <1>8 DEF Refuse, BadRequest, InternalError, TrackDone
<1>9. CASE Device(r) \/ LinkDevice(r)
  BY <1>1, <1>9 DEF Device, LinkDevice, Outcomes
<1> QED
  BY <1>4, <1>5, <1>6, <1>7, <1>8, <1>9 DEF TrackingStep

\* An event is of the project of the request it came with, and stays there.
LEMMA EventsOfStep ==
    ASSUME Typed, [Next]_vars, NEW e \in events'
    PROVE  \/ \E f \in events : f.by = e.by /\ f.project_id = e.project_id
           \/ \E r \in Requests : /\ TrackingStep(r) /\ TrackEvent(r)
                                  /\ e.by = r /\ e.project_id = reqs[r].project
<1>0. events \subseteq EventRow
  BY DEF Typed, TypeOK, StoreTypeOK
<1>1. CASE e \in events
  BY <1>1
<1>2. CASE \E p \in Ids(projects) : DeleteProject(p)
  <2> PICK p \in Ids(projects) : DeleteProject(p)
    BY <1>2
  <2>1. PICK f \in events : e = Unlinked(f, GoneUsers(p))
    BY DEF DeleteProject
  <2>2. e.by = f.by /\ e.project_id = f.project_id
    BY <1>0, <2>1 DEF Unlinked, EventRow
  <2> QED
    BY <2>2
<1>3. ASSUME NEW r \in Requests, TrackingStep(r), ~ TrackEvent(r)
      PROVE  events' = events
  BY <1>3 DEF TrackingStep, Authenticate, Refuse, BadRequest, InternalError, TrackStart,
     SkipEvent, TrackProperties, InsertEventProperties, LoseProperties, TrackDone, Device,
     LookupAppUser, CreateAppUser, LinkDevice, UpsertDevice, InsertAppUser, LinkDeviceToUser,
     storeVars, tables
<1>4. ASSUME NEW r \in Requests, TrackingStep(r), TrackEvent(r)
      PROVE  \/ e \in events
             \/ e.by = r /\ e.project_id = reqs[r].project
  BY <1>4 DEF TrackEvent, InsertEvent
<1>5. CASE events' \subseteq events
  BY <1>1, <1>5
<1>6. (\E r \in Requests : TrackingStep(r)) \/ events' \subseteq events
        \/ \E p \in Ids(projects) : DeleteProject(p)
  BY DEF Next, vars, TrackingNext, ProjectsNext, AdminStep, CreateProject, RemoveProject,
     CreateToken, DeleteToken, ReadProject, WriteProject, ReadToken, WriteToken, WriteFails,
     RetentionNext, Tick, StartSweep, StartFails, SweepStep, CleanupProject, CleanupFails,
     CleanupEvents, storeVars, tables, InsertProject, UpdateProject, InsertProjectToken,
     UpdateProjectToken, DeleteProjectToken, Crash
<1> QED
  BY <1>1, <1>2, <1>3, <1>4, <1>5, <1>6

\* Token strings are only ever added to those generated.
LEMMA MintedGrows ==
    ASSUME Typed, [Next]_vars
    PROVE  serial.minted \in Nat /\ serial'.minted \in Nat /\ serial.minted <= serial'.minted
<1>0. serial \in [projects : Nat, tokens : Nat, users : Nat, minted : Nat] /\ serial'.minted \in Nat
  BY StepTyped DEF Typed, TypeOK, StoreTypeOK
<1>1. CASE \E p \in Nat : InsertProjectToken(p)
  BY <1>0, <1>1 DEF InsertProjectToken
<1>2. CASE \E sequence \in {"projects", "users"}, id \in Nat : Issued(sequence, id)
  BY <1>0, <1>2 DEF Issued
<1>3. CASE UNCHANGED serial
  BY <1>0, <1>3
<1>4. CASE StoreNext
  BY <1>1, <1>2, <1>3, <1>4
     DEF StoreNext, InsertProject, UpdateProject, DeleteProject, UpdateProjectToken,
         DeleteProjectToken, UpsertDevice, LinkDeviceToUser, InsertAppUser, InsertEvent,
         InsertEventProperties, CleanupEvents, tables, ProjectIds, UserIds
<1> QED
  BY <1>3, <1>4, StepIsStatement DEF storeVars

LEMMA StepBindings ==
    ASSUME Typed, StoreInv, [Next]_vars, NEW token \in TokenIds, token <= serial.minted
    PROVE  Bound(token)' \subseteq Bound(token)
<1>1. CASE StoreNext
  BY <1>1, StatementKeepsBindings DEF Typed, TypeOK, StoreInv
<1>2. CASE UNCHANGED storeVars
  BY <1>2 DEF storeVars, tables, Bound
<1> QED
  BY <1>1, <1>2, StepIsStatement

\* What a step does to the project of a request: TokenAuth sets it, once.
LEMMA ProjectOfStep ==
    ASSUME Typed, ScopeInv, [Next]_vars, NEW r \in Requests
    PROVE  \/ reqs'[r].project = reqs[r].project /\ (reqs'[r].pc = "idle" => reqs[r].pc = "idle")
           \/ /\ Authenticate(r) /\ reqs[r].project = Null /\ reqs'[r].pc # "idle"
              /\ \E row \in project_tokens :
                   LiveToken(r, row) /\ reqs'[r].project = row.project_id
<1>0. reqs \in [Requests -> Frame] /\ Call[r] \in Calls
  BY CallAssumption DEF Typed, TypeOK, TrackingTypeOK
<1>1. CASE Authenticate(r)
  <2> PICK row \in project_tokens :
        /\ LiveToken(r, row)
        /\ reqs' = [reqs EXCEPT ![r].pc = Call[r].kind, ![r].project = row.project_id]
    BY <1>1 DEF Authenticate
  <2>1. reqs'[r].pc = Call[r].kind /\ reqs'[r].project = row.project_id
    BY <1>0 DEF Frame
  <2>2. Call[r].kind # "idle"
    BY <1>0 DEF Calls
  <2>3. reqs[r].project = Null
    BY <1>1 DEF Authenticate, ScopeInv
  <2> QED
    BY <1>1, <2>1, <2>2, <2>3
<1>2. CASE TrackingStep(r) /\ ~ Authenticate(r)
  BY <1>2, ProjectIsFinal
<1>3. ASSUME NEW s \in Requests, TrackingStep(s), s # r PROVE reqs'[r] = reqs[r]
  BY <1>3, OtherFrames
<1>4. CASE Crash
  BY <1>0, <1>4 DEF Crash, DropRequests, Frame
<1>5. (\E s \in Requests : TrackingStep(s)) \/ Crash \/ reqs' = reqs
  BY DEF Next, vars, TrackingNext
<1> QED
  BY <1>1, <1>2, <1>3, <1>4, <1>5

\* The token a request has come in with was issued, and opens its project only.
LEMMA BoundByAuthenticate ==
    ASSUME Typed, StoreInv, NEW r \in Requests, NEW row \in project_tokens, LiveToken(r, row)
    PROVE  Call[r].token <= serial.minted /\ Bound(Call[r].token) \subseteq {row.project_id}
BY DEF LiveToken, StoreInv, IssuedUpwards, UniqueKeys, Bound

LEMMA StepScopeInv == Typed /\ StoreInv /\ ScopeInv /\ [Next]_vars => ScopeInv'
<1> SUFFICES ASSUME Typed, StoreInv, ScopeInv, [Next]_vars PROVE ScopeInv'
  OBVIOUS
<1>0. /\ reqs \in [Requests -> Frame] /\ events' \subseteq EventRow /\ events \subseteq EventRow
      /\ \A r \in Requests : Call[r].token \in TokenIds
  BY StepTyped, CallAssumption DEF Typed, TypeOK, TrackingTypeOK, StoreTypeOK, Calls
<1>1. ASSUME NEW r \in Requests, reqs'[r].pc = "idle" PROVE reqs'[r].project = Null
  BY <1>1, ProjectOfStep DEF ScopeInv
<1>2. ASSUME NEW r \in Requests, reqs'[r].project # Null
      PROVE  /\ Call[r].token <= serial'.minted
             /\ Bound(Call[r].token)' \subseteq {reqs'[r].project}
  <2>1. Call[r].token <= serial.minted /\ Bound(Call[r].token) \subseteq {reqs'[r].project}
    BY <1>2, ProjectOfStep, BoundByAuthenticate DEF ScopeInv
  <2>2. Bound(Call[r].token)' \subseteq Bound(Call[r].token)
    BY <1>0, <2>1, StepBindings
  <2>3. Call[r].token \in Nat
    BY <1>0 DEF TokenIds
  <2> QED
    BY <2>1, <2>2, <2>3, MintedGrows
<1>3. ASSUME NEW e \in events' PROVE e.project_id = reqs'[e.by].project
  <2>1. e.by \in Requests /\ e.project_id # Null
    BY <1>0, BoundsAssumption DEF EventRow, ProjectIds
  <2>2. e.project_id = reqs[e.by].project
    BY <1>3, EventsOfStep DEF ScopeInv
  <2> QED
    BY <2>1, <2>2, ProjectOfStep
<1> QED
  BY <1>1, <1>2, <1>3 DEF ScopeInv

LEMMA AlwaysScopeInv == Spec => []ScopeInv
<1>1. Init => ScopeInv
  BY DEF Init, StoreInit, TrackingInit, ScopeInv
<1> QED
  BY <1>1, StepScopeInv, AlwaysTyped, AlwaysStoreInv, PTL DEF Spec

\* What is written under a token is of the project the token opens, for any
\* number of requests, projects and tokens and for the ids SQLite issues again:
\* no tenant's client writes into another tenant's project.
THEOREM TenantsStayApart == Spec => []FiledUnderToken
<1>1. Typed /\ ScopeInv => FiledUnderToken
  <2> SUFFICES ASSUME Typed, ScopeInv, NEW t \in project_tokens
               PROVE  /\ \A e \in events : Call[e.by].token = t.token
                                             => e.project_id = t.project_id
                      /\ \A r \in Requests :
                           reqs[r].project # Null /\ Call[r].token = t.token
                             => reqs[r].project = t.project_id
    BY DEF FiledUnderToken
  <2>1. ASSUME NEW r \in Requests, reqs[r].project # Null, Call[r].token = t.token
        PROVE  reqs[r].project = t.project_id
    BY <2>1 DEF ScopeInv, Bound
  <2>2. ASSUME NEW e \in events, Call[e.by].token = t.token
        PROVE  e.project_id = t.project_id
    <3>1. e.by \in Requests /\ e.project_id # Null
      BY BoundsAssumption DEF Typed, TypeOK, StoreTypeOK, EventRow, ProjectIds
    <3> QED
      BY <2>1, <2>2, <3>1 DEF ScopeInv
  <2> QED
    BY <2>1, <2>2
<1> QED
  BY <1>1, AlwaysTyped, AlwaysScopeInv, PTL

-----------------------------------------------------------------------------
(* What is in flight only knows projects that were created before.          *)

KnownProjects ==
    /\ \A r \in Requests : reqs[r].project <= serial.projects
    /\ \A a \in Admins : admin[a].op = "update project" => admin[a].id <= serial.projects
    /\ \A row \in sweep : row.id <= serial.projects

LEMMA ProjectsGrow ==
    ASSUME Driver = "postgres", Typed, [Next]_vars
    PROVE  serial.projects \in Nat /\ serial.projects <= serial'.projects
<1>0. serial \in [projects : Nat, tokens : Nat, users : Nat, minted : Nat]
      /\ serial'.projects \in Nat
  BY StepTyped DEF Typed, TypeOK, StoreTypeOK
<1>1. CASE InsertProject
  BY <1>0, <1>1 DEF InsertProject, IsNextId, Issued
<1>2. CASE \E p \in Nat : InsertProjectToken(p)
  BY <1>0, <1>2 DEF InsertProjectToken
<1>3. CASE \E id \in Nat : Issued("users", id)
  BY <1>0, <1>3 DEF Issued
<1>4. CASE UNCHANGED serial
  BY <1>0, <1>4
<1>5. CASE StoreNext
  BY <1>1, <1>2, <1>3, <1>4, <1>5
     DEF StoreNext, UpdateProject, DeleteProject, UpdateProjectToken,
         DeleteProjectToken, UpsertDevice, LinkDeviceToUser, InsertAppUser, InsertEvent,
         InsertEventProperties, CleanupEvents, tables, UserIds
<1> QED
  BY <1>4, <1>5, StepIsStatement DEF storeVars

\* A row of projects is there already, is new and has no period, or was written by
\* a request over one with its id.
LEMMA ProjectsOfStep ==
    ASSUME Driver = "postgres", Typed, [Next]_vars, NEW q \in projects'
    PROVE  \/ q \in projects
           \/ q.id > serial.projects /\ q.retention_days = 0
           \/ /\ q.id \in Ids(projects)
              /\ \E a \in Admins : /\ admin[a].op = "update project"
                                   /\ admin[a].id = q.id /\ admin[a].days = q.retention_days
<1>0. projects \subseteq ProjectRow /\ serial.projects \in Nat
  BY DEF Typed, TypeOK, StoreTypeOK
<1>1. CASE InsertProject
  <2>1. PICK id \in ProjectIds : /\ IsNextId(id, Ids(projects), serial.projects)
                                 /\ projects' = projects \cup {[id |-> id, retention_days |-> 0]}
    BY <1>1 DEF InsertProject
  <2>2. id > serial.projects
    BY <1>0, <2>1 DEF IsNextId
  <2>3. q \in projects \/ (q.id = id /\ q.retention_days = 0)
    BY <2>1
  <2> QED
    BY <2>2, <2>3
<1>2. ASSUME NEW a \in Admins, WriteProject(a)
      PROVE  \/ q \in projects
             \/ /\ q.id \in Ids(projects)
                /\ admin[a].op = "update project"
                /\ admin[a].id = q.id /\ admin[a].days = q.retention_days
  <2>1. PICK y \in projects :
           q = IF y.id = admin[a].id THEN [y EXCEPT !.retention_days = admin[a].days] ELSE y
    BY <1>2 DEF WriteProject, UpdateProject
  <2>2. CASE y.id = admin[a].id
    <3>1. q.id = y.id /\ q.retention_days = admin[a].days
      BY <1>0, <2>1, <2>2 DEF ProjectRow
    <3> QED
      BY <1>2, <2>2, <3>1 DEF WriteProject, Ids
  <2> QED
    BY <2>1, <2>2
<1>3. CASE projects' \subseteq projects
  BY <1>3
<1>4. ASSUME NEW r \in Requests, TrackingStep(r) PROVE UNCHANGED projects
  BY <1>4 DEF TrackingStep, Authenticate, Refuse, BadRequest, InternalError, TrackStart,
     SkipEvent, TrackEvent, InsertEvent, TrackProperties, InsertEventProperties, LoseProperties,
     TrackDone, Device, LookupAppUser, CreateAppUser, LinkDevice, UpsertDevice, InsertAppUser,
     LinkDeviceToUser, storeVars, tables
<1>5. \/ InsertProject \/ \E a \in Admins : WriteProject(a)
      \/ projects' \subseteq projects
  BY <1>4 DEF Next, vars, TrackingNext, ProjectsNext, AdminStep, CreateProject, RemoveProject,
     CreateToken, DeleteToken, ReadProject, ReadToken, WriteToken, WriteFails,
     RetentionNext, Tick, StartSweep, StartFails, SweepStep, CleanupProject, CleanupFails,
     CleanupEvents, storeVars, tables, DeleteProject, InsertProjectToken,
     UpdateProjectToken, DeleteProjectToken, Crash
<1> QED
  BY <1>1, <1>2, <1>3, <1>5

\* A console request that is about to write a period was so before, or has just
\* read the project.
LEMMA UpdatesOfStep ==
    ASSUME Typed, [Next]_vars, NEW a \in Admins, admin'[a].op = "update project"
    PROVE  \/ admin'[a] = admin[a]
           \/ /\ admin[a].op # "update project" /\ projects' = projects
              /\ \E row \in projects : row.id = admin'[a].id
<1>0. admin \in [Admins -> AdminFrame]
  BY DEF Typed, TypeOK, ProjectsTypeOK
<1>1. CASE Crash
  BY <1>0, <1>1 DEF Crash, IdleAdmin
<1>2. ASSUME NEW b \in Admins, Done(b)
      PROVE  admin'[a] = admin[a]
  BY <1>0, <1>2 DEF Done, IdleAdmin
<1>3. ASSUME NEW b \in Admins, ReadToken(b)
      PROVE  admin'[a] = admin[a]
  <2>1. PICK read \in project_tokens, op \in {"update", "disable", "enable"} :
           admin' = [admin EXCEPT ![b] = [op |-> op, id |-> read.id, days |-> 0,
                                          active |-> WrittenActive(op, read)]]
    BY <1>3, Zenon DEF ReadToken
  <2>2. b = a => admin'[a].op = op
    BY <1>0, <2>1
  <2> QED
    BY <1>0, <2>1, <2>2
<1>4. ASSUME NEW b \in Admins, ReadProject(b)
      PROVE  \/ admin'[a] = admin[a]
             \/ /\ admin[a].op # "update project" /\ projects' = projects
                /\ \E row \in projects : row.id = admin'[a].id
  <2>0. PICK row \in projects : \E written :
           admin' = [admin EXCEPT ![b] = [op |-> "update project", id |-> row.id,
                                          days |-> written, active |-> FALSE]]
    BY <1>4, Zenon DEF ReadProject
  <2>1. PICK written :
           admin' = [admin EXCEPT ![b] = [op |-> "update project", id |-> row.id,
                                          days |-> written, active |-> FALSE]]
    BY <2>0
  <2>2. b = a => admin'[a].id = row.id
    BY <1>0, <2>1
  <2>3. admin[b].op # "update project" /\ projects' = projects
    BY <1>4 DEF ReadProject, Free, Idle, storeVars, tables
  <2> QED
    BY <1>0, <2>1, <2>2, <2>3
<1>5. \/ Crash \/ UNCHANGED admin
      \/ \E b \in Admins : Done(b) \/ ReadToken(b) \/ ReadProject(b)
  BY DEF Next, vars, ProjectsNext, AdminStep, CreateProject, RemoveProject, CreateToken,
     DeleteToken, WriteProject, WriteToken, WriteFails
<1> QED
  BY <1>1, <1>2, <1>3, <1>4, <1>5

LEMMA SweepOfStep ==
    ASSUME [Next]_vars, NEW row \in sweep'
    PROVE  row \in sweep \/ (row \in projects /\ projects' = projects)
<1>1. CASE sweep' \subseteq sweep
  BY <1>1
<1>2. CASE StartSweep
  BY <1>2 DEF StartSweep, WithRetention, storeVars, tables
<1> QED
  BY <1>1, <1>2 DEF Next, vars, RetentionNext, Tick, StartFails, SweepStep, CleanupProject,
     CleanupFails, Crash, RestartSweeper

LEMMA StepKnownProjects ==
    ASSUME Driver = "postgres", Typed, StoreInv, ScopeInv, KnownProjects, [Next]_vars
    PROVE  KnownProjects'
<1>0. /\ \A p \in projects : p.id <= serial.projects /\ p.id \in Nat
      /\ serial.projects \in Nat /\ serial'.projects \in Nat
      /\ serial.projects <= serial'.projects
      /\ reqs \in [Requests -> Frame] /\ admin \in [Admins -> AdminFrame]
      /\ sweep \subseteq ProjectRow /\ ProjectIds \subseteq Nat
  BY StepTyped, ProjectsGrow, BoundsAssumption
     DEF StoreInv, IssuedUpwards, Typed, TypeOK, StoreTypeOK, TrackingTypeOK,
         ProjectsTypeOK, RetentionTypeOK, ProjectRow, ProjectIds
<1>1. ASSUME NEW id \in Nat, id <= serial.projects PROVE id <= serial'.projects
  BY <1>0, <1>1
<1>2. ASSUME NEW r \in Requests PROVE reqs'[r].project <= serial'.projects
  <2>1. CASE reqs'[r].project = reqs[r].project
    <3>1. reqs[r].project \in Nat
      <4>1. reqs[r].project \in ProjectIds \cup {Null}
        BY <1>0 DEF Frame
      <4>2. reqs[r].project = Null \/ reqs[r].project \in ProjectIds
        BY <4>1
      <4>3. \A n \in ProjectIds : n \in Nat
        BY <1>0
      <4> QED
        BY <4>2, <4>3
    <3>2. reqs[r].project <= serial.projects
      BY DEF KnownProjects
    <3> QED
      BY <1>1, <2>1, <3>1, <3>2
  <2>2. ASSUME NEW row \in project_tokens, reqs'[r].project = row.project_id
        PROVE  reqs'[r].project <= serial'.projects
    <3>1. PICK p \in projects : p.id = row.project_id
      BY DEF StoreInv, ReferentialIntegrity, Ids
    <3> QED
      BY <1>0, <1>1, <2>2, <3>1
  <2> QED
    BY <2>1, <2>2, ProjectOfStep
<1>3. ASSUME NEW a \in Admins, admin'[a].op = "update project"
      PROVE  admin'[a].id <= serial'.projects
  <2>1. CASE admin'[a] = admin[a]
    BY <1>0, <1>1, <1>3, <2>1 DEF KnownProjects, AdminFrame
  <2>2. ASSUME NEW row \in projects, row.id = admin'[a].id
        PROVE  admin'[a].id <= serial'.projects
    BY <1>0, <1>1, <2>2
  <2> QED
    BY <1>3, <2>1, <2>2, UpdatesOfStep
<1>4. ASSUME NEW row \in sweep' PROVE row.id <= serial'.projects
  <2>1. \A x \in sweep : x.id \in Nat /\ x.id <= serial.projects
    BY <1>0 DEF ProjectRow, KnownProjects
  <2>2. row.id \in Nat /\ row.id <= serial.projects
    BY <1>0, <1>4, <2>1, SweepOfStep
  <2> QED
    BY <1>1, <2>2
<1> QED
  BY <1>2, <1>3, <1>4 DEF KnownProjects

LEMMA AlwaysKnownProjects ==
    ASSUME Driver = "postgres"
    PROVE  Spec => []KnownProjects
<1>1. Init => KnownProjects
  <2> SUFFICES ASSUME Init PROVE KnownProjects
    OBVIOUS
  <2>1. /\ sweep = {} /\ \A a \in Admins : admin[a].op = "idle"
        /\ \A r \in Requests : reqs[r].project = 0
    BY DEF Init, RetentionInit, ProjectsInit, IdleAdmin, TrackingInit
  <2>2. 0 <= serial.projects
    BY BoundsAssumption DEF Init, StoreInit
  <2> QED
    BY <2>1, <2>2 DEF KnownProjects
<1>2. Typed /\ StoreInv /\ ScopeInv /\ KnownProjects /\ [Next]_vars => KnownProjects'
  BY StepKnownProjects
<1> QED
  BY <1>1, <1>2, AlwaysTyped, AlwaysStoreInv, AlwaysScopeInv, PTL DEF Spec

LEMMA NewIsUnknown ==
    ASSUME Driver = "postgres", Typed, KnownProjects, [Next]_vars,
           NEW p \in Ids(projects') \ Ids(projects)
    PROVE  /\ \A r \in Requests : reqs[r].project # p
           /\ \A a \in Admins : admin[a].op = "update project" => admin[a].id # p
           /\ p \notin Ids(sweep)
<1>1. PICK q \in projects' : q.id = p
  BY DEF Ids
<1>2. p > serial.projects
  BY <1>1, ProjectsOfStep DEF Ids
<1>3. p \in Nat /\ serial.projects \in Nat
  <2>1. StoreTypeOK /\ StoreTypeOK'
    BY StepTyped DEF Typed, TypeOK
  <2> QED
    BY <1>1, <2>1, BoundsAssumption DEF StoreTypeOK, ProjectRow, ProjectIds
<1>4. ~ (p <= serial.projects)
  BY <1>2, <1>3
<1> QED
  BY <1>4 DEF KnownProjects, Ids

\* Under PostgreSQL no request in flight ever meets a project that was created
\* after the one it knows, for any number of requests, administrators and sweeps.
THEOREM ProjectsAreUnknown ==
    ASSUME Driver = "postgres"
    PROVE  Spec => NewProjectsAreUnknown
<1>1. Typed /\ KnownProjects /\ [Next]_vars =>
        \A p \in Ids(projects') \ Ids(projects) :
          /\ \A r \in Requests : reqs[r].project # p
          /\ \A a \in Admins : admin[a].op = "update project" => admin[a].id # p
          /\ p \notin Ids(sweep)
  BY NewIsUnknown
<1> QED
  BY <1>1, AlwaysTyped, AlwaysKnownProjects, PTL DEF Spec, NewProjectsAreUnknown

-----------------------------------------------------------------------------
(* The periods of a project.                                                *)

PeriodsInv ==
    /\ PeriodsAsAsked
    /\ \A a \in Admins : admin[a].op = "update project" /\ admin[a].id \in Ids(projects) =>
         admin[a].days \in asked[admin[a].id]

\* What was asked for a project stays asked as long as the project exists, and an
\* id that was issued before is of a project that existed before.
LEMMA AskedGrows ==
    ASSUME Driver = "postgres", Typed, [Next]_vars, asked' = [p \in ProjectIds |-> AskedAfter(p)],
           NEW p \in Ids(projects'), p <= serial.projects
    PROVE  /\ p \in Ids(projects)
           /\ asked[p] \subseteq asked'[p]
           /\ \A a \in Admins : AsksFor(a, p) => admin'[a].days \in asked'[p]
<1>1. PICK q \in projects' : q.id = p
  BY DEF Ids
<1>2. p \in Nat /\ serial.projects \in Nat /\ p \in ProjectIds
  <2>1. StoreTypeOK /\ StoreTypeOK'
    BY StepTyped DEF Typed, TypeOK
  <2>2. p \in ProjectIds /\ serial.projects \in Nat
    BY <1>1, <2>1, ProjectsGrow DEF StoreTypeOK, ProjectRow
  <2> QED
    BY <2>2, BoundsAssumption DEF ProjectIds
<1>3. p \in Ids(projects)
  <2>1. q \in projects \/ q.id > serial.projects \/ q.id \in Ids(projects)
    BY ProjectsOfStep
  <2>2. ~ (q.id > serial.projects)
    BY <1>1, <1>2
  <2> QED
    BY <1>1, <2>1, <2>2 DEF Ids
<1>4. asked'[p] = asked[p] \cup {admin'[a].days : a \in {b \in Admins : AsksFor(b, p)}}
  BY <1>2, <1>3 DEF AskedAfter
<1> QED
  BY <1>3, <1>4

LEMMA StepPeriodsInv ==
    ASSUME Driver = "postgres", Typed, StoreInv, KnownProjects, PeriodsInv, PeriodsNext
    PROVE  PeriodsInv'
<1>0. /\ [Next]_vars /\ asked' = [p \in ProjectIds |-> AskedAfter(p)]
      /\ \A p \in projects : p.id <= serial.projects /\ p.id \in Nat
      /\ \A p \in projects' : p.id \in ProjectIds
      /\ IsKeyOf(projects)
      /\ serial.projects \in Nat /\ serial'.projects \in Nat
      /\ serial.projects <= serial'.projects
      /\ admin \in [Admins -> AdminFrame] /\ sweep \subseteq ProjectRow
  <2>1. [Next]_vars /\ asked' = [p \in ProjectIds |-> AskedAfter(p)]
    BY DEF PeriodsNext
  <2>2. StoreTypeOK /\ StoreTypeOK' /\ ProjectsTypeOK /\ RetentionTypeOK
    BY <2>1, StepTyped DEF Typed, TypeOK
  <2>3. /\ serial.projects \in Nat /\ serial'.projects \in Nat
        /\ \A p \in projects : p.id \in ProjectIds
        /\ \A p \in projects' : p.id \in ProjectIds
        /\ ProjectIds \subseteq Nat
    BY <2>2, BoundsAssumption DEF StoreTypeOK, ProjectRow, ProjectIds
  <2>4. \A p \in projects : p.id <= serial.projects
    BY DEF StoreInv, IssuedUpwards
  <2>5. serial.projects <= serial'.projects
    BY <2>1, ProjectsGrow
  <2> QED
    BY <2>1, <2>2, <2>3, <2>4, <2>5
       DEF StoreInv, UniqueKeys, ProjectsTypeOK, RetentionTypeOK
<1>1. ASSUME NEW q \in projects' PROVE q.retention_days \in asked'[q.id]
  <2>0. q.id \in Ids(projects')
    BY DEF Ids
  <2>1. CASE q \in projects
    <3>1. q.retention_days \in asked[q.id]
      BY <2>1 DEF PeriodsInv, PeriodsAsAsked
    <3> QED
      BY <1>0, <2>0, <2>1, <3>1, AskedGrows
  <2>2. CASE q.id > serial.projects /\ q.retention_days = 0
    <3>1. q.id \notin Ids(projects)
      BY <1>0, <2>2 DEF Ids
    <3>2. asked'[q.id] = {0}
      BY <1>0, <2>0, <3>1 DEF AskedAfter
    <3> QED
      BY <2>2, <3>2
  <2>3. CASE /\ q.id \in Ids(projects)
             /\ \E a \in Admins : /\ admin[a].op = "update project"
                                  /\ admin[a].id = q.id /\ admin[a].days = q.retention_days
    <3>1. q.retention_days \in asked[q.id] /\ q.id <= serial.projects
      BY <2>3 DEF PeriodsInv, KnownProjects
    <3> QED
      BY <1>0, <2>0, <3>1, AskedGrows
  <2> QED
    BY <1>0, <2>1, <2>2, <2>3, ProjectsOfStep
<1>2. ASSUME NEW row \in sweep'
      PROVE  row.id \in Ids(projects') => row.retention_days \in asked'[row.id]
  <2>1. row.id <= serial.projects /\ row.id \in Nat
    <3>1. \A x \in sweep : x.id \in Nat
      BY <1>0, BoundsAssumption DEF ProjectRow, ProjectIds
    <3> QED
      BY <1>0, <1>2, <3>1, SweepOfStep DEF KnownProjects
  <2>2. row.id \in Ids(projects) => row.retention_days \in asked[row.id]
    BY <1>0, <1>2, SweepOfStep DEF PeriodsInv, PeriodsAsAsked
  <2> QED
    BY <1>0, <2>1, <2>2, AskedGrows
<1>3. ASSUME NEW a \in Admins, admin'[a].op = "update project"
      PROVE  admin'[a].id \in Ids(projects') => admin'[a].days \in asked'[admin'[a].id]
  <2>1. CASE admin'[a] = admin[a]
    <3>1. admin[a].id <= serial.projects /\ admin[a].id \in Nat
      BY <1>0, <1>3, <2>1 DEF KnownProjects, AdminFrame
    <3>2. admin[a].id \in Ids(projects) => admin[a].days \in asked[admin[a].id]
      BY <1>3, <2>1 DEF PeriodsInv
    <3> QED
      BY <1>0, <2>1, <3>1, <3>2, AskedGrows
  <2>2. ASSUME admin[a].op # "update project", projects' = projects,
               NEW row \in projects, row.id = admin'[a].id
        PROVE  admin'[a].days \in asked'[admin'[a].id]
    <3>1. row.id <= serial.projects /\ row.id \in Nat /\ row.id \in Ids(projects')
      BY <1>0, <2>2 DEF Ids
    <3>2. /\ asked[row.id] \subseteq asked'[row.id]
          /\ AsksFor(a, row.id) => admin'[a].days \in asked'[row.id]
      BY <1>0, <3>1, AskedGrows
    <3>3. ASSUME row.retention_days = admin'[a].days
          PROVE  admin'[a].days \in asked'[row.id]
      BY <2>2, <3>2, <3>3 DEF PeriodsInv, PeriodsAsAsked
    <3>4. ASSUME row.retention_days # admin'[a].days
          PROVE  admin'[a].days \in asked'[row.id]
      <4>1. \A x \in projects : x.id = row.id => x.retention_days # admin'[a].days
        BY <1>0, <3>4 DEF IsKeyOf
      <4>2. AsksFor(a, row.id)
        BY <1>3, <2>2, <4>1 DEF AsksFor
      <4> QED
        BY <3>2, <4>2
    <3> QED
      BY <2>2, <3>3, <3>4
  <2> QED
    BY <1>0, <1>3, <2>1, <2>2, UpdatesOfStep
<1> QED
  BY <1>1, <1>2, <1>3 DEF PeriodsInv, PeriodsAsAsked

LEMMA PeriodsIsServer == PeriodsSpec => Spec
<1>1. PeriodsInit => Init
  BY DEF PeriodsInit
<1>2. [PeriodsNext]_periodsVars => [Next]_vars
  BY DEF PeriodsNext, periodsVars
<1> QED
  BY <1>1, <1>2, PTL DEF PeriodsSpec, Spec

LEMMA AlwaysPeriodsInv ==
    ASSUME Driver = "postgres"
    PROVE  PeriodsSpec => []PeriodsInv
<1>1. PeriodsInit => PeriodsInv
  <2> SUFFICES ASSUME PeriodsInit PROVE PeriodsInv
    OBVIOUS
  <2>1. ASSUME NEW p \in projects PROVE p.retention_days \in asked[p.id]
    <3>1. p.retention_days = 0 /\ p.id \in 1 .. Seed
      BY <2>1 DEF PeriodsInit, Init, StoreInit
    <3>2. p.id \in ProjectIds
      BY <3>1, BoundsAssumption DEF ProjectIds
    <3> QED
      BY <3>1, <3>2 DEF PeriodsInit
  <2>2. sweep = {} /\ \A a \in Admins : admin[a].op = "idle"
    BY DEF PeriodsInit, Init, RetentionInit, ProjectsInit, IdleAdmin
  <2> QED
    BY <2>1, <2>2 DEF PeriodsInv, PeriodsAsAsked
<1>2. Typed /\ StoreInv /\ KnownProjects /\ PeriodsInv /\ [PeriodsNext]_periodsVars => PeriodsInv'
  <2>1. PeriodsInv /\ UNCHANGED periodsVars => PeriodsInv'
    BY DEF periodsVars, vars, storeVars, tables, PeriodsInv, PeriodsAsAsked, Ids
  <2> QED
    BY <2>1, StepPeriodsInv
<1> QED
  BY <1>1, <1>2, PeriodsIsServer, AlwaysTyped, AlwaysStoreInv, AlwaysKnownProjects, PTL DEF PeriodsSpec

\* Under PostgreSQL a project never gets the period of another one, for any number
\* of updates in flight while projects are created and deleted.
THEOREM PeriodsWereAsked ==
    ASSUME Driver = "postgres"
    PROVE  PeriodsSpec => []PeriodsAsAsked
<1>1. PeriodsInv => PeriodsAsAsked
  BY DEF PeriodsInv
<1> QED
  BY <1>1, AlwaysPeriodsInv, PTL

\* And no event is deleted by a period that nobody asked for its project.
THEOREM PurgesWereAsked ==
    ASSUME Driver = "postgres"
    PROVE  PeriodsSpec => PurgedAsAsked
<1>1. Typed /\ StoreInv /\ SweepHasPeriod /\ PeriodsInv /\ [Next]_vars =>
        \A e \in events : e.id \notin Ids(events') =>
          \/ e.project_id \notin Ids(projects')
          \/ e.device_id \notin Ids(devices')
          \/ \E days \in asked[e.project_id] : days > 0 /\ e.created_at + days < now
  <2> SUFFICES ASSUME Typed, StoreInv, SweepHasPeriod, PeriodsInv, [Next]_vars,
                      NEW e \in events, e.id \notin Ids(events'),
                      NEW row \in sweep, row.id = e.project_id, row.retention_days > 0,
                      e.created_at + row.retention_days < now
               PROVE  row.retention_days \in asked[e.project_id]
    BY DeletedInTime
  <2>1. e.project_id \in Ids(projects)
    BY DEF StoreInv, ReferentialIntegrity
  <2> QED
    BY <2>1 DEF PeriodsInv, PeriodsAsAsked
<1> QED
  BY <1>1, PeriodsIsServer, AlwaysTyped, AlwaysStoreInv, AlwaysSweepHasPeriod, AlwaysPeriodsInv,
     PTL DEF Spec, PurgedAsAsked
=============================================================================
