--------------------------- MODULE IdentityProofs ---------------------------
(***************************************************************************)
(* Theorems about identity under PostgreSQL: devices and events belong to  *)
(* users that were identified.  The requests in flight carry the id of a   *)
(* user they read earlier; what makes that id safe is that no later user   *)
(* is given it, so all of this rests on SERIAL (under SQLite it is false,  *)
(* run id_reuse).                                                          *)
(***************************************************************************)
EXTENDS ServerProofs

USE DEF Null

\* A request about to link a device does so to the user it was asked for.
LinksNamed ==
    \A r \in Requests : reqs[r].pc = "link" =>
        /\ reqs[r].user <= serial.users
        /\ \A u \in app_users :
             u.id = reqs[r].user => u.anonymous_id = Call[r].anonymous_id

\* Requests on the way to a link are identify calls.
KindsKept ==
    \A r \in Requests : reqs[r].pc \in {"identify", "create", "link"} => Call[r].kind = "identify"

IdentifiedOn(device, u) == \E s \in Requests : Identified(s, device, u)

\* A request that files events does so under the user of its body or one that was
\* identified for its device.
FilesNamed ==
    \A r \in Requests :
        reqs[r].pc \in {"insert", "props"} /\ reqs[r].user # Null /\ reqs[r].user # Call[r].user =>
          /\ reqs[r].user <= serial.users
          /\ \A u \in app_users : u.id = reqs[r].user => IdentifiedOn(Call[r].device, u)

-----------------------------------------------------------------------------
\* A user that a statement adds has an id above all that were issued.
LEMMA StatementUsers ==
    ASSUME Driver = "postgres", StoreTypeOK, StoreNext
    PROVE  /\ serial.users <= serial'.users
           /\ \A u \in app_users' : u \in app_users \/ serial.users < u.id
<1>0. serial \in [projects : Nat, tokens : Nat, users : Nat, minted : Nat]
  BY DEF StoreTypeOK
<1>1. CASE \E p \in Nat, a \in AnonymousIds, id \in UserIds :
             CanInsertAppUser(p, a) /\ InsertAppUser(p, a, id)
  <2> PICK p \in Nat, a \in AnonymousIds, id \in UserIds : InsertAppUser(p, a, id)
    BY <1>1
  <2>1. id = serial.users + 1 /\ serial' = [serial EXCEPT !["users"] = id]
    BY DEF InsertAppUser, IsNextId, Issued
  <2>2. app_users' = app_users \cup {[id |-> id, project_id |-> p, anonymous_id |-> a]}
    BY DEF InsertAppUser
  <2>3. serial'.users = serial.users + 1
    BY <1>0, <2>1
  <2> QED
    BY <1>0, <2>1, <2>2, <2>3
<1>2. CASE app_users' \subseteq app_users /\ serial'.users = serial.users
  BY <1>0, <1>2
<1>3. CASE InsertProject
  BY <1>0, <1>2, <1>3 DEF InsertProject, Issued
<1>4. CASE \E p \in Nat : InsertProjectToken(p)
  <2> PICK p \in Nat : InsertProjectToken(p)
    BY <1>4
  <2>1. app_users' = app_users /\ serial'.users = serial.users
    BY <1>0 DEF InsertProjectToken
  <2> QED
    BY <1>2, <2>1
<1> QED
  BY <1>1, <1>2, <1>3, <1>4
     DEF StoreNext, UpdateProject, DeleteProject, UpdateProjectToken, DeleteProjectToken,
         UpsertDevice, LinkDeviceToUser, InsertEvent, InsertEventProperties, CleanupEvents, tables

LEMMA StepUsers ==
    ASSUME Driver = "postgres", Typed, [Next]_vars
    PROVE  /\ serial.users \in Nat /\ serial'.users \in Nat /\ serial.users <= serial'.users
           /\ \A u \in app_users' : u \in app_users \/ serial.users < u.id
           /\ \A u \in app_users' : u.id \in Nat
<1>0. serial.users \in Nat /\ serial'.users \in Nat /\ \A u \in app_users' : u.id \in Nat
  BY StepTyped DEF Typed, TypeOK, StoreTypeOK, AppUserRow, UserIds
<1>1. CASE StoreNext
  BY <1>0, <1>1, StatementUsers DEF Typed, TypeOK
<1>2. CASE UNCHANGED storeVars
  BY <1>0, <1>2 DEF storeVars, tables
<1> QED
  BY <1>1, <1>2, StepIsStatement

\* An answer is final.
LEMMA AnsweredStays ==
    ASSUME Typed, [Next]_vars, NEW s \in Requests, reqs[s].pc \in {"ok", "error"}
    PROVE  reqs'[s] = reqs[s]
<1>1. CASE \E r \in Requests : TrackingStep(r)
  <2> PICK r \in Requests : TrackingStep(r)
    BY <1>1
  <2>1. r # s
    BY DEF TrackingStep, Authenticate, Refuse, BadRequest, InternalError, TrackStart, SkipEvent,
       TrackEvent, TrackProperties, LoseProperties, TrackDone, Device, LookupAppUser,
       CreateAppUser, LinkDevice, AtEvent
  <2> QED
    BY <2>1, OtherFrames
<1>2. CASE Crash
  BY <1>2 DEF Crash, DropRequests, Answered
<1> QED
  BY <1>1, <1>2 DEF Next, vars, TrackingNext

LEMMA IdentifiedStays ==
    ASSUME Typed, [Next]_vars, NEW device, NEW u, IdentifiedOn(device, u)
    PROVE  IdentifiedOn(device, u)'
BY AnsweredStays DEF IdentifiedOn, Identified

-----------------------------------------------------------------------------
\* What a step does to where its request is and to the user it remembers.
Looked(r) ==
    /\ reqs[r].pc = "identify" /\ reqs'[r].pc = "link"
    /\ \E row \in KnownUsers(r) : reqs'[r].user = row.id

Created(r) ==
    /\ reqs[r].pc = "create" /\ reqs'[r].pc = "link"
    /\ \E id \in UserIds : /\ InsertAppUser(reqs[r].project, Call[r].anonymous_id, id)
                           /\ reqs'[r].user = id

Started(r) ==
    /\ reqs'[r].pc = "insert" /\ reqs'[r].user \in EventUsers(r)

LEMMA FrameStep ==
    ASSUME Typed, NEW r \in Requests, TrackingStep(r)
    PROVE  \/ reqs'[r].pc \in {"error", "ok"}
           \/ reqs'[r].pc = Call[r].kind
           \/ reqs[r].pc = "identify" /\ reqs'[r].pc = "create"
           \/ Looked(r) \/ Created(r) \/ Started(r)
           \/ /\ {reqs[r].pc, reqs'[r].pc} \subseteq {"insert", "props"}
              /\ reqs'[r].user = reqs[r].user
<1>0. reqs \in [Requests -> Frame]
  BY DEF Typed, TypeOK, TrackingTypeOK
<1>1. ASSUME NEW pc, Goto(r, pc) PROVE reqs'[r].pc = pc /\ reqs'[r].user = reqs[r].user
  BY <1>0, <1>1 DEF Goto, Frame
<1>2. ASSUME NEW counted, NextEvent(r, counted)
      PROVE  reqs'[r].pc = "insert" /\ reqs'[r].user = reqs[r].user
  BY <1>0, <1>2 DEF NextEvent, Frame
<1>3. CASE Authenticate(r)
  BY <1>0, <1>3 DEF Authenticate, Frame
<1>4. CASE Refuse(r) \/ BadRequest(r) \/ InternalError(r) \/ TrackDone(r) \/ Device(r) \/ LinkDevice(r)
  BY <1>1, <1>4 DEF Refuse, BadRequest, InternalError, TrackDone, Device, LinkDevice, Outcomes
<1>5. CASE TrackStart(r)
  BY <1>0, <1>5 DEF TrackStart, Started, Frame
<1>6. CASE SkipEvent(r) \/ TrackProperties(r) \/ LoseProperties(r)
  BY <1>2, <1>6 DEF SkipEvent, AtEvent, TrackProperties, LoseProperties
<1>7. CASE TrackEvent(r)
  <2>1. reqs[r].pc = "insert"
    BY <1>7 DEF TrackEvent, AtEvent
  <2> QED
    BY <1>1, <1>2, <1>7, <2>1, TrackEventGoesOn
<1>8. CASE LookupAppUser(r)
  <2>1. ASSUME NEW row \in KnownUsers(r),
               reqs' = [reqs EXCEPT ![r].pc = "link", ![r].user = row.id]
        PROVE  reqs'[r].pc = "link" /\ reqs'[r].user = row.id
    BY <1>0, <2>1 DEF Frame
  <2> QED
    BY <1>1, <1>8, <2>1 DEF LookupAppUser, Looked
<1>9. CASE CreateAppUser(r)
  <2>1. ASSUME NEW id, reqs' = [reqs EXCEPT ![r].pc = "link", ![r].user = id]
        PROVE  reqs'[r].pc = "link" /\ reqs'[r].user = id
    BY <1>0, <2>1 DEF Frame
  <2> QED
    BY <1>1, <1>9, <2>1 DEF CreateAppUser, Created
<1> QED
  BY <1>3, <1>4, <1>5, <1>6, <1>7, <1>8, <1>9 DEF TrackingStep

\* The frame of a request whose step it is not: as it was, or lost.
LEMMA OtherFrame ==
    ASSUME Typed, [Next]_vars, NEW s \in Requests, ~ TrackingStep(s)
    PROVE  reqs'[s] = reqs[s] \/ reqs'[s].pc = "lost"
<1>0. reqs \in [Requests -> Frame]
  BY DEF Typed, TypeOK, TrackingTypeOK
<1>1. CASE \E r \in Requests : TrackingStep(r)
  BY <1>1, OtherFrames
<1>2. CASE Crash
  BY <1>0, <1>2 DEF Crash, DropRequests, Frame
<1> QED
  BY <1>1, <1>2 DEF Next, vars, TrackingNext

LEMMA StepKindsKept == Typed /\ KindsKept /\ [Next]_vars => KindsKept'
<1> SUFFICES ASSUME Typed, KindsKept, [Next]_vars, NEW r \in Requests,
                    reqs'[r].pc \in {"identify", "create", "link"}
             PROVE  Call[r].kind = "identify"
  BY DEF KindsKept
<1>1. CASE TrackingStep(r)
  <2>1. Call[r].kind \in {"track", "device", "identify"}
    BY CallAssumption DEF Calls
  <2>2. CASE reqs'[r].pc = Call[r].kind
    BY <2>1, <2>2
  <2>3. CASE reqs[r].pc \in {"identify", "create"}
    BY <2>3 DEF KindsKept
  <2> QED
    BY <1>1, <2>2, <2>3, FrameStep DEF Looked, Created, Started
<1>2. CASE ~ TrackingStep(r)
  BY <1>2, OtherFrame DEF KindsKept
<1> QED
  BY <1>1, <1>2

-----------------------------------------------------------------------------
\* An id that was issued goes on to name the users it names, or none.
LEMMA IdsStay ==
    ASSUME Driver = "postgres", Typed, [Next]_vars, NEW id \in Nat, id <= serial.users
    PROVE  /\ id <= serial'.users
           /\ \A u \in app_users' : u.id = id => u \in app_users
<1>1. id <= serial'.users
  BY StepUsers
<1>2. ASSUME NEW u \in app_users', u.id = id, u \notin app_users PROVE FALSE
  BY <1>2, StepUsers
<1> QED
  BY <1>1, <1>2

LEMMA StepLinksNamed ==
    ASSUME Driver = "postgres"
    PROVE  Typed /\ StoreInv /\ LinksNamed /\ [Next]_vars => LinksNamed'
<1> SUFFICES ASSUME Typed, StoreInv, LinksNamed, [Next]_vars,
                    NEW r \in Requests, reqs'[r].pc = "link"
             PROVE  /\ reqs'[r].user <= serial'.users
                    /\ \A u \in app_users' :
                         u.id = reqs'[r].user => u.anonymous_id = Call[r].anonymous_id
  BY DEF LinksNamed
<1>0. /\ \A u \in app_users : u.id \in Nat /\ u.id <= serial.users
      /\ IsKeyOf(app_users)
      /\ reqs[r].user \in Nat
  <2>1. \A u \in app_users : u.id \in Nat
    BY DEF Typed, TypeOK, StoreTypeOK, AppUserRow, UserIds
  <2>2. (\A u \in app_users : u.id <= serial.users) /\ IsKeyOf(app_users)
    BY DEF StoreInv, IssuedUpwards, UniqueKeys
  <2>3. reqs[r] \in Frame
    BY DEF Typed, TypeOK, TrackingTypeOK
  <2>4. reqs[r].user \in UserIds \cup {Null}
    BY <2>3 DEF Frame
  <2> QED
    BY <2>1, <2>2, <2>4 DEF UserIds
<1>1. CASE reqs[r].pc = "link" /\ reqs'[r].user = reqs[r].user
  BY <1>0, <1>1, IdsStay DEF LinksNamed
<1>2. CASE Looked(r)
  <2>1. PICK row \in KnownUsers(r) : reqs'[r].user = row.id
    BY <1>2 DEF Looked
  <2>2. row \in app_users /\ row.anonymous_id = Call[r].anonymous_id
    BY DEF KnownUsers
  <2>3. row.id \in Nat /\ row.id <= serial.users
    BY <1>0, <2>2
  <2>4. \A u \in app_users' : u.id = row.id => u = row
    BY <1>0, <2>2, <2>3, IdsStay DEF IsKeyOf
  <2>5. row.id <= serial'.users
    BY <2>3, IdsStay
  <2> QED
    BY <2>1, <2>2, <2>4, <2>5
<1>3. CASE Created(r)
  <2>1. PICK id \in UserIds : /\ InsertAppUser(reqs[r].project, Call[r].anonymous_id, id)
                              /\ reqs'[r].user = id
    BY <1>3 DEF Created
  <2>2. id = serial.users + 1 /\ serial' = [serial EXCEPT !["users"] = id]
    BY <2>1 DEF InsertAppUser, IsNextId, Issued
  <2>3. app_users' = app_users \cup
          {[id |-> id, project_id |-> reqs[r].project, anonymous_id |-> Call[r].anonymous_id]}
    BY <2>1 DEF InsertAppUser
  <2>4. serial.users \in Nat /\ serial'.users = id
    BY <2>2 DEF Typed, TypeOK, StoreTypeOK
  <2>5. \A u \in app_users : u.id # id
    BY <1>0, <2>2, <2>4
  <2>6. \A u \in app_users' : u.id = id => u.anonymous_id = Call[r].anonymous_id
    BY <2>3, <2>5
  <2> QED
    BY <2>1, <2>2, <2>4, <2>6
<1>4. CASE TrackingStep(r)
  <2>1. Call[r].kind \in {"track", "device", "identify"}
    BY CallAssumption DEF Calls
  <2> QED
    BY <1>2, <1>3, <1>4, <2>1, FrameStep DEF Started
<1>5. CASE ~ TrackingStep(r)
  BY <1>1, <1>5, OtherFrame
<1> QED
  BY <1>4, <1>5

LEMMA AlwaysLinksNamed ==
    ASSUME Driver = "postgres"
    PROVE  Spec => [](LinksNamed /\ KindsKept)
<1>1. Init => LinksNamed /\ KindsKept
  BY DEF Init, TrackingInit, LinksNamed, KindsKept
<1>2. Typed /\ StoreInv /\ (LinksNamed /\ KindsKept) /\ [Next]_vars => (LinksNamed /\ KindsKept)'
  BY StepLinksNamed, StepKindsKept
<1> QED
  BY <1>1, <1>2, AlwaysTyped, AlwaysStoreInv, PTL DEF Spec

-----------------------------------------------------------------------------
\* A user that a row goes on to refer to is not deleted.
LEMMA ReferredUserStays ==
    ASSUME Typed, [Next]_vars, NEW u \in app_users,
           ~ \E p : DeleteProject(p) /\ u.id \in GoneUsers(p)
    PROVE  u \in app_users'
<1>1. CASE \E p \in Nat : DeleteProject(p)
  <2> PICK p \in Nat : DeleteProject(p)
    BY <1>1
  <2>1. u.project_id # p
    BY DEF GoneUsers, Ids
  <2> QED
    BY <2>1 DEF DeleteProject
<1>2. CASE app_users \subseteq app_users'
  BY <1>2
<1>3. CASE UNCHANGED storeVars
  BY <1>2, <1>3 DEF storeVars, tables
<1>4. CASE StoreNext
  BY <1>1, <1>2, <1>4
     DEF StoreNext, InsertProject, UpdateProject, InsertProjectToken, UpdateProjectToken,
         DeleteProjectToken, UpsertDevice, LinkDeviceToUser, InsertAppUser, InsertEvent,
         InsertEventProperties, CleanupEvents, tables
<1> QED
  BY <1>3, <1>4, StepIsStatement

\* SET NULL: what a deletion leaves refers to no user that it took.
LEMMA DeletionUnlinks ==
    ASSUME Typed, NEW p, DeleteProject(p), NEW row \in devices' \cup events', row.user_id # Null
    PROVE  row.user_id \notin GoneUsers(p)
<1>0. devices \subseteq DeviceRow /\ events \subseteq EventRow
  BY DEF Typed, TypeOK, StoreTypeOK
<1>1. CASE row \in devices'
  <2> PICK d \in devices : row = Unlinked(d, GoneUsers(p))
    BY <1>1 DEF DeleteProject
  <2> QED
    BY <1>0, UnlinkedDevice
<1>2. CASE row \in events'
  <2> PICK e \in events : row = Unlinked(e, GoneUsers(p))
    BY <1>2 DEF DeleteProject
  <2> QED
    BY <1>0, UnlinkedEvent
<1> QED
  BY <1>1, <1>2

\* A device is linked by LinkDevice; any other step leaves a link or removes it.
LEMMA LinkOfStep ==
    ASSUME Typed, [Next]_vars, NEW d \in devices', d.user_id # Null
    PROVE  \/ \E r \in Requests : /\ LinkDevice(r) /\ reqs'[r].pc \in {"ok", "error"}
                                  /\ reqs'[r].user = reqs[r].user
                                  /\ d.id = Call[r].device /\ d.user_id = reqs[r].user
                                  /\ d.user_id \in Ids(app_users)
           \/ \E c \in devices : c.id = d.id /\ c.user_id = d.user_id
<1>0. devices \subseteq DeviceRow /\ reqs \in [Requests -> Frame]
  BY DEF Typed, TypeOK, StoreTypeOK, TrackingTypeOK
<1>1. CASE d \in devices
  BY <1>1
<1>2. CASE \E p : DeleteProject(p)
  <2> PICK p : DeleteProject(p)
    BY <1>2
  <2>1. PICK c \in devices : d = Unlinked(c, GoneUsers(p))
    BY DEF DeleteProject
  <2> QED
    BY <1>0, <2>1, UnlinkedDevice
<1>3. CASE \E r \in Requests : Device(r)
  BY <1>1, <1>3 DEF Device, UpsertDevice, storeVars, tables
<1>4. ASSUME NEW r \in Requests, LinkDevice(r), d \notin devices
      PROVE  \/ /\ reqs'[r].pc \in {"ok", "error"} /\ reqs'[r].user = reqs[r].user
                /\ d.id = Call[r].device /\ d.user_id = reqs[r].user
                /\ d.user_id \in Ids(app_users)
             \/ \E c \in devices : c.id = d.id /\ c.user_id = d.user_id
  <2>1. /\ CanLinkDevice(Call[r].device, reqs[r].user)
        /\ LinkDeviceToUser(Call[r].device, reqs[r].user)
        /\ \E outcome \in Outcomes : Goto(r, outcome)
    BY <1>4 DEF LinkDevice, storeVars, tables
  <2>2. PICK c \in devices :
           d = IF c.id = Call[r].device THEN [c EXCEPT !.user_id = reqs[r].user] ELSE c
    BY <2>1 DEF LinkDeviceToUser
  <2>3. c.id = Call[r].device /\ d = [c EXCEPT !.user_id = reqs[r].user]
    BY <1>4, <2>2
  <2>4. d.id = c.id /\ d.user_id = reqs[r].user
    BY <1>0, <2>3 DEF DeviceRow
  <2>5. reqs'[r].pc \in {"ok", "error"} /\ reqs'[r].user = reqs[r].user
    BY <1>0, <2>1 DEF Goto, Frame, Outcomes
  <2>6. reqs[r].user \in Ids(app_users)
    BY <2>1, <2>3 DEF CanLinkDevice, Ids
  <2> QED
    BY <2>3, <2>4, <2>5, <2>6
<1>5. CASE UNCHANGED devices
  BY <1>1, <1>5
<1>6. ASSUME NEW r \in Requests, TrackingStep(r), ~ Device(r), ~ LinkDevice(r)
      PROVE  UNCHANGED devices
  BY <1>6 DEF TrackingStep, Authenticate, Refuse, BadRequest, InternalError, TrackStart,
     SkipEvent, TrackEvent, InsertEvent, TrackProperties, InsertEventProperties, LoseProperties,
     TrackDone, LookupAppUser, CreateAppUser, InsertAppUser, storeVars, tables
<1> QED
  BY <1>1, <1>2, <1>3, <1>4, <1>5, <1>6
     DEF Next, vars, TrackingNext, ProjectsNext, AdminStep, CreateProject, RemoveProject,
         CreateToken, DeleteToken, ReadProject, WriteProject, ReadToken, WriteToken, WriteFails,
         RetentionNext, Tick, StartSweep, StartFails, SweepStep, CleanupProject, CleanupFails,
         CleanupEvents, storeVars, tables, InsertProject, UpdateProject, InsertProjectToken,
         UpdateProjectToken, DeleteProjectToken, Crash

LEMMA StepLinked ==
    Typed /\ LinksNamed /\ KindsKept /\ LinkedAsIdentified /\ [Next]_vars => LinkedAsIdentified'
<1> SUFFICES ASSUME Typed, LinksNamed, KindsKept, LinkedAsIdentified, [Next]_vars,
                    NEW d \in devices', d.user_id # Null
             PROVE  \E u \in app_users' : u.id = d.user_id /\ IdentifiedOn(d.id, u)'
  BY DEF LinkedAsIdentified, IdentifiedOn
<1>1. ASSUME NEW u \in app_users, u.id = d.user_id PROVE u \in app_users'
  BY <1>1, DeletionUnlinks, ReferredUserStays
<1>2. CASE \E c \in devices : c.id = d.id /\ c.user_id = d.user_id
  <2>1. PICK u \in app_users : u.id = d.user_id /\ IdentifiedOn(d.id, u)
    BY <1>2 DEF LinkedAsIdentified, IdentifiedOn
  <2> QED
    BY <1>1, <2>1, IdentifiedStays
<1>3. CASE \E r \in Requests : /\ LinkDevice(r) /\ reqs'[r].pc \in {"ok", "error"}
                               /\ reqs'[r].user = reqs[r].user
                               /\ d.id = Call[r].device /\ d.user_id = reqs[r].user
                               /\ d.user_id \in Ids(app_users)
  <2>1. PICK r \in Requests : /\ LinkDevice(r) /\ reqs'[r].pc \in {"ok", "error"}
                              /\ reqs'[r].user = reqs[r].user
                              /\ d.id = Call[r].device /\ d.user_id = reqs[r].user
                              /\ d.user_id \in Ids(app_users)
    BY <1>3
  <2>2. PICK u \in app_users : u.id = d.user_id
    BY <2>1 DEF Ids
  <2>3. reqs[r].pc = "link"
    BY <2>1 DEF LinkDevice
  <2>4. Call[r].kind = "identify" /\ u.anonymous_id = Call[r].anonymous_id
    BY <2>1, <2>2, <2>3 DEF LinksNamed, KindsKept
  <2>5. IdentifiedOn(d.id, u)'
    BY <2>1, <2>4 DEF IdentifiedOn, Identified
  <2> QED
    BY <1>1, <2>2, <2>5
<1> QED
  BY <1>2, <1>3, LinkOfStep

\* A device that is linked is linked to a user that an identify call named for it,
\* whatever is deleted, or created again, between the lookup and the UPDATE.
THEOREM LinksAreIdentified ==
    ASSUME Driver = "postgres"
    PROVE  Spec => []LinkedAsIdentified
<1>1. Init => LinkedAsIdentified
  BY DEF Init, StoreInit, LinkedAsIdentified
<1>2. Typed /\ (LinksNamed /\ KindsKept) /\ LinkedAsIdentified /\ [Next]_vars => LinkedAsIdentified'
  BY StepLinked
<1> QED
  BY <1>1, <1>2, AlwaysTyped, AlwaysLinksNamed, PTL DEF Spec

-----------------------------------------------------------------------------
\* The user the request starts with is the one its device is linked to now.
LEMMA StepFilesNamed ==
    ASSUME Driver = "postgres"
    PROVE  Typed /\ StoreInv /\ LinkedAsIdentified /\ FilesNamed /\ [Next]_vars => FilesNamed'
<1> SUFFICES ASSUME Typed, StoreInv, LinkedAsIdentified, FilesNamed, [Next]_vars,
                    NEW r \in Requests, reqs'[r].pc \in {"insert", "props"},
                    reqs'[r].user # Null, reqs'[r].user # Call[r].user
             PROVE  /\ reqs'[r].user <= serial'.users
                    /\ \A u \in app_users' :
                         u.id = reqs'[r].user => IdentifiedOn(Call[r].device, u)'
  BY DEF FilesNamed
<1>0. /\ \A u \in app_users : u.id \in Nat /\ u.id <= serial.users
      /\ IsKeyOf(app_users)
      /\ reqs'[r].user \in Nat
  <2>1. \A u \in app_users : u.id \in Nat
    BY DEF Typed, TypeOK, StoreTypeOK, AppUserRow, UserIds
  <2>2. (\A u \in app_users : u.id <= serial.users) /\ IsKeyOf(app_users)
    BY DEF StoreInv, IssuedUpwards, UniqueKeys
  <2>3. reqs'[r] \in Frame
    BY StepTyped DEF Typed, TypeOK, TrackingTypeOK
  <2>4. reqs'[r].user \in UserIds \cup {Null}
    BY <2>3 DEF Frame
  <2> QED
    BY <2>1, <2>2, <2>4 DEF UserIds
<1>1. ASSUME reqs'[r].user <= serial.users,
             \A u \in app_users : u.id = reqs'[r].user => IdentifiedOn(Call[r].device, u)
      PROVE  /\ reqs'[r].user <= serial'.users
             /\ \A u \in app_users' :
                  u.id = reqs'[r].user => IdentifiedOn(Call[r].device, u)'
  <2>1. reqs'[r].user <= serial'.users
    BY <1>0, <1>1, IdsStay
  <2>2. \A u \in app_users' : u.id = reqs'[r].user => u \in app_users
    BY <1>0, <1>1, IdsStay
  <2> QED
    BY <1>1, <2>1, <2>2, IdentifiedStays
<1>2. CASE reqs[r].pc \in {"insert", "props"} /\ reqs'[r].user = reqs[r].user
  BY <1>1, <1>2 DEF FilesNamed
<1>3. CASE Started(r)
  <2>1. PICK d \in devices : d.id = Call[r].device /\ reqs'[r].user = d.user_id
    BY <1>3 DEF Started, EventUsers
  <2>2. PICK v \in app_users : v.id = d.user_id /\ IdentifiedOn(d.id, v)
    BY <2>1 DEF LinkedAsIdentified, IdentifiedOn
  <2>3. \A u \in app_users : u.id = reqs'[r].user => u = v
    BY <1>0, <2>1, <2>2 DEF IsKeyOf
  <2>4. reqs'[r].user <= serial.users
    BY <1>0, <2>1, <2>2
  <2> QED
    BY <1>1, <2>1, <2>2, <2>3, <2>4
<1>4. CASE TrackingStep(r)
  <2>1. Call[r].kind \in {"track", "device", "identify"}
    BY CallAssumption DEF Calls
  <2> QED
    BY <1>2, <1>3, <1>4, <2>1, FrameStep DEF Looked, Created
<1>5. CASE ~ TrackingStep(r)
  BY <1>2, <1>5, OtherFrame
<1> QED
  BY <1>4, <1>5

\* An event is filed by TrackEvent; any other step leaves its user or removes it.
LEMMA FiledByStep ==
    ASSUME Typed, [Next]_vars, NEW e \in events', e.user_id # Null
    PROVE  \/ \E r \in Requests : /\ reqs[r].pc = "insert" /\ e.by = r
                                  /\ e.device_id = Call[r].device /\ e.user_id = reqs[r].user
                                  /\ e.user_id \in Ids(app_users)
           \/ \E f \in events : /\ e.by = f.by /\ e.device_id = f.device_id
                                /\ e.user_id = f.user_id
<1>0. events \subseteq EventRow
  BY DEF Typed, TypeOK, StoreTypeOK
<1>1. CASE e \in events
  BY <1>1
<1>2. CASE \E p : DeleteProject(p)
  <2> PICK p : DeleteProject(p)
    BY <1>2
  <2>1. PICK f \in events : e = Unlinked(f, GoneUsers(p))
    BY DEF DeleteProject
  <2> QED
    BY <1>0, <2>1, UnlinkedEvent
<1>3. ASSUME NEW r \in Requests, TrackEvent(r), e \notin events
      PROVE  /\ reqs[r].pc = "insert" /\ e.by = r
             /\ e.device_id = Call[r].device /\ e.user_id = reqs[r].user
             /\ e.user_id \in Ids(app_users)
  <2>1. PICK id : InsertEvent(id, reqs[r].project, Call[r].device, reqs[r].user, r)
    BY <1>3, Zenon DEF TrackEvent
  <2>2. /\ e.by = r /\ e.device_id = Call[r].device /\ e.user_id = reqs[r].user
    BY <1>3, <2>1 DEF InsertEvent
  <2>3. Insertable(r) /\ AtEvent(r)
    BY <1>3, Zenon DEF TrackEvent
  <2>4. reqs[r].user \in Ids(app_users) \cup {Null}
    BY <2>3, Zenon DEF Insertable, CanInsertEvent
  <2> QED
    BY <2>2, <2>3, <2>4 DEF AtEvent
<1>4. CASE events' \subseteq events
  BY <1>1, <1>4
<1>5. ASSUME NEW r \in Requests, TrackingStep(r), ~ TrackEvent(r) PROVE UNCHANGED events
  BY <1>5 DEF TrackingStep, Authenticate, Refuse, BadRequest, InternalError, TrackStart,
     SkipEvent, TrackProperties, InsertEventProperties, LoseProperties, TrackDone, Device,
     UpsertDevice, LookupAppUser, CreateAppUser, InsertAppUser, LinkDevice, LinkDeviceToUser,
     storeVars, tables
<1> QED
  BY <1>1, <1>2, <1>3, <1>4, <1>5
     DEF Next, vars, TrackingNext, ProjectsNext, AdminStep, CreateProject, RemoveProject,
         CreateToken, DeleteToken, ReadProject, WriteProject, ReadToken, WriteToken, WriteFails,
         RetentionNext, Tick, StartSweep, StartFails, SweepStep, CleanupProject, CleanupFails,
         CleanupEvents, storeVars, tables, InsertProject, UpdateProject, InsertProjectToken,
         UpdateProjectToken, DeleteProjectToken, Crash

LEMMA StepFiled ==
    Typed /\ FilesNamed /\ FiledAsIdentified /\ [Next]_vars => FiledAsIdentified'
<1> SUFFICES ASSUME Typed, FilesNamed, FiledAsIdentified, [Next]_vars,
                    NEW e \in events', e.user_id # Null, e.user_id # Call[e.by].user
             PROVE  \E u \in app_users' : u.id = e.user_id /\ IdentifiedOn(e.device_id, u)'
  BY DEF FiledAsIdentified, IdentifiedOn
<1>1. ASSUME NEW u \in app_users, u.id = e.user_id PROVE u \in app_users'
  BY <1>1, DeletionUnlinks, ReferredUserStays
<1>2. PICK u \in app_users : u.id = e.user_id /\ IdentifiedOn(e.device_id, u)
  <2>1. CASE \E f \in events : e.by = f.by /\ e.device_id = f.device_id /\ e.user_id = f.user_id
    BY <2>1 DEF FiledAsIdentified, IdentifiedOn
  <2>2. ASSUME NEW r \in Requests, reqs[r].pc = "insert", e.by = r,
               e.device_id = Call[r].device, e.user_id = reqs[r].user,
               e.user_id \in Ids(app_users)
        PROVE  \E u \in app_users : u.id = e.user_id /\ IdentifiedOn(e.device_id, u)
    BY <2>2 DEF FilesNamed, Ids
  <2> QED
    BY <2>1, <2>2, FiledByStep
<1> QED
  BY <1>1, <1>2, IdentifiedStays

\* An event is filed under the user its own call named, or under one that an
\* identify call named for its device, however long before the call looked.
THEOREM FilesAreIdentified ==
    ASSUME Driver = "postgres"
    PROVE  Spec => []FiledAsIdentified
<1>1. Init => FilesNamed /\ FiledAsIdentified
  BY DEF Init, StoreInit, TrackingInit, FilesNamed, FiledAsIdentified
<1>2. Typed /\ StoreInv /\ LinkedAsIdentified /\ (FilesNamed /\ FiledAsIdentified) /\ [Next]_vars
        => (FilesNamed /\ FiledAsIdentified)'
  BY StepFilesNamed, StepFiled
<1> QED
  BY <1>1, <1>2, AlwaysTyped, AlwaysStoreInv, LinksAreIdentified, PTL DEF Spec
=============================================================================
