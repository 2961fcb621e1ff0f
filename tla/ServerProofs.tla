---------------------------- MODULE ServerProofs ----------------------------
(***************************************************************************)
(* Theorems about Server for every value of its constants.  The argument   *)
(* goes in layers: every step of the server is a statement of the store or *)
(* leaves it alone (StepIsStatement), so types and the store's invariant   *)
(* come from StoreProofs; on top of them the ingestion invariant is shown  *)
(* inductive action by action.                                             *)
(***************************************************************************)
EXTENDS Server, StoreProofs

USE DEF Null

\* What every step may assume of the one before.
Typed == TypeOK /\ LoopInBatch

-----------------------------------------------------------------------------
\* The event a request is at is one of its batch.
LEMMA CurrentType ==
    ASSUME Typed, NEW r \in Requests,
           AtEvent(r) \/ reqs[r].pc = "props"
    PROVE  /\ Current(r) \in [id : EventIds, body : Bodies]
           /\ reqs[r].i \in 1 .. Len(Call[r].batch)
           /\ reqs[r].i \in Nat
<1>1. Call[r] \in Calls
  BY CallAssumption
<1>2. Call[r].batch \in Seq([id : EventIds, body : Bodies])
  BY <1>1 DEF Calls
<1>3. reqs[r].i \in 1 .. Len(Call[r].batch)
  <2>1. reqs[r].i \in Nat /\ Len(Call[r].batch) \in Nat
    BY <1>2 DEF Typed, TypeOK, TrackingTypeOK, Frame
  <2> QED
    BY <2>1 DEF Typed, LoopInBatch, AtEvent
<1>4. Call[r].batch[reqs[r].i] \in [id : EventIds, body : Bodies]
  <2>1. \A S : \A s \in Seq(S) : \A i \in 1 .. Len(s) : s[i] \in S
    OBVIOUS
  <2> QED
    BY <1>2, <1>3, <2>1
<1> QED
  BY <1>3, <1>4 DEF Current

\* A step of a request runs one statement of the store, or none.
LEMMA TrackingIsStatement ==
    ASSUME Typed, NEW r \in Requests, TrackingStep(r)
    PROVE  StoreNext \/ UNCHANGED storeVars
<1>0. /\ Call[r] \in Calls
      /\ reqs[r] \in Frame
  BY CallAssumption DEF Typed, TypeOK, TrackingTypeOK
<1>1. CASE TrackEvent(r)
  <2>1. Current(r).id \in EventIds
    BY <1>1, CurrentType DEF TrackEvent
  <2>2. /\ reqs[r].project \in Nat /\ reqs[r].user \in Nat /\ Call[r].device \in DeviceIds
    BY <1>0 DEF Frame, Calls, ProjectIds, UserIds
  <2>3. \E id \in EventIds, p \in Nat, d \in DeviceIds, u \in Nat, s \in Requests :
          CanInsertEvent(id, p, d, u) /\ InsertEvent(id, p, d, u, s)
    BY <1>1, <2>1, <2>2 DEF TrackEvent, Insertable
  <2> QED
    BY <2>3 DEF StoreNext
<1>2. CASE TrackProperties(r)
  <2>1. Current(r).id \in EventIds
    BY <1>2, CurrentType DEF TrackProperties
  <2>2. \E id \in EventIds, s \in Requests :
          CanInsertEventProperties(id) /\ InsertEventProperties(id, s)
    BY <1>2, <2>1 DEF TrackProperties
  <2> QED
    BY <2>2 DEF StoreNext
<1>3. CASE Device(r)
  <2>1. reqs[r].project \in Nat /\ Call[r].device \in DeviceIds
    BY <1>0 DEF Frame, Calls, ProjectIds
  <2>2. CanUpsertDevice(Call[r].device, reqs[r].project)
          => \E d \in DeviceIds, p \in Nat : CanUpsertDevice(d, p) /\ UpsertDevice(d, p)
    BY <1>3, <2>1 DEF Device
  <2> QED
    BY <1>3, <2>2 DEF Device, StoreNext
<1>4. CASE CreateAppUser(r)
  <2>1. reqs[r].project \in Nat /\ Call[r].anonymous_id \in AnonymousIds
    BY <1>0 DEF Frame, Calls, ProjectIds
  <2>2. CanInsertAppUser(reqs[r].project, Call[r].anonymous_id)
          => \E p \in Nat, a \in AnonymousIds, id \in UserIds :
               CanInsertAppUser(p, a) /\ InsertAppUser(p, a, id)
    BY <1>4, <2>1 DEF CreateAppUser
  <2> QED
    BY <1>4, <2>2 DEF CreateAppUser, StoreNext
<1>5. CASE LinkDevice(r)
  <2>1. reqs[r].user \in Nat /\ Call[r].device \in DeviceIds
    BY <1>0 DEF Frame, Calls, UserIds
  <2>2. CanLinkDevice(Call[r].device, reqs[r].user)
          => \E d \in DeviceIds, u \in Nat : CanLinkDevice(d, u) /\ LinkDeviceToUser(d, u)
    BY <1>5, <2>1 DEF LinkDevice
  <2> QED
    BY <1>5, <2>2 DEF LinkDevice, StoreNext
<1> QED
  BY <1>1, <1>2, <1>3, <1>4, <1>5
     DEF TrackingStep, Authenticate, Refuse, BadRequest, InternalError, TrackStart,
         SkipEvent, LoseProperties, TrackDone, LookupAppUser

\* So does a step of a console request.
LEMMA ProjectsIsStatement ==
    ASSUME Typed, NEW a \in Admins, AdminStep(a)
    PROVE  StoreNext \/ UNCHANGED storeVars
<1>1. admin[a].id \in Nat /\ admin[a].days \in Int /\ admin[a].active \in BOOLEAN
  BY DEF Typed, TypeOK, ProjectsTypeOK, AdminFrame
<1>2. \A p \in Ids(projects) : p \in Nat
  BY DEF Typed, TypeOK, StoreTypeOK, ProjectRow, ProjectIds, Ids
<1>3. \A t \in project_tokens : t.id \in Nat
  BY DEF Typed, TypeOK, StoreTypeOK, TokenRow, TokenIds
<1>4. CASE CreateProject(a)
  BY <1>4 DEF CreateProject, StoreNext
<1>5. CASE RemoveProject(a)
  BY <1>2, <1>5 DEF RemoveProject, StoreNext
<1>6. CASE CreateToken(a)
  BY <1>2, <1>6 DEF CreateToken, StoreNext
<1>7. CASE DeleteToken(a)
  BY <1>3, <1>7 DEF DeleteToken, StoreNext
<1>8. CASE WriteProject(a)
  BY <1>1, <1>8 DEF WriteProject, StoreNext
<1>9. CASE WriteToken(a)
  BY <1>1, <1>9 DEF WriteToken, StoreNext
<1> QED
  BY <1>4, <1>5, <1>6, <1>7, <1>8, <1>9 DEF AdminStep, ReadProject, ReadToken, WriteFails

\* And a step of the retention loop.
LEMMA RetentionIsStatement ==
    ASSUME Typed, RetentionNext
    PROVE  StoreNext \/ UNCHANGED storeVars
<1>1. CASE Tick
  <2>1. now' \in Nat
    BY <1>1 DEF Tick, Typed, TypeOK, StoreTypeOK
  <2> QED
    BY <1>1, <2>1 DEF Tick, StoreNext
<1>2. CASE StartSweep \/ StartFails
  BY <1>2 DEF StartSweep, StartFails
<1>3. CASE SweepStep
  <2>1. \A row \in sweep : row.id \in Nat /\ row.retention_days \in Int
    BY DEF Typed, TypeOK, RetentionTypeOK, ProjectRow, ProjectIds
  <2> QED
    BY <1>3, <2>1 DEF SweepStep, CleanupProject, CleanupFails, StoreNext
<1> QED
  BY <1>1, <1>2, <1>3 DEF RetentionNext

\* Every step of the server is one statement of the store, or none.
LEMMA StepIsStatement ==
    Typed /\ [Next]_vars => StoreNext \/ UNCHANGED storeVars
BY TrackingIsStatement, ProjectsIsStatement, RetentionIsStatement
   DEF Next, vars, TrackingNext, ProjectsNext, Crash
-----------------------------------------------------------------------------
\* A frame that is well typed and inside the batch b.
InLoop(f, b) ==
    /\ f \in Frame
    /\ f.accepted \subseteq 1 .. (f.i - 1)
    /\ f.pc \in {"insert", "props"} => f.i \in 1 .. (Len(b) + 1)
    /\ f.pc = "props" => f.i <= Len(b)

LEMMA FramesInLoop ==
    /\ Typed => reqs \in [Requests -> Frame]
                /\ \A r \in Requests : InLoop(reqs[r], Call[r].batch)
    /\ reqs' \in [Requests -> Frame] /\ (\A r \in Requests : InLoop(reqs'[r], Call[r].batch))
         => TrackingTypeOK' /\ LoopInBatch'
BY DEF Typed, TypeOK, TrackingTypeOK, LoopInBatch, InLoop

\* The step of one request that leaves its frame well typed and in the batch.
LEMMA OneFrame ==
    ASSUME Typed, NEW r \in Requests, NEW f, InLoop(f, Call[r].batch),
           reqs' = [reqs EXCEPT ![r] = f]
    PROVE  TrackingTypeOK' /\ LoopInBatch'
BY FramesInLoop DEF InLoop

\* The answer to a request, and every step that only moves it on.
LEMMA GotoTyped ==
    ASSUME Typed, NEW r \in Requests,
           NEW pc \in {"error", "ok", "create"}, Goto(r, pc)
    PROVE  TrackingTypeOK' /\ LoopInBatch'
<1> DEFINE f == [reqs[r] EXCEPT !.pc = pc]
<1>1. InLoop(reqs[r], Call[r].batch)
  BY FramesInLoop
<1>2. InLoop(f, Call[r].batch)
  BY <1>1 DEF InLoop, Frame, Answered
<1>3. reqs' = [reqs EXCEPT ![r] = f]
  BY DEF Goto
<1> HIDE DEF f
<1> QED
  BY <1>2, <1>3, OneFrame

\* Going on to the next event of the batch.
LEMMA NextEventTyped ==
    ASSUME Typed, NEW r \in Requests, NEW counted \in BOOLEAN, NextEvent(r, counted),
           AtEvent(r) \/ reqs[r].pc = "props"
    PROVE  TrackingTypeOK' /\ LoopInBatch'
<1> DEFINE n == {j \in {reqs[r].i} : counted}
           f == [reqs[r] EXCEPT !.pc = "insert", !.i = @ + 1, !.accepted = @ \cup n]
<1>1. InLoop(reqs[r], Call[r].batch) /\ reqs[r].i \in 1 .. Len(Call[r].batch)
  BY FramesInLoop, CurrentType
<1>2. Len(Call[r].batch) \in Nat
  BY CallAssumption DEF Calls
<1>5. reqs' = [reqs EXCEPT ![r] = f]
  BY DEF NextEvent
<1>6. n \subseteq {reqs[r].i}
  OBVIOUS
<1> HIDE DEF n
<1>3. f \in Frame
  <2>1. reqs[r].accepted \cup n \in SUBSET Nat /\ reqs[r].i + 1 \in Nat
    BY <1>1, <1>6 DEF InLoop, Frame
  <2>2. reqs[r] \in Frame
    BY <1>1 DEF InLoop
  <2> QED
    BY <2>1, <2>2 DEF Frame
<1>4. f.i = reqs[r].i + 1 /\ f.pc = "insert" /\ f.accepted = reqs[r].accepted \cup n
  BY <1>1 DEF InLoop, Frame
<1> HIDE DEF f
<1>7. InLoop(f, Call[r].batch)
  BY <1>1, <1>2, <1>3, <1>4, <1>6 DEF InLoop
<1> QED
  BY <1>5, <1>7, OneFrame

\* The ids that requests hold are ids of rows there were.
LEMMA ReadTypes ==
    ASSUME Typed, NEW r \in Requests
    PROVE  /\ \A row \in project_tokens : row.project_id \in ProjectIds
           /\ \A row \in app_users : row.id \in UserIds
           /\ EventUsers(r) \subseteq UserIds \cup {Null}
<1>1. Call[r].user \in UserIds \cup {Null}
  BY CallAssumption DEF Calls
<1>2. \A row \in devices : row.user_id \in UserIds \cup {Null}
  BY DEF Typed, TypeOK, StoreTypeOK, DeviceRow
<1> QED
  BY <1>1, <1>2 DEF EventUsers, Typed, TypeOK, StoreTypeOK, TokenRow, AppUserRow

\* How the frame of a request goes on when it has inserted an event.
LEMMA TrackEventGoesOn ==
    ASSUME NEW r \in Requests, TrackEvent(r)
    PROVE  NextEvent(r, TRUE) \/ NextEvent(r, FALSE) \/ Goto(r, "props")
<1>1. PICK outcome \in Outcomes :
         IF outcome = "error" THEN NextEvent(r, FALSE)
         ELSE IF Current(r).body = "plain" THEN NextEvent(r, TRUE) ELSE Goto(r, "props")
  BY Zenon DEF TrackEvent
<1> QED
  BY <1>1, Zenon

LEMMA TrackingStepTyped ==
    ASSUME Typed, NEW r \in Requests, TrackingStep(r)
    PROVE  TrackingTypeOK' /\ LoopInBatch'
<1>0. InLoop(reqs[r], Call[r].batch) /\ Len(Call[r].batch) \in Nat
      /\ Call[r].kind \in {"track", "device", "identify"}
  BY FramesInLoop, CallAssumption DEF Calls
<1>1. CASE Authenticate(r)
  <2> PICK row \in project_tokens :
         reqs' = [reqs EXCEPT ![r].pc = Call[r].kind, ![r].project = row.project_id]
    BY <1>1 DEF Authenticate
  <2> DEFINE f == [reqs[r] EXCEPT !.pc = Call[r].kind, !.project = row.project_id]
  <2>1. InLoop(f, Call[r].batch)
    BY <1>0, ReadTypes DEF InLoop, Frame
  <2>2. reqs' = [reqs EXCEPT ![r] = f]
    OBVIOUS
  <2> HIDE DEF f
  <2> QED
    BY <2>1, <2>2, OneFrame
<1>2. CASE Refuse(r) \/ BadRequest(r) \/ InternalError(r) \/ TrackDone(r) \/ Device(r) \/ LinkDevice(r)
  BY <1>2, GotoTyped
     DEF Refuse, BadRequest, InternalError, TrackDone, Device, LinkDevice, Outcomes
<1>3. CASE TrackStart(r)
  <2> PICK u \in EventUsers(r) :
         reqs' = [reqs EXCEPT ![r].pc = "insert", ![r].user = u, ![r].i = 1,
                              ![r].accepted = {}]
    BY <1>3 DEF TrackStart
  <2> DEFINE f == [reqs[r] EXCEPT !.pc = "insert", !.user = u, !.i = 1, !.accepted = {}]
  <2>1. reqs[r] \in Frame /\ u \in UserIds \cup {Null}
    BY <1>0, ReadTypes DEF InLoop
  <2>2. f \in Frame
    <3>1. {} \in SUBSET Nat /\ 1 \in Nat
      OBVIOUS
    <3> QED
      BY <2>1, <3>1 DEF Frame
  <2>3. f.pc = "insert" /\ f.i = 1 /\ f.accepted = {}
    BY <2>1 DEF Frame
  <2>4. reqs' = [reqs EXCEPT ![r] = f]
    OBVIOUS
  <2> HIDE DEF f
  <2>5. InLoop(f, Call[r].batch)
    BY <1>0, <2>2, <2>3 DEF InLoop
  <2> QED
    BY <2>4, <2>5, OneFrame
<1>4. CASE SkipEvent(r) \/ TrackProperties(r) \/ LoseProperties(r)
  BY <1>4, NextEventTyped DEF SkipEvent, TrackProperties, LoseProperties
<1>5. CASE TrackEvent(r)
  <2>1. CASE NextEvent(r, TRUE) \/ NextEvent(r, FALSE)
    BY <1>5, <2>1, NextEventTyped DEF TrackEvent
  <2>2. CASE Goto(r, "props")
    <3> DEFINE f == [reqs[r] EXCEPT !.pc = "props"]
    <3>1. reqs[r].i \in 1 .. Len(Call[r].batch)
      BY <1>5, CurrentType DEF TrackEvent
    <3>2. InLoop(f, Call[r].batch)
      BY <1>0, <3>1 DEF InLoop, Frame
    <3>3. reqs' = [reqs EXCEPT ![r] = f]
      BY <2>2 DEF Goto
    <3> HIDE DEF f
    <3> QED
      BY <3>2, <3>3, OneFrame
  <2> QED
    BY <1>5, <2>1, <2>2, TrackEventGoesOn
<1>6. CASE LookupAppUser(r)
  <2>1. CASE Goto(r, "create")
    BY <2>1, GotoTyped
  <2>2. ASSUME NEW row \in KnownUsers(r),
               reqs' = [reqs EXCEPT ![r].pc = "link", ![r].user = row.id]
        PROVE  TrackingTypeOK' /\ LoopInBatch'
    <3> DEFINE f == [reqs[r] EXCEPT !.pc = "link", !.user = row.id]
    <3>1. row.id \in UserIds
      BY ReadTypes DEF KnownUsers
    <3>2. InLoop(f, Call[r].batch)
      BY <1>0, <3>1 DEF InLoop, Frame
    <3>3. reqs' = [reqs EXCEPT ![r] = f]
      BY <2>2
    <3> HIDE DEF f
    <3> QED
      BY <3>2, <3>3, OneFrame
  <2> QED
    BY <1>6, <2>1, <2>2 DEF LookupAppUser
<1>7. CASE CreateAppUser(r)
  <2>1. CASE Goto(r, "error")
    BY <2>1, GotoTyped
  <2>2. ASSUME NEW id \in UserIds,
               reqs' = [reqs EXCEPT ![r].pc = "link", ![r].user = id]
        PROVE  TrackingTypeOK' /\ LoopInBatch'
    <3> DEFINE f == [reqs[r] EXCEPT !.pc = "link", !.user = id]
    <3>1. InLoop(f, Call[r].batch)
      BY <1>0 DEF InLoop, Frame
    <3>2. reqs' = [reqs EXCEPT ![r] = f]
      BY <2>2
    <3> HIDE DEF f
    <3> QED
      BY <3>1, <3>2, OneFrame
  <2> QED
    BY <1>7, <2>1, <2>2 DEF CreateAppUser
<1> QED
  BY <1>1, <1>2, <1>3, <1>4, <1>5, <1>6, <1>7 DEF TrackingStep

LEMMA WrittenActiveType ==
    ASSUME NEW row \in TokenRow, NEW op \in {"update", "disable", "enable"}
    PROVE  WrittenActive(op, row) \in BOOLEAN
<1>1. row.active \in BOOLEAN
  BY DEF TokenRow
<1>2. CASE op = "update"
  BY <1>1, <1>2 DEF WrittenActive
<1>3. CASE op = "disable"
  BY <1>3 DEF WrittenActive
<1>4. CASE op = "enable"
  BY <1>4 DEF WrittenActive
<1> QED
  BY <1>2, <1>3, <1>4

LEMMA AdminStepTyped ==
    ASSUME Typed, NEW a \in Admins, AdminStep(a)
    PROVE  ProjectsTypeOK'
<1> USE DEF ProjectsTypeOK
<1>0. admin \in [Admins -> AdminFrame]
  BY DEF Typed, TypeOK
<1>5. IdleAdmin \in AdminFrame
  BY DEF IdleAdmin, AdminFrame
<1>6. \A row \in projects : row.id \in Nat /\ row.retention_days \in Int
  BY DEF Typed, TypeOK, StoreTypeOK, ProjectRow, ProjectIds
<1>7. \A row \in project_tokens : row \in TokenRow /\ row.id \in Nat
  BY DEF Typed, TypeOK, StoreTypeOK, TokenRow, TokenIds
<1>1. CASE Done(a)
  BY <1>0, <1>1, <1>5 DEF Done
<1>2. CASE ReadProject(a)
  <2> PICK row \in projects, days \in RetentionChoices : \E written \in {days, row.retention_days} :
         admin' = [admin EXCEPT ![a] = [op |-> "update project", id |-> row.id,
                                        days |-> written, active |-> FALSE]]
    BY <1>2 DEF ReadProject
  <2> PICK written \in {days, row.retention_days} :
         admin' = [admin EXCEPT ![a] = [op |-> "update project", id |-> row.id,
                                        days |-> written, active |-> FALSE]]
    OBVIOUS
  <2>1. row.id \in Nat /\ written \in Int
    BY <1>6, AdminAssumption
  <2>2. [op |-> "update project", id |-> row.id, days |-> written, active |-> FALSE] \in AdminFrame
    BY <2>1 DEF AdminFrame
  <2> QED
    BY <1>0, <2>2
<1>3. CASE ReadToken(a)
  <2>1. \E row \in project_tokens, op \in {"update", "disable", "enable"}, active \in BOOLEAN :
          admin' = [admin EXCEPT ![a] = [op |-> op, id |-> row.id, days |-> 0,
                                         active |-> active]]
    BY <1>3, <1>7, WrittenActiveType, Zenon DEF ReadToken
  <2> PICK row \in project_tokens, op \in {"update", "disable", "enable"}, active \in BOOLEAN :
         admin' = [admin EXCEPT ![a] = [op |-> op, id |-> row.id, days |-> 0,
                                        active |-> active]]
    BY <2>1
  <2>2. [op |-> op, id |-> row.id, days |-> 0, active |-> active] \in AdminFrame
    <3>1. op \in {"idle", "update project", "update", "disable", "enable"}
      BY Zenon
    <3>2. row.id \in Nat /\ 0 \in Int
      BY <1>7
    <3> QED
      BY <3>1, <3>2, Zenon DEF AdminFrame
  <2> QED
    BY <1>0, <2>2
<1>4. CASE UNCHANGED admin
  BY <1>0, <1>4
<1> QED
  BY <1>1, <1>2, <1>3, <1>4
     DEF AdminStep, CreateProject, RemoveProject, CreateToken, DeleteToken, WriteProject,
         WriteToken, WriteFails

LEMMA RetentionStepTyped ==
    ASSUME Typed, RetentionNext
    PROVE  RetentionTypeOK'
BY DEF Typed, TypeOK, StoreTypeOK, RetentionTypeOK, RetentionNext, Tick, StartSweep, WithRetention,
       StartFails, SweepStep, CleanupProject, CleanupFails

LEMMA InitTyped == Init => Typed
<1> SUFFICES ASSUME Init PROVE Typed
  OBVIOUS
<1>1. StoreTypeOK
  BY StoreInitType DEF Init
<1>2. TrackingTypeOK /\ LoopInBatch
  BY DEF Init, TrackingInit, TrackingTypeOK, Frame, LoopInBatch
<1>3. ProjectsTypeOK
  BY DEF Init, ProjectsInit, ProjectsTypeOK, AdminFrame, IdleAdmin
<1>4. RetentionTypeOK
  BY DEF Init, RetentionInit, RetentionTypeOK
<1> QED
  BY <1>1, <1>2, <1>3, <1>4 DEF Typed, TypeOK

LEMMA StepTyped == Typed /\ [Next]_vars => Typed'
<1> SUFFICES ASSUME Typed, [Next]_vars PROVE Typed'
  OBVIOUS
<1>1. StoreTypeOK'
  <2>1. CASE StoreNext
    BY <2>1, StoreStepType DEF Typed, TypeOK
  <2>2. CASE UNCHANGED storeVars
    BY <2>2 DEF storeVars, tables, Typed, TypeOK, StoreTypeOK
  <2> QED
    BY <2>1, <2>2, StepIsStatement
<1>2. CASE TrackingNext /\ UNCHANGED <<admin, due, sweep>>
  BY <1>1, <1>2, TrackingStepTyped
     DEF TrackingNext, Typed, TypeOK, ProjectsTypeOK, RetentionTypeOK
<1>3. CASE ProjectsNext /\ UNCHANGED <<reqs, due, sweep>>
  BY <1>1, <1>3, AdminStepTyped
     DEF ProjectsNext, Typed, TypeOK, TrackingTypeOK, LoopInBatch, RetentionTypeOK
<1>4. CASE RetentionNext /\ UNCHANGED <<reqs, admin>>
  BY <1>1, <1>4, RetentionStepTyped
     DEF Typed, TypeOK, TrackingTypeOK, LoopInBatch, ProjectsTypeOK
<1>5. CASE Crash
  <2>1. TrackingTypeOK' /\ LoopInBatch'
    <3>1. ASSUME NEW r \in Requests PROVE InLoop(reqs'[r], Call[r].batch)
      BY <1>5, FramesInLoop DEF Crash, DropRequests, InLoop, Frame, Answered
    <3>2. reqs' \in [Requests -> Frame]
      BY <1>5, <3>1 DEF Crash, DropRequests, InLoop
    <3> QED
      BY <3>1, <3>2, FramesInLoop
  <2>2. ProjectsTypeOK' /\ RetentionTypeOK'
    BY <1>5 DEF Crash, ProjectsTypeOK, IdleAdmin, AdminFrame, RestartSweeper, RetentionTypeOK
  <2> QED
    BY <1>1, <2>1, <2>2 DEF Typed, TypeOK
<1>6. CASE UNCHANGED vars
  BY <1>1, <1>6 DEF vars, Typed, TypeOK, TrackingTypeOK, LoopInBatch, ProjectsTypeOK,
     RetentionTypeOK
<1> QED
  BY <1>2, <1>3, <1>4, <1>5, <1>6 DEF Next

\* Every table, frame and loop variable keeps its type: no handler stores or
\* holds an id, a reference or a position that could not be one.
THEOREM TypeCorrect == Spec => []TypeOK
<1>1. Init => Typed
  BY InitTyped
<1>2. Typed /\ [Next]_vars => Typed'
  BY StepTyped
<1>3. Typed => TypeOK
  BY DEF Typed
<1> QED
  BY <1>1, <1>2, <1>3, PTL DEF Spec

LEMMA AlwaysTyped == Spec => []Typed
<1>1. Init => Typed
  BY InitTyped
<1>2. Typed /\ [Next]_vars => Typed'
  BY StepTyped
<1> QED
  BY <1>1, <1>2, PTL DEF Spec

-----------------------------------------------------------------------------
\* No interleaving of requests, console operations, sweeps and crashes leaves a
\* reference that dangles, or two rows with one key, whichever database issues
\* the ids.
LEMMA InitStoreInv == Init => StoreInv
BY StoreInitInv DEF Init

LEMMA StepStoreInv == Typed /\ StoreInv /\ [Next]_vars => StoreInv'
<1> SUFFICES ASSUME Typed, StoreInv, [Next]_vars PROVE StoreInv'
  OBVIOUS
<1>1. CASE StoreNext
  BY <1>1, StoreStepInv DEF Typed, TypeOK
<1>2. CASE UNCHANGED storeVars
  BY <1>2 DEF storeVars, tables, StoreInv, ReferentialIntegrity, UniqueKeys, IsKeyOf, IssuedUpwards
<1> QED
  BY <1>1, <1>2, StepIsStatement

LEMMA AlwaysStoreInv == Spec => []StoreInv
<1>1. Init => StoreInv
  BY InitStoreInv
<1>2. Typed /\ StoreInv /\ [Next]_vars => StoreInv'
  BY StepStoreInv
<1> QED
  BY <1>1, <1>2, AlwaysTyped, PTL DEF Spec

\* No row ever refers to one that is gone: what a deleted project takes with it
\* and what the requests still in flight insert agree at every moment.
THEOREM ReferencesHold == Spec => []ReferentialIntegrity
<1>1. StoreInv => ReferentialIntegrity
  BY DEF StoreInv
<1> QED
  BY <1>1, AlwaysStoreInv, PTL

\* Keys are unique, for ids that SQLite reuses as for those PostgreSQL issues, and
\* GetOrCreateAppUser never leaves two users with one anonymous id.
THEOREM KeysHold == Spec => []UniqueKeys
<1>1. StoreInv => UniqueKeys
  BY DEF StoreInv
<1> QED
  BY <1>1, AlwaysStoreInv, PTL

-----------------------------------------------------------------------------
\* What one statement does to the bindings of token strings.
LEMMA StatementKeepsBindings ==
    ASSUME StoreTypeOK, IssuedUpwards, StoreNext,
           NEW token \in TokenIds, token <= serial.minted
    PROVE  Bound(token)' \subseteq Bound(token)
<1> SUFFICES ASSUME NEW x \in project_tokens', x.token = token
             PROVE  \E row \in project_tokens : row.token = token /\ row.project_id = x.project_id
  BY DEF Bound
<1>1. CASE x \in project_tokens
  BY <1>1
<1>2. CASE \E p \in Nat : InsertProjectToken(p)
  <2>1. x \in project_tokens \/ x.token = serial.minted + 1
    BY <1>2 DEF InsertProjectToken, NewToken
  <2>2. token # serial.minted + 1
    BY DEF StoreTypeOK, TokenIds
  <2> QED
    BY <2>1, <2>2
<1>3. CASE \E id \in Nat, active \in BOOLEAN : UpdateProjectToken(id, active)
  <2> PICK id \in Nat, active \in BOOLEAN : UpdateProjectToken(id, active)
    BY <1>3
  <2> DEFINE new(row) == IF row.id = id THEN [row EXCEPT !.active = active] ELSE row
  <2>1. \A row \in project_tokens : new(row).token = row.token /\ new(row).project_id = row.project_id
    BY DEF StoreTypeOK, TokenRow
  <2>2. PICK row \in project_tokens : x = new(row)
    BY DEF UpdateProjectToken
  <2> HIDE DEF new
  <2> QED
    BY <2>1, <2>2
<1>4. CASE project_tokens' \subseteq project_tokens
  BY <1>4
<1> QED
  BY <1>2, <1>3, <1>4
     DEF StoreNext, InsertProject, UpdateProject, DeleteProject, DeleteProjectToken,
         UpsertDevice, LinkDeviceToUser, InsertAppUser, InsertEvent, InsertEventProperties,
         CleanupEvents, tables

\* A token string that was ever issued opens the project it was issued for or
\* none, and a write-back that was in flight when it was deleted does not bring
\* it back, whatever ids are reused.
THEOREM TokenBindingsFinal == Spec => TokenBindingIsFinal
<1>1. Typed /\ StoreInv /\ [Next]_vars =>
        \A token \in TokenIds : token <= serial.minted => Bound(token)' \subseteq Bound(token)
  <2> SUFFICES ASSUME Typed, StoreInv, [Next]_vars,
                      NEW token \in TokenIds, token <= serial.minted
               PROVE  Bound(token)' \subseteq Bound(token)
    OBVIOUS
  <2>1. CASE StoreNext
    BY <2>1, StatementKeepsBindings DEF Typed, TypeOK, StoreInv
  <2>2. CASE UNCHANGED storeVars
    BY <2>2 DEF storeVars, tables, Bound
  <2> QED
    BY <2>1, <2>2, StepIsStatement
<1> QED
  BY <1>1, AlwaysTyped, AlwaysStoreInv, PTL DEF Spec, TokenBindingIsFinal

-----------------------------------------------------------------------------
\* An event that is not deleted stays the event of the request that stored it.
LEMMA StatementKeepsEvents ==
    ASSUME StoreTypeOK, StoreNext
    PROVE  /\ purged \subseteq purged'
           /\ \A e \in events : [id |-> e.id, by |-> e.by] \notin purged' =>
                \E f \in events' : f.id = e.id /\ f.by = e.by
<1>1. CASE \E p \in Nat : DeleteProject(p)
  <2> PICK p \in Nat : DeleteProject(p)
    BY <1>1
  <2>1. purged' = purged \cup Arrivals(GoneEvents(p))
    BY DEF DeleteProject, DeleteEvents
  <2>2. ASSUME NEW e \in events, [id |-> e.id, by |-> e.by] \notin purged'
        PROVE  \E f \in events' : f.id = e.id /\ f.by = e.by
    <3>1. e \notin GoneEvents(p)
      BY <2>1, <2>2 DEF Arrivals
    <3>2. Unlinked(e, GoneUsers(p)) \in events'
      BY <3>1 DEF DeleteProject
    <3>3. e \in EventRow
      BY DEF StoreTypeOK
    <3> QED
      BY <3>2, <3>3, UnlinkedEvent
  <2> QED
    BY <2>1, <2>2
<1>2. CASE \E p \in Nat, days \in Int : CleanupEvents(p, days)
  BY <1>2 DEF CleanupEvents, DeleteEvents, Arrivals
<1>3. CASE purged' = purged /\ events \subseteq events'
  BY <1>3
<1> QED
  BY <1>1, <1>2, <1>3
     DEF StoreNext, InsertProject, UpdateProject, InsertProjectToken, UpdateProjectToken,
         DeleteProjectToken, UpsertDevice, LinkDeviceToUser, InsertAppUser, InsertEvent,
         InsertEventProperties, tables

LEMMA StepKeepsEvents ==
    ASSUME Typed, [Next]_vars
    PROVE  /\ purged \subseteq purged'
           /\ \A id, r : Deleted(id, r) => Deleted(id, r)'
           /\ \A id, r : StoredBy(id, r) => StoredBy(id, r)' \/ Deleted(id, r)'
<1>1. CASE StoreNext
  BY <1>1, StatementKeepsEvents DEF Typed, TypeOK, StoredBy, Deleted
<1>2. CASE UNCHANGED storeVars
  BY <1>2 DEF storeVars, tables, StoredBy, Deleted
<1> QED
  BY <1>1, <1>2, StepIsStatement

\* Only a step that inserts an event adds to what a request claims.
LEMMA ClaimsOfOther ==
    ASSUME Typed, NEW r \in Requests, NEW f, reqs' = [reqs EXCEPT ![r] = f],
           NEW s \in Requests, s # r
    PROVE  Claims(s)' = Claims(s)
BY DEF Claims, Typed, TypeOK, TrackingTypeOK

LEMMA OtherFrames ==
    ASSUME Typed, NEW r \in Requests, TrackingStep(r)
    PROVE  \A s \in Requests \ {r} : reqs'[s] = reqs[s]
<1>0. reqs \in [Requests -> Frame]
  BY DEF Typed, TypeOK, TrackingTypeOK
<1>1. \A s \in Requests \ {r} : reqs'[s] = reqs[s]
  BY <1>0 DEF TrackingStep, Authenticate, Refuse, BadRequest, InternalError, TrackStart,
       SkipEvent, TrackEvent, TrackProperties, LoseProperties, TrackDone, Device,
       LookupAppUser, CreateAppUser, LinkDevice, Goto, NextEvent
<1> QED
  BY <1>1

LEMMA ClaimsOfStep ==
    ASSUME Typed, NEW r \in Requests, TrackingStep(r)
    PROVE  /\ \A s \in Requests \ {r} : Claims(s)' = Claims(s)
           /\ \/ Claims(r)' \subseteq Claims(r)
              \/ TrackEvent(r) /\ Claims(r)' \subseteq Claims(r) \cup {reqs[r].i}
<1>0. reqs \in [Requests -> Frame]
  BY DEF Typed, TypeOK, TrackingTypeOK
<1>1. \A s \in Requests \ {r} : reqs'[s] = reqs[s]
  BY OtherFrames
<1>2. \A s \in Requests \ {r} : Claims(s)' = Claims(s)
  BY <1>1 DEF Claims
<1>3. ASSUME NEW pc, Goto(r, pc)
      PROVE  /\ reqs'[r].accepted = reqs[r].accepted
             /\ reqs'[r].i = reqs[r].i /\ reqs'[r].pc = pc
  BY <1>0, <1>3 DEF Goto, Frame
<1>4. ASSUME NEW counted \in BOOLEAN, NextEvent(r, counted)
      PROVE  /\ reqs'[r].pc = "insert"
             /\ \A j \in reqs'[r].accepted : j \in reqs[r].accepted \/ (j = reqs[r].i /\ counted)
  BY <1>0, <1>4 DEF NextEvent, Frame
<1>5. ASSUME NEW j \in Claims(r)'
      PROVE  j \in Claims(r) \/ (TrackEvent(r) /\ j = reqs[r].i)
  <2>0. j \in reqs'[r].accepted \/ (j = reqs'[r].i /\ reqs'[r].pc = "props")
    BY <1>5 DEF Claims
  <2>1. CASE SkipEvent(r)
    <3>1. NextEvent(r, FALSE)
      BY <2>1 DEF SkipEvent
    <3>2. /\ reqs'[r].pc = "insert"
          /\ \A k \in reqs'[r].accepted : k \in reqs[r].accepted \/ (k = reqs[r].i /\ FALSE)
      BY <3>1, <1>4, Zenon
    <3> QED
      BY <2>0, <3>2 DEF Claims
  <2>2. CASE TrackEvent(r) /\ (NextEvent(r, TRUE) \/ NextEvent(r, FALSE))
    BY <1>4, <2>0, <2>2 DEF Claims
  <2>3. CASE TrackEvent(r) /\ Goto(r, "props")
    BY <1>3, <2>0, <2>3 DEF Claims
  <2>4. CASE reqs[r].pc = "props" /\ NextEvent(r, TRUE)
    BY <1>4, <2>0, <2>4 DEF Claims
  <2>5. CASE \E pc \in {"error", "ok", "create"} : Goto(r, pc)
    BY <1>3, <2>0, <2>5 DEF Claims
  <2>6. CASE /\ reqs'[r].pc \in {"track", "device", "identify", "link", "insert"}
             /\ reqs'[r].accepted \subseteq reqs[r].accepted
    BY <2>0, <2>6 DEF Claims
  <2>7. CASE Authenticate(r)
    <3>1. Call[r].kind \in {"track", "device", "identify"}
      BY CallAssumption DEF Calls
    <3>2. reqs'[r].pc = Call[r].kind /\ reqs'[r].accepted = reqs[r].accepted
      BY <1>0, <2>7 DEF Authenticate, Frame
    <3> QED
      BY <2>6, <3>1, <3>2
  <2>8. CASE TrackStart(r)
    BY <1>0, <2>6, <2>8 DEF TrackStart, Frame
  <2>9. CASE LookupAppUser(r)
    BY <1>0, <2>5, <2>6, <2>9 DEF LookupAppUser, Frame
  <2>10. CASE CreateAppUser(r)
    BY <1>0, <2>5, <2>6, <2>10 DEF CreateAppUser, Frame
  <2> QED
    BY <2>1, <2>2, <2>3, <2>4, <2>5, <2>7, <2>8, <2>9, <2>10, TrackEventGoesOn
       DEF TrackingStep, Refuse, BadRequest, InternalError, TrackProperties,
           LoseProperties, TrackDone, Device, LinkDevice, Outcomes
<1> QED
  BY <1>2, <1>5

\* Every other step leaves the claims as they are, or (a crash) drops some.
LEMMA ClaimsOfRest ==
    ASSUME Typed, [Next]_vars, ~ \E r \in Requests : TrackingStep(r), NEW s \in Requests
    PROVE  Claims(s)' \subseteq Claims(s)
<1>1. CASE UNCHANGED reqs
  BY <1>1 DEF Claims
<1>2. CASE Crash
  <2>1. reqs'[s] = reqs[s] \/ reqs'[s] = [reqs[s] EXCEPT !.pc = "lost"]
    BY <1>2 DEF Crash, DropRequests
  <2> QED
    BY <2>1 DEF Claims, Typed, TypeOK, TrackingTypeOK, Frame
<1> QED
  BY <1>1, <1>2 DEF Next, vars, TrackingNext

\* The first part of ExactlyOnce: what is claimed was stored by who claims it.
ClaimsStored ==
    \A r \in Requests : \A i \in Claims(r) :
        StoredBy(EventIdAt(r, i), r) \/ Deleted(EventIdAt(r, i), r)

\* The second part: nothing is claimed twice, unless it was deleted in between.
ClaimsUnique ==
    \A r, s \in Requests : \A i \in Claims(r), j \in Claims(s) :
        EventIdAt(s, j) = EventIdAt(r, i) =>
          (s = r /\ j = i) \/ Deleted(EventIdAt(r, i), r) \/ Deleted(EventIdAt(s, j), s)

LEMMA PartsMakeExactlyOnce == ClaimsStored' /\ ClaimsUnique' => ExactlyOnce'
BY DEF ExactlyOnce, ClaimsStored, ClaimsUnique

\* The step that inserts an event finds no row with its id: so nobody claims it.
LEMMA TrackEventClaims ==
    ASSUME Typed, ExactlyOnce, NEW r \in Requests, TrackEvent(r), TrackingStep(r), [Next]_vars
    PROVE  ExactlyOnce'
<1>0. PICK id : id = EventIdAt(r, reqs[r].i)
  OBVIOUS
<1>1. /\ id \notin Ids(events)
      /\ purged' = purged
      /\ StoredBy(id, r)'
  <2>1. /\ CanInsertEvent(id, reqs[r].project, Call[r].device, reqs[r].user)
        /\ InsertEvent(id, reqs[r].project, Call[r].device, reqs[r].user, r)
    <3>1. /\ Insertable(r)
          /\ InsertEvent(Current(r).id, reqs[r].project, Call[r].device, reqs[r].user, r)
      BY Zenon DEF TrackEvent
    <3>2. Current(r).id = id
      BY <1>0 DEF Current, EventIdAt
    <3>3. CanInsertEvent(Current(r).id, reqs[r].project, Call[r].device, reqs[r].user)
      BY <3>1 DEF Insertable
    <3> QED
      BY <3>1, <3>2, <3>3, Zenon
  <2>2. id \notin Ids(events)
    BY <2>1 DEF CanInsertEvent
  <2>3. purged' = purged
    BY <2>1 DEF InsertEvent
  <2>4. StoredBy(id, r)'
    <3> DEFINE e == [id |-> id, project_id |-> reqs[r].project, device_id |-> Call[r].device,
                     user_id |-> reqs[r].user, created_at |-> now, by |-> r]
    <3>1. e \in events'
      BY <2>1 DEF InsertEvent
    <3>2. e.id = id /\ e.by = r
      OBVIOUS
    <3> HIDE DEF e
    <3>3. \E f \in events' : f.id = id /\ f.by = r
      BY <3>1, <3>2
    <3> QED
      BY <3>3 DEF StoredBy
  <2> QED
    BY <2>2, <2>3, <2>4
<1>2. \A s \in Requests : \A j \in Claims(s) :
         EventIdAt(s, j) = id => Deleted(EventIdAt(s, j), s)'
  <2>1. \A s : ~ StoredBy(id, s)
    BY <1>1 DEF StoredBy, Ids
  <2>2. \A s \in Requests : Deleted(id, s) => Deleted(id, s)'
    BY <1>1 DEF Deleted
  <2> QED
    BY <2>1, <2>2 DEF ExactlyOnce
<1>3. \A s \in Requests : \A j \in Claims(s)' : j \in Claims(s) \/ (s = r /\ j = reqs[r].i)
  BY ClaimsOfStep
<1>4. \A s \in Requests : \A j : EventIdAt(s, j)' = EventIdAt(s, j)
  BY DEF EventIdAt
<1>5. ClaimsStored'
  <2> SUFFICES ASSUME NEW s \in Requests, NEW j \in Claims(s)'
               PROVE  StoredBy(EventIdAt(s, j), s)' \/ Deleted(EventIdAt(s, j), s)'
    BY DEF ClaimsStored
  <2>1. CASE j \in Claims(s)
    BY <1>4, <2>1, StepKeepsEvents DEF ExactlyOnce
  <2>2. CASE s = r /\ j = reqs[r].i
    BY <1>0, <1>1, <1>4, <2>2
  <2> QED
    BY <1>3, <2>1, <2>2
<1>6. ClaimsUnique'
  <2> SUFFICES ASSUME NEW s \in Requests, NEW t \in Requests,
                      NEW j \in Claims(s)', NEW k \in Claims(t)',
                      EventIdAt(s, j) = EventIdAt(t, k)
               PROVE  \/ s = t /\ j = k
                      \/ Deleted(EventIdAt(s, j), s)' \/ Deleted(EventIdAt(t, k), t)'
    BY <1>4 DEF ClaimsUnique
  <2>1. CASE j \in Claims(s) /\ k \in Claims(t)
    BY <1>4, <2>1, StepKeepsEvents DEF ExactlyOnce
  <2>2. CASE EventIdAt(s, j) = id /\ (j \in Claims(s) \/ k \in Claims(t))
    BY <1>2, <2>2
  <2>3. CASE s = r /\ j = reqs[r].i /\ t = r /\ k = reqs[r].i
    BY <2>3
  <2> QED
    BY <1>0, <1>3, <2>1, <2>2, <2>3
<1> QED
  BY <1>5, <1>6, PartsMakeExactlyOnce

\* Fewer claims on events that are kept.
LEMMA FewerClaims ==
    ASSUME Typed, ExactlyOnce, [Next]_vars, \A s \in Requests : Claims(s)' \subseteq Claims(s)
    PROVE  ExactlyOnce'
<1>1. \A s \in Requests : \A j : EventIdAt(s, j)' = EventIdAt(s, j)
  BY DEF EventIdAt
<1>2. ClaimsStored'
  BY <1>1, StepKeepsEvents DEF ExactlyOnce, ClaimsStored
<1>3. ClaimsUnique'
  BY <1>1, StepKeepsEvents DEF ExactlyOnce, ClaimsUnique
<1> QED
  BY <1>2, <1>3, PartsMakeExactlyOnce

LEMMA StepExactlyOnce == Typed /\ ExactlyOnce /\ [Next]_vars => ExactlyOnce'
<1> SUFFICES ASSUME Typed, ExactlyOnce, [Next]_vars PROVE ExactlyOnce'
  OBVIOUS
<1>1. ASSUME NEW r \in Requests, TrackingStep(r) PROVE ExactlyOnce'
  <2>1. CASE TrackEvent(r)
    BY <1>1, <2>1, TrackEventClaims
  <2>2. CASE ~ TrackEvent(r)
    <3>1. \A s \in Requests : Claims(s)' \subseteq Claims(s)
      BY <1>1, <2>2, ClaimsOfStep
    <3> QED
      BY <3>1, FewerClaims
  <2> QED
    BY <2>1, <2>2
<1>2. CASE ~ \E r \in Requests : TrackingStep(r)
  BY <1>2, ClaimsOfRest, FewerClaims
<1> QED
  BY <1>1, <1>2

\* Every event that a client was told was accepted was ingested exactly once:
\* for every number of requests, retries, batches and crashes.
THEOREM IngestedExactlyOnce == Spec => []ExactlyOnce
<1>1. Init => ExactlyOnce
  BY DEF Init, TrackingInit, ExactlyOnce, Claims
<1>2. Typed /\ ExactlyOnce /\ [Next]_vars => ExactlyOnce'
  BY StepExactlyOnce
<1> QED
  BY <1>1, <1>2, AlwaysTyped, PTL DEF Spec

-----------------------------------------------------------------------------
\* Only a request that stores properties adds some.
LEMMA PropertiesAdded ==
    ASSUME Typed, [Next]_vars, NEW x \in event_properties', x \notin event_properties
    PROVE  \E r \in Requests : /\ reqs[r].pc = "props"
                               /\ x = [event_id |-> EventIdAt(r, reqs[r].i), by |-> r]
                               /\ purged' = purged /\ events' = events
<1>1. CASE \E r \in Requests : TrackProperties(r)
  BY <1>1 DEF TrackProperties, InsertEventProperties, Current, EventIdAt
<1>2. CASE event_properties' \subseteq event_properties
  BY <1>2
<1> QED
  BY <1>1, <1>2
     DEF Next, vars, TrackingNext, ProjectsNext, RetentionNext, TrackingStep, AdminStep,
         Authenticate, Refuse, BadRequest, InternalError, TrackStart, SkipEvent, TrackEvent,
         LoseProperties, TrackDone, Device, LookupAppUser, CreateAppUser, LinkDevice,
         CreateProject, RemoveProject, CreateToken, DeleteToken, ReadProject, WriteProject,
         ReadToken, WriteToken, WriteFails, Tick, StartSweep, StartFails, SweepStep,
         CleanupProject, CleanupFails, Crash, storeVars, tables,
         InsertProject, UpdateProject, DeleteProject, InsertProjectToken, UpdateProjectToken,
         DeleteProjectToken, UpsertDevice, LinkDeviceToUser, InsertAppUser, InsertEvent,
         CleanupEvents, DeleteEvents

\* A request stores properties only for an event it has stored itself: they are
\* on that event, unless it was deleted before them.  A retry, or another call
\* with the same id, adds none to it.
THEOREM PropertiesFollowOwnEvent == Spec => []PropertiesAfterOwnEvent
<1>1. Init => PropertiesAfterOwnEvent
  BY DEF Init, StoreInit, PropertiesAfterOwnEvent
<1>2. Typed /\ ExactlyOnce /\ PropertiesAfterOwnEvent /\ [Next]_vars => PropertiesAfterOwnEvent'
  <2> SUFFICES ASSUME Typed, ExactlyOnce, PropertiesAfterOwnEvent, [Next]_vars,
                      NEW x \in event_properties'
               PROVE  StoredBy(x.event_id, x.by)' \/ Deleted(x.event_id, x.by)'
    BY DEF PropertiesAfterOwnEvent
  <2>1. CASE x \in event_properties
    BY <2>1, StepKeepsEvents DEF PropertiesAfterOwnEvent
  <2>2. CASE x \notin event_properties
    <3> PICK r \in Requests : /\ reqs[r].pc = "props"
                              /\ x = [event_id |-> EventIdAt(r, reqs[r].i), by |-> r]
                              /\ purged' = purged /\ events' = events
      BY <2>2, PropertiesAdded
    <3>1. reqs[r].i \in Claims(r)
      BY DEF Claims
    <3>2. StoredBy(x.event_id, x.by) \/ Deleted(x.event_id, x.by)
      BY <3>1 DEF ExactlyOnce
    <3> QED
      BY <3>2 DEF StoredBy, Deleted
  <2> QED
    BY <2>1, <2>2
<1> QED
  BY <1>1, <1>2, AlwaysTyped, IngestedExactlyOnce, PTL DEF Spec

-----------------------------------------------------------------------------
(* Server implements EventLog.                                              *)

\* A request that has not started its loop has counted nothing.
Untouched == \A r \in Requests : reqs[r].pc \in {"idle", "track"} => reqs[r].accepted = {}

LEMMA StepUntouched == Typed /\ Untouched /\ [Next]_vars => Untouched'
<1> SUFFICES ASSUME Typed, Untouched, [Next]_vars, NEW s \in Requests,
                    reqs'[s].pc \in {"idle", "track"}
             PROVE  reqs'[s].accepted = {}
  BY DEF Untouched
<1>0. reqs \in [Requests -> Frame]
  BY DEF Typed, TypeOK, TrackingTypeOK
<1>1. CASE reqs'[s] = reqs[s]
  BY <1>1 DEF Untouched
<1>2. CASE Authenticate(s)
  BY <1>0, <1>2 DEF Authenticate, Untouched, Frame
<1>3. ASSUME NEW pc \in {"error", "ok", "props", "create"}, Goto(s, pc)
      PROVE  FALSE
  BY <1>0, <1>3 DEF Goto, Frame
<1>4. ASSUME NEW counted, NextEvent(s, counted)
      PROVE  FALSE
  BY <1>0, <1>4 DEF NextEvent, Frame
<1>5. ASSUME NEW r \in Requests, TrackingStep(r)
      PROVE  reqs'[s] = reqs[s] \/ Authenticate(s)
  <2>1. CASE r # s
    BY <1>5, <2>1, OtherFrames
  <2>2. CASE r = s
    <3>1. ASSUME TrackStart(s) PROVE FALSE
      <4> PICK u \in EventUsers(s) :
            reqs' = [reqs EXCEPT ![s].pc = "insert", ![s].user = u, ![s].i = 1,
                                 ![s].accepted = {}]
        BY <3>1, Zenon DEF TrackStart
      <4> QED
        BY <1>0 DEF Frame
    <3>2. ~ LookupAppUser(s)
      BY <1>0, <1>3 DEF LookupAppUser, Frame
    <3>3. ~ CreateAppUser(s)
      BY <1>0, <1>3 DEF CreateAppUser, Frame
    <3>4. ~ TrackEvent(s)
      BY <1>3, <1>4, TrackEventGoesOn, Zenon
    <3>5. ~ SkipEvent(s) /\ ~ TrackProperties(s) /\ ~ LoseProperties(s)
      BY <1>4, Zenon DEF SkipEvent, TrackProperties, LoseProperties
    <3>6. ~ Refuse(s) /\ ~ BadRequest(s) /\ ~ InternalError(s) /\ ~ TrackDone(s)
      BY <1>3 DEF Refuse, BadRequest, InternalError, TrackDone
    <3>7. ~ Device(s) /\ ~ LinkDevice(s)
      BY <1>3 DEF Device, LinkDevice, Outcomes
    <3> QED
      BY <1>5, <2>2, <3>1, <3>2, <3>3, <3>4, <3>5, <3>6, <3>7 DEF TrackingStep
  <2> QED
    BY <2>1, <2>2
<1>6. CASE Crash
  BY <1>0, <1>6 DEF Crash, DropRequests, Untouched, Frame
<1>7. CASE UNCHANGED reqs
  BY <1>1, <1>7
<1> QED
  BY <1>1, <1>2, <1>5, <1>6, <1>7 DEF Next, vars, TrackingNext

LEMMA AlwaysUntouched == Spec => []Untouched
<1>1. Init => Untouched
  BY DEF Init, TrackingInit, Untouched
<1> QED
  BY <1>1, StepUntouched, AlwaysTyped, PTL DEF Spec

\* What a request has claimed it goes on to claim, unless the process crashes.
LEMMA ClaimsGrow ==
    ASSUME Typed, Untouched, NEW r \in Requests, TrackingStep(r)
    PROVE  /\ Claims(r) \subseteq Claims(r)'
           /\ reqs[r].pc \notin Answered
<1>0. reqs \in [Requests -> Frame]
  BY DEF Typed, TypeOK, TrackingTypeOK
<1>1. ASSUME NEW pc, Goto(r, pc)
      PROVE  reqs'[r].accepted = reqs[r].accepted /\ reqs'[r].i = reqs[r].i /\ reqs'[r].pc = pc
  BY <1>0, <1>1 DEF Goto, Frame
<1>2. ASSUME NextEvent(r, TRUE)
      PROVE  reqs[r].accepted \subseteq reqs'[r].accepted /\ reqs[r].i \in reqs'[r].accepted
  BY <1>0, <1>2 DEF NextEvent, Frame
<1>3. ASSUME NextEvent(r, FALSE)
      PROVE  reqs[r].accepted \subseteq reqs'[r].accepted
  BY <1>0, <1>3 DEF NextEvent, Frame
<1>4. CASE SkipEvent(r)
  <2>1. NextEvent(r, FALSE) /\ reqs[r].pc = "insert"
    BY <1>4 DEF SkipEvent, AtEvent
  <2> QED
    BY <2>1, <1>3 DEF Claims, Answered
<1>5. CASE TrackEvent(r)
  <2>1. reqs[r].pc = "insert"
    BY <1>5 DEF TrackEvent, AtEvent
  <2> QED
    BY <2>1, <1>1, <1>2, <1>3, <1>5, TrackEventGoesOn DEF Claims, Answered
<1>6. CASE reqs[r].pc = "props" /\ NextEvent(r, TRUE)
  BY <1>2, <1>6 DEF Claims, Answered
<1>7. CASE /\ reqs[r].pc \notin Answered \cup {"props"}
           /\ reqs[r].accepted \subseteq reqs'[r].accepted
  BY <1>7 DEF Claims
<1>8. CASE /\ reqs[r].pc \notin Answered \cup {"props"}
           /\ \E pc : Goto(r, pc)
  BY <1>1, <1>7, <1>8
<1>9. CASE Authenticate(r)
  <2>1. reqs'[r].accepted = reqs[r].accepted /\ reqs[r].pc = "idle"
    BY <1>0, <1>9 DEF Authenticate, Frame
  <2> QED
    BY <2>1, <1>7 DEF Answered
<1>10. CASE TrackStart(r)
  <2>1. reqs[r].pc = "track" /\ reqs[r].accepted = {}
    BY <1>10 DEF TrackStart, Untouched
  <2> QED
    BY <2>1, <1>7 DEF Answered
<1>11. CASE LookupAppUser(r)
  <2>1. reqs'[r].accepted = reqs[r].accepted /\ reqs[r].pc = "identify"
    BY <1>0, <1>11, <1>1 DEF LookupAppUser, Frame
  <2> QED
    BY <2>1, <1>7 DEF Answered
<1>12. CASE CreateAppUser(r)
  <2>1. reqs'[r].accepted = reqs[r].accepted /\ reqs[r].pc = "create"
    BY <1>0, <1>12, <1>1 DEF CreateAppUser, Frame
  <2> QED
    BY <2>1, <1>7 DEF Answered
<1>13. CASE Refuse(r) \/ BadRequest(r) \/ InternalError(r) \/ Device(r) \/ LinkDevice(r)
  <2>1. /\ reqs[r].pc \in {"idle", "track", "device", "identify", "create", "link"}
        /\ \E pc : Goto(r, pc)
    BY <1>13 DEF Refuse, BadRequest, InternalError, Device, LinkDevice
  <2> QED
    BY <2>1, <1>8 DEF Answered
<1>14. CASE TrackDone(r)
  BY <1>8, <1>14 DEF TrackDone, Answered
<1>15. CASE TrackProperties(r) \/ LoseProperties(r)
  <2>1. reqs[r].pc = "props" /\ NextEvent(r, TRUE)
    BY <1>15, Zenon DEF TrackProperties, LoseProperties
  <2> QED
    BY <2>1, <1>6
<1> QED
  BY <1>4, <1>5, <1>9, <1>10, <1>11, <1>12, <1>13, <1>14, <1>15 DEF TrackingStep

\* The abstract state after a step of one request.
LEMMA CountsOfStep ==
    ASSUME Typed, Untouched, NEW r \in Requests, TrackingStep(r)
    PROVE  /\ Counted' = [Counted EXCEPT ![r] = Claims(r)']
           /\ \/ Claims(r)' = Claims(r)
              \/ TrackEvent(r) /\ Claims(r)' = Claims(r) \cup {reqs[r].i}
           /\ r \in Open
           /\ Open' = Open \/ Open' = Open \ {r}
<1>1. \/ Claims(r)' = Claims(r)
      \/ TrackEvent(r) /\ Claims(r)' = Claims(r) \cup {reqs[r].i}
  BY ClaimsGrow, ClaimsOfStep
<1>2. Counted' = [Counted EXCEPT ![r] = Claims(r)']
  BY ClaimsOfStep DEF Counted
<1>3. r \in Open
  BY ClaimsGrow DEF Open
<1>4. \A s \in Requests \ {r} : s \in Open' <=> s \in Open
  BY OtherFrames DEF Open
<1>5. Open' \subseteq Requests /\ Open \subseteq Requests
  BY DEF Open
<1> QED
  BY <1>1, <1>2, <1>3, <1>4, <1>5

\* A step of a request other than these two leaves the log alone.
LEMMA OtherStepsKeepLog ==
    ASSUME NEW r \in Requests, TrackingStep(r), ~ TrackEvent(r), ~ TrackProperties(r)
    PROVE  UNCHANGED <<Logged, event_properties, purged>>
<1>1. UNCHANGED <<events, event_properties, purged>>
  BY DEF TrackingStep, Authenticate, Refuse, BadRequest, InternalError, TrackStart, SkipEvent,
         LoseProperties, TrackDone, Device, LookupAppUser, CreateAppUser, LinkDevice,
         UpsertDevice, InsertAppUser, LinkDeviceToUser, storeVars, tables
<1> QED
  BY <1>1 DEF Logged, Arrivals

LEMMA TrackEventIngests ==
    ASSUME Typed, Untouched, NEW r \in Requests, TrackingStep(r), TrackEvent(r)
    PROVE  Log!Ingest(r, reqs[r].i)
<1>0. PICK id : id = Call[r].batch[reqs[r].i].id
  OBVIOUS
<1>1. /\ Insertable(r)
      /\ InsertEvent(Current(r).id, reqs[r].project, Call[r].device, reqs[r].user, r)
  BY Zenon DEF TrackEvent
<1>2. /\ id \notin Ids(events)
      /\ InsertEvent(id, reqs[r].project, Call[r].device, reqs[r].user, r)
  BY <1>0, <1>1 DEF Insertable, CanInsertEvent, Current
<1>3. UNCHANGED <<event_properties, purged>>
  BY <1>2 DEF InsertEvent
<1>4. Logged' = Logged \cup {[id |-> id, by |-> r]}
  <2> DEFINE e == [id |-> id, project_id |-> reqs[r].project, device_id |-> Call[r].device,
                   user_id |-> reqs[r].user, created_at |-> now, by |-> r]
  <2>1. events' = events \cup {e}
    BY <1>2 DEF InsertEvent
  <2>2. e.id = id /\ e.by = r
    OBVIOUS
  <2> HIDE DEF e
  <2> QED
    BY <2>1, <2>2 DEF Logged, Arrivals
<1>5. ~ \E x \in Logged : x.id = id
  BY <1>2 DEF Logged, Arrivals, Ids
<1>6. Open' = Open
  <2>1. reqs \in [Requests -> Frame]
    BY DEF Typed, TypeOK, TrackingTypeOK
  <2>2. reqs'[r].pc \in {"insert", "props"}
    <3>1. ASSUME NEW counted, NextEvent(r, counted) PROVE reqs'[r].pc = "insert"
      BY <2>1, <3>1 DEF NextEvent, Frame
    <3>2. ASSUME Goto(r, "props") PROVE reqs'[r].pc = "props"
      BY <2>1, <3>2 DEF Goto, Frame
    <3> QED
      BY <3>1, <3>2, TrackEventGoesOn
  <2>3. r \in Open'
    BY <2>2 DEF Open, Answered
  <2> QED
    BY <2>3, CountsOfStep
<1>7. Counted' = Counted \/ Counted' = [Counted EXCEPT ![r] = @ \cup {reqs[r].i}]
  BY CountsOfStep DEF Counted
<1>8. r \in Open
  BY CountsOfStep
<1> QED
  BY <1>0, <1>3, <1>4, <1>5, <1>6, <1>7, <1>8 DEF Log!Ingest, Log!IdAt

LEMMA TrackPropertiesDescribes ==
    ASSUME Typed, Untouched, ExactlyOnce, NEW r \in Requests, TrackingStep(r), TrackProperties(r)
    PROVE  Log!Describe(r, reqs[r].i)
<1>0. PICK id : id = Call[r].batch[reqs[r].i].id
  OBVIOUS
<1>1. /\ reqs[r].pc = "props" /\ id \in Ids(events)
      /\ InsertEventProperties(id, r)
  BY <1>0, Zenon DEF TrackProperties, Current, CanInsertEventProperties
<1>2. /\ UNCHANGED <<events, purged>>
      /\ event_properties' = event_properties \cup {[event_id |-> id, by |-> r]}
  BY <1>1 DEF InsertEventProperties
<1>3. Logged' = Logged
  BY <1>2 DEF Logged, Arrivals
<1>4. reqs[r].i \in Claims(r)
  BY <1>1 DEF Claims
<1>5. Deleted(id, r) \/ StoredBy(id, r)
  BY <1>0, <1>4 DEF ExactlyOnce, EventIdAt
<1>6. \E x \in Logged : x.id = id /\ (x.by = r \/ [id |-> x.id, by |-> r] \in purged)
  <2>1. ASSUME NEW e \in events, e.id = id, e.by = r \/ Deleted(id, r)
        PROVE  \E x \in Logged : x.id = id /\ (x.by = r \/ [id |-> x.id, by |-> r] \in purged)
    <3>1. [id |-> e.id, by |-> e.by] \in Logged
      BY DEF Logged, Arrivals
    <3> QED
      BY <2>1, <3>1 DEF Deleted
  <2> QED
    BY <1>1, <1>5, <2>1 DEF Ids, StoredBy
<1>7. ~ TrackEvent(r)
  BY <1>1 DEF TrackEvent, AtEvent
<1>8. Counted' = Counted /\ r \in Open
  BY <1>7, CountsOfStep DEF Counted
<1>9. Open' = Open
  <2>1. reqs \in [Requests -> Frame]
    BY DEF Typed, TypeOK, TrackingTypeOK
  <2>2. NextEvent(r, TRUE)
    BY Zenon DEF TrackProperties
  <2>3. reqs'[r].pc = "insert"
    BY <2>1, <2>2 DEF NextEvent, Frame
  <2>4. r \in Open'
    BY <2>3 DEF Open, Answered
  <2> QED
    BY <2>4, CountsOfStep
<1>10. reqs[r].i \in Counted[r]
  BY <1>4 DEF Counted
<1> QED
  BY <1>0, <1>2, <1>3, <1>6, <1>8, <1>9, <1>10 DEF Log!Describe, Log!IdAt

\* A deletion of rows with unique ids takes from the log what has these ids.
LEMMA DeletionForgets ==
    ASSUME StoreTypeOK, IsKeyOf(events), NEW gone, gone \subseteq events, DeleteEvents(gone),
           Logged' = {[id |-> e.id, by |-> e.by] : e \in events \ gone},
           UNCHANGED <<Counted, Open>>
    PROVE  \E ids \in SUBSET {x.id : x \in Logged} : Log!Forget(ids)
<1>1. Logged' = {x \in Logged : x.id \notin Ids(gone)}
  <2>1. ASSUME NEW e \in events PROVE e \in gone <=> e.id \in Ids(gone)
    BY DEF Ids, IsKeyOf
  <2>2. ASSUME NEW x \in Logged' PROVE x \in Logged /\ x.id \notin Ids(gone)
    BY <2>1 DEF Logged, Arrivals
  <2>3. ASSUME NEW x \in Logged, x.id \notin Ids(gone) PROVE x \in Logged'
    BY <2>1, <2>3 DEF Logged, Arrivals
  <2> QED
    BY <2>2, <2>3
<1>2. Ids(gone) \subseteq {x.id : x \in Logged}
  <2>1. ASSUME NEW e \in events PROVE \E x \in Logged : x.id = e.id
    <3>1. [id |-> e.id, by |-> e.by] \in Logged
      BY DEF Logged, Arrivals
    <3> QED
      BY <3>1
  <2> QED
    BY <2>1 DEF Ids
<1>3. Arrivals(gone) = {x \in Logged : x.id \in Ids(gone)}
  <2>1. ASSUME NEW e \in events PROVE e \in gone <=> e.id \in Ids(gone)
    BY DEF Ids, IsKeyOf
  <2> QED
    BY <2>1 DEF Logged, Arrivals
<1> QED
  BY <1>1, <1>2, <1>3 DEF Log!Forget, DeleteEvents

\* Console requests and sweeps take events away with DELETE, or leave the log alone.
LEMMA OthersForget ==
    ASSUME Typed, StoreInv, (ProjectsNext \/ RetentionNext) /\ UNCHANGED reqs
    PROVE  \/ \E ids \in SUBSET {x.id : x \in Logged} : Log!Forget(ids)
           \/ UNCHANGED <<Logged, event_properties, purged, Counted, Open>>
<1>0. StoreTypeOK /\ IsKeyOf(events)
  BY DEF Typed, TypeOK, StoreInv, UniqueKeys
<1>1. UNCHANGED <<Counted, Open>>
  BY DEF Counted, Claims, Open
<1>2. CASE \E p : DeleteProject(p)
  <2> PICK p : DeleteProject(p)
    BY <1>2
  <2>1. GoneEvents(p) \subseteq events /\ DeleteEvents(GoneEvents(p))
    BY DEF DeleteProject, GoneEvents
  <2>2. Logged' = {[id |-> e.id, by |-> e.by] : e \in events \ GoneEvents(p)}
    <3>1. \A e \in events : LET f == Unlinked(e, GoneUsers(p)) IN f.id = e.id /\ f.by = e.by
      BY <1>0, UnlinkedEvent DEF StoreTypeOK
    <3>2. events' = {Unlinked(e, GoneUsers(p)) : e \in events \ GoneEvents(p)}
      BY DEF DeleteProject
    <3> QED
      BY <3>1, <3>2 DEF Logged, Arrivals
  <2> QED
    BY <1>0, <1>1, <2>1, <2>2, DeletionForgets
<1>3. CASE \E p, days : CleanupEvents(p, days)
  <2> PICK p, days : CleanupEvents(p, days)
    BY <1>3
  <2>1. /\ ExpiredEvents(p, days) \subseteq events /\ DeleteEvents(ExpiredEvents(p, days))
        /\ events' = events \ ExpiredEvents(p, days)
    BY DEF CleanupEvents, ExpiredEvents
  <2>2. Logged' = {[id |-> e.id, by |-> e.by] : e \in events \ ExpiredEvents(p, days)}
    BY <2>1 DEF Logged, Arrivals
  <2> QED
    BY <1>0, <1>1, <2>1, <2>2, DeletionForgets
<1>4. CASE UNCHANGED <<events, event_properties, purged>>
  BY <1>1, <1>4 DEF Logged, Arrivals
<1> QED
  BY <1>2, <1>3, <1>4
     DEF ProjectsNext, AdminStep, CreateProject, RemoveProject, CreateToken, DeleteToken,
         ReadProject, WriteProject, ReadToken, WriteToken, WriteFails, RetentionNext, Tick,
         StartSweep, StartFails, SweepStep, CleanupProject, CleanupFails, storeVars, tables,
         InsertProject, UpdateProject, InsertProjectToken, UpdateProjectToken,
         DeleteProjectToken

\* A crash closes the requests that had begun.
LEMMA CrashCloses ==
    ASSUME Typed, Crash
    PROVE  \E rs \in SUBSET Open : Log!Close(rs)
<1> DEFINE rs == {r \in Open : reqs[r].pc # "idle"}
<1>0. reqs \in [Requests -> Frame]
  BY DEF Typed, TypeOK, TrackingTypeOK
<1>1. ASSUME NEW r \in Requests
      PROVE  /\ r \in rs => reqs'[r] = [reqs[r] EXCEPT !.pc = "lost"]
             /\ r \notin rs => reqs'[r] = reqs[r]
  BY DEF Crash, DropRequests, Open
<1>2. Open' = Open \ rs
  <2>1. ASSUME NEW r \in Requests PROVE r \in Open' <=> r \in Open \ rs
    BY <1>0, <1>1 DEF Open, Answered, Frame
  <2> QED
    BY <2>1 DEF Open
<1>3. ASSUME NEW r \in Requests
      PROVE  \/ Counted'[r] = Counted[r]
             \/ r \in Open \cap rs /\ Counted'[r] \subseteq Counted[r]
  BY <1>0, <1>1 DEF Counted, Claims, Frame
<1>4. UNCHANGED <<Logged, event_properties, purged>>
  BY DEF Crash, storeVars, tables, Logged, Arrivals
<1>5. rs \in SUBSET Open
  OBVIOUS
<1> HIDE DEF rs
<1>6. Log!Close(rs)
  BY <1>2, <1>3, <1>4 DEF Log!Close
<1> QED
  BY <1>5, <1>6

LEMMA StepRefines ==
    ASSUME Typed, StoreInv, Untouched, ExactlyOnce, [Next]_vars
    PROVE  Log!LogNext \/ UNCHANGED <<Logged, event_properties, purged, Counted, Open>>
<1>1. ASSUME NEW r \in Requests, TrackingStep(r)
      PROVE  Log!LogNext
  <2>1. CASE TrackEvent(r)
    <3>1. reqs[r].i \in 1 .. Len(Call[r].batch)
      BY <2>1, CurrentType DEF TrackEvent
    <3> QED
      BY <1>1, <2>1, <3>1, TrackEventIngests DEF Log!LogNext
  <2>2. CASE TrackProperties(r)
    <3>1. reqs[r].i \in 1 .. Len(Call[r].batch)
      BY <2>2, CurrentType DEF TrackProperties
    <3> QED
      BY <1>1, <2>2, <3>1, TrackPropertiesDescribes DEF Log!LogNext
  <2>3. CASE ~ TrackEvent(r) /\ ~ TrackProperties(r)
    <3>1. UNCHANGED <<Logged, event_properties, purged>>
      BY <1>1, <2>3, OtherStepsKeepLog
    <3>2. Counted' = Counted
      BY <1>1, <2>3, CountsOfStep DEF Counted
    <3>3. ASSUME NEW rs \in SUBSET Open, Open' = Open \ rs
          PROVE  Log!LogNext
      <4>1. Log!Close(rs)
        BY <3>1, <3>2, <3>3, Zenon DEF Log!Close
      <4> QED
        BY <4>1, Zenon DEF Log!LogNext
    <3>4. r \in Open /\ (Open' = Open \/ Open' = Open \ {r})
      BY <1>1, CountsOfStep
    <3>5. Open \ {} = Open /\ {} \in SUBSET Open /\ {r} \in SUBSET Open
      BY <3>4
    <3> QED
      BY <3>3, <3>4, <3>5
  <2> QED
    BY <2>1, <2>2, <2>3
<1>2. CASE (ProjectsNext \/ RetentionNext) /\ UNCHANGED reqs
  BY <1>2, OthersForget DEF Log!LogNext
<1>3. CASE Crash
  BY <1>3, CrashCloses DEF Log!LogNext
<1>4. CASE UNCHANGED vars
  BY <1>4 DEF vars, storeVars, tables, Logged, Arrivals, Counted, Claims, Open
<1> QED
  BY <1>1, <1>2, <1>3, <1>4 DEF Next, TrackingNext

\* Whatever interleaves, is sent again, fails or crashes, the store with the
\* handlers over it is a log in which events are stored and counted in one step
\* and from which only deletions take them.
THEOREM ImplementsEventLog == Spec => EventLogSpec
<1>1. Init => Log!LogInit
  BY DEF Init, StoreInit, TrackingInit, Log!LogInit, Logged, Arrivals, Counted, Claims, Open, Answered
<1>2. Typed /\ StoreInv /\ Untouched /\ ExactlyOnce /\ [Next]_vars
        => [Log!LogNext]_(Log!logVars)
  BY StepRefines DEF Log!logVars
<1> QED
  BY <1>1, <1>2, AlwaysTyped, AlwaysStoreInv, AlwaysUntouched, IngestedExactlyOnce, PTL
     DEF Spec, EventLogSpec, Log!LogSpec
=============================================================================
