------------------------------ MODULE Tracking ------------------------------
(***************************************************************************)
(* The tracking API: middleware.TokenAuth and the handlers Track, Device   *)
(* and Identify of internal/handler/tracking.go.  net/http runs every      *)
(* request on a goroutine of its own, so a request is a frame that makes   *)
(* one call on the store at a time, and anything may happen in between.    *)
(* What a client sends is the constant Call; a retry is one more request   *)
(* with the same call.                                                     *)
(***************************************************************************)
EXTENDS Store, Sequences

CONSTANTS
    Call,              \* what each request carries
    MaxEventsPerBatch, \* maxEventsPerBatch
    Faults             \* may a store call fail (SQLITE_BUSY, a lost
                       \* connection, a request context that was cancelled),
                       \* or the rate limiter refuse?

\* A body is "invalid" when Track skips the event, "plain" without properties,
\* "props" with properties, "badprops" with a property whose type the CHECK on
\* value_type refuses.
Bodies == {"invalid", "plain", "props", "badprops"}
Calls == [kind : {"track", "device", "identify"},
          token : TokenIds,
          device : DeviceIds,
          anonymous_id : AnonymousIds,     \* identify
          user : UserIds \cup {Null},      \* track: user_id of the body
          valid : BOOLEAN,                 \* the body passes the handler's checks
          batch : Seq([id : EventIds, body : Bodies])]

ASSUME CallAssumption == Call \in [Requests -> Calls]
ASSUME LimitAssumption == MaxEventsPerBatch \in Nat /\ Faults \in BOOLEAN

VARIABLE reqs   \* the frames

\* pc names the store call the frame makes next, or how it was answered.
\* `accepted` is the set of positions of the batch that were counted.
Answered == {"ok", "error", "lost"}
Frame == [pc : {"idle", "track", "insert", "props", "device", "identify",
                "create", "link"} \cup Answered,
          project : ProjectIds \cup {Null},
          user : UserIds \cup {Null},
          i : Nat,
          accepted : SUBSET Nat]

TrackingTypeOK == reqs \in [Requests -> Frame]

TrackingInit ==
    reqs = [r \in Requests |->
              [pc |-> "idle", project |-> Null, user |-> Null, i |-> 0, accepted |-> {}]]

Goto(r, pc) == reqs' = [reqs EXCEPT ![r].pc = pc]

\* How a statement that committed is answered: with an error too, if the
\* connection breaks, or the request's context ends, before its result is read.
Outcomes == {"ok"} \cup {x \in {"error"} : Faults}

-----------------------------------------------------------------------------
(* TokenAuth.                                                               *)

LiveToken(r, row) == row.token = Call[r].token /\ row.active

\* What Authenticate must not be: the id of the token for that of its project.
AuthenticateByTokenId(r) ==
    /\ reqs[r].pc = "idle"
    /\ \E row \in project_tokens :
         /\ LiveToken(r, row)
         /\ reqs' = [reqs EXCEPT ![r].pc = Call[r].kind, ![r].project = row.id]
    /\ UNCHANGED storeVars

Authenticate(r) ==
    /\ reqs[r].pc = "idle"
    /\ \E row \in project_tokens :
         /\ LiveToken(r, row)
         /\ reqs' = [reqs EXCEPT ![r].pc = Call[r].kind, ![r].project = row.project_id]
    /\ UNCHANGED storeVars

\* 401, 403 or 429, or the lookup failed, which TokenAuth answers with 401 too.
Refuse(r) ==
    /\ reqs[r].pc = "idle"
    /\ Faults \/ ~ \E row \in project_tokens : LiveToken(r, row)
    /\ Goto(r, "error")
    /\ UNCHANGED storeVars

BadRequest(r) ==
    /\ \/ reqs[r].pc \in {"device", "identify"} /\ ~ Call[r].valid
       \/ /\ reqs[r].pc = "track"
          /\ ~ Call[r].valid \/ Len(Call[r].batch) \notin 1 .. MaxEventsPerBatch
    /\ Goto(r, "error")
    /\ UNCHANGED storeVars

InternalError(r) ==
    /\ Faults
    /\ reqs[r].pc \in {"device", "identify", "create", "link"}
    /\ Goto(r, "error")
    /\ UNCHANGED storeVars

-----------------------------------------------------------------------------
(* POST /api/v1/track                                                       *)

\* What EventUsers must not be: the fallback reads the user of any device.
EventUsersOfAnyDevice(r) ==
    IF Call[r].user # Null THEN {Call[r].user} ELSE {row.user_id : row \in devices} \cup {Null}

\* The user an event is filed under: that of the body, else the one the device
\* is linked to now, else none.  An error of the lookup is ignored.
EventUsers(r) ==
    IF Call[r].user # Null
    THEN {Call[r].user}
    ELSE {row.user_id : row \in {x \in devices : x.id = Call[r].device}}
         \cup {u \in {Null} : Faults \/ Call[r].device \notin Ids(devices)}

TrackStart(r) ==
    /\ reqs[r].pc = "track"
    /\ Call[r].valid /\ Len(Call[r].batch) \in 1 .. MaxEventsPerBatch
    /\ \E u \in EventUsers(r) :
         reqs' = [reqs EXCEPT ![r].pc = "insert", ![r].user = u, ![r].i = 1,
                              ![r].accepted = {}]
    /\ UNCHANGED storeVars

Current(r) == Call[r].batch[reqs[r].i]
AtEvent(r) == reqs[r].pc = "insert" /\ reqs[r].i <= Len(Call[r].batch)

NextEvent(r, counted) ==
    reqs' = [reqs EXCEPT ![r].pc = "insert", ![r].i = @ + 1,
                         ![r].accepted = @ \cup {j \in {reqs[r].i} : counted}]

Insertable(r) ==
    CanInsertEvent(Current(r).id, reqs[r].project, Call[r].device, reqs[r].user)

\* What SkipEvent must not be: an event that is known already is counted again.
SkipAndCount(r) ==
    /\ AtEvent(r)
    /\ Current(r).body = "invalid" \/ ~ Insertable(r)
    /\ NextEvent(r, Current(r).id \in Ids(events))
    /\ UNCHANGED storeVars

\* Filtered out, known already, or refused by the database, or the statement
\* failed without effect.
SkipEvent(r) ==
    /\ AtEvent(r)
    /\ Current(r).body = "invalid" \/ ~ Insertable(r) \/ Faults
    /\ NextEvent(r, FALSE)
    /\ UNCHANGED storeVars

\* An event whose INSERT committed but was answered with an error is stored, and
\* neither counted nor given its properties, now or by a retry.
\* (First what TrackEvent must not be: it looks at the error of InsertEvent but not at
\* whether a row was inserted.)
TrackEventAgain(r) ==
    /\ AtEvent(r)
    /\ Current(r).body # "invalid"
    /\ \/ InsertEvent(Current(r).id, reqs[r].project, Call[r].device, reqs[r].user, r) /\ Insertable(r)
       \/ UNCHANGED storeVars /\ Current(r).id \in Ids(events)
    /\ IF Current(r).body = "plain" THEN NextEvent(r, TRUE) ELSE Goto(r, "props")

TrackEvent(r) ==
    /\ AtEvent(r)
    /\ Current(r).body # "invalid"
    /\ Insertable(r)
    /\ InsertEvent(Current(r).id, reqs[r].project, Call[r].device, reqs[r].user, r)
    /\ \E outcome \in Outcomes :
         IF outcome = "error" THEN NextEvent(r, FALSE)
         ELSE IF Current(r).body = "plain" THEN NextEvent(r, TRUE) ELSE Goto(r, "props")

TrackProperties(r) ==
    /\ reqs[r].pc = "props"
    /\ Current(r).body = "props" /\ CanInsertEventProperties(Current(r).id)
    /\ InsertEventProperties(Current(r).id, r)
    /\ NextEvent(r, TRUE)

\* The transaction rolled back.  Its error is dropped and the event is counted.
LoseProperties(r) ==
    /\ reqs[r].pc = "props"
    /\ \/ Current(r).body = "badprops"
       \/ ~ CanInsertEventProperties(Current(r).id)
       \/ Faults
    /\ NextEvent(r, TRUE)
    /\ UNCHANGED storeVars

\* 202 with the number of positions in `accepted`.
TrackDone(r) ==
    /\ reqs[r].pc = "insert" /\ reqs[r].i > Len(Call[r].batch)
    /\ Goto(r, "ok")
    /\ UNCHANGED storeVars

-----------------------------------------------------------------------------
(* POST /api/v1/device                                                      *)

Device(r) ==
    /\ reqs[r].pc = "device"
    /\ Call[r].valid
    /\ IF CanUpsertDevice(Call[r].device, reqs[r].project)
       THEN /\ UpsertDevice(Call[r].device, reqs[r].project)
            /\ \E outcome \in Outcomes : Goto(r, outcome)
       ELSE UNCHANGED storeVars /\ Goto(r, "error")

-----------------------------------------------------------------------------
(* POST /api/v1/identify: GetOrCreateAppUser is a SELECT, then an INSERT.   *)

KnownUsers(r) ==
    {row \in app_users : row.project_id = reqs[r].project
                         /\ row.anonymous_id = Call[r].anonymous_id}

LookupAppUser(r) ==
    /\ reqs[r].pc = "identify"
    /\ Call[r].valid
    /\ \/ /\ KnownUsers(r) = {}
          /\ Goto(r, "create")
       \/ \E row \in KnownUsers(r) :
            reqs' = [reqs EXCEPT ![r].pc = "link", ![r].user = row.id]
    /\ UNCHANGED storeVars

CreateAppUser(r) ==
    /\ reqs[r].pc = "create"
    /\ IF CanInsertAppUser(reqs[r].project, Call[r].anonymous_id)
       THEN \E id \in UserIds :
              /\ InsertAppUser(reqs[r].project, Call[r].anonymous_id, id)
              /\ \/ reqs' = [reqs EXCEPT ![r].pc = "link", ![r].user = id]
                 \/ Faults /\ Goto(r, "error")
       ELSE UNCHANGED storeVars /\ Goto(r, "error")

LinkDevice(r) ==
    /\ reqs[r].pc = "link"
    /\ IF CanLinkDevice(Call[r].device, reqs[r].user)
       THEN /\ LinkDeviceToUser(Call[r].device, reqs[r].user)
            /\ \E outcome \in Outcomes : Goto(r, outcome)
       ELSE UNCHANGED storeVars /\ Goto(r, "error")

TrackingStep(r) ==
    \/ Authenticate(r) \/ Refuse(r) \/ BadRequest(r) \/ InternalError(r)
    \/ TrackStart(r) \/ SkipEvent(r) \/ TrackEvent(r)
    \/ TrackProperties(r) \/ LoseProperties(r) \/ TrackDone(r)
    \/ Device(r)
    \/ LookupAppUser(r) \/ CreateAppUser(r) \/ LinkDevice(r)

TrackingNext == \E r \in Requests : TrackingStep(r)

\* A crash takes the frames with it: the client never gets an answer, although
\* what the request has committed stays.
DropRequests ==
    reqs' = [r \in Requests |->
               IF reqs[r].pc \in {"idle"} \cup Answered THEN reqs[r]
               ELSE [reqs[r] EXCEPT !.pc = "lost"]]
=============================================================================
