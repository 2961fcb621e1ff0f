# Oximetric in TLA+

A verification development of the Oximetric server: TLA+ modules of the parts
whose correctness depends on what runs at the same time, TLC configurations that
check them on small instances, and theorems checked by TLAPS.  Paths below are
relative to the repository; `file:line` names the code a statement is about.

## 1. The system

Oximetric is one process: an HTTP server and a background loop over one relational
store (SQLite or PostgreSQL), and a second loop over the GeoIP file.  There is no
other shared state than that store, the limiters' maps and the file with its
reader, and no lock or transaction spans two calls on the store (the one transaction
is around the properties of a single event).  So the store statement is the unit of
atomicity and everything else interleaves: `net/http` runs every request on a
goroutine of its own.

| Component | State | Operations | Talks to | What makes it correct |
|---|---|---|---|---|
| Store (`internal/storage`, migrations) | seven tables, sequences | one SQL statement each | called by all others | keys unique, no dangling reference, ids name one row |
| Tracking API (`handler/tracking.go`, `middleware.TokenAuth`) | a frame per request | track, device, identify | store, limiter | an event is ingested exactly once and its properties come from its own call; devices and events belong to the user that was identified |
| Projects and tokens (`handler/projects.go`) | a frame per request | create, update, delete, disable, enable | store | a deleted token stays deleted, a disabled one works again only if asked; deletion touches one project |
| Retention (`main.go`) | ticker, the rows of the run in progress | tick, read projects, delete expired events | store | nothing deleted early, everything expired deleted in the end |
| Process (`main.go`) | goroutines | start, bootstrap, shutdown, crash | all | the store is consistent whenever the process dies |
| Console accounts (`handler/auth.go`, `users.go`, `auth/auth.go`) | user rows, TOTP attempts, JWTs held by browsers | login, password, TOTP, users | store | 2FA cannot be half enabled, the limiter is bounded under concurrency, updates are not lost, a remembered id keeps its meaning |
| Rate limiter (`middleware.RateLimit`) | a bucket per key | take | inside TokenAuth and around the login | never more in a window than a full bucket and the rate, a client that pauses is served |
| Origin check (`normalizeOrigins`, `encodeOrigins`, `matchOrigin`) | the list of a token | normalise, store, match | TokenAuth, tokens | a token admits the origins that were asked for and no other |
| GeoIP (`geoip/`) | a file, a mapped reader | download, replace, open, look up | tracking | an unfinished file is replaced in the end; the edition is recent |
| Analytics (`handler/analytics.go`) | a frame per report | four reports over events, and others | store | the figures of one answer go together |
| Configuration, frontend, deployment | none | read only | | out of scope, see section 8 |

The behaviours that are hard to test are listed with their lines under `hazards`
in `PROJECT.json`; the properties below are aimed at them.

## 2. Modules

```
RowIds ─┬─ Store ─┬── Tracking ──┐
        │         ├── Projects ──┼── Server ──┬── MCServer                 (TLC)
        │         ├── Retention ─┘   │ │      ├── Periods ── MCPeriods     (TLC)
        │         │                  │ │      └── Analytics ── MCAnalytics (TLC)
        │         │       EventLog ──┘ │
        │         └── StoreProofs ─────┴── ServerProofs ──┬── ProjectsProofs
        │                                                 ├── IdentityProofs
        │                                                 └── AnalyticsProofs
        └─ Console ──┬── MCConsole                                         (TLC)
                     └── ConsoleProofs

RateLimit ─┬─ Middleware ──┬── MCMiddleware                                (TLC)
Origins ───┘     │         └── MiddlewareProofs
   TokenBucket ──┘

GeoIP ── GeoIPProofs                                              (TLC on GeoIP)
```

Modules named `...Proofs` hold the theorems, which TLAPS checks.  `Server` refines
`EventLog` and `Middleware` refines `TokenBucket` by an INSTANCE; all other edges are
EXTENDS (`AnalyticsProofs` extends `Analytics` too, `ProjectsProofs` `Periods` and
`MCPeriods` `MCServer`).

**RowIds** says how the databases number rows, the one thing in which the drivers
differ and that matters: `IsNextId`.  SQLite's `INTEGER PRIMARY KEY` gives one more
than the largest id *now* in the table, PostgreSQL's `SERIAL` one more than the
last ever issued.

**Store** is the database.  A table is a set of rows, a row a record of the
columns that steer the program; what is only displayed is left out, NULL is 0.
One operator is one SQL statement, atomic, with the constraints of the schema:
`DeleteProject` is the DELETE with every cascade and SET NULL it sets off
(`GoneUsers`, `GoneDevices`, `GoneEvents`, `Unlinked`, `DeleteEvents`);
`CanInsertEvent` and its like are the REFERENCES and UNIQUE checks of the INSERT.
`serial` holds the last id issued of each table that needs it.  A token
string is the number of the call of `GenerateToken` that made it; that no two
calls return the same 32 random bytes is an assumption of the model.  The history
variable `purged` (which events were deleted, and which request each came from:
`Arrivals`) and the field `by` (which request a row came from, in place of its
payload columns) exist for the properties only.

**Tracking** has a frame per request (`reqs`).  `pc` names the store call the
handler makes next: `Authenticate` and `Refuse` are TokenAuth; `TrackStart` the
user fallback of Track, then per event `SkipEvent` or `TrackEvent` (the INSERT OR
IGNORE) and `TrackProperties` or `LoseProperties` (the transaction and its
discarded error), `TrackDone` the answer; `Device`; `LookupAppUser`,
`CreateAppUser`, `LinkDevice` are Identify, whose GetOrCreateAppUser is two
statements.  `accepted` is the set of positions that were counted, where the code
keeps only their number.  What the clients send is the constant `Call`; a retry is
another request with the same call.  `Faults` says whether a store call may fail
(SQLite is opened without a busy timeout, `sqlite.go:23`; request contexts are
cancelled), with nothing written or after the statement has committed (`Outcomes`), or
a request be refused by the limiter or the origin check.

**Projects** has a frame per console request (`admin`).  Creating and deleting
are one statement; the updates read a row (`ReadProject`, `ReadToken`), change it
in memory and write all of it back by id (`WriteProject`, `WriteToken`).

**Retention** is the loop of `main.go`: `Tick` fills the ticker's channel, which
holds one tick; `StartSweep` reads the projects that have a retention period;
`CleanupProject` deletes the expired events of one of them and `CleanupFails`, which
may happen to any of them, is the logged error after which the loop goes on.  The clock `now` counts days, the
ticker's period and the unit of `retention_days`.

**Server** composes them over one store: any interleaving of the steps, and
`Crash`, which drops every frame, keeps the store, and starts again with a sweep.
Its properties are in section 4.

**Periods** is `Server` with one more variable, a history of the periods that were
asked for each project (`asked`): a period is asked for by a request that reads the
row to give it another one (`AsksFor`), while every update, a rename too, writes one
back.  The history changes nothing of `Server` (`PeriodsIsServer`).

**Console** is the accounts, apart from the rest because no other component reads
or writes them.  A session step is a request of the console; `frames` holds the
row it has read (`Keep`) until it makes its next call (`pc`).  `Login` reads the
account; with 2FA it goes through `CheckTOTPLimit`, which takes and releases the
limiter's lock, and then `RightCode` or `WrongCode`, which takes it again to
record.  `ChangePassword`, `TOTPSetup`, `TOTPEnable`, `TOTPDisable` and
`UpdateUser` read a row and change it in memory; `WriteAccount` is the UPDATE of
all columns by id that ends each of them, `WriteFails` its error.  `CreateUser`
and `DeleteUser` are one statement.  `jwts` are the claims that were signed and
have not expired: the role checked by RequireRole is the one in there.
`Restart` ends every request, empties the limiter and runs `BootstrapAdmin`.
The history field `born` says the how-many-th account a row, a claim or a
remembered row is of, in order to say what a reused id would confuse.

**EventLog** is the abstract specification of ingestion: a log of events, each
stored and counted in one step (`Ingest`; uncounted if the answer of the store is
lost), properties that follow for an event the request has counted (`Describe`; if that
one was deleted, for whatever event has the id now), deletions (`Forget`) and answers or deaths of requests
(`Close`).  It knows neither frames nor tables, loops, retries, devices, users nor
crashes.  `Server` implements it (`EventLogSpec`) under the mapping `Logged` (the
events without the columns that are updated), `Counted` (`Claims`: also the event
whose properties are still to be stored, so that the INSERT, not the end of the
loop, is the abstract step) and `Open`.

**RateLimit** is the token bucket: one step per request, since one mutex is held from
the lookup of the bucket to the taking of the token.  `Serve` and `Refuse` both
move `last` on (`idle` is how long ago that was) and `Refilled` truncates.  `quiet`,
`window` and `served` are history: an observer may start a window at any time.

**Origins** is pure: what the console handlers make of a list that was typed
(`NormalizeOrigins`), what the column gives back (`Stored`), what TokenAuth compares
(`MatchOrigin`, `TokenAdmits`), and a reference definition of what a list means
(`Covers`).  `Entry` is what can be typed, `BrowserOrigin` what a browser sends.
**Middleware** composes the two as the server does, TokenAuth with its
check of the origin *around* the limiter, while console requests (`edits`) read the row
of a token (`ReadToken`), with a new list or to change something else of it, and write
all of it back (`WriteToken`, `WriteFails`).  The history `asked` is the list that what
is in the column was made from.

**TokenBucket** is the abstract specification of the limiter: a credit per key that
grows evenly up to a minute's worth, a request served if there is credit for it
(`Grant`) and refused if there is not (`Deny`), losing less than a request's worth
either way (`Pay`).  It knows no integers that are refilled at the next request, no
time of the last one, no origins and no windows.  `Middleware` implements it
(`TokenBucketSpec`) under the mapping `Credit`, the tokens of a bucket and the refill
it has not been given yet.

**GeoIP** is the update of the database and its reader.  `update` says where `Update`
is: asking for this month's edition, then for the one before (`NotFound`), saving to
a temporary file, writing.  `Truncate`, `WriteSome` and `WriteRest` are the
`os.Create` and the copy in place, under a reader that has mapped the file
(`rewritten`); `LookupKills` is the SIGBUS of a lookup that touches a page that is
gone; `Stop` any other end of the process.  `Month`, `Tick`, `TakeTick` are the
calendar and the daily loop.  `OpenReader` assumes that `maxminddb.Open` refuses a file
that was not written to its end; no property is about that.

**Analytics** extends `Server` by report requests, which make one SELECT at a time
(`Query`, `QueryFails`).  `Queries` lists the statements of each report in the order
of the code, `MustSucceed` those whose error is not dropped.

**MCServer**, **MCPeriods**, **MCConsole**, **MCMiddleware**, **MCAnalytics** hold what the TLC runs
need: requests, lists, headers, symmetries.

Operators whose comment says "must not be" are wrong versions of the definition
next to them; substituted for it they make a property fail, which shows that the
property depends on it.

## 3. What the model abstracts

Payload columns (names, labels, origins, platform, IP, geography, timestamps of
the client), `disabled_at` (written together with `active`), the ordering of lists,
log lines and JSON.  A console request that fails after its UPDATE or INSERT has
committed is the step that commits: its frame ends in the same state whether the
answer is 200 or 500, so `WriteFails` (of `Projects`, `Console` and `Middleware`) is the
failure that writes nothing.  Client addresses and what GeoIP finds for them are data, so
`GeoIP` shares no state with `Tracking`.  Validation is a flag of the call (`valid`) or of an event
(`body = "invalid"`), except for the size of the batch.  A refusal by the origin
check or by the rate limiter is one of the causes of `Refuse`.  PostgreSQL
sequences also skip a number when an INSERT fails; the model has no gaps.  The
10 second delay before the first sweep, and a shutdown (which lets requests finish
for 30 seconds), are behaviours of `due` and `Crash`: the model allows more.

In `Console`, passwords and codes are right or wrong: a handler that refuses one
changes nothing and is left out, save for the wrong code, which is counted.  A JWT
is issued in the step that reads the row when no code is asked for; its claims
depend on that row alone, so issuing it later is the same claim in a later state.
An e-mail is left out.  It is a second name to sign in with and the key of a
second window of the limiter, and it may equal the configured administrator's
name; the model says nothing of accounts that have one.  The five minute window is
closed by `WindowEnds` at any time.  `RoleChoices` bounds the roles a new or updated
account is given.

In `RateLimit`, `idle` is counted up to a minute, after which a bucket is full
whatever the exact time; buckets are never removed, and neither are keys; the
rounding of the float64 product is left out.  In `Origins`, entries and headers are
parsed already: scheme, labels of the host, port, whether the string typed contains the
wildcard, and whether the host was typed with a capital (url.Parse keeps it, browsers
do not send it).  A host is a sequence of labels, so that a comparison that stops inside a
label cannot be expressed.  "https://*.", which
url.Parse accepts, has no label and matches no origin a browser sends; it is no
`Entry`.  In `GeoIP`, temporary
files are left out, which a crash leaves behind and nothing reads; the age of an
edition is counted up to `MaxAge` months, and at most `MaxEnds` of them end during one
update (it has no time limit in the code).
In `Analytics`, the figure of a statement is the set of the events it counts, and a
LIMIT may cut off anything as long as not everything.

## 4. Runs

r1 ... are tracking requests, c1 and c2 console requests, s1 ... console sessions, k1
and k2 rate-limit keys, v1 a report.

| Run | Question | Instance | Result |
|---|---|---|---|
| `ingest` | Is an event ingested once (`ExactlyOnce`), and are properties stored only for an event of the same call (`PropertiesAfterOwnEvent`)?  Is it filed in the project of the token it was sent under (`FiledUnderToken`)?  Does the server implement the log (`EventLogSpec`)? | SQLite; the same batch under two tokens, and a batch that repeats an id and fails on a property; deletions, statements that fail with or without effect, crashes | holds, 402 k states |
| `identity` | Do links and filed events name users that were identified (`LinkedAsIdentified`, `FiledAsIdentified`), are keys unique (`UniqueKeys`), and does no reference dangle (`ReferentialIntegrity`)? | PostgreSQL; three identify calls, two for one user, a device re-registered in another project, an event with properties; deletions, faults as above | holds, 1.95 M |
| `id_reuse` | The same of links under SQLite | as above | violated (section 5) |
| `tokens` | Does a token open one project for good (`TokenBindingIsFinal`), and does a disabled one work again only by a request that enables it or had read it before (`ReenabledAsRead`)?  Is a request of the project of its token, though ids of both are issued again (`FiledUnderToken`)?  Are states well typed (`TypeOK`)? | SQLite; two console requests with all operations on projects and tokens but the update of a project | holds, 566 k |
| `retention` | Is a project that is created unknown to everything in flight (`NewProjectsAreUnknown`)?  Has a project only periods that were asked for it (`PeriodsAsAsked`)?  Is nothing deleted earlier than such a period (`PurgedAsAsked`) or than the sweep has read (`NoEarlyPurge`), and everything expired deleted in the end (`ExpiredIsPurged`)? | PostgreSQL; two console requests create, delete and update up to two projects, one after the other or side by side; any DELETE may fail, that of the second every time; two events of the first; three days | holds, 205 k |
| `delete_project` | Does deleting a project delete its events only (`DeleteIsLocal`)? | as `ingest` | violated |
| `analytics` | Do the figures of one answer go together (`AnswersAgree`)? | SQLite; two devices that share an event id, each of four reports over each range of two days; deletion of the project, a sweep, dropped errors, crashes | holds, 1.55 M |
| `console` | Does a remembered id ever reach a later account (`RememberedIdsHold`)?  Is 2FA never enabled without a secret (`EnabledHasSecret`)?  By how much can the limiter overshoot (`FailuresBounded`)? | PostgreSQL; two sessions, two names, three accounts ever, a limit of one; every operation, restarts | holds, 5.40 M |
| `change_undone` | Is a column changed only by the request that is about it (`EachChangesItsOwn`)? | PostgreSQL; two sessions, two accounts | violated |
| `middleware` | Is a key served no more in a window than a full bucket and the rate (`ServedInWindow`), and always after a pause (`PatientIsServed`)?  Does a list admit what was asked for (`AdmitsAsAsked`)?  Is the limiter a bucket that fills evenly (`TokenBucketSpec`)?  (`MiddlewareTypeOK`) | two keys, two requests per minute of three ticks, windows of up to four; two console requests, three lists (an empty one, a bad one, one with an entry of each kind), seven headers | holds, 188 k |
| `rate_refused` | Is a client refused only when the limit was served in the last minute (`RefusedOnlyAtLimit`)? | one key, two requests per minute of four ticks | violated |
| `geoip` | Is an unfinished file completed (`Repaired`) and the file rewritten once a month (`RewrittenMonthly`)?  Is its edition one that was current, or the one before, when its update began (`BehindByOne`)? | editions up to five months old are told apart, two months may end during an update | holds, 1284 |

Bounds and why they are enough for the cases in question.  `Server`: two projects
(one deleted, one that survives it or takes its id), three tokens (one for each seed
and one created while a deleted one is remembered), three users (one more than can be
alive with two anonymous ids, so that an id can be issued after a deletion), three to
five requests (two deliveries of a batch and the request between them, or one of each
kind), batches of at most three events under a limit of three.  In `retention`,
two projects (one with two events, whose ages may differ, and one created beside it or after
its deletion, while it is remembered, whose DELETE fails every time), two console requests (one that remembers a row, one that changes the period,
or deletes and creates), and a period of one day within three: before, at and after the
boundary.  A project begins without a period, and a rename may bring that back.
`Analytics`: one report at a time, since reports change nothing that another sees.
`Console`: two sessions (one that remembers an id, one that deletes and creates), three accounts ever (the
administrator, one deleted, one created after it), a limit of one, so that two
sessions overshoot it; the theorem of section 6 is for any limit.  Two of the three
roles: administrator or not is all the code under the model asks.  `MaxAccounts`
leaves room for the account a start may create: nothing is deleted at the bound, and
a start that would have to go beyond it is not taken.  `RateLimit`: a token takes one
and a half ticks, so that a refill may truncate; windows longer than a minute.
`Origins`: an empty list, one with a bad entry, and one that has, for a host each, a
wildcard, a port other than and equal to the default, a capital and a blank entry; "*"
is left to the theorem.  Two console requests are what it takes for a stale row to be
written over a newer one.  `GeoIP` is small enough to be complete but for the months: at
most two end during an update, and with the fallback an edition written this month is
at most three months old, less than the five that are told apart.

Console requests, sessions and keys are interchangeable, hence the symmetry in
`tokens`, the two runs of `MCConsole` and `middleware`, which check
invariants, action properties and, in `middleware`, a refinement without fairness whose
abstract specification treats keys alike; no run with a liveness property, nor `ingest`
with the event log, uses symmetry.  Deadlock is checked in every run; `Crash`
(`Restart`, `Month`) is nearly always possible, so it is the temporal properties, not the
deadlock check, that show progress.

### Fairness

`retention` uses `PeriodsFairSpec`: `PeriodsSpec` with the `Fairness` of `Server`.  The
ticker is a runtime timer (WF on `Tick`); a run that has started goes on to its end, as a loop of a goroutine does (WF on
`SweepStep`); `GetProjectsWithRetention` may fail, but not for ever (SF on
`StartSweep`, which competes with `StartFails` for the same tick); the process
crashes finitely often.  The DELETE of any project may fail, but that of a project
outside `Unhealthy` not each time it is tried (if `Tried` infinitely often, then
`Cleanup`; that it is tried at all is not assumed); that of one in `Unhealthy` may
fail every time, and that this does not hold up the other projects is what the run
shows.  Nothing is assumed of requests or administrators.

`geoip` uses `GeoFairSpec`.  A process that has ended is started again (the compose
files in `deploy/` say `restart: unless-stopped`) and a boot goes on (WF on `Start`, `StartWithUpdate`, `Listen`);
months pass and the daily ticker ticks (WF); the loop takes the tick (WF).  Each of
download, creation of the file and copy may fail, but not for ever (SF).  Signals
stop the process finitely often, but lookups may kill it each time they can, so
`LookupKills` is not bounded: that the file is completed all the same is what
`Repaired` shows.  That the download server answers at all is an assumption:
`http.Get` has no timeout, and an update that hangs blocks the loop for good.

## 5. Disagreements between the code and what it says

1. *A project's deletion reaches another project's events* (`delete_project`).  A
   device belongs to the project that registered it first, an event to the
   project of its token, and events cascade with their device
   (`001_initial.sql:53`).  The console asks "Delete this project and all its data?".
2. *A device linked to a user of another project* (`id_reuse`): SQLite issues the id
   of a deleted user again between the lookup and the UPDATE.
3. *An answered change of an account is undone* (`change_undone`): `users.go:111` and
   the four handlers of `auth.go` write back every column they have read, so that what
   was changed in between is put back: a rename undoes a change of the password or the
   2FA, and a change of the password undoes theirs.
4. *A client is refused below the limit* (`rate_refused`): the refill is truncated and
   `last` moved on by every request, refused ones included (`middleware.go:184`,
   `:188`), so a client that asks more often than a token takes is never refilled
   while the README says "1000 req/min per tracking token".  It is served again once
   it pauses for one token (`PatientIsServed`).

Behaviours that are in the model, and that properties allow for or leave out:

- A disabled token works again when a request that had read it before is written back
  (`projects.go:200`).  `ReenabledAsRead` says that this is the only other way.
- A rename of a project may bring back the retention period that was replaced while it
  was in flight (`projects.go:81`).  `PeriodsAsAsked` says that it is at least one that
  was asked for that project, under PostgreSQL; under SQLite the write may meet another
  project, which was given the id.
- Under SQLite, for the same reason, a request in flight when its project is deleted may
  insert into the project that gets the id next, and a sweep may delete from it
  (`tracking.go:88`).  `NewProjectsAreUnknown` says that under PostgreSQL nothing in
  flight knows the id of a new project.
- A rename of a token, its disabling and its enabling may bring back the list of origins
  that was replaced while they were in flight (`projects.go:200`).  `AdmitsAsAsked` is
  about the list that was written last.
- An accepted event may have no properties: `tracking.go:105` drops the error, and a
  retry is skipped because the id is known (`Describe` may never be taken).  An event
  whose INSERT commits but returns an error (`tracking.go:98`) is stored without count
  and properties, for the same reason.
- An event may get the properties of another call, even of another project.  Between the
  two transactions of a call (`tracking.go:98`, `:105`) its event is deleted, with its
  project or that of its device, and another call sends the id anew; then the
  properties of the deleted event are added to the new one, since `InsertEventProperties`
  knows the id only (the README: "capture events with multiple typed key-value
  properties [...] in a single call", `README.md:28`).  `PropertiesAfterOwnEvent`, `ExactlyOnce` and
  `Describe` say that this happens after such a deletion and never otherwise.
- A login may fail more than five times in five minutes, since the limiter checks and
  records under two holds of its lock (`auth.go:92`, `:98`); `FailuresBounded` says how
  many more.
- A key may be served twice the limit in one minute: a full bucket and what the rate
  refills meanwhile (`middleware.go:184`), where the README says "1000 req/min per
  tracking token" (`README.md:310`).  `ServedInWindow` is the bound that holds.
- An entry of a list becomes a wildcard if "://*." occurs anywhere in it, be it in its path
  (`handler.go:67`); `Origins` has the flag and does not say where it comes from.
- Identify answers 200 when it has linked no device (`tracking.go:161` does not learn
  that no row was updated).
- Two administrators who demote or delete each other leave none, which
  `bootstrapAdmin` (`main.go:136`) does not repair at the next start.
- The reader that was opened at the start stays: a database that arrives or is
  repaired while the process runs is not used until the next start.
- A lookup through a reader whose file is rewritten may kill the process
  (`updater.go:99`); `RewrittenMonthly` bounds how often.
- A report whose later statement fails is answered 200 with a part missing
  (`sqlite.go:391`); `AnswersAgree` leaves such answers out.

## 6. Theorems

For every value of the constants (any sets of requests, devices, events and
administrators, any calls, both drivers), from the named assumptions on them:

| Theorem | States |
|---|---|
| `TypeCorrect` | `Spec => []TypeOK` |
| `ReferencesHold` | `Spec => []ReferentialIntegrity` |
| `KeysHold` | `Spec => []UniqueKeys` |
| `TokenBindingsFinal` | `Spec => TokenBindingIsFinal` |
| `IngestedExactlyOnce` | `Spec => []ExactlyOnce` |
| `PropertiesFollowOwnEvent` | `Spec => []PropertiesAfterOwnEvent` |
| `ConsoleTypeCorrect` | `ConsoleSpec => []ConsoleTypeOK` |
| `EnabledHaveSecrets` | `ConsoleSpec => []EnabledHasSecret` |
| `FailuresAreBounded` | `ConsoleSpec => []FailuresBounded` |
| `RememberedIds` | `ConsoleSpec => []RememberedIdsHold`, for PostgreSQL |
| `ImplementsEventLog` | `Spec => EventLogSpec`, the refinement |
| `TenantsStayApart` | `Spec => []FiledUnderToken` |
| `ProjectsAreUnknown` | `Spec => NewProjectsAreUnknown`, for PostgreSQL |
| `PeriodsWereAsked` | `PeriodsSpec => []PeriodsAsAsked`, for PostgreSQL |
| `PurgesWereAsked` | `PeriodsSpec => PurgedAsAsked`, for PostgreSQL |
| `NothingPurgedEarly` | `Spec => NoEarlyPurge` |
| `TokensReenabledAsRead` | `Spec => ReenabledAsRead` |
| `LinksAreIdentified` | `Spec => []LinkedAsIdentified`, for PostgreSQL |
| `FilesAreIdentified` | `Spec => []FiledAsIdentified`, for PostgreSQL |
| `FiguresAgree` | `AnalyticsSpec => []AnswersAgree` |
| `MiddlewareTypeCorrect` | `MiddlewareSpec => []MiddlewareTypeOK` |
| `ServedWithinRate` | `MiddlewareSpec => []ServedInWindow` |
| `PatientServed` | `MiddlewareSpec => PatientIsServed` |
| `ImplementsTokenBucket` | `MiddlewareSpec => TokenBucketSpec`, the refinement |
| `OriginsAsAsked` | `MiddlewareSpec => []AdmitsAsAsked` |
| `GeoTypeCorrect` | `GeoSpec => []GeoTypeOK` |
| `TruncatedMonthly` | `GeoSpec => RewrittenMonthly` |
| `EditionsAreRecent` | `GeoSpec => []BehindByOne` |

The argument.  Every step of `Server` is a statement of `Store` or leaves the
store alone (`StepIsStatement`), so what the store promises is proved once, in
`StoreProofs`, one lemma per statement.  `ReferentialIntegrity` and `UniqueKeys`
are not inductive: that a new row takes no id and no token string in use needs
that sequences run ahead of the rows (`IssuedUpwards`), and the three together,
with `StoreTypeOK`, are (`StoreInv`).  For SQLite the id is fresh by `IsNextId`
itself.

`ExactlyOnce` is proved from `TypeOK` alone: a statement only removes events by
purging them (`StepKeepsEvents`), only `TrackEvent` adds a claim
(`ClaimsOfStep`), and it does so when no row has the id, so by the induction
hypothesis no unpurged claim on it exists (`TrackEventClaims`); every other step
has fewer claims and no fewer purged events (`FewerClaims`).  `PropertiesAfterOwnEvent`
uses `ExactlyOnce`: a request that stores properties claims the event
(`PropertiesAdded`), hence stored it, and if it is no longer there it was deleted.

The invariants of `Console` have to speak of the rows in flight, which are written
back.  `EnabledHasSecret` is inductive once they have the property too
(`RowsHaveSecret`): each handler's change of a row keeps it (`ChangesHaveSecret`),
and rows are written whole.  It would not survive an UPDATE of the changed columns
only: an enabling that has read the old secret could then follow a disabling.
`FailuresBounded` needs the failures to come: the failures recorded and the
requests that have passed the check, together, stay below the limit plus the
number of sessions (`FailuresToCome`).  For `RememberedIdsHold`, ids and accounts
are counted in step under PostgreSQL, so `born = id` wherever an id is remembered
(`Numbered`).  For SQLite it is false, like `LinkedAsIdentified`.

The refinement is shown step by step (`StepRefines`): TrackEvent is *Ingest*,
TrackProperties *Describe*, the deletions and the clean-up *Forget*, the last step of
a request and the crash *Close*, all others stutter.  It rests on `ExactlyOnce` (a
request describes the event it stored), on `StoreInv` (what a deletion takes is told
by the ids) and on `Untouched` (a request that has not begun has counted nothing).

`NoEarlyPurge` and `ReenabledAsRead` are about one step: only two statements delete
events (`OnlyDeletions`), and the rows of a sweep have a period (`SweepHasPeriod`);
only the read of a console request makes it set `active` (`ReadsAsDisabled`) and only
its write does (`EnabledByWrite`), where keys tell that it is the same token.

`FiledUnderToken` is not inductive: a token that is created later must not have rows
under it already, and one that was deleted may not come back.  In `ScopeInv` a request
and the rows it inserted carry a token string that was generated (at most
`serial.minted`), and agree with whatever token has that string; a request
authenticates by string (`BoundByAuthenticate`), its project does not change after
that (`ProjectIsFinal`), an event is filed in the project of the request that inserts
it (`EventsOfStep`), and no step gives an old string a project (`StepBindings`, from
the lemma that proves `TokenBindingsFinal`).  Ids of tokens are nowhere used, which is why it holds for
SQLite, where they are issued again.

`NewProjectsAreUnknown` needs that whatever project id a frame holds was issued:
`KnownProjects` bounds those of requests, updates and sweeps by `serial.projects`.  A
request takes its id from the row of its token, an update and a sweep theirs from
`projects` (`ProjectOfStep`, `UpdatesOfStep`, `SweepOfStep`), where `ReferentialIntegrity`
and `IssuedUpwards` bound it, and a created project has a larger one (`ProjectsOfStep`).
Under SQLite the id of the last project is issued again once it is deleted.

`PeriodsAsAsked` speaks of the row of a project and of the sweep's; what makes it hold is
what the other frames remember (`PeriodsInv`): a period about to be written, and the
one in the sweep's row, were asked for the project that has the id, as long as one
has it.  A created project has a new id, so no frame speaks of it (`KnownProjects`,
PostgreSQL; under SQLite a write in flight may give it the period of the deleted project).  A write takes its period from
its frame (`UpdatesOfStep`), a sweep its rows from the table (`SweepOfStep`), and what
was asked for a project stays asked while it lives (`AskedGrows`).  `PurgedAsAsked` then
follows as `NoEarlyPurge` does, by `DeletedInTime`.

`LinkedAsIdentified` and `FiledAsIdentified` need what the frames remember: the id a
request is about to link, or files events under, was issued (`<= serial.users`), and
whoever has it now is the user it was read for (`LinksNamed`, `FilesNamed`).  Under
PostgreSQL a user that is added has a larger id (`StepUsers`), so this is kept
(`IdsStay`); deletions set to NULL what refers to a user they take
(`DeletionUnlinks`); answers are final (`AnsweredStays`).  Under SQLite `IdsStay`
fails, and so does the property (`id_reuse`).

`AnswersAgree` follows from the order of the statements.  Reports only read, so
`AnalyticsSpec` implies `Spec` (`ServerBelow`) and has its invariants; no statement of
the store moves an event to another project or day, and none takes its properties but
with the event (`StepKeepsRange`), so that until something is deleted what a statement
counted is there for the next ones (`StillThere`, `WatchKeeps`), and the figure counted
later is not the smaller one (`CountsAfterQuery`).

`ServedInWindow` is a budget argument: tokens in the bucket and tokens that its idle
time is worth, not truncated but capped, never exceed with the requests served what
the window allows (`WithinBudget`); truncating and refusals only lose.  The products
are kept in units of ticks times tokens so that no division is left but the one of
the code (`Quotient`).  `PatientIsServed` needs that the time since a request came to
the limiter is the idle time of its bucket (`QuietIsIdle`), which is where the order
of TokenAuth and RateLimit matters.

The refinement of `TokenBucket` is shown action by action: `Serve` is *Grant*, `Refuse`
*Deny*, the tick *Elapse*, the restart *Reset*, a refused origin, an observer and the
reading and the writing of lists *Pass*.  It needs `RefillBounds` in both directions: the tokens of the code
are the quotient of the credit, not more, hence `Serve` has credit, and less than one
token less, hence `Refuse` has none and a request loses less than a token.  A
tick adds exactly the rate up to a full bucket (`ContentOfTick`), though the code adds
nothing until the next request, because idle time is counted up to a minute and by
then any bucket is full.

`AdmitsAsAsked` rests on what the operators of `Origins` make of any entry
(`MatchCovers`, both ways), where the wildcard's suffix comparison is the interesting
part: the library's `IsSuffix` compares reversed sequences and is shown to be the
comparison of a tail (`SuffixIsSubSeq`, `WildHost`), and equal ports are equal as typed
since browsers leave the default out (`PortsAgree`).  `OriginsInv`, that what a token allows, and what each
request in flight will write, is the normal form of a list that was accepted, carries it
to all states (`StoredIsNormalized`: the column loses nothing of it).  The assumptions
`ListsAssumption` and `HeadersAssumption` say what can be typed and what browsers send;
for an Origin header that no browser sends (a capital, a default port) the theorem says
nothing.

In `GeoIP`, an update begins in a month in which the file was not written, and a month
that ends meanwhile does no harm (`UpdateOfOld`); the edition it fetches is at most
one month old when it began, and one more for each month that ends (`JobAge`), whatever
`MaxEnds` is.

Only model-checked: the liveness properties `ExpiredIsPurged` and `Repaired`, which are
out of the prover's reach; and that `EachChangesItsOwn`, `DeleteIsLocal`,
`RefusedOnlyAtLimit` and, for SQLite, `LinkedAsIdentified` fail.

## 7. Plan

Done: all components but those of section 8, the runs of section 4 and the theorems
of section 6.  Left, in this order:

1. E-mails in `Console`: a second name to sign in with and the key of a second window
   of the limiter.
2. The reports Users, whose total is counted before its series, and Devices.
3. The safety half of the two liveness properties: what a sweep that has begun still
   has to delete, and what makes an unfinished file be seen as one, as invariants with
   theorems.

## 8. Not modelled

Configuration is parsed once.  The console frontend, templates, response headers
(CORS included), the health probe, the deployment files and the seed script keep no
state that others depend on.  Of the reports, Devices is a single statement, Users
counts app users from two statements, and Retention returns a constant.  What a GeoIP
lookup finds is data; that the city is never found, because the tag of the field names
no key of the database (`resolver.go`, `maxminddb:"city"`), is no matter of states.
Graceful shutdown is a crash that lets requests finish first (section 3).
