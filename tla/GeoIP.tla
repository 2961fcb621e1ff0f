------------------------------- MODULE GeoIP -------------------------------
(***************************************************************************)
(* The GeoIP database: the update at the start of the process and the      *)
(* monthly one of geoipUpdateLoop (internal/geoip/updater.go), which       *)
(* rewrite the file in place, and the reader that is opened once, at the   *)
(* start (resolver.go), and maps the file into memory.  Requests look up   *)
(* addresses while an update is writing, and the process may stop at any   *)
(* point of it.                                                            *)
(*                                                                         *)
(* The reader maps the file that is rewritten and keeps the index it read  *)
(* when it was opened.  A lookup through it that touches a page beyond the *)
(* end of the file (truncated, or shorter than the one before) kills the   *)
(* process, with SIGBUS; one that does not may find anything.  Temporary   *)
(* files, which a crash leaves behind, are not modelled.                   *)
(***************************************************************************)
EXTENDS Naturals

CONSTANTS
    MaxAge,   \* bound on the age of an edition that is told apart, in months
    MaxEnds   \* bound on the months that end while one update is under way

ASSUME AgeAssumption == MaxAge \in Nat \ {0} /\ MaxEnds \in Nat

VARIABLES
    process,   \* "down", "boot" until the server listens, "running"
    file,      \* the database file: what is in it, when it was written last and,
               \* if it is whole, the age of the edition in months and how many
               \* months ended while it was fetched and written
    update,    \* where Update is
    job,       \* the age of the edition Update fetches, and how many months have
               \* ended since it began
    channel,   \* that of the update loop's ticker, "empty" or with one "tick"
    reader     \* the resolver: "none", "opened", and "rewritten" if the file it
               \* maps was

geoVars == <<process, file, update, job, channel, reader>>

Contents == {"absent", "partial", "whole"}
Phases   == {"idle", "get", "previous", "save", "write"}

NewJob == [age |-> 0, ends |-> 0]
Older(age) == IF age < MaxAge THEN age + 1 ELSE age

File == [has : Contents, mtime : {"this month", "before"}, age : 0 .. MaxAge, took : 0 .. MaxEnds]
Job  == [age : 0 .. MaxAge, ends : 0 .. MaxEnds]

GeoTypeOK ==
    /\ process \in {"down", "boot", "running"}
    /\ file \in File
    /\ update \in Phases
    /\ job \in Job
    /\ channel \in {"empty", "tick"}
    /\ reader \in {"none", "opened", "rewritten"}

GeoInit ==
    /\ process = "down" /\ update = "idle" /\ job = NewJob /\ channel = "empty" /\ reader = "none"
    /\ file = [has |-> "absent", mtime |-> "before", age |-> 0, took |-> 0]

-----------------------------------------------------------------------------
(* The process.                                                             *)

\* The server starts without a reader if maxminddb.Open fails.  That it does so on
\* a file that was not written to its end, where the metadata is, is assumed of
\* the library.
OpenReader == reader' = IF file.has = "whole" THEN "opened" ELSE "none"

Start ==
    /\ process = "down" /\ file.has # "absent"
    /\ process' = "running"
    /\ OpenReader
    /\ UNCHANGED <<file, update, job, channel>>

\* DatabaseExists: the first update is made before the server listens.
StartWithUpdate ==
    /\ process = "down" /\ file.has = "absent"
    /\ process' = "boot" /\ update' = "get" /\ job' = NewJob
    /\ UNCHANGED <<file, channel, reader>>

\* Whether the update succeeded or not.
Listen ==
    /\ process = "boot" /\ update = "idle"
    /\ process' = "running"
    /\ OpenReader
    /\ UNCHANGED <<file, update, job, channel>>

Ended ==
    /\ process' = "down" /\ update' = "idle" /\ job' = NewJob /\ channel' = "empty"
    /\ reader' = "none"
    /\ UNCHANGED file

\* A signal or a crash.  main does not wait for the update loop.
Stop ==
    /\ process # "down"
    /\ Ended

\* Track looks up the address of its client: a page that is gone.
LookupKills ==
    /\ process = "running" /\ reader = "rewritten"
    /\ Ended

-----------------------------------------------------------------------------
(* The calendar and the loop.                                               *)

Month ==
    /\ job.ends < MaxEnds
    /\ file' = [file EXCEPT !.mtime = "before", !.age = Older(@)]
    /\ job' = IF update = "idle" THEN job ELSE [age |-> Older(job.age), ends |-> job.ends + 1]
    /\ UNCHANGED <<process, update, channel, reader>>

\* Every 24 hours; a tick the channel has no room for is dropped.
Tick ==
    /\ process = "running"
    /\ channel' = "tick"
    /\ UNCHANGED <<process, file, update, job, reader>>

\* What NeedsUpdate must not be: without the month, or without the file.
NeedsUpdateAlways == TRUE
NeedsUpdateIfAbsent == file.has = "absent"

NeedsUpdate == file.has = "absent" \/ file.mtime = "before"

TakeTick ==
    /\ process = "running" /\ update = "idle" /\ channel = "tick"
    /\ channel' = "empty"
    /\ update' = IF NeedsUpdate THEN "get" ELSE "idle"
    /\ UNCHANGED <<process, file, job, reader>>

-----------------------------------------------------------------------------
(* Update.                                                                  *)

Go(phase) == update' = phase /\ UNCHANGED <<process, channel>>

Write(contents, age, took) ==
    file' = [has |-> contents, mtime |-> "this month", age |-> age, took |-> took]

\* The month in the URL is that in which Update began.
Download ==
    /\ update \in {"get", "previous"}
    /\ Go("save")
    /\ UNCHANGED <<file, job, reader>>

\* What NotFound must not be: it goes on to the month before, and so on.
NotFoundAgain ==
    /\ update \in {"get", "previous"}
    /\ Go("previous")
    /\ job' = [job EXCEPT !.age = Older(@)]
    /\ UNCHANGED <<file, reader>>

\* 404: the edition of this month is not published yet.
NotFound ==
    /\ update = "get"
    /\ Go("previous")
    /\ job' = [job EXCEPT !.age = Older(@)]
    /\ UNCHANGED <<file, reader>>

\* Any other answer, the temporary file could not be written, it is not a gzip
\* file, or the copy failed.
UpdateFails ==
    /\ update # "idle"
    /\ Go("idle")
    /\ job' = NewJob
    /\ UNCHANGED <<file, reader>>

\* os.Create truncates the file, which the reader has mapped.
Truncate ==
    /\ update = "save"
    /\ Go("write")
    /\ Write("partial", 0, 0)
    /\ reader' = IF reader = "none" THEN "none" ELSE "rewritten"
    /\ UNCHANGED job

WriteSome ==
    /\ update = "write"
    /\ Write("partial", 0, 0)
    /\ UNCHANGED <<process, update, job, channel, reader>>

WriteRest ==
    /\ update = "write"
    /\ Go("idle")
    /\ Write("whole", job.age, job.ends)
    /\ job' = NewJob
    /\ UNCHANGED reader

GeoNext ==
    \/ Start \/ StartWithUpdate \/ Listen \/ Stop \/ LookupKills
    \/ Month \/ Tick \/ TakeTick
    \/ Download \/ NotFound \/ UpdateFails \/ Truncate \/ WriteSome \/ WriteRest

GeoSpec == GeoInit /\ [][GeoNext]_geoVars

\* The process is started again whenever it ended, and stopped finitely often,
\* except by a lookup.  Months pass, the ticker ticks and the loop takes the
\* tick.  Downloads, the creation of the file and copies do not fail for ever
\* (http.Get has no timeout: that the server answers at all is assumed).
GeoFairness ==
    /\ WF_geoVars(Start) /\ WF_geoVars(StartWithUpdate) /\ WF_geoVars(Listen)
    /\ WF_geoVars(Month) /\ WF_geoVars(Tick) /\ WF_geoVars(TakeTick)
    /\ SF_geoVars(Download) /\ SF_geoVars(Truncate) /\ SF_geoVars(WriteRest)
    /\ <>[][~ Stop]_geoVars

GeoFairSpec == GeoSpec /\ GeoFairness

-----------------------------------------------------------------------------
\* A file that was left unfinished, by a failed copy or by the end of the
\* process, is completed in the end, and the server listens: though nothing
\* looks at a file of this month, and though lookups may kill the process at
\* each update.  (The process that such a file makes start has no reader, and
\* its update is not disturbed.)
Repaired == file.has = "partial" ~> file.has = "whole" /\ process = "running"

\* The file of a month is rewritten at most once in the month, however often the
\* process starts in it and however its updates end: lookups are at risk once.
RewrittenMonthly == [][Truncate => file.mtime = "before"]_geoVars

\* The file that counts as this month's, and is not replaced in it, holds an
\* edition that was current, or the one before, when its update began: it is
\* older than that by the months that ended during the update, and no more.
BehindByOne ==
    file.has = "whole" /\ file.mtime = "this month" => file.age <= 1 + file.took
=============================================================================
