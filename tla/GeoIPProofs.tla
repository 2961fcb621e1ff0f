---------------------------- MODULE GeoIPProofs ----------------------------
(***************************************************************************)
(* Theorems of GeoIP.                                                      *)
(***************************************************************************)
EXTENDS GeoIP, TLAPS

LEMMA OlderType ==
    ASSUME NEW age \in 0 .. MaxAge
    PROVE  Older(age) \in 0 .. MaxAge /\ Older(age) <= age + 1
BY AgeAssumption DEF Older

LEMMA NewJobType == NewJob \in Job
BY AgeAssumption DEF NewJob, Job

LEMMA FileType ==
    ASSUME NEW has \in Contents, NEW mtime \in {"this month", "before"},
           NEW age \in 0 .. MaxAge, NEW took \in 0 .. MaxEnds
    PROVE  [has |-> has, mtime |-> mtime, age |-> age, took |-> took] \in File
BY DEF File

LEMMA JobType ==
    ASSUME NEW age \in 0 .. MaxAge, NEW ends \in 0 .. MaxEnds
    PROVE  [age |-> age, ends |-> ends] \in Job
BY DEF Job

LEMMA MonthType ==
    ASSUME file \in File, job \in Job, Month
    PROVE  file' \in File /\ job' \in Job
<1>1. /\ file.has \in Contents /\ file.took \in 0 .. MaxEnds
      /\ Older(file.age) \in 0 .. MaxAge /\ Older(job.age) \in 0 .. MaxAge
  BY OlderType DEF File, Job
<1>2. file' \in File
  <2>1. file' = [has |-> file.has, mtime |-> "before", age |-> Older(file.age),
                 took |-> file.took]
    BY DEF Month, File
  <2> QED
    BY <1>1, <2>1, FileType
<1>3. [age |-> Older(job.age), ends |-> job.ends + 1] \in Job
  <2>1. job.ends \in 0 .. MaxEnds /\ job.ends < MaxEnds
    BY DEF Month, Job
  <2>2. job.ends + 1 \in 0 .. MaxEnds
    BY <2>1, AgeAssumption
  <2> QED
    BY <1>1, <2>2, JobType
<1>4. job' \in {job, [age |-> Older(job.age), ends |-> job.ends + 1]}
  BY DEF Month
<1> QED
  BY <1>2, <1>3, <1>4

LEMMA WriteType ==
    ASSUME NEW contents \in Contents, NEW age \in 0 .. MaxAge, NEW took \in 0 .. MaxEnds,
           Write(contents, age, took)
    PROVE  file' \in File
BY FileType DEF Write

\* The state of the process, of its update and of the file is well formed.
THEOREM GeoTypeCorrect == GeoSpec => []GeoTypeOK
<1>1. GeoInit => GeoTypeOK
  BY NewJobType, AgeAssumption DEF GeoInit, GeoTypeOK, Contents, Phases, File
<1>2. ASSUME GeoTypeOK, [GeoNext]_geoVars
      PROVE  GeoTypeOK'
  <2>0. GeoTypeOK
    BY <1>2
  <2> USE DEF GeoTypeOK, Phases
  <2>1. CASE Start
    BY <2>0, <2>1 DEF Start, OpenReader
  <2>2. CASE StartWithUpdate
    BY <2>0, <2>2, NewJobType DEF StartWithUpdate
  <2>3. CASE Listen
    BY <2>0, <2>3 DEF Listen, OpenReader
  <2>4. CASE Stop \/ LookupKills
    BY <2>0, <2>4, NewJobType DEF Stop, LookupKills, Ended
  <2>5. CASE Month
    BY <2>0, <2>5, MonthType DEF Month
  <2>6. CASE Tick
    BY <2>0, <2>6 DEF Tick
  <2>7. CASE TakeTick
    BY <2>0, <2>7 DEF TakeTick
  <2>8. CASE Download
    BY <2>0, <2>8 DEF Download, Go
  <2>9. CASE NotFound
    <3>1. job' = [age |-> Older(job.age), ends |-> job.ends]
      BY <2>0, <2>9 DEF NotFound, Job
    <3>2. job' \in Job
      BY <2>0, <3>1, OlderType DEF Job
    <3> QED
      BY <2>0, <2>9, <3>2 DEF NotFound, Go
  <2>10. CASE UpdateFails
    BY <2>0, <2>10, NewJobType DEF UpdateFails, Go
  <2>11. CASE Truncate
    <3>1. file' \in File
      BY <2>11, WriteType, AgeAssumption DEF Truncate, Contents
    <3> QED
      BY <2>0, <2>11, <3>1 DEF Truncate, Go
  <2>12. CASE WriteSome
    <3>1. file' \in File
      BY <2>12, WriteType, AgeAssumption DEF WriteSome, Contents
    <3> QED
      BY <2>0, <2>12, <3>1 DEF WriteSome
  <2>13. CASE WriteRest
    <3>1. job.age \in 0 .. MaxAge /\ job.ends \in 0 .. MaxEnds
      BY <2>0 DEF Job
    <3>2. file' \in File
      BY <2>13, <3>1, WriteType DEF WriteRest, Contents
    <3> QED
      BY <2>0, <2>13, <3>2, NewJobType DEF WriteRest, Go
  <2>14. CASE UNCHANGED geoVars
    BY <2>0, <2>14 DEF geoVars
  <2> QED
    BY <1>2, <2>1, <2>2, <2>3, <2>4, <2>5, <2>6, <2>7, <2>8, <2>9, <2>10, <2>11, <2>12,
       <2>13, <2>14 DEF GeoNext
<1> QED
  BY <1>1, <1>2, PTL DEF GeoSpec

LEMMA Written ==
    ASSUME NEW contents, NEW age, NEW took, Write(contents, age, took)
    PROVE  /\ file'.has = contents /\ file'.mtime = "this month"
           /\ file'.age = age /\ file'.took = took
BY DEF Write

\* Until the file is truncated, an update is of a file of an earlier month.
UpdateOfOld ==
    /\ file.has = "absent" => file.mtime = "before"
    /\ update \in {"get", "previous", "save"} => file.mtime = "before"

LEMMA UpdateOfOldStep ==
    ASSUME UpdateOfOld, [GeoNext]_geoVars
    PROVE  UpdateOfOld'
<1> USE DEF UpdateOfOld
<1>1. CASE Start \/ Listen
  BY <1>1 DEF Start, Listen
<1>2. CASE StartWithUpdate
  BY <1>2 DEF StartWithUpdate
<1>3. CASE Stop \/ LookupKills
  BY <1>3 DEF Stop, LookupKills, Ended
<1>4. CASE Month
  BY <1>4 DEF Month
<1>5. CASE Tick \/ TakeTick
  BY <1>5 DEF Tick, TakeTick, NeedsUpdate
<1>6. CASE Download \/ NotFound \/ UpdateFails
  BY <1>6 DEF Download, NotFound, UpdateFails, Go
<1>7. CASE Truncate
  BY <1>7 DEF Truncate, Write, Go
<1>8. CASE WriteSome \/ WriteRest
  <2>1. file'.has # "absent"
    <3>1. CASE WriteSome
      <4>1. Write("partial", 0, 0)
        BY <3>1 DEF WriteSome
      <4> QED
        BY <4>1, Written
    <3>2. CASE WriteRest
      <4>1. PICK age, took : Write("whole", age, took)
        BY <3>2 DEF WriteRest
      <4> QED
        BY <4>1, Written
    <3> QED
      BY <1>8, <3>1, <3>2
  <2>2. update' \in {"write", "idle"}
    <3>1. CASE WriteSome
      BY <3>1 DEF WriteSome
    <3>2. CASE WriteRest
      BY <3>2 DEF WriteRest, Go
    <3> QED
      BY <1>8, <3>1, <3>2
  <2> QED
    BY <2>1, <2>2
<1>9. CASE UNCHANGED geoVars
  BY <1>9 DEF geoVars
<1> QED
  BY <1>1, <1>2, <1>3, <1>4, <1>5, <1>6, <1>7, <1>8, <1>9 DEF GeoNext

\* The file of a month is truncated at most once in the month.
THEOREM TruncatedMonthly == GeoSpec => RewrittenMonthly
<1>1. GeoInit => UpdateOfOld
  BY DEF GeoInit, UpdateOfOld
<1>2. UpdateOfOld /\ [GeoNext]_geoVars => UpdateOfOld'
  BY UpdateOfOldStep
<1>3. UpdateOfOld => [Truncate => file.mtime = "before"]_geoVars
  BY DEF UpdateOfOld, Truncate
<1> QED
  BY <1>1, <1>2, <1>3, PTL DEF GeoSpec, RewrittenMonthly

-----------------------------------------------------------------------------
(* How old the edition is that an update fetches: this month's, or after a   *)
(* 404 the one before, and a month more for each that ended since it began.  *)

JobAge ==
    /\ update = "idle" => job.age = 0 /\ job.ends = 0
    /\ update = "get" => job.age <= job.ends
    /\ update # "get" => job.age <= 1 + job.ends

LEMMA JobAgeStep ==
    ASSUME GeoTypeOK, JobAge, GeoNext \/ UNCHANGED geoVars
    PROVE  JobAge'
<1>1. /\ job.age \in Nat /\ job.ends \in Nat
      /\ job.age \in 0 .. MaxAge
  BY AgeAssumption DEF GeoTypeOK, Job
<1>2. NewJob.age = 0 /\ NewJob.ends = 0
  BY DEF NewJob
<1>3. /\ Older(job.age) \in Nat /\ Older(job.age) <= job.age + 1
  BY <1>1, OlderType, AgeAssumption
<1>4. CASE UNCHANGED <<update, job>>
  BY <1>4 DEF JobAge
<1>5. CASE job' = NewJob
  BY <1>2, <1>5 DEF JobAge
<1>6. CASE Month
  <2>1. CASE update = "idle"
    BY <1>6, <2>1 DEF Month, JobAge
  <2>2. CASE update # "idle"
    <3>1. job' = [age |-> Older(job.age), ends |-> job.ends + 1] /\ update' = update
      BY <1>6, <2>2 DEF Month
    <3>2. job'.age = Older(job.age) /\ job'.ends = job.ends + 1
      BY <3>1
    <3> QED
      BY <1>1, <1>3, <2>2, <3>1, <3>2 DEF JobAge
  <2> QED
    BY <2>1, <2>2
<1>7. CASE TakeTick
  BY <1>1, <1>7 DEF TakeTick, JobAge
<1>8. CASE Download
  BY <1>1, <1>8 DEF Download, Go, JobAge
<1>9. CASE NotFound
  <2>1. update = "get" /\ update' = "previous"
    BY <1>9 DEF NotFound, Go
  <2>2. job' = [job EXCEPT !.age = Older(job.age)] /\ job \in Job
    BY <1>9 DEF NotFound, GeoTypeOK
  <2>3. job'.age = Older(job.age) /\ job'.ends = job.ends
    BY <2>2 DEF Job
  <2> QED
    BY <1>1, <1>3, <2>1, <2>3 DEF JobAge
<1>10. CASE Truncate
  BY <1>1, <1>10 DEF Truncate, Go, JobAge
<1> QED
  BY <1>4, <1>5, <1>6, <1>7, <1>8, <1>9, <1>10
     DEF GeoNext, geoVars, Start, StartWithUpdate, Listen, Stop, LookupKills, Ended, Tick,
         UpdateFails, WriteSome, WriteRest

\* An edition that counts as this month's was that of the month, or of the month
\* before, when its update began.
THEOREM EditionsAreRecent == GeoSpec => []BehindByOne
<1> DEFINE Inv == JobAge /\ BehindByOne
<1>1. GeoInit => Inv
  <2>1. NewJob.age = 0 /\ NewJob.ends = 0
    BY DEF NewJob
  <2> QED
    BY <2>1 DEF GeoInit, JobAge, BehindByOne
<1>2. ASSUME GeoTypeOK, Inv, GeoNext \/ UNCHANGED geoVars
      PROVE  Inv'
  <2>1. JobAge'
    BY <1>2, JobAgeStep
  <2>2. CASE UNCHANGED file
    <3>1. BehindByOne
      BY <1>2
    <3>2. BehindByOne'
      BY <2>2, <3>1 DEF BehindByOne
    <3> QED
      BY <2>1, <3>2
  <2>3. CASE Month
    <3>1. file' = [file EXCEPT !.mtime = "before", !.age = Older(file.age)] /\ file \in File
      BY <1>2, <2>3 DEF Month, GeoTypeOK
    <3>2. file'.mtime = "before"
      BY <3>1 DEF File
    <3>3. BehindByOne'
      BY <3>2 DEF BehindByOne
    <3> QED
      BY <2>1, <3>3
  <2>4. CASE Truncate \/ WriteSome
    <3>1. Write("partial", 0, 0)
      BY <2>4 DEF Truncate, WriteSome
    <3>2. file'.has = "partial"
      BY <3>1, Written
    <3>3. BehindByOne'
      BY <3>2 DEF BehindByOne
    <3> QED
      BY <2>1, <3>3
  <2>5. CASE WriteRest
    <3>1. job.age <= 1 + job.ends
      BY <1>2, <2>5 DEF WriteRest, JobAge
    <3>2. PICK age, took : age = job.age /\ took = job.ends
      OBVIOUS
    <3>3. Write("whole", age, took)
      BY <2>5, <3>2 DEF WriteRest
    <3>4. file'.age = age /\ file'.took = took
      BY <3>3, Written
    <3>5. BehindByOne'
      BY <3>1, <3>2, <3>4 DEF BehindByOne
    <3> QED
      BY <2>1, <3>5
  <2> QED
    BY <1>2, <2>1, <2>2, <2>3, <2>4, <2>5
       DEF GeoNext, geoVars, Start, StartWithUpdate, Listen, Stop, LookupKills, Ended, Tick,
           TakeTick, Download, NotFound, UpdateFails
<1>3. [GeoNext]_geoVars <=> GeoNext \/ UNCHANGED geoVars
  OBVIOUS
<1>4. Inv => BehindByOne
  OBVIOUS
<1> QED
  BY <1>1, <1>2, <1>3, <1>4, GeoTypeCorrect, PTL DEF GeoSpec
=============================================================================
