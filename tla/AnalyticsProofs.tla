-------------------------- MODULE AnalyticsProofs --------------------------
(***************************************************************************)
(* The figures of a report agree, for any number of requests, reports and  *)
(* statements in between: what an earlier statement counted is still there *)
(* for the later ones unless something was deleted, so the order of the    *)
(* statements decides which figure can exceed which.                       *)
(***************************************************************************)
EXTENDS Analytics, ServerProofs

USE DEF Null

\* Reports only read: what holds of Server holds here.
LEMMA StepsOfServer == [AnalyticsNext]_analyticsVars => [Next]_vars
BY DEF AnalyticsNext, analyticsVars, Next

LEMMA ServerBelow == AnalyticsSpec => Spec
<1>1. AnalyticsInit => Init
  BY DEF AnalyticsInit
<1> QED
  BY <1>1, StepsOfServer, PTL DEF AnalyticsSpec, Spec

-----------------------------------------------------------------------------
(* What becomes of the events a report looks at.                            *)

InRangeOf(p, from, to) == {e \in events : e.project_id = p /\ e.created_at \in from .. to}

\* An UPDATE, a cascade or SET NULL moves no event to another project or day.
LEMMA StatementKeepsRows ==
    ASSUME StoreTypeOK, IsKeyOf(events), StoreNext, NEW e \in events, e.id \in Ids(events')
    PROVE  /\ \E f \in events' : /\ f.id = e.id /\ f.project_id = e.project_id
                                 /\ f.created_at = e.created_at
           /\ e.id \in WithProperties => e.id \in WithProperties'
<1>0. events \subseteq EventRow
  BY DEF StoreTypeOK
<1>1. CASE e \in events' /\ WithProperties \subseteq WithProperties'
  BY <1>1
<1>2. ASSUME NEW gone, gone \subseteq events, DeleteEvents(gone), e \notin gone
      PROVE  e.id \in WithProperties => e.id \in WithProperties'
  <2>1. e.id \notin Ids(gone)
    BY <1>2 DEF IsKeyOf, Ids
  <2> QED
    BY <1>2, <2>1 DEF DeleteEvents, WithProperties
<1>3. CASE \E p \in Nat : DeleteProject(p)
  <2> PICK p \in Nat : DeleteProject(p)
    BY <1>3
  <2>1. events' = {Unlinked(f, GoneUsers(p)) : f \in events \ GoneEvents(p)}
        /\ DeleteEvents(GoneEvents(p)) /\ GoneEvents(p) \subseteq events
    BY DEF DeleteProject, GoneEvents
  <2>2. PICK x \in events \ GoneEvents(p) : Unlinked(x, GoneUsers(p)).id = e.id
    BY <2>1 DEF Ids
  <2>3. x = e
    BY <1>0, <2>2, UnlinkedEvent DEF IsKeyOf
  <2>4. /\ Unlinked(e, GoneUsers(p)).project_id = e.project_id
        /\ Unlinked(e, GoneUsers(p)).created_at = e.created_at
    BY <1>0 DEF Unlinked, EventRow
  <2> QED
    BY <1>2, <2>1, <2>2, <2>3, <2>4
<1>4. CASE \E p \in Nat, days \in Int : CleanupEvents(p, days)
  <2> PICK p \in Nat, days \in Int : CleanupEvents(p, days)
    BY <1>4
  <2>1. events' = events \ ExpiredEvents(p, days)
        /\ DeleteEvents(ExpiredEvents(p, days)) /\ ExpiredEvents(p, days) \subseteq events
    BY DEF CleanupEvents, ExpiredEvents
  <2>2. e \notin ExpiredEvents(p, days) /\ e \in events'
    BY <2>1 DEF Ids, IsKeyOf
  <2> QED
    BY <1>2, <2>1, <2>2
<1> QED
  BY <1>1, <1>3, <1>4
     DEF StoreNext, InsertProject, UpdateProject, InsertProjectToken, UpdateProjectToken,
         DeleteProjectToken, UpsertDevice, LinkDeviceToUser, InsertAppUser, InsertEvent,
         InsertEventProperties, tables, WithProperties

LEMMA StepKeepsRange ==
    ASSUME Typed, StoreInv, [Next]_vars, Ids(events) \subseteq Ids(events'),
           NEW p, NEW from, NEW to
    PROVE  /\ Ids(InRangeOf(p, from, to)) \subseteq Ids(InRangeOf(p, from, to))'
           /\ Ids(InRangeOf(p, from, to)) \cap WithProperties
                \subseteq (Ids(InRangeOf(p, from, to)) \cap WithProperties)'
<1> SUFFICES ASSUME NEW e \in events, e.project_id = p, e.created_at \in from .. to
             PROVE  /\ \E f \in events' : /\ f.id = e.id /\ f.project_id = p
                                          /\ f.created_at \in from .. to
                    /\ e.id \in WithProperties => e.id \in WithProperties'
  BY DEF InRangeOf, Ids
<1>1. e.id \in Ids(events')
  BY DEF Ids
<1>2. CASE StoreNext
  BY <1>1, <1>2, StatementKeepsRows DEF Typed, TypeOK, StoreInv, UniqueKeys
<1>3. CASE UNCHANGED storeVars
  BY <1>3 DEF storeVars, tables, WithProperties
<1> QED
  BY <1>2, <1>3, StepIsStatement

-----------------------------------------------------------------------------
(* The invariant of one report, on its kind, the number n of its next       *)
(* statement and the counts c of those before it.                           *)

\* The figures counted so far agree.
CountsAgree(kind, n, c) ==
    /\ kind = "overview" =>
         /\ n > 2 => c["devices"] \subseteq c["total"]
         /\ n > 3 /\ c["total"] # {} => c["names"] # {}
         /\ n > 4 /\ c["total"] # {} => c["countries"] # {}
    /\ kind = "events" => (n > 2 => c["names"] \subseteq c["periods"])
    /\ kind = "properties" => (n > 2 /\ c["keys"] # {} => c["values"] # {})

\* What a later figure is compared with is still there to be counted: `ids` are the
\* events in range now, `described` those of them with properties.
StillThere(kind, n, c, ids, described) ==
    /\ kind = "overview" => (n > 1 => c["devices"] \subseteq ids) /\ (n > 2 => c["total"] \subseteq ids)
    /\ kind = "events" => (n > 1 => c["names"] \subseteq ids)
    /\ kind = "properties" => (n > 1 => c["keys"] \subseteq described)

Counts == [Statements -> SUBSET EventIds]

LEMMA CountsAfterQuery ==
    ASSUME NEW kind \in Kinds, NEW n \in Nat \ {0}, n <= Len(Queries[kind]), NEW c \in Counts,
           NEW ids, NEW described, NEW q, q = Queries[kind][n],
           NEW s \in Listed(kind, q, IF q \in {"keys", "values"} THEN described ELSE ids),
           CountsAgree(kind, n, c), StillThere(kind, n, c, ids, described),
           NEW d, d = [c EXCEPT ![q] = s]
    PROVE  CountsAgree(kind, n + 1, d) /\ StillThere(kind, n + 1, d, ids, described)
<1>0. c \in [Statements -> SUBSET EventIds]
  BY DEF Counts
<1>1. CASE kind = "overview"
  <2>0. n \in 1 .. 4 /\ Queries[kind] = <<"devices", "total", "names", "countries">>
    BY <1>1 DEF Queries
  <2>1. CASE n = 1
    <3>1. q = "devices" /\ s = ids
      BY <1>1, <2>0, <2>1 DEF Listed
    <3>2. d["devices"] = ids
      BY <1>0, <3>1 DEF Statements
    <3> QED
      BY <1>1, <2>1, <3>2 DEF CountsAgree, StillThere
  <2>2. CASE n = 2
    <3>1. q = "total" /\ s = ids
      BY <1>1, <2>0, <2>2 DEF Listed
    <3>2. d["total"] = ids /\ d["devices"] = c["devices"]
      BY <1>0, <3>1 DEF Statements
    <3> QED
      BY <1>1, <2>2, <3>2 DEF CountsAgree, StillThere
  <2>3. CASE n = 3
    <3>1. q = "names" /\ (s = {} => ids = {})
      BY <1>1, <2>0, <2>3 DEF Listed
    <3>2. d["names"] = s /\ d["devices"] = c["devices"] /\ d["total"] = c["total"]
      BY <1>0, <3>1 DEF Statements
    <3> QED
      BY <1>1, <2>3, <3>1, <3>2 DEF CountsAgree, StillThere
  <2>4. CASE n = 4
    <3>1. q = "countries" /\ (s = {} => ids = {})
      BY <1>1, <2>0, <2>4 DEF Listed
    <3>2. d["countries"] = s /\ \A x \in {"devices", "total", "names"} : d[x] = c[x]
      BY <1>0, <3>1 DEF Statements
    <3> QED
      BY <1>1, <2>4, <3>1, <3>2 DEF CountsAgree, StillThere
  <2> QED
    BY <2>0, <2>1, <2>2, <2>3, <2>4
<1>2. CASE kind = "events"
  <2>0. n \in 1 .. 2 /\ Queries[kind] = <<"names", "periods">>
    BY <1>2 DEF Queries
  <2>1. CASE n = 1
    <3>1. q = "names" /\ s \subseteq ids
      BY <1>2, <2>0, <2>1 DEF Listed
    <3>2. d["names"] = s
      BY <1>0, <3>1 DEF Statements
    <3> QED
      BY <1>2, <2>1, <3>1, <3>2 DEF CountsAgree, StillThere
  <2>2. CASE n = 2
    <3>1. q = "periods" /\ s = ids
      BY <1>2, <2>0, <2>2 DEF Listed
    <3>2. d["periods"] = ids /\ d["names"] = c["names"]
      BY <1>0, <3>1 DEF Statements
    <3> QED
      BY <1>2, <2>2, <3>2 DEF CountsAgree, StillThere
  <2> QED
    BY <2>0, <2>1, <2>2
<1>3. CASE kind = "properties"
  <2>0. n \in 1 .. 2 /\ Queries[kind] = <<"keys", "values">>
    BY <1>3 DEF Queries
  <2>1. CASE n = 1
    <3>1. q = "keys" /\ s \subseteq described
      BY <1>3, <2>0, <2>1 DEF Listed
    <3>2. d["keys"] = s
      BY <1>0, <3>1 DEF Statements
    <3> QED
      BY <1>3, <2>1, <3>1, <3>2 DEF CountsAgree, StillThere
  <2>2. CASE n = 2
    <3>1. q = "values" /\ (s = {} => described = {})
      BY <1>3, <2>0, <2>2 DEF Listed
    <3>2. d["values"] = s /\ d["keys"] = c["keys"]
      BY <1>0, <3>1 DEF Statements
    <3> QED
      BY <1>3, <2>2, <3>1, <3>2 DEF CountsAgree, StillThere
  <2> QED
    BY <2>0, <2>1, <2>2
<1>4. CASE kind = "geo"
  BY <1>4 DEF CountsAgree, StillThere
<1> QED
  BY <1>1, <1>2, <1>3, <1>4 DEF Kinds, Queries

-----------------------------------------------------------------------------
(* The invariant of the frames, and what the steps do to one of them.       *)

ReportRecord == [pc : {"idle", "open", "done", "error", "lost"}, kind : Kinds,
                 project : Nat, from : Nat, to : Nat, next : Nat \ {0},
                 counted : Counts, kept : BOOLEAN, whole : BOOLEAN]
Frames == [Viewers -> ReportRecord]

RangeOf(v) == Ids(InRange(reports[v]))

Agreeing(v) ==
    /\ reports[v].pc \in {"open", "done"} =>
         CountsAgree(reports[v].kind, reports[v].next, reports[v].counted)
    /\ reports[v].pc = "open" =>
         StillThere(reports[v].kind, reports[v].next, reports[v].counted,
                    RangeOf(v), RangeOf(v) \cap WithProperties)

Finished(v) == reports[v].pc = "done" => reports[v].next > Len(Queries[reports[v].kind])

ReportsInv ==
    /\ reports \in Frames
    /\ \A v \in Viewers : Finished(v) /\ (reports[v].kept /\ reports[v].whole => Agreeing(v))

\* The columns of a report that say what it asks for.
SameRequest(v) ==
    /\ reports'[v].kind = reports[v].kind /\ reports'[v].project = reports[v].project
    /\ reports'[v].from = reports[v].from /\ reports'[v].to = reports[v].to

LEMMA StatementTypes ==
    ASSUME NEW kind \in Kinds, NEW n \in Nat \ {0}, n <= Len(Queries[kind])
    PROVE  Queries[kind][n] \in Statements
<1>1. CASE kind = "overview"
  <2>1. Queries[kind] = <<"devices", "total", "names", "countries">>
    BY <1>1 DEF Queries
  <2>2. n = 1 \/ n = 2 \/ n = 3 \/ n = 4
    BY <2>1
  <2> QED
    BY <2>1, <2>2 DEF Statements
<1>2. CASE kind = "events"
  <2>1. Queries[kind] = <<"names", "periods">>
    BY <1>2 DEF Queries
  <2>2. n = 1 \/ n = 2
    BY <2>1
  <2> QED
    BY <2>1, <2>2 DEF Statements
<1>3. CASE kind = "properties"
  <2>1. Queries[kind] = <<"keys", "values">>
    BY <1>3 DEF Queries
  <2>2. n = 1 \/ n = 2
    BY <2>1
  <2> QED
    BY <2>1, <2>2 DEF Statements
<1>4. CASE kind = "geo"
  <2>1. Queries[kind] = <<"countries", "cities">>
    BY <1>4 DEF Queries
  <2>2. n = 1 \/ n = 2
    BY <2>1
  <2> QED
    BY <2>1, <2>2 DEF Statements
<1> QED
  BY <1>1, <1>2, <1>3, <1>4 DEF Kinds, Queries

LEMMA MatchingRange ==
    ASSUME NEW v \in Viewers, InProgress(v)
    PROVE  Matching(Statement(v), reports[v]) =
             IF Statement(v) \in {"keys", "values"} THEN RangeOf(v) \cap WithProperties ELSE RangeOf(v)
BY DEF Matching, RangeOf

\* A SELECT of report v, that was answered.
LEMMA QueryStep ==
    ASSUME TypeOK, ReportsInv, NEW v \in Viewers, Query(v)
    PROVE  /\ reports' \in Frames
           /\ \A w \in Viewers \ {v} : reports'[w] = reports[w]
           /\ SameRequest(v) /\ reports'[v].pc = "open" /\ reports'[v].next = reports[v].next + 1
           /\ reports'[v].kept = reports[v].kept /\ reports'[v].whole = reports[v].whole
           /\ \E s \in Listed(reports[v].kind, Statement(v),
                              IF Statement(v) \in {"keys", "values"}
                              THEN RangeOf(v) \cap WithProperties ELSE RangeOf(v)) :
                reports'[v].counted = [reports[v].counted EXCEPT ![Statement(v)] = s]
<1>1. PICK s \in Listed(reports[v].kind, Statement(v), Matching(Statement(v), reports[v])) :
         reports' = [reports EXCEPT ![v].counted[Statement(v)] = s, ![v].next = @ + 1]
  BY DEF Query
<1>2. InProgress(v)
  BY DEF Query
<1>3. RangeOf(v) \subseteq EventIds
  BY DEF RangeOf, InRange, Ids, TypeOK, StoreTypeOK, EventRow
<1>4. Matching(Statement(v), reports[v]) \subseteq EventIds
  BY <1>2, <1>3, MatchingRange
<1>5. s \in SUBSET EventIds
  BY <1>4 DEF Listed
<1>6. Statement(v) \in Statements
  <2>1. reports[v].kind \in Kinds /\ reports[v].next \in Nat \ {0}
    BY DEF ReportsInv, Frames, ReportRecord
  <2>2. reports[v].next <= Len(Queries[reports[v].kind])
    BY <1>2 DEF InProgress
  <2> QED
    BY <2>1, <2>2, StatementTypes DEF Statement
<1>7. reports \in Frames /\ reports[v].counted \in Counts /\ reports[v].next \in Nat \ {0}
  BY DEF ReportsInv, Frames, ReportRecord
<1> DEFINE c == [reports[v].counted EXCEPT ![Statement(v)] = s]
           n == reports[v].next + 1
           f == [reports[v] EXCEPT !.counted = c, !.next = n]
<1>8. c \in Counts /\ n \in Nat \ {0}
  BY <1>5, <1>6, <1>7 DEF Counts
<1>9. reports' = [reports EXCEPT ![v] = f]
  BY <1>1
<1> HIDE DEF c, n
<1>10. reports' \in Frames /\ reports'[v] = f /\ \A w \in Viewers \ {v} : reports'[w] = reports[w]
  BY <1>7, <1>8, <1>9 DEF Frames, ReportRecord
<1>11. /\ f.counted = c /\ f.next = n /\ f.pc = reports[v].pc
       /\ f.kind = reports[v].kind /\ f.project = reports[v].project
       /\ f.from = reports[v].from /\ f.to = reports[v].to
       /\ f.kept = reports[v].kept /\ f.whole = reports[v].whole
  BY <1>7 DEF Frames, ReportRecord
<1> QED
  BY <1>1, <1>2, <1>10, <1>11, MatchingRange DEF SameRequest, c, n, InProgress

\* One report moves on, others are as they were.
LEMMA OneReport ==
    ASSUME NEW v \in Viewers, reports' \in Frames, ReportsInv,
           \A w \in Viewers \ {v} : reports'[w] = reports[w],
           UNCHANGED vars,
           Finished(v)', reports'[v].kept /\ reports'[v].whole => Agreeing(v)'
    PROVE  ReportsInv'
<1>1. UNCHANGED <<events, event_properties>>
  BY DEF vars, storeVars, tables
<1>2. ASSUME NEW w \in Viewers \ {v}
      PROVE  Finished(w)' /\ (reports'[w].kept /\ reports'[w].whole => Agreeing(w)')
  <2>1. (Finished(w)' <=> Finished(w)) /\ (Agreeing(w)' <=> Agreeing(w))
    BY <1>1, <1>2 DEF Finished, Agreeing, RangeOf, InRange, WithProperties
  <2> QED
    BY <1>2, <2>1, Zenon DEF ReportsInv
<1> QED
  BY <1>2 DEF ReportsInv

LEMMA QueryKeeps ==
    ASSUME TypeOK, ReportsInv, NEW v \in Viewers, Query(v), UNCHANGED vars
    PROVE  ReportsInv'
<1>1. PICK s \in Listed(reports[v].kind, Statement(v),
                        IF Statement(v) \in {"keys", "values"}
                        THEN RangeOf(v) \cap WithProperties ELSE RangeOf(v)) :
         reports'[v].counted = [reports[v].counted EXCEPT ![Statement(v)] = s]
  BY QueryStep
<1>2. Finished(v)'
  BY QueryStep DEF Finished
<1>3. ASSUME reports'[v].kept /\ reports'[v].whole PROVE Agreeing(v)'
  <2>1. reports[v].pc = "open" /\ reports[v].next <= Len(Queries[reports[v].kind])
    BY DEF Query, InProgress
  <2>2. /\ CountsAgree(reports[v].kind, reports[v].next, reports[v].counted)
        /\ StillThere(reports[v].kind, reports[v].next, reports[v].counted,
                      RangeOf(v), RangeOf(v) \cap WithProperties)
    <3>1. reports[v].kept /\ reports[v].whole
      BY <1>3, QueryStep
    <3>2. Agreeing(v)
      BY <3>1, Zenon DEF ReportsInv
    <3> QED
      BY <2>1, <3>2 DEF Agreeing
  <2>3. /\ reports[v].kind \in Kinds /\ reports[v].next \in Nat \ {0}
        /\ reports[v].counted \in Counts
    BY DEF ReportsInv, Frames, ReportRecord
  <2>4. /\ CountsAgree(reports[v].kind, reports[v].next + 1, reports'[v].counted)
        /\ StillThere(reports[v].kind, reports[v].next + 1, reports'[v].counted,
                      RangeOf(v), RangeOf(v) \cap WithProperties)
    <3>1. PICK ids, described : ids = RangeOf(v) /\ described = RangeOf(v) \cap WithProperties
      OBVIOUS
    <3>2. PICK kind, n, c, d : /\ kind = reports[v].kind /\ n = reports[v].next
                              /\ c = reports[v].counted /\ d = reports'[v].counted
      OBVIOUS
    <3>3. PICK q : q = Statement(v) /\ q = Queries[kind][n]
      BY <3>2 DEF Statement
    <3>4. PICK t \in Listed(kind, q, IF q \in {"keys", "values"} THEN described ELSE ids) :
             d = [c EXCEPT ![q] = t]
      BY <1>1, <3>1, <3>2, <3>3
    <3>5. /\ kind \in Kinds /\ n \in Nat \ {0} /\ n <= Len(Queries[kind]) /\ c \in Counts
          /\ CountsAgree(kind, n, c) /\ StillThere(kind, n, c, ids, described)
      BY <2>1, <2>2, <2>3, <3>1, <3>2
    <3>6. CountsAgree(kind, n + 1, d) /\ StillThere(kind, n + 1, d, ids, described)
      BY <3>3, <3>4, <3>5, CountsAfterQuery
    <3> QED
      BY <3>1, <3>2, <3>6
  <2>5. RangeOf(v)' = RangeOf(v) /\ WithProperties' = WithProperties
    <3>1. UNCHANGED <<events, event_properties>>
      BY DEF vars, storeVars, tables
    <3> QED
      BY <3>1, QueryStep DEF RangeOf, InRange, WithProperties, SameRequest
  <2>6. reports'[v].kind = reports[v].kind /\ reports'[v].next = reports[v].next + 1
    BY QueryStep DEF SameRequest
  <2> QED
    BY <2>4, <2>5, <2>6 DEF Agreeing
<1> QED
  BY <1>2, <1>3, QueryStep, OneReport

LEMMA RespondKeeps ==
    ASSUME ReportsInv, NEW v \in Viewers, Respond(v), UNCHANGED vars
    PROVE  ReportsInv'
<1>0. reports \in Frames
  BY DEF ReportsInv
<1>1. /\ reports' \in Frames
      /\ \A w \in Viewers \ {v} : reports'[w] = reports[w]
      /\ reports'[v].pc = "done" /\ reports'[v].kind = reports[v].kind
      /\ reports'[v].next = reports[v].next /\ reports'[v].counted = reports[v].counted
      /\ reports'[v].kept = reports[v].kept /\ reports'[v].whole = reports[v].whole
  BY <1>0 DEF Frames, ReportRecord, Respond
<1>2. Finished(v)'
  BY <1>1 DEF Finished, Respond
<1>3. ASSUME reports'[v].kept /\ reports'[v].whole PROVE Agreeing(v)'
  <2>1. reports[v].kept /\ reports[v].whole
    BY <1>1, <1>3
  <2>2. Agreeing(v) /\ reports[v].pc = "open"
    BY <2>1, Zenon DEF ReportsInv, Respond
  <2> QED
    BY <1>1, <2>2 DEF Agreeing
<1> QED
  BY <1>1, <1>2, <1>3, OneReport

LEMMA FailureKeeps ==
    ASSUME ReportsInv, NEW v \in Viewers, QueryFails(v), UNCHANGED vars
    PROVE  ReportsInv'
<1>0. reports \in Frames /\ reports[v].next \in Nat
  BY DEF ReportsInv, Frames, ReportRecord
<1>1. CASE reports' = [reports EXCEPT ![v].pc = "error"]
  <2>1. /\ reports' \in Frames
        /\ \A w \in Viewers \ {v} : reports'[w] = reports[w]
        /\ reports'[v].pc = "error"
    BY <1>0, <1>1 DEF Frames, ReportRecord
  <2> QED
    BY <2>1, OneReport DEF Finished, Agreeing
<1>2. CASE reports' = [reports EXCEPT ![v].whole = FALSE, ![v].next = @ + 1]
  <2>1. /\ reports' \in Frames
        /\ \A w \in Viewers \ {v} : reports'[w] = reports[w]
        /\ reports'[v].pc = reports[v].pc /\ reports'[v].whole = FALSE
    BY <1>0, <1>2 DEF Frames, ReportRecord
  <2>2. Finished(v)'
    BY <2>1 DEF Finished, QueryFails, InProgress
  <2> QED
    BY <2>1, <2>2, OneReport
<1> QED
  BY <1>1, <1>2 DEF QueryFails

LEMMA OpenKeeps ==
    ASSUME ReportsInv, NEW v \in Viewers, OpenReport(v), UNCHANGED vars
    PROVE  ReportsInv'
<1>0. reports \in Frames
  BY DEF ReportsInv
<1>1. PICK kind \in Reports, p \in ProjectIds, from, to \in 0 .. MaxDays :
         reports' = [reports EXCEPT ![v] =
           [IdleReport EXCEPT !.pc = "open", !.kind = kind, !.project = p,
                              !.from = from, !.to = to]]
  BY DEF OpenReport
<1> DEFINE f == [IdleReport EXCEPT !.pc = "open", !.kind = kind, !.project = p,
                                   !.from = from, !.to = to]
<1>2. NothingCounted \in Counts
  BY DEF NothingCounted, Counts
<1>3. /\ IdleReport \in ReportRecord /\ IdleReport.next = 1
  BY <1>2 DEF IdleReport, ReportRecord, Kinds, Queries
<1>4. kind \in Kinds /\ p \in Nat /\ from \in Nat /\ to \in Nat
  BY ReportsAssumption DEF ProjectIds
<1>5. f \in ReportRecord /\ f.pc = "open" /\ f.next = 1
  BY <1>3, <1>4 DEF ReportRecord
<1> HIDE DEF f
<1>6. /\ reports' \in Frames
      /\ \A w \in Viewers \ {v} : reports'[w] = reports[w]
      /\ reports'[v].pc = "open" /\ reports'[v].next = 1
  BY <1>0, <1>1, <1>5 DEF Frames, ReportRecord, f
<1>7. Agreeing(v)'
  BY <1>6 DEF Agreeing, CountsAgree, StillThere
<1> QED
  BY <1>6, <1>7, OneReport DEF Finished

-----------------------------------------------------------------------------
(* What the steps of Server do to the reports.                              *)

LEMMA WatchedFrames ==
    ASSUME reports \in Frames, reports' = Watched
    PROVE  /\ reports' \in Frames
           /\ \A v \in Viewers :
                /\ SameRequest(v) /\ reports'[v].pc = reports[v].pc
                /\ reports'[v].next = reports[v].next /\ reports'[v].counted = reports[v].counted
                /\ reports'[v].whole = reports[v].whole
                /\ reports'[v].kept => reports[v].kept /\ Ids(events) \subseteq Ids(events')
<1>1. PICK intact \in BOOLEAN : intact <=> Ids(events) \subseteq Ids(events')
  OBVIOUS
<1>2. ASSUME NEW v \in Viewers
      PROVE  \E k \in BOOLEAN : /\ k => reports[v].kept /\ intact
                                /\ reports'[v] = [reports[v] EXCEPT !.kept = k]
  <2>1. reports'[v] = [reports[v] EXCEPT !.kept = @ /\ Ids(events) \subseteq Ids(events')]
    BY <1>2 DEF Watched
  <2>2. PICK k \in BOOLEAN : k = (reports[v].kept /\ Ids(events) \subseteq Ids(events'))
    OBVIOUS
  <2> QED
    BY <1>1, <2>1, <2>2
<1>3. ASSUME NEW v \in Viewers
      PROVE  /\ reports'[v] \in ReportRecord
             /\ SameRequest(v) /\ reports'[v].pc = reports[v].pc
             /\ reports'[v].next = reports[v].next /\ reports'[v].counted = reports[v].counted
             /\ reports'[v].whole = reports[v].whole
             /\ reports'[v].kept => reports[v].kept /\ intact
  <2>1. PICK k \in BOOLEAN : /\ k => reports[v].kept /\ intact
                             /\ reports'[v] = [reports[v] EXCEPT !.kept = k]
    BY <1>2
  <2>2. reports[v] \in ReportRecord
    BY DEF Frames
  <2> QED
    BY <2>1, <2>2 DEF ReportRecord, SameRequest
<1>4. reports' = [v \in Viewers |-> reports'[v]]
  BY DEF Watched
<1> QED
  BY <1>1, <1>3, <1>4 DEF Frames

LEMMA StillThereLater ==
    ASSUME NEW kind, NEW n, NEW c, NEW ids, NEW described, NEW ids2, NEW described2,
           StillThere(kind, n, c, ids, described), ids \subseteq ids2, described \subseteq described2
    PROVE  StillThere(kind, n, c, ids2, described2)
BY DEF StillThere

LEMMA WatchKeeps ==
    ASSUME Typed, StoreInv, ReportsInv, [Next]_vars, reports' = Watched
    PROVE  ReportsInv'
<1>0. reports \in Frames
  BY DEF ReportsInv
<1> SUFFICES ASSUME NEW v \in Viewers
             PROVE  Finished(v)' /\ (reports'[v].kept /\ reports'[v].whole => Agreeing(v)')
  BY <1>0, WatchedFrames DEF ReportsInv
<1>1. /\ SameRequest(v) /\ reports'[v].pc = reports[v].pc
      /\ reports'[v].next = reports[v].next /\ reports'[v].counted = reports[v].counted
      /\ reports'[v].whole = reports[v].whole
      /\ reports'[v].kept => reports[v].kept /\ Ids(events) \subseteq Ids(events')
  BY <1>0, WatchedFrames
<1>2. Finished(v)'
  BY <1>1 DEF ReportsInv, Finished, SameRequest
<1>3. ASSUME reports'[v].kept, reports'[v].whole PROVE Agreeing(v)'
  <2>1. Agreeing(v)
    <3>1. reports[v].kept /\ reports[v].whole
      BY <1>1, <1>3
    <3> QED
      BY <3>1, Zenon DEF ReportsInv
  <2>2. /\ RangeOf(v) \subseteq RangeOf(v)'
        /\ RangeOf(v) \cap WithProperties \subseteq (RangeOf(v) \cap WithProperties)'
    <3>1. PICK p, from, to : p = reports[v].project /\ from = reports[v].from /\ to = reports[v].to
      OBVIOUS
    <3>2. /\ Ids(InRangeOf(p, from, to)) \subseteq Ids(InRangeOf(p, from, to))'
          /\ Ids(InRangeOf(p, from, to)) \cap WithProperties
               \subseteq (Ids(InRangeOf(p, from, to)) \cap WithProperties)'
      BY <1>1, <1>3, StepKeepsRange
    <3>3. InRange(reports[v]) = InRangeOf(p, from, to)
      BY <3>1 DEF InRange, InRangeOf
    <3>4. InRange(reports[v])' = InRangeOf(p, from, to)'
      BY <1>1, <3>1 DEF InRange, InRangeOf, SameRequest
    <3> QED
      BY <3>2, <3>3, <3>4 DEF RangeOf, Ids
  <2>3. reports[v].pc \in {"open", "done"} =>
           CountsAgree(reports[v].kind, reports[v].next, reports[v].counted)
    BY <2>1 DEF Agreeing
  <2>4. ASSUME reports[v].pc = "open"
        PROVE  StillThere(reports[v].kind, reports[v].next, reports[v].counted,
                          RangeOf(v)', (RangeOf(v) \cap WithProperties)')
    BY <2>1, <2>2, <2>4, StillThereLater DEF Agreeing
  <2> QED
    BY <1>1, <2>3, <2>4 DEF Agreeing, SameRequest
<1> QED
  BY <1>2, <1>3

LEMMA CrashKeeps ==
    ASSUME ReportsInv, reports' = DropReports
    PROVE  ReportsInv'
<1>0. reports \in Frames
  BY DEF ReportsInv
<1>1. ASSUME NEW v \in Viewers
      PROVE  /\ reports'[v] \in ReportRecord
             /\ \/ reports'[v] = reports[v] /\ reports[v].pc # "open"
                \/ reports'[v].pc = "lost"
  BY <1>0 DEF DropReports, Frames, ReportRecord
<1>2. reports' \in Frames
  BY <1>1 DEF DropReports, Frames
<1>3. ASSUME NEW v \in Viewers
      PROVE  Finished(v)' /\ (reports'[v].kept /\ reports'[v].whole => Agreeing(v)')
  <2>1. CASE reports'[v].pc = "lost"
    BY <2>1 DEF Finished, Agreeing
  <2>2. CASE reports'[v] = reports[v] /\ reports[v].pc # "open"
    <3>1. Finished(v) /\ (reports[v].kept /\ reports[v].whole => Agreeing(v))
      BY Zenon DEF ReportsInv
    <3>2. Agreeing(v) => Agreeing(v)'
      BY <2>2 DEF Agreeing
    <3>3. Finished(v)'
      BY <2>2, <3>1 DEF Finished
    <3> QED
      BY <2>2, <3>1, <3>2, <3>3
  <2> QED
    BY <1>1, <2>1, <2>2
<1> QED
  BY <1>2, <1>3 DEF ReportsInv

LEMMA InitReportsInv == AnalyticsInit => ReportsInv
<1> SUFFICES ASSUME AnalyticsInit PROVE ReportsInv
  OBVIOUS
<1>1. NothingCounted \in Counts
  BY DEF NothingCounted, Counts
<1>2. IdleReport \in ReportRecord /\ IdleReport.pc = "idle"
  BY <1>1 DEF IdleReport, ReportRecord, Kinds, Queries
<1>3. reports \in Frames /\ \A v \in Viewers : reports[v].pc = "idle"
  BY <1>2 DEF AnalyticsInit, Frames
<1> QED
  BY <1>3 DEF ReportsInv, Finished, Agreeing

LEMMA StepReportsInv == Typed /\ StoreInv /\ ReportsInv /\ [AnalyticsNext]_analyticsVars => ReportsInv'
<1> SUFFICES ASSUME Typed, StoreInv, ReportsInv, [AnalyticsNext]_analyticsVars PROVE ReportsInv'
  OBVIOUS
<1>1. CASE reports' = Watched
  BY <1>1, StepsOfServer, WatchKeeps
<1>2. CASE reports' = DropReports
  BY <1>2, CrashKeeps
<1>3. ASSUME NEW v \in Viewers, Report(v), UNCHANGED vars PROVE ReportsInv'
  BY <1>3, OpenKeeps, QueryKeeps, FailureKeeps, RespondKeeps DEF Report, Typed
<1>4. CASE UNCHANGED analyticsVars
  <2>1. UNCHANGED <<events, event_properties, reports>>
    BY <1>4 DEF analyticsVars, vars, storeVars, tables
  <2> QED
    BY <2>1 DEF ReportsInv, Finished, Agreeing, RangeOf, InRange, WithProperties
<1> QED
  BY <1>1, <1>2, <1>3, <1>4 DEF AnalyticsNext

-----------------------------------------------------------------------------
LEMMA InvMakesAnswersAgree == ReportsInv => AnswersAgree
<1> SUFFICES ASSUME ReportsInv, NEW v \in Viewers,
                    reports[v].pc = "done", reports[v].kept, reports[v].whole
             PROVE  LET c == reports[v].counted IN
                      CASE reports[v].kind = "overview" ->
                             /\ c["devices"] \subseteq c["total"]
                             /\ c["total"] # {} => c["names"] # {} /\ c["countries"] # {}
                        [] reports[v].kind = "events"     -> c["names"] \subseteq c["periods"]
                        [] reports[v].kind = "properties" -> c["keys"] # {} => c["values"] # {}
                        [] OTHER                          -> TRUE
  BY Zenon DEF AnswersAgree
<1>1. Agreeing(v) /\ Finished(v)
  BY Zenon DEF ReportsInv
<1>2. CountsAgree(reports[v].kind, reports[v].next, reports[v].counted)
  BY <1>1 DEF Agreeing
<1>3. reports[v].kind \in Kinds /\ reports[v].next \in Nat
  BY DEF ReportsInv, Frames, ReportRecord
<1>4. reports[v].next > Len(Queries[reports[v].kind])
  BY <1>1 DEF Finished
<1>5. CASE reports[v].kind = "overview"
  <2>1. reports[v].next > 4
    BY <1>3, <1>4, <1>5 DEF Queries
  <2> QED
    BY <1>2, <1>3, <1>5, <2>1 DEF CountsAgree
<1>6. CASE reports[v].kind = "events"
  <2>1. reports[v].next > 2
    BY <1>3, <1>4, <1>6 DEF Queries
  <2> QED
    BY <1>2, <1>3, <1>6, <2>1 DEF CountsAgree
<1>7. CASE reports[v].kind = "properties"
  <2>1. reports[v].next > 2
    BY <1>3, <1>4, <1>7 DEF Queries
  <2> QED
    BY <1>2, <1>3, <1>7, <2>1 DEF CountsAgree
<1>8. CASE reports[v].kind = "geo"
  BY <1>8
<1> QED
  BY <1>3, <1>5, <1>6, <1>7, <1>8 DEF Kinds, Queries

\* The figures of every answer of the console's reports agree, though the
\* statements that count them (GetOverview and the others of analytics.go) run
\* without a transaction while events come in, unless some were deleted or an
\* error was dropped meanwhile.
THEOREM FiguresAgree == AnalyticsSpec => []AnswersAgree
<1>1. AnalyticsSpec => []Typed /\ []StoreInv
  BY ServerBelow, AlwaysTyped, AlwaysStoreInv, PTL
<1> QED
  BY <1>1, InitReportsInv, StepReportsInv, InvMakesAnswersAgree, PTL DEF AnalyticsSpec
=============================================================================
