----------------------------- MODULE Analytics -----------------------------
(***************************************************************************)
(* The reports of the console, internal/handler/analytics.go, over the     *)
(* running Server: each is answered from several statements, without a     *)
(* transaction around them, while events come in and are deleted.          *)
(*                                                                         *)
(* A statement is modelled by the set of the events it counts; the number  *)
(* or the list of numbers in the answer says how many they are, by what    *)
(* they are grouped by.  Only reports about events are modelled: Devices   *)
(* is a single statement, Users has two over another table, and Retention  *)
(* returns a constant.                                                     *)
(***************************************************************************)
EXTENDS Server

CONSTANTS
    Viewers,    \* report requests
    Reports     \* bound: the kinds of report that are asked for

VARIABLE reports   \* the frames

analyticsVars == <<vars, reports>>

\* What Queries must not be: the total of the overview before the devices.
QueriesTotalFirst ==
    [overview   |-> <<"total", "devices", "names", "countries">>,
     events     |-> <<"names", "periods">>,
     properties |-> <<"keys", "values">>,
     geo        |-> <<"countries", "cities">>]

\* The statements of GetOverview, GetEventsAnalytics, GetEventProperties (for one
\* key) and GetGeoAnalytics, in order.
Queries ==
    [overview   |-> <<"devices", "total", "names", "countries">>,
     events     |-> <<"names", "periods">>,
     properties |-> <<"keys", "values">>,
     geo        |-> <<"countries", "cities">>]

\* Those whose error is answered with 500; of the others it is dropped.
MustSucceed ==
    [overview |-> {}, events |-> {"names"}, properties |-> {"keys"},
     geo |-> {"countries", "cities"}]

Kinds == DOMAIN Queries
Statements == {"devices", "total", "names", "countries", "periods", "keys", "values", "cities"}

ASSUME ReportsAssumption == Reports \subseteq Kinds

\* `counted` has what each statement counted; `kept` is history: nothing was
\* deleted since the report was begun; `whole`: no error was dropped.
ReportFrame == [pc : {"idle", "open", "done", "error", "lost"},
                kind : Kinds, project : ProjectIds, from : Nat, to : Nat,
                next : Nat, counted : [Statements -> SUBSET EventIds],
                kept : BOOLEAN, whole : BOOLEAN]

AnalyticsTypeOK == TypeOK /\ reports \in [Viewers -> ReportFrame]

NothingCounted == [q \in Statements |-> {}]

IdleReport ==
    [pc |-> "idle", kind |-> "overview", project |-> 1, from |-> 0, to |-> 0, next |-> 1,
     counted |-> NothingCounted, kept |-> TRUE, whole |-> TRUE]

AnalyticsInit == Init /\ reports = [v \in Viewers |-> IdleReport]

-----------------------------------------------------------------------------
(* A report.  The project of the path need not exist.                       *)

OpenReport(v) ==
    /\ reports[v].pc = "idle"
    /\ \E kind \in Reports, p \in ProjectIds, from, to \in 0 .. MaxDays :
         reports' = [reports EXCEPT ![v] =
           [IdleReport EXCEPT !.pc = "open", !.kind = kind, !.project = p,
                              !.from = from, !.to = to]]

\* project_id = p AND created_at BETWEEN from AND to
InRange(r) == {e \in events : e.project_id = r.project /\ e.created_at \in r.from .. r.to}

WithProperties == {x.event_id : x \in event_properties}

Matching(q, r) ==
    IF q \in {"keys", "values"} THEN Ids(InRange(r)) \cap WithProperties ELSE Ids(InRange(r))

\* A LIMIT may cut off all groups but one, a page may be past the last.
Listed(kind, q, ids) ==
    CASE kind = "overview" /\ q \in {"names", "countries"} -> {s \in SUBSET ids : s = {} => ids = {}}
      [] q = "values"                                      -> {s \in SUBSET ids : s = {} => ids = {}}
      [] kind # "overview" /\ q \in {"names", "countries", "cities", "keys"} -> SUBSET ids
      [] OTHER                                             -> {ids}

InProgress(v) == reports[v].pc = "open" /\ reports[v].next <= Len(Queries[reports[v].kind])
Statement(v) == Queries[reports[v].kind][reports[v].next]

\* SELECT
Query(v) ==
    /\ InProgress(v)
    /\ \E ids \in Listed(reports[v].kind, Statement(v), Matching(Statement(v), reports[v])) :
         reports' = [reports EXCEPT ![v].counted[Statement(v)] = ids, ![v].next = @ + 1]

QueryFails(v) ==
    /\ InProgress(v)
    /\ reports' = IF Statement(v) \in MustSucceed[reports[v].kind]
                  THEN [reports EXCEPT ![v].pc = "error"]
                  ELSE [reports EXCEPT ![v].whole = FALSE, ![v].next = @ + 1]

\* 200
Respond(v) ==
    /\ reports[v].pc = "open" /\ reports[v].next > Len(Queries[reports[v].kind])
    /\ reports' = [reports EXCEPT ![v].pc = "done"]

Report(v) == OpenReport(v) \/ Query(v) \/ QueryFails(v) \/ Respond(v)

-----------------------------------------------------------------------------
Watched ==
    [v \in Viewers |->
       [reports[v] EXCEPT !.kept = @ /\ Ids(events) \subseteq Ids(events')]]

DropReports ==
    [v \in Viewers |->
       IF reports[v].pc = "open" THEN [reports[v] EXCEPT !.pc = "lost"] ELSE reports[v]]

AnalyticsNext ==
    \/ TrackingNext /\ UNCHANGED <<admin, due, sweep>> /\ reports' = Watched
    \/ ProjectsNext /\ UNCHANGED <<reqs, due, sweep>> /\ reports' = Watched
    \/ RetentionNext /\ UNCHANGED <<reqs, admin>> /\ reports' = Watched
    \/ Crash /\ reports' = DropReports
    \/ (\E v \in Viewers : Report(v)) /\ UNCHANGED vars

AnalyticsSpec == AnalyticsInit /\ [][AnalyticsNext]_analyticsVars

-----------------------------------------------------------------------------
\* The figures of one answer go together, although events come in between the
\* statements, unless some were deleted or an error was dropped meanwhile: not
\* more devices are active than there are events, what is listed by name is
\* counted by period, and no list is empty that an earlier figure says is not.
AnswersAgree ==
    \A v \in Viewers :
        reports[v].pc = "done" /\ reports[v].kept /\ reports[v].whole =>
          LET c == reports[v].counted IN
            CASE reports[v].kind = "overview" ->
                   /\ c["devices"] \subseteq c["total"]
                   /\ c["total"] # {} => c["names"] # {} /\ c["countries"] # {}
              [] reports[v].kind = "events"     -> c["names"] \subseteq c["periods"]
              [] reports[v].kind = "properties" -> c["keys"] # {} => c["values"] # {}
              [] OTHER                          -> TRUE
=============================================================================
