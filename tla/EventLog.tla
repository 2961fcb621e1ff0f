------------------------------ MODULE EventLog ------------------------------
(***************************************************************************)
(* What ingestion promises, without frames, tables, statements, retries or *)
(* crashes in the middle: a log of events, to which a request adds the     *)
(* events of its batch one at a time, each together with the count of it   *)
(* that the client is told, and from which deletions take events away.     *)
(* Server implements it (module Server, EventLogSpec).                     *)
(***************************************************************************)
EXTENDS Naturals, Sequences

CONSTANTS
    Requests,   \* the requests of one execution
    Call        \* what each carries; an event of a batch has an id

VARIABLES
    log,        \* the events: [id, by], `by` the request it came with
    described,  \* the events that have properties: [event_id, by]
    gone,       \* the events that have been deleted: [id, by]
    counted,    \* for each request the positions of its batch it has stored
    open        \* the requests that have no answer, nor lost it, yet

logVars == <<log, described, gone, counted, open>>

IdAt(r, i) == Call[r].batch[i].id

LogInit ==
    /\ log = {} /\ described = {} /\ gone = {}
    /\ counted = [r \in Requests |-> {}]
    /\ open = Requests

\* An event is stored and counted at once, if no event has its id; it is not
\* counted if the store's answer was lost.
Ingest(r, i) ==
    /\ r \in open
    /\ ~ \E e \in log : e.id = IdAt(r, i)
    /\ log' = log \cup {[id |-> IdAt(r, i), by |-> r]}
    /\ counted' \in {counted, [counted EXCEPT ![r] = @ \cup {i}]}
    /\ UNCHANGED <<described, gone, open>>

\* Properties are added later, to the event that the request has counted or, if
\* that one was deleted meanwhile, to whatever event has its id now.
Describe(r, i) ==
    /\ r \in open /\ i \in counted[r]
    /\ \E e \in log : e.id = IdAt(r, i) /\ (e.by = r \/ [id |-> e.id, by |-> r] \in gone)
    /\ described' = described \cup {[event_id |-> IdAt(r, i), by |-> r]}
    /\ UNCHANGED <<log, gone, counted, open>>

\* A deletion takes events together with their properties and nothing else.
Forget(ids) ==
    /\ log' = {e \in log : e.id \notin ids}
    /\ described' = {x \in described : x.event_id \notin ids}
    /\ gone' = gone \cup {e \in log : e.id \in ids}
    /\ UNCHANGED <<counted, open>>

\* Requests get their answer, which is final, or die with the process; a request
\* that dies may have stored an event it has not counted.
Close(rs) ==
    /\ open' = open \ rs
    /\ \A r \in Requests : \/ counted'[r] = counted[r]
                           \/ r \in open \cap rs /\ counted'[r] \subseteq counted[r]
    /\ UNCHANGED <<log, described, gone>>

LogNext ==
    \/ \E r \in Requests : \E i \in 1 .. Len(Call[r].batch) : Ingest(r, i) \/ Describe(r, i)
    \/ \E ids \in SUBSET {e.id : e \in log} : Forget(ids)
    \/ \E rs \in SUBSET open : Close(rs)

LogSpec == LogInit /\ [][LogNext]_logVars
=============================================================================
