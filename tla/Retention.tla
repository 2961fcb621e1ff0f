----------------------------- MODULE Retention -----------------------------
(***************************************************************************)
(* retentionCleanupLoop of cmd/oximetric/main.go: once after every start,  *)
(* and at every tick of a 24 hour ticker, read the projects that have a    *)
(* retention period and delete the expired events of one after the other.  *)
(* The rows are read once; what is done to projects meanwhile is not seen. *)
(***************************************************************************)
EXTENDS Store

CONSTANTS
    MaxDays,    \* bound on the clock, which stays there
    Unhealthy   \* projects whose DELETE may fail every time

ASSUME RetentionLoopAssumption == MaxDays \in Nat /\ Unhealthy \subseteq ProjectIds

VARIABLES
    due,    \* the start-up run is pending, or a tick is in the ticker's channel
    sweep   \* the rows runRetentionCleanup has read and not yet handled

RetentionTypeOK == due \in BOOLEAN /\ sweep \subseteq ProjectRow

RetentionInit == due = TRUE /\ sweep = {}

\* The channel of a time.Ticker holds one tick; further ones are dropped.
Tick ==
    /\ now' = IF now < MaxDays THEN now + 1 ELSE now
    /\ due' = TRUE
    /\ UNCHANGED <<tables, serial, purged, sweep>>

\* (First without the condition, which it must not be: 0 means for ever.)
WithAnyRetention == projects

WithRetention == {row \in projects : row.retention_days > 0}

StartSweep ==
    /\ due /\ sweep = {}
    /\ sweep' = WithRetention
    /\ due' = FALSE
    /\ UNCHANGED storeVars

\* GetProjectsWithRetention failed: the run is over, the next tick tries again.
StartFails ==
    /\ due /\ sweep = {}
    /\ due' = FALSE
    /\ UNCHANGED <<storeVars, sweep>>

\* The rows come in no order the program asks for.  A failure is logged and the
\* loop goes on with the next project.
CleanupProject(row) ==
    /\ row \in sweep
    /\ CleanupEvents(row.id, row.retention_days)
    /\ sweep' = sweep \ {row}
    /\ UNCHANGED due

\* What CleanupFails must not be: `return` where the loop says `continue`.
CleanupAborts(row) ==
    /\ row \in sweep
    /\ sweep' = {}
    /\ UNCHANGED <<storeVars, due>>

CleanupFails(row) ==
    /\ row \in sweep
    /\ sweep' = sweep \ {row}
    /\ UNCHANGED <<storeVars, due>>

\* The loop comes to project p and goes on, and its DELETE succeeds.
Tried(p)   == \E row \in sweep : row.id = p /\ sweep' = sweep \ {row}
Cleanup(p) == \E row \in sweep : row.id = p /\ CleanupProject(row)

SweepStep == \E row \in sweep : CleanupProject(row) \/ CleanupFails(row)

RetentionNext == Tick \/ StartSweep \/ StartFails \/ SweepStep

\* A restart begins with a run of its own.
RestartSweeper == due' = TRUE /\ sweep' = {}
=============================================================================
