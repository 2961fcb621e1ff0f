------------------------------- MODULE RowIds -------------------------------
(***************************************************************************)
(* How the two databases number the rows of a table (internal/storage,     *)
(* migrations).  NULL is 0: a serial column starts at 1.                   *)
(***************************************************************************)
EXTENDS Integers

CONSTANT Driver   \* "sqlite" or "postgres"

ASSUME DriverAssumption == Driver \in {"sqlite", "postgres"}

Null == 0

Ids(table) == {row.id : row \in table}

IsKeyOf(table) == \A x, y \in table : x.id = y.id => x = y

\* What IsNextId must not be under PostgreSQL: the id of a deleted row comes back.
IsReusableId(id, ids, last) == (\A k \in ids : k < id) /\ (id = 1 \/ id - 1 \in ids)

\* The id the database gives a new row.  INTEGER PRIMARY KEY of SQLite is one
\* more than the largest id now in the table: the id of a deleted row comes
\* back.  SERIAL of PostgreSQL is one more than the last id ever issued (the
\* gap a failed INSERT leaves in a sequence is not modelled).
IsNextId(id, ids, last) ==
    IF Driver = "postgres"
    THEN id = last + 1
    ELSE (\A k \in ids : k < id) /\ (id = 1 \/ id - 1 \in ids)
=============================================================================
