--------------------------- MODULE SnapshotTable ---------------------------
(***************************************************************************)
(* The pair of SQLite tables latest_<object>_snapshots and                 *)
(* previous_<object>_snapshots, and the statements and helpers of          *)
(* src/src/db/request-handler.ts that read and write one object of them.   *)
(*                                                                         *)
(* The rows of one object are a "cell": its row of the latest table, or    *)
(* Null when there is none, and the set of its rows of the previous table. *)
(* A table is a function from objects to cells.  Columns that addSnapshot  *)
(* compares and copies are one opaque value, props.                        *)
(***************************************************************************)
EXTENDS Integers

CONSTANTS
    Null,   \* SQL NULL, and JavaScript's null
    Props   \* the values of an object's snapshot columns

Deletion == Nat \cup {Null}

LatestRow == [ts: Nat, deleted: Deletion, props: Props]
Snapshot == [ts: Nat, props: Props]
Cell == [latest: LatestRow \cup {Null}, previous: SUBSET Snapshot]

ASSUME NullAssumption == Null \notin Nat /\ Null \notin LatestRow

EmptyCell == [latest |-> Null, previous |-> {}]
Stored(cell) == cell.latest # Null

-----------------------------------------------------------------------------
(* encodeTiming: bits 1-63 hold the UNIX time, bit 0 the realtime flag. *)
Timing == [timestamp: Nat, realtime: BOOLEAN] \cup {Null}

\* Mutant: null is not translated.
EncodeTimingOfNull(timing) ==
    IF timing = Null THEN Null
    ELSE 2 * timing.timestamp + (IF timing.realtime THEN 1 ELSE 0)

EncodeTiming(timing) ==
    IF timing = Null THEN 0
    ELSE 2 * timing.timestamp + (IF timing.realtime THEN 1 ELSE 0)

DecodeTiming(ts) ==
    IF ts = Null \/ ts = 0 THEN Null
    ELSE [timestamp |-> ts \div 2, realtime |-> ts % 2 = 1]

-----------------------------------------------------------------------------
SnapshotOf(row) == [ts |-> row.ts, props |-> row.props]

\* Every snapshot the two tables hold of the object.
History(cell) ==
    cell.previous \cup (IF Stored(cell) THEN {SnapshotOf(cell.latest)} ELSE {})

\* The object's _deleted column; an object that is not stored has none.
Mark(cell) == IF Stored(cell) THEN cell.latest.deleted ELSE Null

\* copyLatestSnapshot would insert a second previous row with this key.
PrimaryKeyTaken(cell) == \E p \in cell.previous : p.ts = cell.latest.ts

\* Mutant: "not older" is enough.
AddOutcomeSameTime(cell, snap) ==
    CASE ~Stored(cell) -> "ADDED_FIRST_SNAPSHOT"
      [] Stored(cell) /\ cell.latest.props = snap.props -> "SAME_AS_LATEST"
      [] Stored(cell) /\ cell.latest.props # snap.props
            /\ snap.ts < cell.latest.ts -> "RangeError"
      [] Stored(cell) /\ cell.latest.props # snap.props
            /\ snap.ts >= cell.latest.ts ->
            IF PrimaryKeyTaken(cell) THEN "SqliteError"
            ELSE "ADDED_ANOTHER_SNAPSHOT"

(* addSnapshot for a complete object: what it returns or throws ... *)
AddOutcome(cell, snap) ==
    CASE ~Stored(cell) -> "ADDED_FIRST_SNAPSHOT"
      [] Stored(cell) /\ cell.latest.props = snap.props -> "SAME_AS_LATEST"
      [] Stored(cell) /\ cell.latest.props # snap.props
            /\ snap.ts <= cell.latest.ts -> "RangeError"
      [] Stored(cell) /\ cell.latest.props # snap.props
            /\ snap.ts > cell.latest.ts ->
            IF PrimaryKeyTaken(cell) THEN "SqliteError"
            ELSE "ADDED_ANOTHER_SNAPSHOT"

Errors == {"RangeError", "SqliteError"}
Throws(cell, snap) == AddOutcome(cell, snap) \in Errors

\* Mutant: the latest row is replaced but not copied before that.
AddSnapshotUncopied(cell, snap) ==
    CASE AddOutcome(cell, snap) = "ADDED_FIRST_SNAPSHOT" ->
            [cell EXCEPT !.latest =
                [ts |-> snap.ts, deleted |-> Null, props |-> snap.props]]
      [] AddOutcome(cell, snap) = "ADDED_ANOTHER_SNAPSHOT" ->
            [cell EXCEPT !.latest.ts = snap.ts, !.latest.props = snap.props]
      [] OTHER -> cell

(* ... and the rows it leaves behind. *)
AddSnapshot(cell, snap) ==
    CASE AddOutcome(cell, snap) = "ADDED_FIRST_SNAPSHOT" ->
            [cell EXCEPT !.latest =
                [ts |-> snap.ts, deleted |-> Null, props |-> snap.props]]
      [] AddOutcome(cell, snap) = "ADDED_ANOTHER_SNAPSHOT" ->
            [latest |-> [cell.latest EXCEPT !.ts = snap.ts, !.props = snap.props],
             previous |-> cell.previous \cup {SnapshotOf(cell.latest)}]
      [] OTHER -> cell

(* markAsDeleted: an UPDATE, so nothing happens to an object not stored. *)
MarkAsDeleted(cell, ts) ==
    IF Stored(cell) THEN [cell EXCEPT !.latest.deleted = ts] ELSE cell

-----------------------------------------------------------------------------
(* The conditions every cell satisfies between two statements. *)
StrictlyOrdered(cell) ==
    /\ ~Stored(cell) => cell.previous = {}
    /\ \A p \in cell.previous : p.ts < cell.latest.ts
    /\ \A p, q \in cell.previous : p.ts = q.ts => p = q
=============================================================================
