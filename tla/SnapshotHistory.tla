-------------------------- MODULE SnapshotHistory --------------------------
(***************************************************************************)
(* What the archive promises about the objects it records, whatever the    *)
(* tables look like: per object a history of snapshots at increasing       *)
(* times in which nothing recorded is lost, and a deletion mark that, once *)
(* set, stays set.                                                         *)
(***************************************************************************)
EXTENDS Integers

CONSTANTS Object, Props, Null

VARIABLES
    history,   \* per object, the set of its snapshots
    deleted    \* per object, when it was found deleted, or Null

vars == <<history, deleted>>

Snapshot == [ts: Nat, props: Props]

Init ==
    /\ history = [o \in Object |-> {}]
    /\ deleted = [o \in Object |-> Null]

Newest(snaps) == {s \in snaps : \A t \in snaps : t.ts <= s.ts}

\* The object gains nothing, or one snapshot newer than all it has and
\* different from the newest of them.
Grows(old, new) ==
    \/ new = old
    \/ \E s \in new :
        /\ s \in Snapshot
        /\ new = old \cup {s}
        /\ \A t \in old : t.ts < s.ts
        /\ \A t \in Newest(old) : t.props # s.props

\* Only a recorded object can be marked, and no mark is ever taken back.
MarkStep(o) ==
    \/ deleted'[o] = deleted[o]
    \/ deleted'[o] \in Nat /\ history[o] # {}

Record ==
    /\ \A o \in Object : Grows(history[o], history'[o])
    /\ \A o \in Object : MarkStep(o)

Spec == Init /\ [][Record]_vars

-----------------------------------------------------------------------------
\* Objects whose newest snapshot may be rewritten without a new time.
Amend ==
    /\ UNCHANGED deleted
    /\ \E o \in Object : \E s \in Newest(history[o]), props \in Props :
        history' = [history EXCEPT ![o] = (@ \ {s}) \cup {[ts |-> s.ts, props |-> props]}]

AmendableSpec == Init /\ [][Record \/ Amend]_vars
=============================================================================
