---------------------------- MODULE MCGuildStore ----------------------------
(* GuildStore on small sets of objects, for TLC.  Requests about unrelated *)
(* objects do not influence each other, so a behaviour is about the few    *)
(* related objects of one scope: its requests leave all others alone.      *)
EXTENDS GuildStore

CONSTANTS g1, c1, r1, t1, t2, m1, m2, u1   \* objects
CONSTANTS left, p1, p2                     \* column values

VARIABLE scope

Forum == {c1, t1, t2}
Scopes == {{c1, r1}, Forum, {g1, u1}, {m1, m2}}

MCKindOf ==
    [o \in Object |->
        CASE o = g1 -> "guild"
          [] o = c1 -> "channel"
          [] o = r1 -> "role"
          [] o \in {t1, t2} -> "forum_tag"
          [] o \in {m1, m2} -> "member"
          [] o = u1 -> "user"]

MCParent ==
    [o \in Object |->
        CASE o \in {c1, r1, m1, m2} /\ g1 \in Object -> g1
          [] o \in {t1, t2} -> c1
          [] OTHER -> Null]

\* Two times, from a REST response and from a gateway event in the same
\* millisecond, and the creation time that null stands for.
At(timestamp, realtime) == [timestamp |-> timestamp, realtime |-> realtime]
MCTimings == {At(1, FALSE), At(1, TRUE), Null}

\* The forum itself is not deleted, and what has children comes with a time.
InScope(o) ==
    IF o \in scope
    THEN /\ scope = Forum /\ o = c1 => Mark(objects'[o]) = Null
         /\ scope \in {Forum, {c1, r1}} /\ Stored(objects'[o]) =>
              objects'[o].latest.ts # EncodeTiming(Null)
    ELSE objects'[o] = objects[o]

MCInit == ObjectInit /\ scope \in Scopes
MCNext == ObjectNext /\ (\A o \in Object : InScope(o)) /\ UNCHANGED scope
MCSpec == MCInit /\ [][MCNext]_<<objectVars, scope>>
=============================================================================
