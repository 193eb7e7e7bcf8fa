----------------------------- MODULE GuildStore -----------------------------
(***************************************************************************)
(* The requests of src/src/db/request-handler.ts about users, guilds,      *)
(* roles, members, channels and forum tags.  One action is one request,    *)
(* handled from start to end by the single-threaded worker.                *)
(* A snapshot may be of an object's creation, whose timing is null; a      *)
(* deletion, a leave or a synchronisation always has a time (db/types.ts). *)
(* Members are always stored whole: no caller sends a partial one.         *)
(*                                                                         *)
(* Object IDs are unique across kinds, as Discord's snowflakes are; a      *)
(* member is identified by its guild and its user together, so it is an    *)
(* object of its own whose parent is the guild.                            *)
(***************************************************************************)
EXTENDS SnapshotTable, FiniteSets

CONSTANTS
    Object,     \* IDs of every object the requests may name
    KindOf,     \* KindOf[o]: which pair of tables o belongs to
    Parent,     \* Parent[o]: the guild or the channel o is a child of
    LeftProps,  \* the columns of a member that left: joined_at is NULL
    Timings     \* the timings requests carry

Kind == {"user", "guild", "role", "member", "channel", "forum_tag"}

ASSUME ObjectAssumption ==
    /\ KindOf \in [Object -> Kind]
    /\ Parent \in [Object -> Object \cup {Null}]
    /\ LeftProps \in Props
    /\ Timings \subseteq Timing

VARIABLES
    objects,    \* the cell of every object
    answered    \* what the last request answered, or the error it threw

objectVars == <<objects, answered>>

ObjectResponses ==
    {"none", "undefined", "CHANGED", "UNCHANGED", "ADDED_FIRST_SNAPSHOT",
     "ADDED_ANOTHER_SNAPSHOT", "SAME_AS_LATEST"} \cup Errors

ObjectsTypeOK ==
    /\ objects \in [Object -> Cell]
    /\ answered \in ObjectResponses

ObjectInit ==
    /\ objects = [o \in Object |-> EmptyCell]
    /\ answered = "none"

-----------------------------------------------------------------------------
Of(kind) == {o \in Object : KindOf[o] = kind}
ChildrenOf(parent, kind) == {o \in Of(kind) : Parent[o] = parent}

Snap(props, timing) == [ts |-> EncodeTiming(timing), props |-> props]

\* addSnapshot for one object.
AddObject(o, snap) ==
    /\ answered' = AddOutcome(objects[o], snap)
    /\ objects' = [objects EXCEPT ![o] = AddSnapshot(objects[o], snap)]

AddUserSnapshot(u, props, timing) == KindOf[u] = "user" /\ AddObject(u, Snap(props, timing))
AddGuildSnapshot(g, props, timing) == KindOf[g] = "guild" /\ AddObject(g, Snap(props, timing))
AddRoleSnapshot(r, props, timing) == KindOf[r] = "role" /\ AddObject(r, Snap(props, timing))
AddMemberSnapshot(m, props, timing) ==
    /\ KindOf[m] = "member"
    /\ props # LeftProps    \* the API gives a present member's joined_at
    /\ AddObject(m, Snap(props, timing))
AddMemberLeave(m, timing) ==
    KindOf[m] = "member" /\ timing # Null /\ AddObject(m, Snap(LeftProps, timing))

-----------------------------------------------------------------------------
(* A loop of addSnapshot calls over distinct objects stops at the first    *)
(* one that throws: when some would throw, the objects handled before the  *)
(* first of them are any set of the others, since the order of the loop is *)
(* that of an array from the API or of an SQL scan.                        *)
ThrowingIn(batch, timing) ==
    {o \in DOMAIN batch : Throws(objects[o], Snap(batch[o], timing))}

HandledIn(batch, timing) ==
    IF ThrowingIn(batch, timing) = {} THEN {DOMAIN batch}
    ELSE SUBSET (DOMAIN batch \ ThrowingIn(batch, timing))

AfterAdding(batch, done, timing) ==
    [o \in Object |-> IF o \in done
                      THEN AddSnapshot(objects[o], Snap(batch[o], timing))
                      ELSE objects[o]]

\* syncDeletions: the children of parent that are not in ids and not yet
\* marked get the mark.
AfterSyncing(s, parent, kind, ids, timing) ==
    [o \in Object |->
        IF /\ o \in ChildrenOf(parent, kind) \ ids
           /\ Stored(s[o]) /\ Mark(s[o]) = Null
        THEN MarkAsDeleted(s[o], EncodeTiming(timing))
        ELSE s[o]]

ErrorIn(batch, timing) ==
    {AddOutcome(objects[o], Snap(batch[o], timing)) : o \in ThrowingIn(batch, timing)}

\* A forum's tags are stored, and those it no longer has are marked, before
\* the channel itself; a channel that is not a forum has no tags.  The first
\* error ends the request and leaves in place what came before it.
AddChannelSnapshot(c, props, tags, timing) ==
    /\ KindOf[c] = "channel"
    /\ \E done \in HandledIn(tags, timing) :
        LET tagged == AfterAdding(tags, done, timing)
            synced == AfterSyncing(tagged, c, "forum_tag", DOMAIN tags, timing)
        IN IF ErrorIn(tags, timing) # {}
           THEN answered' \in ErrorIn(tags, timing) /\ objects' = tagged
           ELSE /\ objects' = [synced EXCEPT ![c] = AddSnapshot(objects[c], Snap(props, timing))]
                /\ answered' = AddOutcome(objects[c], Snap(props, timing))

MarkObjectAsDeleted(o, timing) ==
    /\ timing # Null
    /\ objects' = [objects EXCEPT ![o] = MarkAsDeleted(objects[o], EncodeTiming(timing))]
    /\ answered' = IF Stored(objects[o]) THEN "CHANGED" ELSE "UNCHANGED"

MarkRoleAsDeleted(r, timing) == KindOf[r] = "role" /\ MarkObjectAsDeleted(r, timing)
MarkChannelAsDeleted(c, timing) == KindOf[c] = "channel" /\ MarkObjectAsDeleted(c, timing)

SyncGuildChannelsAndRoles(g, channelIDs, roleIDs, timing) ==
    /\ KindOf[g] = "guild" /\ timing # Null
    /\ answered' = "undefined"
    /\ objects' = AfterSyncing(AfterSyncing(objects, g, "channel", channelIDs, timing),
                               g, "role", roleIDs, timing)

\* getNotLeftUserIDsByGuildID
NotLeft(s, g) ==
    {m \in ChildrenOf(g, "member") : Stored(s[m]) /\ s[m].latest.props # LeftProps}

Leaving(s, g, userIDs) == NotLeft(s, g) \ userIDs

SyncGuildMembers(g, userIDs, timing) ==
    LET leaves == [m \in Leaving(objects, g, userIDs) |-> LeftProps]
    IN /\ KindOf[g] = "guild" /\ timing # Null
       /\ \E done \in HandledIn(leaves, timing) :
            objects' = AfterAdding(leaves, done, timing)
       /\ IF ThrowingIn(leaves, timing) = {} THEN answered' = "undefined"
          ELSE answered' \in ErrorIn(leaves, timing)

-----------------------------------------------------------------------------
ObjectNext ==
    \E timing \in Timings :
        \/ \E o \in Object, props \in Props :
            \/ AddUserSnapshot(o, props, timing)
            \/ AddGuildSnapshot(o, props, timing)
            \/ AddRoleSnapshot(o, props, timing)
            \/ AddMemberSnapshot(o, props, timing)
            \/ \E present \in SUBSET ChildrenOf(o, "forum_tag") :
                \E tags \in [present -> Props] :
                    AddChannelSnapshot(o, props, tags, timing)
        \/ \E o \in Object :
            \/ AddMemberLeave(o, timing)
            \/ MarkRoleAsDeleted(o, timing)
            \/ MarkChannelAsDeleted(o, timing)
        \/ \E g \in Of("guild") :
            \/ \E channelIDs \in SUBSET ChildrenOf(g, "channel"),
                  roleIDs \in SUBSET ChildrenOf(g, "role") :
                SyncGuildChannelsAndRoles(g, channelIDs, roleIDs, timing)
            \/ \E userIDs \in SUBSET ChildrenOf(g, "member") :
                SyncGuildMembers(g, userIDs, timing)

ObjectSpec == ObjectInit /\ [][ObjectNext]_objectVars

-----------------------------------------------------------------------------
(* The tables of every object keep its snapshots in strictly increasing    *)
(* time order, the latest table holding the newest, with no two previous   *)
(* rows of one object at the same time: what addSnapshot's "not more       *)
(* recent" check has to guarantee for any sequence of timings.             *)
ObjectsOrdered == \A o \in Object : StrictlyOrdered(objects[o])

(* copyLatestSnapshot never fails on the primary key of a previous table,  *)
(* so the only error a request of this module throws is addSnapshot's own. *)
NeverBreaksPrimaryKey == answered # "SqliteError"

(* The tables implement an append-only archive (README.md: a snapshot is   *)
(* recorded for each object's first appearance and each change): requests, *)
(* failed ones included, never lose, rewrite or backdate a snapshot, never *)
(* record an unchanged object again and never take back a deletion mark.   *)
ObjectArchive == INSTANCE SnapshotHistory WITH
    history <- [o \in Object |-> History(objects[o])],
    deleted <- [o \in Object |-> Mark(objects[o])]
ObjectsImplementArchive == ObjectArchive!Spec
=============================================================================
