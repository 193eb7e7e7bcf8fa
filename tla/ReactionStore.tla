---------------------------- MODULE ReactionStore ----------------------------
(***************************************************************************)
(* The requests of src/src/db/request-handler.ts about reactions, over the *)
(* message tables that their rows refer to.  The reactions table has no    *)
(* primary key: it is the sequence of its rows.  Whether an emoji is       *)
(* custom, and the table of the custom ones, is left out.                  *)
(***************************************************************************)
EXTENDS MessageStore, Sequences

CONSTANTS
    Emoji,
    ReactionType,  \* 0 normal, 1 super
    User,
    MaxRows        \* bound on the rows

ASSUME ReactionAssumption == MaxRows \in Nat

VARIABLE reactions

Key == [message: Message, emoji: Emoji, type: ReactionType, user: User]
Row == [key: Key, start: Nat, end: Nat \cup {Null}]

ReactionsTypeOK == TypeOK /\ reactions \in Seq(Row)

IsOpen(row) == row.end = Null

ReactionInit == Init /\ reactions = <<>>

-----------------------------------------------------------------------------
OpenRow(key, start) == [key |-> key, start |-> start, end |-> Null]

Answer(answer) == response' = answer /\ UNCHANGED <<store, attachments>>

\* One user's row after the other, in the order of the list; the foreign key
\* to the message throws at the first.
AddInitialReactions(m, emoji, type, users) ==
    LET By(u) == OpenRow([message |-> m, emoji |-> emoji, type |-> type, user |-> u], 0)
    IN IF Stored(store[m]) \/ users = <<>>
       THEN /\ reactions' = reactions \o [k \in DOMAIN users |-> By(users[k])]
            /\ Answer("undefined")
       ELSE UNCHANGED reactions /\ Answer("ForeignKeyError")

\* checkForReaction
AlreadyThere(key) == \E k \in DOMAIN reactions :
    reactions[k].key = key /\ IsOpen(reactions[k])

\* Here the error of the foreign key is ignored.
AddReactionPlacement(key, timing) ==
    /\ reactions' = IF AlreadyThere(key) \/ ~Stored(store[key.message]) THEN reactions
                    ELSE Append(reactions, OpenRow(key, EncodeTiming(timing)))
    /\ Answer("undefined")

\* Mutant: a reaction removed before is removed once more.
CloseAgain(keys, timing) ==
    [k \in DOMAIN reactions |->
        IF reactions[k].key \in keys THEN [reactions[k] EXCEPT !.end = EncodeTiming(timing)]
        ELSE reactions[k]]

Close(keys, timing) ==
    [k \in DOMAIN reactions |->
        IF reactions[k].key \in keys /\ IsOpen(reactions[k])
        THEN [reactions[k] EXCEPT !.end = EncodeTiming(timing)]
        ELSE reactions[k]]

MarkReactionAsRemoved(key, timing) ==
    /\ reactions' = Close({key}, timing)
    /\ Answer("undefined")

\* Of all emojis or of one: the statement is that for the whole message.
MarkReactionsAsRemovedBulk(m, timing) ==
    /\ reactions' = Close({key \in Key : key.message = m}, timing)
    /\ Answer("undefined")

-----------------------------------------------------------------------------
\* Lists of one or two users.
UserLists == {<<u>> : u \in User} \cup {list \in User \X User : list[1] # list[2]}

ReactionRequests ==
    \/ \E m \in Message, e \in Emoji, t \in ReactionType, users \in UserLists :
        /\ Len(reactions) + Len(users) <= MaxRows
        /\ AddInitialReactions(m, e, t, users)
    \/ \E time \in EditTimes :
        LET timing == [timestamp |-> time, realtime |-> TRUE]
        IN \/ \E key \in Key : \/ /\ Len(reactions) < MaxRows
                                  /\ AddReactionPlacement(key, timing)
                               \/ MarkReactionAsRemoved(key, timing)
           \/ \E m \in Message : MarkReactionsAsRemovedBulk(m, timing)

ReactionNext ==
    \/ Next /\ UNCHANGED reactions
    \/ ReactionRequests

ReactionSpec == ReactionInit /\ [][ReactionNext]_<<vars, reactions>>

-----------------------------------------------------------------------------
\* Rows that exist stay, and may be ended if they are open.
RowsKept(rows) ==
    \A k \in DOMAIN reactions :
        \/ rows[k] = reactions[k]
        \/ /\ IsOpen(reactions[k])
           /\ rows[k] = [reactions[k] EXCEPT !.end = rows[k].end]

\* New rows are open; the gateway's, which have a start, are the only open one
\* of their reaction.
RowsOpened(rows) ==
    \A k \in DOMAIN rows \ DOMAIN reactions :
        /\ IsOpen(rows[k])
        /\ rows[k].start # 0 =>
            \A j \in DOMAIN rows : j # k /\ IsOpen(rows[j]) => rows[j].key # rows[k].key

(* What is recorded of a reaction is never rewritten: whatever lists,      *)
(* placements and removals come, one user's reaction several times, rows   *)
(* are only added, open, and an end is set once; and the gateway opens no  *)
(* row of a reaction that has an open row.                                 *)
ReactionHistoryGrows == [][RowsKept(reactions') /\ RowsOpened(reactions')]_reactions
=============================================================================
