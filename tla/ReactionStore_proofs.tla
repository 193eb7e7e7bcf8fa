------------------------ MODULE ReactionStore_proofs ------------------------
(* MessageStore keeps every message's history ordered and its attachments  *)
(* stored, for any messages, contents, files and edit times; ReactionStore *)
(* never rewrites what is recorded of a reaction, and leaves the message   *)
(* tables the archive that they are, for any emojis and users, too, and    *)
(* however many rows.                                                      *)
EXTENDS ReactionStore, GuildStore_proofs

\* The inductive invariant.
MInv == TypeOK /\ HistoryOrdered /\ AttachmentsStored

\* All files that a history names are in a set of stored ones.
FilesStored(history, files) == \A s \in history : s.props.attachments \subseteq files

(* The files of every snapshot are files. *)
LEMMA SnapshotFiles ==
    ASSUME NEW snap \in Snapshot
    PROVE  snap.props.attachments \subseteq File
  BY MessageAssumption DEF Snapshot

(* Unless addSnapshot throws, the object is stored afterwards; if it does, *)
(* nothing changed.                                                        *)
LEMMA AddStores ==
    ASSUME NEW cell \in Cell, NEW snap \in Snapshot, StrictlyOrdered(cell)
    PROVE  /\ Throws(cell, snap) => AddSnapshot(cell, snap) = cell
           /\ ~Throws(cell, snap) => Stored(AddSnapshot(cell, snap))
           /\ AddOutcome(cell, snap) \in Responses
<1>1. CASE AddOutcome(cell, snap) = "ADDED_FIRST_SNAPSHOT" /\ ~Stored(cell)
  <2> DEFINE row == [ts |-> snap.ts, deleted |-> Null, props |-> snap.props]
  <2>1. row \in LatestRow
    BY DEF LatestRow, Deletion, Snapshot
  <2>2. AddSnapshot(cell, snap).latest = row
    BY <1>1 DEF AddSnapshot, Cell
  <2> QED
    BY <1>1, <2>1, <2>2, NullAssumption DEF Stored, Throws, Errors, Responses
<1>2. CASE AddOutcome(cell, snap) \in {"SAME_AS_LATEST", "RangeError"} /\ Stored(cell)
  BY <1>2 DEF AddSnapshot, Throws, Errors, Responses
<1>3. CASE AddOutcome(cell, snap) = "ADDED_ANOTHER_SNAPSHOT" /\ Stored(cell)
  BY <1>3, AddKeepsOrder DEF Throws, Errors, Responses
<1> QED
  BY <1>1, <1>2, <1>3, AddOutcomeCases

(* Only the cell of one message changes, and only to a good one. *)
LEMMA CellKeeps ==
    ASSUME MInv, NEW m \in Message, NEW new \in Cell,
           store' = [store EXCEPT ![m] = new],
           StrictlyOrdered(new),
           FilesStored(History(new), attachments'),
           attachments \subseteq attachments', attachments' \subseteq File,
           response' \in Responses
    PROVE  MInv'
<1>1. \A x \in Message : store'[x] = IF x = m THEN new ELSE store[x]
  BY DEF MInv, TypeOK
<1>2. TypeOK' /\ HistoryOrdered'
  BY <1>1 DEF MInv, TypeOK, HistoryOrdered
<1>3. AttachmentsStored'
  BY <1>1 DEF MInv, AttachmentsStored, FilesStored
<1> QED
  BY <1>2, <1>3 DEF MInv

(* Storing a snapshot with its files keeps the invariant, also if          *)
(* addSnapshot throws in between.                                          *)
LEMMA AddKeeps ==
    ASSUME MInv, NEW m \in Message, NEW snap \in Snapshot,
           Add(m, snap, snap.props.attachments)
    PROVE  MInv'
<1> DEFINE new == AddSnapshot(store[m], snap)
<1>1. store[m] \in Cell /\ StrictlyOrdered(store[m])
  BY DEF MInv, TypeOK, HistoryOrdered
<1>2. new \in Cell /\ StrictlyOrdered(new)
  BY <1>1, AddKeepsOrder
<1>3. store' = [store EXCEPT ![m] = new] /\ store'[m] = new
  BY DEF Add, MInv, TypeOK
<1>4. FilesStored(History(store[m]), attachments) /\ attachments \subseteq File
  BY DEF MInv, TypeOK, AttachmentsStored, FilesStored
<1>5. CASE Throws(store[m], snap)
  <2>1. new = store[m] /\ UNCHANGED attachments /\ response' \in Responses
    BY <1>1, <1>5, AddStores DEF Add
  <2> QED
    BY <1>2, <1>3, <1>4, <2>1, CellKeeps
<1>6. CASE ~Throws(store[m], snap)
  <2>1. /\ attachments' = attachments \cup snap.props.attachments
        /\ response' \in Responses
    BY <1>1, <1>3, <1>6, AddStores DEF Add, StoreFiles
  <2>2. attachments' \subseteq File
    BY <1>4, <2>1, SnapshotFiles
  <2>3. FilesStored(History(new), attachments')
    BY <1>1, <1>4, <2>1, AddGrowsHistory DEF FilesStored
  <2> HIDE DEF new
  <2> QED
    BY <1>2, <1>3, <2>1, <2>2, <2>3, CellKeeps
<1> QED
  BY <1>5, <1>6

(* What an update lays over the stored columns is a row of columns again. *)
LEMMA MergeType ==
    ASSUME NEW old \in Props, NEW upd \in Update
    PROVE  /\ Merge(old, upd) \in Props
           /\ Merge(old, upd).attachments = FilesOf(upd)
           /\ FilesOf(upd) \subseteq File
<1>1. FilesOf(upd) \subseteq File
  BY DEF Update, FilesOf
<1>2. (IF upd.content = Absent THEN old.content ELSE upd.content) \in Content
  BY MessageAssumption DEF Update
<1>3. (IF upd.embeds = Absent THEN old.embeds ELSE upd.embeds) \in EmbedText
  BY MessageAssumption DEF Update, FromAPI, EmbedText
<1> QED
  BY <1>1, <1>2, <1>3, MessageAssumption DEF Merge

(* An update of a message that is not stored changes no table but that of  *)
(* the attachments, and not even that one.                                 *)
LEMMA PartialKeeps ==
    ASSUME MInv, NEW m \in Message, NEW upd \in Update, PartialWithoutMessage(m, upd)
    PROVE  MInv'
<1>1. UNCHANGED store /\ ~Stored(store'[m])
  BY DEF PartialWithoutMessage
<1>2. UNCHANGED attachments
  BY <1>1 DEF PartialWithoutMessage, StoreFiles
<1>3. response' \in Responses
  BY DEF PartialWithoutMessage, StoreFiles, Responses
<1> QED
  BY <1>1, <1>2, <1>3 DEF MInv, TypeOK, HistoryOrdered, AttachmentsStored

\* A stored cell whose embeds were stringified once more.
Requoted(cell) == [cell EXCEPT !.latest.props.embeds.quotes = @ + 1]

(* The embed update rewrites one column of the latest row and nothing else. *)
LEMMA RequotedFacts ==
    ASSUME NEW cell \in Cell, StrictlyOrdered(cell), Stored(cell),
           cell.latest.props.embeds.quotes < MaxQuotes
    PROVE  /\ Requoted(cell) \in Cell
           /\ StrictlyOrdered(Requoted(cell))
           /\ Stored(Requoted(cell))
           /\ Requoted(cell).previous = cell.previous
           /\ Requoted(cell).latest.ts = cell.latest.ts
           /\ Requoted(cell).latest.deleted = cell.latest.deleted
           /\ Requoted(cell).latest.props \in Props
           /\ Requoted(cell).latest.props.attachments = cell.latest.props.attachments
<1> DEFINE row == cell.latest
           embeds == [row.props.embeds EXCEPT !.quotes = @ + 1]
           props == [row.props EXCEPT !.embeds = embeds]
           new == [row EXCEPT !.props = props]
<1>1. row \in LatestRow /\ cell.previous \in SUBSET Snapshot
  BY DEF Cell, Stored
<1>2. row.props \in Props /\ row.ts \in Nat /\ row.deleted \in Deletion
  BY <1>1 DEF LatestRow
<1>3. embeds \in EmbedText
  BY <1>2, MessageAssumption DEF EmbedText
<1>4. props \in Props /\ props.attachments = row.props.attachments
  <2> HIDE DEF embeds
  <2> QED
    BY <1>2, <1>3, MessageAssumption
<1>5. /\ new \in LatestRow /\ new.ts = row.ts /\ new.deleted = row.deleted
      /\ new.props = props
  <2> HIDE DEF props
  <2> QED
    BY <1>1, <1>4 DEF LatestRow
<1>6. Requoted(cell) = [latest |-> new, previous |-> cell.previous]
  BY DEF Requoted, Cell
<1> HIDE DEF row, embeds, props, new
<1>7. Requoted(cell).latest = new /\ Requoted(cell).previous = cell.previous
  BY <1>6
<1>8. Requoted(cell) \in Cell /\ Stored(Requoted(cell))
  BY <1>1, <1>5, <1>6, NullAssumption DEF Cell, Stored
<1>9. StrictlyOrdered(Requoted(cell))
  BY <1>5, <1>7, <1>8 DEF StrictlyOrdered, row
<1> QED
  BY <1>4, <1>5, <1>7, <1>8, <1>9 DEF row

(* The embed update keeps the invariant, its three ways to end included. *)
LEMMA EmbedsKeep ==
    ASSUME MInv, NEW m \in Message, NEW upd \in Update, UpdateEmbeds(m, upd)
    PROVE  MInv'
<1>1. store[m] \in Cell /\ StrictlyOrdered(store[m])
  BY DEF MInv, TypeOK, HistoryOrdered
<1>2. CASE PartialWithoutMessage(m, upd)
  BY <1>2, PartialKeeps
<1>3. CASE response' = "Error" /\ UNCHANGED <<store, attachments>>
  BY <1>3 DEF MInv, TypeOK, HistoryOrdered, AttachmentsStored, Responses
<1>4. CASE /\ Stored(store[m])
           /\ store[m].latest.props.embeds.quotes < MaxQuotes
           /\ store' = [store EXCEPT ![m].latest.props.embeds.quotes = @ + 1]
           /\ StoreFiles(m, FilesOf(upd), "undefined")
  <2> DEFINE new == Requoted(store[m])
  <2>1. store' = [store EXCEPT ![m] = new] /\ store'[m] = new
    BY <1>4 DEF Requoted, MInv, TypeOK
  <2>2. /\ new \in Cell /\ StrictlyOrdered(new) /\ Stored(new)
        /\ new.previous = store[m].previous
        /\ new.latest.props.attachments = store[m].latest.props.attachments
    BY <1>1, <1>4, RequotedFacts
  <2> HIDE DEF new
  <2>3. attachments' = attachments \cup FilesOf(upd) /\ response' = "undefined"
    BY <1>4, <2>1, <2>2 DEF StoreFiles
  <2>4. FilesOf(upd) \subseteq File /\ attachments \subseteq File
    BY DEF Update, FilesOf, MInv, TypeOK
  <2>5. /\ SnapshotOf(store[m].latest) \in History(store[m])
        /\ store[m].previous \subseteq History(store[m])
        /\ \A s \in History(store[m]) : s.props.attachments \subseteq attachments
    BY <1>4 DEF History, MInv, AttachmentsStored
  <2>6. store[m].latest.props.attachments \subseteq attachments
    BY <2>5 DEF SnapshotOf
  <2>7. \A s \in History(new) : s \in store[m].previous \/ s = SnapshotOf(new.latest)
    BY <2>2 DEF History
  <2>8. FilesStored(History(new), attachments')
    BY <2>2, <2>3, <2>5, <2>6, <2>7 DEF FilesStored, SnapshotOf
  <2> QED
    BY <2>1, <2>2, <2>3, <2>4, <2>8, CellKeeps DEF Responses
<1> QED
  BY <1>2, <1>3, <1>4 DEF UpdateEmbeds

(* A deletion mark touches neither the snapshots nor the files. *)
LEMMA MarkKeeps ==
    ASSUME MInv, NEW m \in Message, NEW timing \in Timing, MarkMessageAsDeleted(m, timing)
    PROVE  MInv'
<1> DEFINE new == MarkAsDeleted(store[m], EncodeTiming(timing))
<1>1. store[m] \in Cell /\ StrictlyOrdered(store[m]) /\ EncodeTiming(timing) \in Nat
  BY EncodeTimingType DEF MInv, TypeOK, HistoryOrdered
<1>2. new \in Cell /\ StrictlyOrdered(new) /\ History(new) = History(store[m])
  BY <1>1, MarkFacts
<1>3. /\ store' = [store EXCEPT ![m] = new]
      /\ UNCHANGED attachments /\ response' \in Responses
  BY DEF MarkMessageAsDeleted, Responses
<1>4. FilesStored(History(new), attachments') /\ attachments' \subseteq File
  BY <1>2, <1>3 DEF FilesStored, MInv, TypeOK, AttachmentsStored
<1> HIDE DEF new
<1> QED
  BY <1>2, <1>3, <1>4, CellKeeps

(* A complete message and an edit of a stored one are snapshots with the   *)
(* files they name.                                                        *)
LEMMA AddMessageIsAdd ==
    ASSUME NEW m \in Message, NEW props \in Complete, NEW ts \in EditTimes \cup {0},
           AddMessage(m, ts, props)
    PROVE  \E snap \in Snapshot : Add(m, snap, snap.props.attachments)
  BY MessageAssumption DEF AddMessage, Complete, Snapshot

(* What an edit stores is a snapshot with the files the request names.     *)
LEMMA EditIsAdd ==
    ASSUME MInv, NEW m \in Message, NEW upd \in Update, NEW ts \in EditTimes,
           Stored(store[m]),
           Add(m, [ts |-> ts, props |-> Merge(store[m].latest.props, upd)], FilesOf(upd))
    PROVE  \E snap \in Snapshot : Add(m, snap, snap.props.attachments)
<1> DEFINE props == Merge(store[m].latest.props, upd)
<1>1. store[m].latest.props \in Props
  BY DEF MInv, TypeOK, Cell, Stored, LatestRow
<1>2. props \in Props /\ props.attachments = FilesOf(upd)
  BY <1>1, MergeType
<1> HIDE DEF props
<1>3. [ts |-> ts, props |-> props] \in Snapshot
  BY <1>2, MessageAssumption DEF Snapshot
<1> QED
  BY <1>2, <1>3 DEF props

(* The inductive invariant holds initially and every step keeps it. *)
LEMMA InitMInv == Init => MInv
  BY EmptyCellFacts
  DEF Init, MInv, TypeOK, HistoryOrdered, AttachmentsStored, Responses

(* Every request keeps the invariant.                                      *)
LEMMA NextMInv == MInv /\ [Next]_vars => MInv'
<1> SUFFICES ASSUME MInv, [Next]_vars
             PROVE  MInv'
  OBVIOUS
<1>1. ASSUME NEW m \in Message, NEW props \in Complete, NEW ts \in EditTimes \cup {0},
             AddMessage(m, ts, props)
      PROVE  MInv'
  BY <1>1, AddMessageIsAdd, AddKeeps
<1>2. ASSUME NEW m \in Message, NEW upd \in Update, NEW ts \in EditTimes,
             EditMessage(m, ts, upd)
      PROVE  MInv'
  <2>1. CASE PartialWithoutMessage(m, upd)
    BY <2>1, PartialKeeps
  <2>2. CASE ~PartialWithoutMessage(m, upd)
    BY <1>2, <2>2, EditIsAdd, AddKeeps DEF EditMessage
  <2> QED
    BY <2>1, <2>2
<1>3. ASSUME NEW m \in Message, NEW upd \in Update, UpdateEmbeds(m, upd)
      PROVE  MInv'
  BY <1>3, EmbedsKeep
<1>4. ASSUME NEW m \in Message, NEW t \in EditTimes,
             MarkMessageAsDeleted(m, [timestamp |-> t, realtime |-> TRUE])
      PROVE  MInv'
  <2>1. [timestamp |-> t, realtime |-> TRUE] \in Timing
    BY MessageAssumption DEF Timing
  <2> QED
    BY <1>4, <2>1, MarkKeeps
<1>5. CASE UNCHANGED vars
  BY <1>5 DEF vars, MInv, TypeOK, HistoryOrdered, AttachmentsStored
<1> QED
  BY <1>1, <1>2, <1>3, <1>4, <1>5 DEF Next

(* The tables are well-formed, whatever keys the updates lack. *)
THEOREM MessageTypeCorrect == Spec => []TypeOK
<1>1. MInv => TypeOK
  BY DEF MInv
<1> QED
  BY <1>1, InitMInv, NextMInv, PTL DEF Spec

(* A message's snapshots are in strict edit order. *)
THEOREM MessageOrderedAlways == Spec => []HistoryOrdered
<1>1. MInv => HistoryOrdered
  BY DEF MInv
<1> QED
  BY <1>1, InitMInv, NextMInv, PTL DEF Spec

(* No snapshot names an attachment that the database does not know. *)
THEOREM AttachmentsAlwaysStored == Spec => []AttachmentsStored
<1>1. MInv => AttachmentsStored
  BY DEF MInv
<1> QED
  BY <1>1, InitMInv, NextMInv, PTL DEF Spec

-----------------------------------------------------------------------------
(* One message's history grows as the archive lets it, the others' stay. *)
LEMMA GrowsIsRecord ==
    ASSUME MInv, NEW m \in Message, NEW new \in Cell,
           store' = [store EXCEPT ![m] = new],
           Archive!Grows(History(store[m]), History(new)),
           Mark(new) = Mark(store[m]) \/ (Mark(new) \in Nat /\ History(store[m]) # {})
    PROVE  Archive!Record
<1>1. \A x \in Message : store'[x] = IF x = m THEN new ELSE store[x]
  BY DEF MInv, TypeOK
<1>2. \A x \in Message : Archive!Grows(History(store[x]), History(store'[x]))
  BY <1>1 DEF Archive!Grows
<1>3. \A x \in Message :
        \/ Mark(store'[x]) = Mark(store[x])
        \/ Mark(store'[x]) \in Nat /\ History(store[x]) # {}
  BY <1>1
<1> QED
  BY <1>2, <1>3 DEF Archive!Record, Archive!MarkStep

(* A snapshot is recorded, or nothing is. *)
LEMMA AddIsRecord ==
    ASSUME MInv, NEW m \in Message, NEW snap \in Snapshot,
           Add(m, snap, snap.props.attachments)
    PROVE  Archive!Record
<1> DEFINE new == AddSnapshot(store[m], snap)
<1>1. store[m] \in Cell /\ StrictlyOrdered(store[m])
  BY DEF MInv, TypeOK, HistoryOrdered
<1>2. new \in Cell /\ Mark(new) = Mark(store[m])
  BY <1>1, AddKeepsOrder DEF Mark
<1>3. store' = [store EXCEPT ![m] = new]
  BY DEF Add
<1>4. Archive!Grows(History(store[m]), History(new))
  <2>1. CASE History(new) = History(store[m])
    BY <2>1 DEF Archive!Grows
  <2>2. CASE /\ History(new) = History(store[m]) \cup {snap}
             /\ \A t \in History(store[m]) :
                  /\ t.ts < snap.ts
                  /\ (\A u \in History(store[m]) : u.ts <= t.ts) => t.props # snap.props
    <3>1. snap \in Archive!Snapshot
      BY DEF Archive!Snapshot, Snapshot
    <3>2. snap \in History(new) /\ \A t \in History(store[m]) : t.ts < snap.ts
      BY <2>2
    <3>3. \A t \in Archive!Newest(History(store[m])) : t.props # snap.props
      BY <2>2 DEF Archive!Newest
    <3> QED
      BY <2>2, <3>1, <3>2, <3>3 DEF Archive!Grows
  <2> QED
    BY <1>1, <2>1, <2>2, AddGrowsHistory
<1> HIDE DEF new
<1> QED
  BY <1>2, <1>3, <1>4, GrowsIsRecord

(* A mark is recorded if there is something to mark. *)
LEMMA MarkIsRecord ==
    ASSUME MInv, NEW m \in Message, NEW timing \in Timing, MarkMessageAsDeleted(m, timing)
    PROVE  Archive!Record
<1> DEFINE new == MarkAsDeleted(store[m], EncodeTiming(timing))
<1>1. store[m] \in Cell /\ StrictlyOrdered(store[m]) /\ EncodeTiming(timing) \in Nat
  BY EncodeTimingType DEF MInv, TypeOK, HistoryOrdered
<1>2. new \in Cell /\ History(new) = History(store[m])
  BY <1>1, MarkFacts
<1>3. Mark(new) = Mark(store[m]) \/ (Mark(new) \in Nat /\ History(store[m]) # {})
  BY <1>1, MarkFacts DEF Mark, History
<1>4. store' = [store EXCEPT ![m] = new]
  BY DEF MarkMessageAsDeleted
<1> HIDE DEF new
<1>5. Archive!Grows(History(store[m]), History(new))
  BY <1>2 DEF Archive!Grows
<1> QED
  BY <1>2, <1>3, <1>4, <1>5, GrowsIsRecord

(* The embed update amends the newest snapshot of one message. *)
LEMMA EmbedsIsAmend ==
    ASSUME MInv, NEW m \in Message, NEW upd \in Update, UpdateEmbeds(m, upd)
    PROVE  Archive!Amend \/ UNCHANGED Archive!vars
<1>1. CASE UNCHANGED store
  BY <1>1 DEF Archive!vars
<1>2. CASE /\ Stored(store[m])
           /\ store[m].latest.props.embeds.quotes < MaxQuotes
           /\ store' = [store EXCEPT ![m].latest.props.embeds.quotes = @ + 1]
  <2> DEFINE old == store[m]
             new == Requoted(store[m])
             s == SnapshotOf(old.latest)
             h == [x \in Message |-> History(store[x])]
  <2>1. old \in Cell /\ StrictlyOrdered(old) /\ Stored(old)
    BY <1>2 DEF MInv, TypeOK, HistoryOrdered
  <2>2. \A x \in Message : store'[x] = IF x = m THEN new ELSE store[x]
    BY <1>2 DEF Requoted, MInv, TypeOK
  <2>3. /\ Stored(new) /\ new.previous = old.previous /\ new.latest.ts = old.latest.ts
        /\ new.latest.deleted = old.latest.deleted /\ new.latest.props \in Props
    BY <1>2, <2>1, RequotedFacts
  <2> HIDE DEF new, old
  <2>4. s = [ts |-> old.latest.ts, props |-> old.latest.props] /\ s \notin old.previous
    BY <2>1 DEF SnapshotOf, StrictlyOrdered, Cell, Stored, LatestRow
  <2>5. History(old) = old.previous \cup {s}
    BY <2>1 DEF History
  <2>6. s \in Archive!Newest(History(old))
    BY <2>1, <2>4, <2>5
    DEF Archive!Newest, StrictlyOrdered, Cell, Stored, LatestRow, Snapshot
  <2>7. History(new) = (History(old) \ {s}) \cup {[ts |-> s.ts, props |-> new.latest.props]}
    BY <2>3, <2>4, <2>5 DEF History, SnapshotOf
  <2>8. [x \in Message |-> History(store'[x])] =
            [h EXCEPT ![m] = (@ \ {s}) \cup {[ts |-> s.ts, props |-> new.latest.props]}]
    BY <2>2, <2>7 DEF old
  <2>9. [x \in Message |-> Mark(store'[x])] = [x \in Message |-> Mark(store[x])]
    BY <2>1, <2>2, <2>3 DEF Mark, old
  <2>10. s \in Archive!Newest(h[m])
    BY <2>6 DEF old
  <2>11. \E o \in Message : \E t \in Archive!Newest(h[o]), props \in Props :
            [x \in Message |-> History(store'[x])] =
                [h EXCEPT ![o] = (@ \ {t}) \cup {[ts |-> t.ts, props |-> props]}]
    <3> HIDE DEF h, s
    <3>1. new.latest.props \in Props
      BY <2>3
    <3> QED
      BY <2>8, <2>10, <3>1
  <2> QED
    BY <2>9, <2>11 DEF Archive!Amend
<1> QED
  BY <1>1, <1>2 DEF UpdateEmbeds, PartialWithoutMessage

(* The empty tables are the empty archive, and every step is one of it. *)
LEMMA InitIsArchive == Init => Archive!Init
  BY EmptyCellFacts DEF Init, Archive!Init, Mark

(* Every request is a step of the archive, or none.                        *)
LEMMA StepIsArchive ==
    MInv /\ [Next]_vars => [Archive!Record \/ Archive!Amend]_(Archive!vars)
<1> SUFFICES ASSUME MInv, [Next]_vars
             PROVE  [Archive!Record \/ Archive!Amend]_(Archive!vars)
  OBVIOUS
<1>1. ASSUME NEW m \in Message, NEW props \in Complete, NEW ts \in EditTimes \cup {0},
             AddMessage(m, ts, props)
      PROVE  Archive!Record
  BY <1>1, AddMessageIsAdd, AddIsRecord
<1>2. ASSUME NEW m \in Message, NEW upd \in Update, NEW ts \in EditTimes,
             EditMessage(m, ts, upd)
      PROVE  Archive!Record \/ UNCHANGED Archive!vars
  <2>1. CASE PartialWithoutMessage(m, upd)
    BY <2>1 DEF PartialWithoutMessage, Archive!vars
  <2>2. CASE ~PartialWithoutMessage(m, upd)
    BY <1>2, <2>2, EditIsAdd, AddIsRecord DEF EditMessage
  <2> QED
    BY <2>1, <2>2
<1>3. ASSUME NEW m \in Message, NEW t \in EditTimes,
             MarkMessageAsDeleted(m, [timestamp |-> t, realtime |-> TRUE])
      PROVE  Archive!Record
  <2>1. [timestamp |-> t, realtime |-> TRUE] \in Timing
    BY MessageAssumption DEF Timing
  <2> QED
    BY <1>3, <2>1, MarkIsRecord
<1>4. CASE UNCHANGED vars
  BY <1>4 DEF vars, Archive!vars
<1> QED
  BY <1>1, <1>2, <1>3, <1>4, EmbedsIsAmend DEF Next

(* The message tables implement the archive: no request loses, backdates   *)
(* or reorders a snapshot, and only the embeds of the newest one change.   *)
THEOREM MessageRefinement == Spec => ImplementsArchive
<1>1. Spec => Archive!Init /\ [][Archive!Record \/ Archive!Amend]_(Archive!vars)
  BY InitMInv, NextMInv, InitIsArchive, StepIsArchive, PTL DEF Spec
<1> QED
  BY <1>1 DEF ImplementsArchive, Archive!AmendableSpec

-----------------------------------------------------------------------------
(* Reactions. *)
\* The inductive invariant.
ReInv == MInv /\ reactions \in Seq(Row)

(* The empty tables satisfy the invariant.                                 *)
LEMMA InitReInv == ReactionInit => ReInv
BY InitMInv DEF ReactionInit, ReInv

(* The tables of messages are only read.                                   *)
LEMMA AnswerKeeps ==
    ASSUME MInv, NEW answer \in Responses, Answer(answer)
    PROVE  MInv' /\ UNCHANGED <<store, attachments>>
BY DEF MInv, TypeOK, HistoryOrdered, AttachmentsStored, Answer

(* The times of the gateway's events are numbers.                          *)
LEMMA GatewayTiming ==
    ASSUME NEW time \in EditTimes
    PROVE  EncodeTiming([timestamp |-> time, realtime |-> TRUE]) \in Nat
<1>1. [timestamp |-> time, realtime |-> TRUE] \in Timing
    BY MessageAssumption DEF Timing
<1>2. QED
    BY <1>1, EncodeTimingType

(* A new row is of its type and open.                                      *)
LEMMA OpenRowFacts ==
    ASSUME NEW key \in Key, NEW start \in Nat
    PROVE  OpenRow(key, start) \in Row /\ IsOpen(OpenRow(key, start))
BY DEF OpenRow, Row, IsOpen

(* Rows appended by a list of users have no start.                         *)
LEMMA ListAdds ==
    ASSUME ReInv, NEW rows \in Seq(Row),
           \A k \in DOMAIN rows : IsOpen(rows[k]) /\ rows[k].start = 0
    PROVE  LET new == reactions \o rows
           IN new \in Seq(Row) /\ RowsKept(new) /\ RowsOpened(new)
<1>1. reactions \in Seq(Row) /\ Len(reactions) \in Nat /\ Len(rows) \in Nat
    BY DEF ReInv
<1>2. DEFINE new == reactions \o rows
<1>3. /\ new \in Seq(Row) /\ Len(new) = Len(reactions) + Len(rows)
      /\ \A k \in DOMAIN reactions : new[k] = reactions[k]
      /\ \A k \in DOMAIN new \ DOMAIN reactions :
            k - Len(reactions) \in DOMAIN rows /\ new[k] = rows[k - Len(reactions)]
    BY <1>1
<1>4. RowsKept(new) /\ RowsOpened(new)
    BY <1>3 DEF RowsKept, RowsOpened
<1>5. QED
    BY <1>3, <1>4

(* A placement adds one open row at the end.                               *)
LEMMA PlacementAdds ==
    ASSUME ReInv, NEW key \in Key, NEW start \in Nat, ~AlreadyThere(key)
    PROVE  LET new == Append(reactions, OpenRow(key, start))
           IN new \in Seq(Row) /\ RowsKept(new) /\ RowsOpened(new)
<1>1. reactions \in Seq(Row) /\ Len(reactions) \in Nat
    BY DEF ReInv
<1>2. OpenRow(key, start) \in Row /\ IsOpen(OpenRow(key, start))
      /\ OpenRow(key, start).key = key
    BY OpenRowFacts DEF OpenRow
<1>3. DEFINE new == Append(reactions, OpenRow(key, start))
<1>4. /\ new \in Seq(Row) /\ Len(new) = Len(reactions) + 1
      /\ \A k \in DOMAIN reactions : new[k] = reactions[k]
      /\ new[Len(new)] = OpenRow(key, start)
      /\ DOMAIN new = DOMAIN reactions \cup {Len(new)}
    BY <1>1, <1>2
<1>5. RowsKept(new)
    BY <1>4 DEF RowsKept
<1>6. RowsOpened(new)
    BY <1>2, <1>4 DEF RowsOpened, AlreadyThere
<1>7. QED
    BY <1>4, <1>5, <1>6

(* A removal only ends rows that are open.                                 *)
LEMMA CloseEndsOnce ==
    ASSUME ReInv, NEW keys, NEW timing, EncodeTiming(timing) \in Nat
    PROVE  LET new == Close(keys, timing)
           IN new \in Seq(Row) /\ RowsKept(new) /\ RowsOpened(new)
<1>1. reactions \in Seq(Row) /\ Len(reactions) \in Nat
      /\ DOMAIN reactions = 1..Len(reactions)
    BY DEF ReInv
<1>2. DEFINE new == Close(keys, timing)
<1>3. \A k \in DOMAIN reactions : reactions[k] \in Row
    BY <1>1
<1>4. ASSUME NEW k \in DOMAIN reactions
      PROVE  /\ new[k] \in Row
             /\ \/ new[k] = reactions[k]
                \/ /\ IsOpen(reactions[k])
                   /\ new[k] = [reactions[k] EXCEPT !.end = new[k].end]
  <2>1. CASE reactions[k].key \in keys /\ IsOpen(reactions[k])
    <3>1. new[k] = [reactions[k] EXCEPT !.end = EncodeTiming(timing)]
        BY <2>1 DEF Close
    <3>2. QED
        BY <1>3, <2>1, <3>1 DEF Row
  <2>2. CASE ~(reactions[k].key \in keys /\ IsOpen(reactions[k]))
    BY <1>3, <2>2 DEF Close
  <2>3. QED
    BY <2>1, <2>2
<1>5. DOMAIN new = 1..Len(reactions) /\ new = [k \in 1..Len(reactions) |-> new[k]]
    BY <1>1 DEF Close
<1>6. new \in Seq(Row)
    BY <1>1, <1>4, <1>5
<1>7. RowsKept(new) /\ RowsOpened(new)
    BY <1>1, <1>4, <1>5 DEF RowsKept, RowsOpened
<1>8. QED
    BY <1>6, <1>7

(* Every request about reactions.                                          *)
LEMMA RequestKeeps ==
    ASSUME ReInv, ReactionRequests
    PROVE  /\ ReInv' /\ RowsKept(reactions') /\ RowsOpened(reactions')
           /\ UNCHANGED <<store, attachments>>
<1>1. MInv /\ reactions \in Seq(Row)
    BY DEF ReInv
<1>2. RowsKept(reactions) /\ RowsOpened(reactions)
    BY DEF RowsKept, RowsOpened
<1>3. {"undefined", "ForeignKeyError"} \subseteq Responses
    BY DEF Responses
<1>4. ASSUME NEW m \in Message, NEW e \in Emoji, NEW t \in ReactionType,
             NEW users \in UserLists, AddInitialReactions(m, e, t, users)
      PROVE  /\ reactions' \in Seq(Row) /\ RowsKept(reactions') /\ RowsOpened(reactions')
             /\ \E answer \in Responses : Answer(answer)
  <2>1. users \in Seq(User)
    BY DEF UserLists
  <2> DEFINE By(u) == OpenRow([message |-> m, emoji |-> e, type |-> t, user |-> u], 0)
             rows == [k \in DOMAIN users |-> By(users[k])]
  <2>2. \A u \in User : By(u) \in Row /\ IsOpen(By(u)) /\ By(u).start = 0
    <3>1. ASSUME NEW u \in User
          PROVE  [message |-> m, emoji |-> e, type |-> t, user |-> u] \in Key
        BY DEF Key
    <3>2. QED
        BY <3>1, OpenRowFacts DEF OpenRow
  <2>3. rows \in Seq(Row) /\ \A k \in DOMAIN rows : IsOpen(rows[k]) /\ rows[k].start = 0
    <3> HIDE DEF By
    <3>1. \A k \in DOMAIN users : users[k] \in User
        BY <2>1
    <3>2. DOMAIN rows = 1..Len(users) /\ Len(users) \in Nat
        BY <2>1
    <3>3. QED
        BY <2>2, <3>1, <3>2
  <2>4. CASE reactions' = reactions \o rows /\ Answer("undefined")
    BY <1>3, <2>3, <2>4, ListAdds
  <2>5. CASE UNCHANGED reactions /\ Answer("ForeignKeyError")
    BY <1>1, <1>2, <1>3, <2>5
  <2>6. QED
    BY <1>4, <2>4, <2>5 DEF AddInitialReactions
<1>5. ASSUME NEW time \in EditTimes, NEW key \in Key,
             AddReactionPlacement(key, [timestamp |-> time, realtime |-> TRUE])
      PROVE  /\ reactions' \in Seq(Row) /\ RowsKept(reactions') /\ RowsOpened(reactions')
             /\ Answer("undefined")
  <2>1. CASE UNCHANGED reactions
    BY <1>1, <1>2, <1>5, <2>1 DEF AddReactionPlacement
  <2>2. CASE ~UNCHANGED reactions
    BY <1>5, <2>2, GatewayTiming, PlacementAdds DEF AddReactionPlacement
  <2>3. QED
    BY <2>1, <2>2
<1>6. ASSUME NEW time \in EditTimes, NEW keys,
             reactions' = Close(keys, [timestamp |-> time, realtime |-> TRUE])
      PROVE  reactions' \in Seq(Row) /\ RowsKept(reactions') /\ RowsOpened(reactions')
    BY <1>6, GatewayTiming, CloseEndsOnce
<1>7. /\ reactions' \in Seq(Row) /\ RowsKept(reactions') /\ RowsOpened(reactions')
      /\ \E answer \in Responses : Answer(answer)
    BY <1>3, <1>4, <1>5, <1>6
    DEF ReactionRequests, MarkReactionAsRemoved, MarkReactionsAsRemovedBulk
<1>8. QED
    BY <1>1, <1>7, AnswerKeeps DEF ReInv

(* Every request keeps the invariant.                                      *)
LEMMA StepKeepsReInv == ReInv /\ [ReactionNext]_<<vars, reactions>> => ReInv'
<1>1. SUFFICES ASSUME ReInv, [ReactionNext]_<<vars, reactions>> PROVE ReInv'
    OBVIOUS
<1>2. CASE [Next]_vars /\ UNCHANGED reactions
    BY <1>1, <1>2, NextMInv DEF ReInv
<1>3. CASE ReactionRequests
    BY <1>1, <1>3, RequestKeeps
<1>4. QED
    BY <1>1, <1>2, <1>3 DEF ReactionNext

(* The invariant always holds.                                             *)
LEMMA ReInvariant == ReactionSpec => []ReInv
BY InitReInv, StepKeepsReInv, PTL DEF ReactionSpec

(* Type correctness of the tables of messages, attachments and reactions.  *)
THEOREM ReactionTypeCorrect == ReactionSpec => []ReactionsTypeOK
<1>1. ReInv => ReactionsTypeOK
    BY DEF ReInv, MInv, ReactionsTypeOK
<1>2. QED
    BY <1>1, ReInvariant, PTL

(* No request rewrites a reaction's row or ends it twice, and none of the  *)
(* gateway's opens a second row for a reaction that has an open one.       *)
THEOREM ReactionsOnlyGrow == ReactionSpec => ReactionHistoryGrows
<1>1. ReInv /\ [ReactionNext]_<<vars, reactions>>
        => [RowsKept(reactions') /\ RowsOpened(reactions')]_reactions
    BY RequestKeeps DEF ReactionNext
<1>2. QED
    BY <1>1, ReInvariant, PTL DEF ReactionSpec, ReactionHistoryGrows

(* The archive of messages does not notice the reactions.                  *)
THEOREM ReactionRefinement == ReactionSpec => ImplementsArchive
<1>1. ASSUME ReInv, [ReactionNext]_<<vars, reactions>>
      PROVE  [Archive!Record \/ Archive!Amend]_(Archive!vars)
  <2>1. CASE [Next]_vars
    BY <1>1, <2>1, StepIsArchive DEF ReInv
  <2>2. CASE ReactionRequests
    BY <1>1, <2>2, RequestKeeps DEF Archive!vars
  <2>3. QED
    BY <1>1, <2>1, <2>2 DEF ReactionNext
<1>2. ReactionInit => Archive!Init
    BY InitIsArchive DEF ReactionInit
<1>3. ReactionSpec => Archive!Init /\ [][Archive!Record \/ Archive!Amend]_(Archive!vars)
    BY <1>1, <1>2, ReInvariant, PTL DEF ReactionSpec
<1>4. QED
    BY <1>3 DEF ImplementsArchive, Archive!AmendableSpec
=============================================================================
