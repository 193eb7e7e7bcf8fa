---------------------------- MODULE MessageStore ----------------------------
(***************************************************************************)
(* The requests of src/src/db/request-handler.ts that write messages and   *)
(* their attachments: ADD_MESSAGE_SNAPSHOT for complete messages (from the *)
(* REST API and MESSAGE_CREATE), for edits and for updates without         *)
(* edited_timestamp (both from MESSAGE_UPDATE), and                        *)
(* MARK_MESSAGE_AS_DELETED.                                                *)
(*                                                                         *)
(* A message's snapshot time is its edited_timestamp, or 0.  Its snapshot  *)
(* columns are content (which stands for flags and components too), embeds *)
(* and attachments.  The embeds column holds JSON text or NULL: the text   *)
(* is the embed it stands for and the number of times it was stringified   *)
(* again after that.                                                       *)
(***************************************************************************)
EXTENDS SnapshotTable, FiniteSets

CONSTANTS
    Message,    \* message IDs
    Content,    \* values of the content column
    Embed,      \* what an embeds list may say; no embeds is Null
    File,       \* attachment IDs
    Absent,     \* a key that an update does not have
    EditTimes,  \* the edited_timestamp values messages carry, in ms
    MaxQuotes   \* bound of the runs on repeated stringification

EmbedText == [value: Embed \cup {Null}, quotes: 0..MaxQuotes]
NoEmbeds == [value |-> Null, quotes |-> 0]

ASSUME MessageAssumption ==
    /\ Props = [content: Content, embeds: EmbedText, attachments: SUBSET File]
    /\ EditTimes \subseteq Nat \ {0}
    /\ MaxQuotes \in Nat

VARIABLES
    store,        \* the cell of every message
    attachments,  \* the attachments table: IDs of the rows it holds
    response      \* what the last request answered, or the error it threw

vars == <<store, attachments, response>>

Responses ==
    {"none", "undefined", "CHANGED", "UNCHANGED", "PARTIAL_NO_SNAPSHOT",
     "ADDED_FIRST_SNAPSHOT", "ADDED_ANOTHER_SNAPSHOT", "SAME_AS_LATEST",
     "Error", "ForeignKeyError"} \cup Errors

TypeOK ==
    /\ store \in [Message -> Cell]
    /\ attachments \subseteq File
    /\ response \in Responses

Init ==
    /\ store = [m \in Message |-> EmptyCell]
    /\ attachments = {}
    /\ response = "none"

-----------------------------------------------------------------------------
\* What the API sends: JSON that was stringified once, on the way in.
FromAPI == {[value |-> e, quotes |-> 0] : e \in Embed \cup {Null}}
Complete == {p \in Props : p.embeds \in FromAPI}

\* A MESSAGE_UPDATE carries some of the columns, in any combination.
Update == [content: Content \cup {Absent},
           embeds: FromAPI \cup {Absent},
           attachments: (SUBSET File) \cup {Absent}]

\* `message.attachments ?? []`
FilesOf(upd) == IF upd.attachments = Absent THEN {} ELSE upd.attachments

\* Mutant: absent keys are laid over the latest row, too.
MergeAbsent(old, upd) ==
    [content |-> upd.content,
     embeds |-> IF upd.embeds = Absent THEN old.embeds ELSE upd.embeds,
     attachments |-> FilesOf(upd)]

\* encodeObject skips absent keys, but _attachment_ids is always computed;
\* Object.assign then lays the result over the latest row.
Merge(old, upd) ==
    [content |-> IF upd.content = Absent THEN old.content ELSE upd.content,
     embeds |-> IF upd.embeds = Absent THEN old.embeds ELSE upd.embeds,
     attachments |-> FilesOf(upd)]

\* Mutant: only a new message's files are stored.
StoreFilesOfFirst(m, files, answer) ==
    /\ response' = answer
    /\ attachments' = IF answer = "ADDED_FIRST_SNAPSHOT" THEN attachments \cup files
                      ELSE attachments

\* The loop over message.attachments at the end of the request: INSERT OR
\* IGNORE ignores a file already stored, but not the foreign key to a message
\* that is not.
StoreFiles(m, files, answer) ==
    IF files # {} /\ ~Stored(store'[m])
    THEN response' = "ForeignKeyError" /\ UNCHANGED attachments
    ELSE response' = answer /\ attachments' = attachments \cup files

\* addSnapshot, after which the files are stored unless it threw.
Add(m, snap, files) ==
    /\ store' = [store EXCEPT ![m] = AddSnapshot(store[m], snap)]
    /\ IF Throws(store[m], snap)
       THEN response' = AddOutcome(store[m], snap) /\ UNCHANGED attachments
       ELSE StoreFiles(m, files, AddOutcome(store[m], snap))

AddMessage(m, ts, props) ==
    Add(m, [ts |-> ts, props |-> props], props.attachments)

\* A partial insert lacks author__id and others and cannot succeed.
PartialWithoutMessage(m, upd) ==
    /\ ~Stored(store[m])
    /\ UNCHANGED store
    /\ StoreFiles(m, FilesOf(upd), "PARTIAL_NO_SNAPSHOT")

EditMessage(m, ts, upd) ==
    \/ PartialWithoutMessage(m, upd)
    \/ /\ Stored(store[m])
       /\ Add(m, [ts |-> ts, props |-> Merge(store[m].latest.props, upd)], FilesOf(upd))

\* An update without edited_timestamp: taken for the arrival of embeds, it
\* writes the embeds it read back into the row, stringified once more.
UpdateEmbeds(m, upd) ==
    \/ PartialWithoutMessage(m, upd)
    \/ /\ Stored(store[m])
       /\ LET old == store[m].latest.props.embeds
          IN IF old # NoEmbeds /\ (upd.content # Absent \/ upd.attachments # Absent)
             THEN response' = "Error" /\ UNCHANGED <<store, attachments>>
             ELSE /\ old.quotes < MaxQuotes
                  /\ store' = [store EXCEPT ![m].latest.props.embeds.quotes = @ + 1]
                  /\ StoreFiles(m, FilesOf(upd), "undefined")

MarkMessageAsDeleted(m, timing) ==
    /\ store' = [store EXCEPT ![m] = MarkAsDeleted(store[m], EncodeTiming(timing))]
    /\ response' = IF Stored(store[m]) THEN "CHANGED" ELSE "UNCHANGED"
    /\ UNCHANGED attachments

-----------------------------------------------------------------------------
Next ==
    \E m \in Message :
        \/ \E props \in Complete, ts \in EditTimes \cup {0} : AddMessage(m, ts, props)
        \/ \E upd \in Update :
            \/ \E ts \in EditTimes : EditMessage(m, ts, upd)
            \/ UpdateEmbeds(m, upd)
        \/ \E t \in EditTimes :
            MarkMessageAsDeleted(m, [timestamp |-> t, realtime |-> TRUE])

Spec == Init /\ [][Next]_vars

-----------------------------------------------------------------------------
(* However creations, edits and embed updates interleave, a message's      *)
(* snapshots stay in strictly increasing edit order in the two tables.     *)
HistoryOrdered == \A m \in Message : StrictlyOrdered(store[m])

Archive == INSTANCE SnapshotHistory WITH
    Object <- Message,
    history <- [m \in Message |-> History(store[m])],
    deleted <- [m \in Message |-> Mark(store[m])]

(* The message tables implement the archive, where an embed update may     *)
(* rewrite the newest snapshot of one message in place, keeping its time.  *)
ImplementsArchive == Archive!AmendableSpec

(* Every attachment a recorded snapshot names has its row in the           *)
(* attachments table, whatever failed in between.                          *)
AttachmentsStored ==
    \A m \in Message : \A s \in History(store[m]) : s.props.attachments \subseteq attachments
=============================================================================
