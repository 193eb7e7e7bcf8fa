---------------------------- MODULE MessageSync ----------------------------
(***************************************************************************)
(* How the messages of one channel get into the database: syncMessages of  *)
(* src/src/archiver/index.ts, which downloads the history page by page,    *)
(* and the gateway's message events, which are recorded as they come, both *)
(* over the FIFO of transactions to the database worker.  The process may  *)
(* die at any time; what the worker committed stays.                       *)
(*                                                                         *)
(* Messages are numbered in the order Discord creates them, as snowflakes  *)
(* are.  The n-th edit of a message is its version n; the version stands   *)
(* for the content and, as edited_timestamp does, for the snapshot time.   *)
(* JavaScript runs each callback to completion, and no transaction of this *)
(* module awaits anything inside, so the steps of the main thread are      *)
(* those between two awaits.                                               *)
(***************************************************************************)
EXTENDS Naturals, Sequences, FiniteSets, FiniteSetsExt

CONSTANTS
    Null,
    MaxMessage,  \* bound on the messages posted in the channel
    MaxVersion,  \* bound on the edits of one message
    PageSize,    \* messages per page of the API (100 in the code)
    Reacted,     \* the messages that have reactions when they are downloaded
    Changing,    \* the messages that may be edited or deleted
    LivePosts,   \* whether messages are posted while the archiver runs
    MaxCrashes,  \* bound on how often the process is killed
    MaxStops     \* bound on how often a sync is aborted or fails

Id == 1..MaxMessage
Version == 0..MaxVersion

ASSUME SyncAssumption ==
    /\ MaxMessage \in Nat /\ MaxVersion \in Nat /\ PageSize \in Nat \ {0}
    /\ MaxCrashes \in Nat /\ MaxStops \in Nat
    /\ Reacted \subseteq Id /\ Changing \subseteq Id
    /\ LivePosts \in BOOLEAN

Table == INSTANCE SnapshotTable WITH Props <- Version

ASSUME NullAssumption == Null \notin Nat /\ Null \notin Table!LatestRow

VARIABLES
    posted,     \* Discord: messages 1..posted exist or existed
    version,    \* Discord: the current version of each message
    deleted,    \* Discord: the messages deleted
    events,     \* gateway events sent to this process and not yet handled
    alive,      \* the process runs and its gateway session is open
    lastMessageID,  \* the channel's last_message_id in GUILD_CREATE, 0 if null
    pending,    \* transactions and requests posted to the database worker
    store,      \* the message tables, as committed
    sync,       \* the state of the channel's syncMessages call
    failure,    \* the error that last killed the process, or "none"
    crashes,
    stops

discord == <<posted, version, deleted>>
vars == <<posted, version, deleted, events, alive, lastMessageID, pending,
          store, sync, failure, crashes, stops>>

\* No messages, one, and those with some IDs.
None == [m \in {} |-> 0]
One(m, v) == [x \in {m} |-> v]
Only(msgs, ids) == [m \in (DOMAIN msgs) \cap ids |-> msgs[m]]

\* start: the stored ID the sync resumed after.  after: the newest message of
\* the last page.  rest: the messages of the page not yet posted to the worker.
\* answer: what the worker said, once it did: the last stored ID was read into
\* start, or the last message added was known or new.
SyncState == {"waiting", "reading", "requesting", "answered", "reactions",
              "flushed", "finished", "hung", "stopped"}

NoSync == [state |-> "waiting", start |-> 0, after |-> 0, rest |-> None,
           full |-> FALSE, answer |-> "none"]

\* Messages of a page or a transaction with the versions they were seen in.
Messages == UNION {[ids -> Version] : ids \in SUBSET Id}

Event == [type: {"create", "edit", "delete"}, id: Id, version: Version]

\* awaited: syncMessages waits for the answer about the newest of the messages.
Transaction ==
    [op: {"add", "edit", "delete"}, msgs: Messages, awaited: BOOLEAN]
        \cup [op: {"last"}, msgs: {None}, awaited: {TRUE}]

TypeOK ==
    /\ posted \in {0} \cup Id
    /\ version \in [Id -> Version]
    /\ deleted \subseteq 1..posted
    /\ events \in Seq(Event)
    /\ alive \in BOOLEAN
    /\ lastMessageID \in {0} \cup Id
    /\ pending \in Seq(Transaction)
    /\ store \in [Id -> Table!Cell]
    /\ sync \in [state: SyncState, start: {0} \cup Id, after: {0} \cup Id, rest: Messages,
                 full: BOOLEAN, answer: {"none", "read", "known", "new"}]
    /\ DOMAIN sync.rest \subseteq 1..posted
    /\ failure \in {"none", "RangeError"}
    /\ crashes \in 0..MaxCrashes
    /\ stops \in 0..MaxStops

Init ==
    /\ posted \in {0} \cup Id
    /\ version = [m \in Id |-> 0]
    /\ deleted = {}
    /\ events = <<>>
    /\ alive = FALSE
    /\ lastMessageID = 0
    /\ pending = <<>>
    /\ store = [m \in Id |-> Table!EmptyCell]
    /\ sync = NoSync
    /\ failure = "none"
    /\ crashes = 0
    /\ stops = 0

-----------------------------------------------------------------------------
(* Discord.  Events reach a process that runs, in order. *)
Emit(type, m, v) ==
    events' = IF alive THEN Append(events, [type |-> type, id |-> m, version |-> v])
              ELSE events

UnchangedArchiver == UNCHANGED <<alive, lastMessageID, pending, store, sync, failure, crashes, stops>>

Post ==
    /\ alive => LivePosts
    /\ posted < MaxMessage
    /\ posted' = posted + 1
    /\ Emit("create", posted + 1, 0)
    /\ UNCHANGED <<version, deleted>> /\ UnchangedArchiver

Edit(m) ==
    /\ m \in (Changing \cap 1..posted) \ deleted
    /\ version[m] < MaxVersion
    /\ version' = [version EXCEPT ![m] = @ + 1]
    /\ Emit("edit", m, version[m] + 1)
    /\ UNCHANGED <<posted, deleted>> /\ UnchangedArchiver

Delete(m) ==
    /\ m \in (Changing \cap 1..posted) \ deleted
    /\ deleted' = deleted \cup {m}
    /\ Emit("delete", m, version[m])
    /\ UNCHANGED <<posted, version>> /\ UnchangedArchiver

\* GET /channels/<id>/messages?limit=PageSize&after=<after>: the oldest of the
\* messages after that one.
PageAfter(after) ==
    LET later == {m \in (1..posted) \ deleted : m > after}
    IN [m \in {x \in later : Cardinality({y \in later : y < x}) < PageSize} |-> version[m]]

-----------------------------------------------------------------------------
(* The process. *)
Start ==
    /\ ~alive
    /\ alive' = TRUE
    /\ lastMessageID' = posted
    /\ sync' = NoSync
    /\ UNCHANGED <<discord, events, pending, store, failure, crashes, stops>>

Dies ==
    /\ alive' = FALSE
    /\ events' = <<>>
    /\ pending' = <<>>
    /\ sync' = NoSync
    /\ UNCHANGED <<discord, lastMessageID, stops>>

Crash ==
    /\ alive /\ crashes < MaxCrashes
    /\ crashes' = crashes + 1
    /\ Dies
    /\ UNCHANGED <<store, failure>>

Tx(op, msgs, awaited) == [op |-> op, msgs |-> msgs, awaited |-> awaited]

\* The dispatch listener: one transaction per message event.
HandleEvent ==
    /\ alive /\ events # <<>>
    /\ LET e == Head(events)
           op == IF e.type = "create" THEN "add" ELSE e.type
       IN pending' = Append(pending, Tx(op, One(e.id, e.version), FALSE))
    /\ events' = Tail(events)
    /\ UNCHANGED <<discord, alive, lastMessageID, store, sync, failure, crashes, stops>>

\* syncMessages registers the sync and asks for the last stored ID.
CallSync ==
    /\ sync' = [NoSync EXCEPT !.state = "reading"]
    /\ pending' = Append(pending, Tx("last", None, TRUE))
    /\ UNCHANGED <<discord, events, alive, store, failure, crashes, stops>>

\* The call for every channel once all accounts are ready.
StartSync ==
    /\ alive /\ sync.state = "waiting"
    /\ CallSync /\ UNCHANGED lastMessageID

\* The call when an account regains the permission whose loss aborted the
\* sync; by then the channel's syncInfo, and last_message_id, is dropped.
ResumeSync ==
    /\ alive /\ sync.state = "stopped"
    /\ CallSync /\ lastMessageID' = 0

\* The check whether there is anything to download.
ReadLast ==
    /\ alive /\ sync.state = "reading" /\ sync.answer = "read"
    /\ LET needed == lastMessageID = 0 \/ sync.start = 0 \/ sync.start < lastMessageID
       IN sync' = [sync EXCEPT !.state = IF needed THEN "requesting" ELSE "finished",
                               !.after = sync.start, !.answer = "none"]
    /\ UNCHANGED <<discord, events, alive, lastMessageID, pending, store, failure, crashes, stops>>

\* Discord answers the request; the answer takes its time to arrive.
Answer ==
    /\ alive /\ sync.state = "requesting"
    /\ sync' = [sync EXCEPT !.state = "answered", !.rest = PageAfter(sync.after)]
    /\ UNCHANGED <<discord, events, alive, lastMessageID, pending, store, failure, crashes, stops>>

\* Mutant: all messages without reactions go first.
UnreactedAll(msgs) == DOMAIN msgs \ Reacted

\* The messages before the oldest that has reactions.
Unreacted(msgs) ==
    {m \in DOMAIN msgs : \A r \in DOMAIN msgs \cap Reacted : m < r}

AddTx(msgs, awaited) ==
    IF msgs = None THEN <<>> ELSE <<Tx("add", msgs, awaited)>>

\* The loop over the page from oldest to newest, up to its next await.
\* prior: the transaction of the reacted message just before, if any.  The
\* answer awaited at the end is that of the request made last: the flush at
\* the end of the page waits behind prior, so then it is still prior's.
Process(prior, msgs) ==
    LET front == Unreacted(msgs)
        rest == Only(msgs, Id \ front)
        end == rest = None
    IN /\ pending' = pending \o AddTx(prior, end)
                             \o AddTx(Only(msgs, front), end /\ prior = None)
       /\ sync' = [sync EXCEPT !.state = IF end THEN "flushed" ELSE "reactions",
                               !.rest = rest,
                               !.after = IF msgs = None THEN @ ELSE Max({@} \cup DOMAIN msgs),
                               !.full = IF sync.state = "answered"
                                        THEN Cardinality(DOMAIN msgs) = PageSize ELSE @]

\* Mutant: a page is taken to have messages.
ReceivePageNotEmpty ==
    /\ alive /\ sync.state = "answered"
    /\ Process(None, sync.rest)
    /\ UNCHANGED <<discord, events, alive, lastMessageID, store, failure, crashes, stops>>

ReceivePage ==
    /\ alive /\ sync.state = "answered"
    /\ IF sync.rest = None
       THEN /\ sync' = [sync EXCEPT !.state = "finished"]
            /\ UNCHANGED pending
       ELSE Process(None, sync.rest)
    /\ UNCHANGED <<discord, events, alive, lastMessageID, store, failure, crashes, stops>>

\* The reactions of the oldest message left have arrived; it is stored in a
\* transaction of its own.
ReceiveReactions ==
    /\ alive /\ sync.state = "reactions"
    /\ LET r == Min(DOMAIN sync.rest)
       IN Process(Only(sync.rest, {r}), Only(sync.rest, Id \ {r}))
    /\ UNCHANGED <<discord, events, alive, lastMessageID, store, failure, crashes, stops>>

\* Mutant: goes on at a known message instead of a new one.
EndPageSwapped ==
    /\ alive /\ sync.state = "flushed" /\ sync.answer # "none"
    /\ sync' = [sync EXCEPT !.state = IF sync.answer = "known" /\ sync.full
                                      THEN "requesting" ELSE "finished",
                            !.answer = "none"]
    /\ UNCHANGED <<discord, events, alive, lastMessageID, pending, store, failure, crashes, stops>>

\* The answer to lastMessageAddPromise: stop at a known message or at a short
\* page, otherwise request the page after the newest message.
EndPage ==
    /\ alive /\ sync.state = "flushed" /\ sync.answer # "none"
    /\ sync' = [sync EXCEPT !.state = IF sync.answer = "new" /\ sync.full
                                      THEN "requesting" ELSE "finished",
                            !.answer = "none"]
    /\ UNCHANGED <<discord, events, alive, lastMessageID, pending, store, failure, crashes, stops>>

\* The sync is aborted (permission lost), or an error status other than 403 and
\* 404 ends it.
StopSync ==
    /\ alive /\ sync.state \in {"requesting", "answered", "reactions"}
    /\ stops < MaxStops
    /\ stops' = stops + 1
    /\ sync' = [NoSync EXCEPT !.state = "stopped"]
    /\ UNCHANGED <<discord, events, alive, lastMessageID, pending, store, failure, crashes>>

\* 403 or 404, for a page or for reactions: the sync waits for an abort, which
\* need not come.
HangSync ==
    /\ alive /\ sync.state \in {"requesting", "reactions"}
    /\ stops < MaxStops
    /\ stops' = stops + 1
    /\ sync' = [NoSync EXCEPT !.state = "hung"]
    /\ UNCHANGED <<discord, events, alive, lastMessageID, pending, store, failure, crashes>>

\* The abort of a sync that hangs.
AbortHungSync ==
    /\ alive /\ sync.state = "hung"
    /\ sync' = [NoSync EXCEPT !.state = "stopped"]
    /\ UNCHANGED <<discord, events, alive, lastMessageID, pending, store, failure, crashes, stops>>

-----------------------------------------------------------------------------
(* The database worker. *)
Snap(v) == [ts |-> v, props |-> v]

StoredIDs(s) == {m \in Id : Table!Stored(s[m])}

\* Mutant: no row is not translated to 0.
LastIDOrNull(s) == IF StoredIDs(s) = {} THEN Null ELSE Max(StoredIDs(s))

\* GET_LAST_MESSAGE_ID
LastID(s) == IF StoredIDs(s) = {} THEN 0 ELSE Max(StoredIDs(s))

After(tx) ==
    [m \in Id |->
        IF m \notin DOMAIN tx.msgs THEN store[m]
        ELSE CASE tx.op = "add" -> Table!AddSnapshot(store[m], Snap(tx.msgs[m]))
               [] tx.op = "edit" -> IF Table!Stored(store[m])
                                    THEN Table!AddSnapshot(store[m], Snap(tx.msgs[m]))
                                    ELSE store[m]
               [] tx.op = "delete" -> Table!MarkAsDeleted(store[m], 1)]

Fails(tx) ==
    /\ tx.op \in {"add", "edit"}
    /\ \E m \in DOMAIN tx.msgs :
        Table!Stored(store[m]) /\ Table!Throws(store[m], Snap(tx.msgs[m]))

\* What syncMessages learns from the answer it waits for.
Answered(tx) ==
    IF tx.op = "last" THEN [sync EXCEPT !.answer = "read", !.start = LastID(store)]
    ELSE [sync EXCEPT !.answer =
            IF Table!Stored(store[Max(DOMAIN tx.msgs)]) THEN "known" ELSE "new"]

Work ==
    /\ alive /\ pending # <<>> /\ ~Fails(Head(pending))
    /\ store' = After(Head(pending))
    /\ pending' = Tail(pending)
    /\ sync' = IF Head(pending).awaited THEN Answered(Head(pending)) ELSE sync
    /\ UNCHANGED <<discord, events, alive, lastMessageID, failure, crashes, stops>>

\* The rejected promise is handled nowhere and kills the process, by when the
\* worker may have committed the rest of the transaction.
FatalError ==
    /\ alive /\ pending # <<>> /\ Fails(Head(pending))
    /\ failure' = "RangeError"
    /\ store' \in {store, After(Head(pending))}
    /\ Dies /\ UNCHANGED crashes

-----------------------------------------------------------------------------
Next ==
    \/ Post
    \/ \E m \in Id : Edit(m) \/ Delete(m)
    \/ Start \/ Crash \/ HandleEvent
    \/ StartSync \/ ResumeSync \/ ReadLast \/ Answer \/ ReceivePage \/ ReceiveReactions
    \/ EndPage \/ StopSync \/ HangSync \/ AbortHungSync
    \/ Work \/ FatalError

Spec == Init /\ [][Next]_vars

\* The event loop and the worker go on as long as there is something to do,
\* and Discord answers; nothing makes anyone post, crash or stop a sync, nor
\* abort one that hangs.
Fairness ==
    /\ WF_vars(HandleEvent) /\ WF_vars(Work) /\ WF_vars(FatalError)
    /\ WF_vars(StartSync) /\ WF_vars(ReadLast) /\ WF_vars(Answer)
    /\ WF_vars(ReceivePage) /\ WF_vars(ReceiveReactions) /\ WF_vars(EndPage)

FairSpec == Spec /\ Fairness

-----------------------------------------------------------------------------
Creates(m) == \E k \in DOMAIN events : events[k].type = "create" /\ events[k].id = m
Adds(m) == \E k \in DOMAIN pending : pending[k].op = "add" /\ m \in DOMAIN pending[k].msgs

\* The message is stored, or it is in hand or on its way here, or gone.
Covered(m) ==
    \/ m \in deleted \/ Table!Stored(store[m])
    \/ m \in DOMAIN sync.rest \/ Adds(m) \/ Creates(m)

(* A sync leaves no hole behind it: while it runs, no message between the  *)
(* one it resumed after and the newest it downloaded is missing, and once  *)
(* it has finished, at a known message, at a short page or because nothing *)
(* was needed, none is missing up to the present: the gateway brings every *)
(* message the download did not.                                           *)
NoGap ==
    alive /\ sync.state \in {"requesting", "answered", "reactions", "flushed", "finished"}
    => \A m \in (sync.start + 1)..(IF sync.state = "finished" THEN posted ELSE sync.after) :
        Covered(m)

(* index.ts says messages are added from oldest to newest so that what has *)
(* to be archived can be told from the last archived message alone: when a *)
(* sync decides where to start, every message up to that one is stored.    *)
LastIDSuffices ==
    alive /\ sync.state \in {"requesting", "answered", "reactions", "flushed", "finished"}
    => \A m \in 1..sync.start : m \in deleted \/ Table!Stored(store[m])

(* addSnapshot asserts that a snapshot that differs from the latest one is *)
(* more recent; the download and the gateway may bring them in any order.  *)
AlwaysMoreRecent == failure # "RangeError"

(* Every sync that starts comes to a known message or a short page, unless *)
(* the process dies, it is aborted or a request fails for good; after a    *)
(* 403 or 404 it does not end, but hangs until it is aborted.              *)
SyncSettles ==
    sync.state = "reading" ~> sync.state \in {"finished", "stopped", "hung"} \/ ~alive
=============================================================================
