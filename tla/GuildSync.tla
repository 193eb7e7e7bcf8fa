------------------------------ MODULE GuildSync ------------------------------
(***************************************************************************)
(* How the guild, its roles, channels and members get into the database:   *)
(* the gateway events of them that the "dispatch" listener of              *)
(* src/src/archiver/index.ts handles, the first GUILD_CREATE with all that *)
(* exists, and the download of the member list in chunks, for the accounts *)
(* of one process in one guild, over the FIFO of transactions to the       *)
(* database worker.  The process may die and start again, a connection may *)
(* be lost and resumed, and a session may be lost for good.                *)
(*                                                                         *)
(* The listener awaits nothing, so that handling an event is one step.  An *)
(* exception in it, or a request that throws in the worker, rejects a      *)
(* promise nobody handles, and the process dies some time later.           *)
(* Discord sends the events of a session in order and once.                *)
(***************************************************************************)
EXTENDS SnapshotTable, FiniteSets, Sequences

CONSTANTS
    Object, KindOf, Parent, LeftProps,  \* as in GuildStore
    Guild,       \* the guild
    UserOf,      \* UserOf[m]: the user that member m is
    Account,     \* accounts that may be given on the command line
    Chunks,      \* the members in the order of the chunks that list them
    MaxTime,     \* bound on the clock, in milliseconds
    MaxChanges,  \* bound on the changes in Discord
    MaxCrashes,  \* bound on how often the process is killed
    MaxTroubles  \* bound on what befalls connections, sessions and the guild

Member == {o \in Object : KindOf[o] = "member"}
RoleOrChannel == {o \in Object : KindOf[o] \in {"role", "channel"}}

ASSUME GuildSyncAssumption ==
    /\ KindOf \in [Object -> {"user", "guild", "role", "member", "channel"}]
    /\ Parent \in [Object -> Object \cup {Null}]
    /\ Guild \in Object /\ KindOf[Guild] = "guild"
    /\ \A o \in RoleOrChannel \cup Member : Parent[o] = Guild
    /\ UserOf \in [Member -> {o \in Object : KindOf[o] = "user"}]
    /\ Chunks \in Seq(SUBSET Member) /\ Chunks # <<>>
    /\ \A m \in Member : \E k \in DOMAIN Chunks : m \in Chunks[k]
    /\ {MaxTime, MaxChanges, MaxCrashes, MaxTroubles} \subseteq Nat
    /\ LeftProps \in Props /\ Null \notin Props \cup Account

VARIABLES
    world,       \* Discord: the properties of what exists, or Null
    gone,        \* Discord: deleted roles and channels; an ID is never used again
    changes,     \* Discord: how often anything changed
    asked,       \* Discord: REQUEST_GUILD_MEMBERS received and not yet begun
    answering,   \* Discord: the next chunk of the request in hand, or 0
    events,      \* events of each account's session not yet handled
    link,        \* each account's connection
    accounts,    \* the accounts of this process
    ready,       \* accounts whose connectAccount promise has resolved
    allReady,
    guildOf,     \* the account whose GUILD_CREATE made the cached guild, or Null
    memberUserIDs,  \* of the cached guild
    requesting,  \* accounts with the guild in their ongoingMemberRequests
    process,     \* "down", "up", or "dying" once a promise was rejected
    pending,     \* transactions posted to the worker
    store,       \* the cell of every object, as committed
    now,         \* Date.now()
    crashes,
    troubles,
    lost,        \* history: a session of this process was lost
    newcomers    \* history: members who joined during the last download

discord == <<world, gone, changes>>
download == <<asked, answering>>
main == <<accounts, ready, allReady, guildOf, memberUserIDs, requesting>>
history == <<crashes, troubles, lost, newcomers>>
vars == <<discord, download, events, link, main, process, pending, store, now, history>>

Requests == INSTANCE GuildStore WITH
    objects <- store, answered <- "none", Timings <- {}

\* A list: a partial function from objects to their properties.
None == [o \in {} |-> Null]
One(o, props) == [x \in {o} |-> props]
Only(list, objects) == [o \in DOMAIN list \cap objects |-> list[o]]

Exists(o) == world[o] # Null
Existing(objects) == [o \in {x \in objects : Exists(x)} |-> world[o]]

EventType == {"GUILD_CREATE", "GUILD_DELETE", "CREATE", "UPDATE", "DELETE",
              "MEMBER_REMOVE", "CHUNK"}
TxOp == {"guild", "add", "delete", "members"}

List == UNION {[objects -> Props] : objects \in SUBSET Object}
EventOf == [type: EventType, list: List, last: BOOLEAN]
Transaction == [op: TxOp, list: List, timing: Timing]

TypeOK ==
    /\ world \in [Object -> (Props \ {LeftProps}) \cup {Null}]
    /\ gone \subseteq RoleOrChannel
    /\ changes \in 0..MaxChanges /\ asked \in Nat /\ answering \in 0..Len(Chunks)
    /\ events \in [Account -> Seq(EventOf)]
    /\ link \in [Account -> {"none", "identified", "resumed", "lost"}]
    /\ ready \subseteq accounts /\ requesting \subseteq accounts
    /\ accounts \subseteq Account
    /\ {allReady, lost} \subseteq BOOLEAN
    /\ guildOf \in accounts \cup {Null}
    /\ memberUserIDs = Null \/ memberUserIDs \subseteq Member
    /\ process \in {"down", "up", "dying"}
    /\ pending \in Seq(Transaction)
    /\ store \in [Object -> Cell]
    /\ now \in 0..MaxTime
    /\ newcomers \subseteq Member

Init ==
    /\ world \in [Object -> (Props \ {LeftProps}) \cup {Null}]
    /\ \A o \in Object : KindOf[o] \in {"guild", "user"} => Exists(o)
    /\ gone = {} /\ changes = 0 /\ asked = 0 /\ answering = 0
    /\ events = [a \in Account |-> <<>>]
    /\ link = [a \in Account |-> "none"]
    /\ accounts = {} /\ ready = {} /\ allReady = FALSE /\ guildOf = Null
    /\ memberUserIDs = Null /\ requesting = {}
    /\ process = "down" /\ pending = <<>>
    /\ store = [o \in Object |-> EmptyCell]
    /\ now = 0 /\ crashes = 0 /\ troubles = 0
    /\ lost = FALSE /\ newcomers = {}

-----------------------------------------------------------------------------
(* Discord. *)
Event(type, list, last) == [type |-> type, list |-> list, last |-> last]

\* GUILD_CREATE lists the guild itself, its roles and its channels.
GuildCreated == Event("GUILD_CREATE", Existing(RoleOrChannel \cup {Guild}), FALSE)

\* Every session gets the event; one whose connection is lost, when it resumes.
Emit(new) == events' = [a \in Account |-> IF link[a] = "none" THEN <<>>
                                          ELSE events[a] \o new]

Change ==
    /\ changes < MaxChanges
    /\ changes' = changes + 1
    /\ UNCHANGED <<download, link, main, process, pending, store, now, crashes, troubles, lost>>

BeingListed ==
    \/ asked > 0 \/ answering > 0
    \/ \E a \in Account : \E k \in DOMAIN events[a] : events[a][k].type = "CHUNK"

\* A role or a channel is created, or a user joins.
Create(o, props) ==
    /\ ~Exists(o) /\ o \notin gone /\ props # LeftProps
    /\ Change
    /\ world' = [world EXCEPT ![o] = props]
    /\ newcomers' = IF o \in Member /\ BeingListed THEN newcomers \cup {o} ELSE newcomers
    /\ Emit(<<Event("CREATE", One(o, props), FALSE)>>)
    /\ UNCHANGED gone

\* No event that the listener handles tells of a change of a user.
Update(o, props) ==
    /\ Exists(o) /\ props \notin {world[o], LeftProps}
    /\ Change
    /\ world' = [world EXCEPT ![o] = props]
    /\ IF KindOf[o] = "user" THEN UNCHANGED events
       ELSE Emit(<<Event("UPDATE", One(o, props), FALSE)>>)
    /\ UNCHANGED <<gone, newcomers>>

Delete(o) ==
    /\ o \in RoleOrChannel \cup Member /\ Exists(o)
    /\ Change
    /\ Emit(<<Event(IF o \in Member THEN "MEMBER_REMOVE" ELSE "DELETE",
                    One(o, world[o]), FALSE)>>)
    /\ world' = [world EXCEPT ![o] = Null]
    /\ gone' = IF o \in Member THEN gone ELSE gone \cup {o}
    /\ UNCHANGED newcomers

UnchangedByDiscord == UNCHANGED <<discord, main, process, pending, store, now, crashes, lost, newcomers>>

\* The guild becomes unavailable for a while in which nothing in it changes.
Outage ==
    /\ process = "up" /\ troubles < MaxTroubles
    /\ troubles' = troubles + 1
    /\ Emit(<<Event("GUILD_DELETE", None, FALSE), GuildCreated>>)
    /\ UnchangedByDiscord /\ UNCHANGED <<download, link>>

\* Members are listed as they are when their chunk is sent.
SendChunk ==
    /\ guildOf # Null /\ link[guildOf] # "lost" /\ (answering > 0 \/ asked > 0)
    /\ LET k == IF answering > 0 THEN answering ELSE 1
           members == {m \in Chunks[k] : Exists(m)}
           list == Existing(members \cup {UserOf[m] : m \in members})
           last == k = Len(Chunks)
       IN /\ events' = [events EXCEPT ![guildOf] = Append(@, Event("CHUNK", list, last))]
          /\ answering' = IF last THEN 0 ELSE k + 1
          /\ asked' = IF answering > 0 THEN asked ELSE asked - 1
    /\ UnchangedByDiscord /\ UNCHANGED <<link, troubles>>
-----------------------------------------------------------------------------
(* The process and its connections. *)

\* A started process connects its accounts.  A guild that is unavailable when
\* it does is announced by GUILD_DELETE first.
Start ==
    /\ process = "down" /\ now < MaxTime
    /\ process' = "up" /\ now' = now + 1
    /\ accounts' \in (SUBSET Account) \ {{}}
    /\ link' = [a \in Account |-> IF a \in accounts' THEN "identified" ELSE "none"]
    /\ \E first \in {<<>>, <<Event("GUILD_DELETE", None, FALSE)>>} :
        events' = [a \in Account |-> IF a \in accounts' THEN Append(first, GuildCreated) ELSE <<>>]
    /\ lost' = FALSE /\ newcomers' = {}
    /\ UNCHANGED <<discord, download, ready, allReady, guildOf, memberUserIDs,
                   requesting, pending, store, crashes, troubles>>

Dies ==
    /\ process' = "down" /\ pending' = <<>>
    /\ events' = [a \in Account |-> <<>>]
    /\ link' = [a \in Account |-> "none"]
    /\ asked' = 0 /\ answering' = 0
    /\ accounts' = {} /\ ready' = {} /\ allReady' = FALSE /\ guildOf' = Null
    /\ memberUserIDs' = Null /\ requesting' = {}
    /\ UNCHANGED <<discord, store, now, troubles, lost, newcomers>>

Crash ==
    /\ process # "down" /\ crashes < MaxCrashes
    /\ crashes' = crashes + 1
    /\ Dies

Tick ==
    /\ process # "down" /\ now < MaxTime
    /\ now' = now + 1
    /\ UNCHANGED <<discord, download, events, link, main, process, pending, store, history>>

UnchangedByLink == UNCHANGED <<discord, process, pending, store, now, crashes, newcomers>>

LoseConnection(a) ==
    /\ link[a] \in {"identified", "resumed"} /\ troubles < MaxTroubles
    /\ troubles' = troubles + 1
    /\ link' = [link EXCEPT ![a] = "lost"]
    /\ UnchangedByLink /\ UNCHANGED <<download, events, main, lost>>

Resume(a) ==
    /\ link[a] = "lost"
    /\ link' = [link EXCEPT ![a] = "resumed"]
    /\ UnchangedByLink /\ UNCHANGED <<download, events, main, troubles, lost>>

\* "sessionLost", after which the connection starts a new session.  What was
\* left to come of the old one does not come.
LoseSession(a) ==
    /\ link[a] = "lost"
    /\ link' = [link EXCEPT ![a] = "identified"]
    /\ events' = [events EXCEPT ![a] = <<GuildCreated>>]
    /\ lost' = TRUE
    /\ IF a = guildOf THEN asked' = 0 /\ answering' = 0 ELSE UNCHANGED download
    /\ requesting' = requesting \ {a}
    /\ memberUserIDs' = IF a \in requesting THEN Null ELSE memberUserIDs
    /\ UnchangedByLink /\ UNCHANGED <<accounts, ready, allReady, guildOf, troubles>>

-----------------------------------------------------------------------------
(* The listener. *)
Tx(op, list, timing) == [op |-> op, list |-> list, timing |-> timing]

\* Mutant: the flag is forgotten.
AtOnly(realtime) == [timestamp |-> now, realtime |-> Null]

At(realtime) == [timestamp |-> now, realtime |-> realtime]

\* #live is false from a resume on.
Live(a) == link[a] = "identified"

\* syncAllGuildMembers, with the one account the cached guild knows.  The
\* promise of sendPayload is rejected unless the session was just begun.
SyncAllGuildMembers(a) ==
    /\ requesting' = requesting \cup {a}
    /\ newcomers' = {}
    /\ IF link[a] = "identified" THEN asked' = asked + 1 /\ UNCHANGED process
       ELSE process' = "dying" /\ UNCHANGED asked

DoNotSyncMembers == UNCHANGED <<requesting, newcomers, asked, process>>

\* Promise.all over the accounts: the members of the guilds known by then.
AllReady ==
    /\ process = "up" /\ ~allReady /\ accounts \subseteq ready
    /\ allReady' = TRUE
    /\ IF guildOf # Null THEN SyncAllGuildMembers(guildOf) ELSE DoNotSyncMembers
    /\ UNCHANGED <<discord, answering, events, link, accounts, ready, guildOf,
                   memberUserIDs, pending, store, now, crashes, troubles, lost>>

Take(a, type) ==
    /\ process # "down" /\ link[a] # "lost"
    /\ events[a] # <<>> /\ Head(events[a]).type = type
    /\ events' = [events EXCEPT ![a] = Tail(@)]
    /\ UNCHANGED <<discord, answering, link, accounts, allReady, store, now, crashes, troubles, lost>>

\* An event that only makes a transaction.
Record(a, type, op, timing) ==
    /\ Take(a, type)
    /\ pending' = Append(pending, Tx(op, Head(events[a]).list, timing))
    /\ UNCHANGED <<ready, guildOf, memberUserIDs>> /\ DoNotSyncMembers

\* An unavailable guild counts as one whose information was received.
GuildDelete(a) ==
    /\ Take(a, "GUILD_DELETE")
    /\ ready' = ready \cup {a}
    /\ UNCHANGED <<guildOf, memberUserIDs, pending>> /\ DoNotSyncMembers

\* Only the first one in the life of the process says anything about the
\* guild; every one after allReady lists the members once more.
GuildCreate(a) ==
    /\ Take(a, "GUILD_CREATE")
    /\ ready' = ready \cup {a}
    /\ IF guildOf = Null
       THEN /\ guildOf' = a /\ memberUserIDs' = {}
            /\ pending' = Append(pending, Tx("guild", Head(events[a]).list, At(FALSE)))
       ELSE UNCHANGED <<guildOf, memberUserIDs, pending>>
    /\ IF allReady THEN SyncAllGuildMembers(guildOf') ELSE DoNotSyncMembers

\* GUILD_ROLE_CREATE, CHANNEL_CREATE and GUILD_MEMBER_ADD: a channel just
\* created has no time.
ObjectCreate(a) ==
    \E o \in Object :
        /\ events[a] # <<>> /\ DOMAIN Head(events[a]).list = {o}
        /\ Record(a, "CREATE", "add", IF KindOf[o] = "channel" THEN Null ELSE At(Live(a)))

\* GUILD_UPDATE, GUILD_ROLE_UPDATE, CHANNEL_UPDATE and GUILD_MEMBER_UPDATE
ObjectUpdate(a) == Record(a, "UPDATE", "add", At(Live(a)))

\* GUILD_ROLE_DELETE and CHANNEL_DELETE
ObjectDelete(a) == Record(a, "DELETE", "delete", At(Live(a)))

MemberRemove(a) ==
    /\ Take(a, "MEMBER_REMOVE")
    /\ pending' = Append(pending, Tx("add", [m \in DOMAIN Head(events[a]).list |-> LeftProps],
                                     At(Live(a))))
    /\ UNCHANGED <<ready, guildOf, memberUserIDs>> /\ DoNotSyncMembers

\* GUILD_MEMBERS_CHUNK.  The account itself is one of the members, so that a
\* list that is null makes this throw, after the first transaction.
GuildMembersChunk(a) ==
    /\ Take(a, "CHUNK")
    /\ LET e == Head(events[a])
           add == Tx("add", e.list, At(FALSE))
           userIDs == memberUserIDs \cup (DOMAIN e.list \cap Member)
           sync == Tx("members", [m \in userIDs |-> LeftProps], At(FALSE))
       IN IF memberUserIDs = Null
          THEN /\ process' = "dying"
               /\ pending' = Append(pending, add)
               /\ UNCHANGED <<memberUserIDs, requesting>>
          ELSE /\ memberUserIDs' = userIDs
               /\ pending' = pending \o (IF e.last THEN <<add, sync>> ELSE <<add>>)
               /\ requesting' = IF e.last THEN requesting \ {a} ELSE requesting
               /\ UNCHANGED process
    /\ UNCHANGED <<ready, guildOf, newcomers, asked>>

Dispatch(a) ==
    \/ GuildDelete(a) \/ GuildCreate(a)
    \/ ObjectCreate(a) \/ ObjectUpdate(a) \/ ObjectDelete(a)
    \/ MemberRemove(a) \/ GuildMembersChunk(a)

-----------------------------------------------------------------------------
(* The database worker, one transaction at a time; the requests of one are *)
(* about different objects, and one that throws does not stop the others.  *)
Snap(props, timing) == [ts |-> EncodeTiming(timing), props |-> props]

AddAll(s, list, timing) ==
    [o \in Object |-> IF o \in DOMAIN list THEN AddSnapshot(s[o], Snap(list[o], timing))
                      ELSE s[o]]

ThrowingIn(list, timing) == {o \in DOMAIN list : Throws(store[o], Snap(list[o], timing))}

\* Mutant: roles that were deleted meanwhile go unnoticed.
SyncedChannels(tx) ==
    Requests!AfterSyncing(store, Guild, "channel", DOMAIN tx.list, tx.timing)

\* SYNC_GUILD_CHANNELS_AND_ROLES
Synced(tx) ==
    Requests!AfterSyncing(
        Requests!AfterSyncing(store, Guild, "channel", DOMAIN tx.list, tx.timing),
        Guild, "role", DOMAIN tx.list, tx.timing)

\* Mutant: the condition is swapped.
LeavesOfListed(tx) ==
    [m \in Requests!NotLeft(store, Guild) \cap DOMAIN tx.list |-> LeftProps]

\* SYNC_GUILD_MEMBERS
Leaves(tx) == [m \in Requests!Leaving(store, Guild, DOMAIN tx.list) |-> LeftProps]

Fails(tx) ==
    CASE tx.op \in {"guild", "add"} -> ThrowingIn(tx.list, tx.timing) # {}
      [] tx.op = "members" -> ThrowingIn(Leaves(tx), tx.timing) # {}
      [] tx.op = "delete" -> FALSE

\* The tables after a transaction.  The one loop within a request, that of
\* SYNC_GUILD_MEMBERS, ends at the first member it throws for.
After(tx) ==
    CASE tx.op = "add" -> {AddAll(store, tx.list, tx.timing)}
      [] tx.op = "guild" -> {AddAll(Synced(tx), tx.list, tx.timing)}
      [] tx.op = "delete" ->
            {[o \in Object |-> IF o \in DOMAIN tx.list
                               THEN MarkAsDeleted(store[o], EncodeTiming(tx.timing))
                               ELSE store[o]]}
      [] tx.op = "members" ->
            LET all == DOMAIN Leaves(tx)
                throwing == ThrowingIn(Leaves(tx), tx.timing)
            IN {AddAll(store, Only(Leaves(tx), done), tx.timing) :
                    done \in IF throwing = {} THEN {all} ELSE SUBSET (all \ throwing)}

Work ==
    /\ process # "down" /\ pending # <<>>
    /\ store' \in After(Head(pending))
    /\ pending' = Tail(pending)
    /\ process' = IF Fails(Head(pending)) THEN "dying" ELSE process
    /\ UNCHANGED <<discord, download, events, link, main, now, history>>

\* A rejection ends the process; the transaction whose request threw may not
\* have been committed by then.
Die ==
    /\ \/ process = "dying"
       \/ process = "up" /\ pending # <<>> /\ Fails(Head(pending))
    /\ Dies /\ UNCHANGED crashes

-----------------------------------------------------------------------------
Next ==
    \/ \E o \in Object, props \in Props : Create(o, props) \/ Update(o, props)
    \/ \E o \in Object : Delete(o)
    \/ Outage \/ SendChunk
    \/ Start \/ Crash \/ Tick \/ AllReady
    \/ \E a \in Account : LoseConnection(a) \/ Resume(a) \/ LoseSession(a) \/ Dispatch(a)
    \/ Work \/ Die

Spec == Init /\ [][Next]_vars

-----------------------------------------------------------------------------
\* Nothing is on its way to the database.
Quiet ==
    /\ process = "up" /\ guildOf # Null /\ pending = <<>>
    /\ asked = 0 /\ answering = 0
    /\ \A a \in Account : events[a] = <<>>

(* While no session of the process was lost, the database catches up with  *)
(* Discord whenever the events have been handled: the guild and every role *)
(* and channel that exists is recorded as it is, and those that no longer  *)
(* exist are marked; with lagging events of several accounts, changes made *)
(* while the process was down, and a process that died at any moment.      *)
CaughtUp ==
    Quiet /\ ~lost => \A o \in RoleOrChannel \cup {Guild} :
        IF Exists(o)
        THEN Stored(store[o]) /\ Mark(store[o]) = Null /\ store[o].latest.props = world[o]
        ELSE Stored(store[o]) => Mark(store[o]) # Null

(* Once the members have been listed, nobody who is not in the guild is    *)
(* recorded as a member, and everybody is who is in it since before the    *)
(* listing began, with the current properties.                             *)
MembersCaughtUp ==
    Quiet /\ ~lost /\ allReady => \A m \in Member :
        IF Exists(m)
        THEN m \in newcomers \/ (Stored(store[m]) /\ store[m].latest.props = world[m])
        ELSE m \notin Requests!NotLeft(store, Guild)
===============================================================================
