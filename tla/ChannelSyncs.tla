----------------------------- MODULE ChannelSyncs -----------------------------
(***************************************************************************)
(* Which downloads the archiver runs: the permissions it caches for the    *)
(* channels of a guild, the gateway events that change them, the lists of  *)
(* ongoing message downloads and thread enumerations, and how these are    *)
(* started, aborted and ended (src/src/archiver/index.ts and cache.ts).    *)
(*                                                                         *)
(* A cached guild only knows the account whose GUILD_CREATE made it, so    *)
(* that every set of accounts in the cache has that one at most: the model *)
(* is of this account.  It is not the owner of the guild.  What a download *)
(* of messages does with its pages is MessageSync's; here an operation     *)
(* gets what Discord answers to an account that may, or may not, read the  *)
(* channel.  An exception in an async function ends the process.           *)
(***************************************************************************)
EXTENDS Permissions, Sequences, FiniteSetsExt

CONSTANTS
    Null,
    Channel,     \* text channels, which may have threads
    Thread,
    ParentOf,    \* ParentOf[t]: the channel of a thread
    Private,     \* the private threads
    Active,      \* the threads that are not archived
    Role,        \* the guild's roles but for @everyone
    Overwrites,  \* the overwrites a channel may have
    Grants,      \* the permissions a role may have
    MaxChanges,  \* bound on the changes in Discord and lost sessions
    MaxOps       \* bound on the operations started

Item == Channel \cup Thread

RolePermissions == [Role \cup {Everyone} -> Grants \cup {Null}]

CachedChannel ==
    [overwrites: Overwrites, read: BOOLEAN, manage: BOOLEAN, known: BOOLEAN,
     activeThreads: SUBSET Thread]
CachedAccount ==
    [roles: SUBSET Role, rolePermissions: RolePermissions, guildPermissions: SUBSET Flag]

ASSUME SyncsAssumption ==
    /\ IsFiniteSet(Channel) /\ IsFiniteSet(Thread) /\ Channel \cap Thread = {}
    /\ ParentOf \in [Thread -> Channel] /\ Private \cup Active \subseteq Thread
    /\ {MaxChanges, MaxOps} \subseteq Nat
    /\ Grants \subseteq SUBSET Flag /\ Everyone \notin Role
    /\ Null \notin Nat \cup Item \cup Overwrites \cup Grants
    /\ Null \notin CachedChannel \cup CachedAccount

VARIABLES
    world,      \* Discord: overwrites of the channels, threads, the account's roles, permissions
    gone,       \* Discord: deleted channels and roles; an ID is never used again
    changes,    \* Discord: how often they changed
    events,     \* events of the session not yet handled
    cache,      \* textChannels, and the channels that were in it
    account,    \* the account's data in the cached guild and the guild's roles, or Null
    allReady,
    process,    \* "up", "stopped" after disconnectAccount, or "dead"
    syncs,      \* the operations and the maps they are in
    gained      \* history: how often the account got the read permission in the cache

discord == <<world, gone, changes>>
vars == <<discord, events, cache, account, allReady, process, syncs, gained>>

Messages == {"messages", "privateMessages"}
Lists == {"publicThreads", "privateThreads"}
Kind == Messages \cup Lists

\* Whether Discord lets the account read the channel.
MayRead(w, c) ==
    /\ w.overwrites[c] # Null
    /\ hasChannelPermissions(
            computeChannelPermissions(
                computeGuildPermissions(FALSE, w.permissions, w.roles),
                w.roles, w.overwrites[c]),
            {"ReadMessageHistory"})

\* A call of syncMessages or syncAllArchivedThreads.  map: the map it put
\* itself into; Null for enumerations.  rest: the threads yet to be listed.
\* asked: whether the account could read the channel at the last request.
Op(kind, channel, item, map, rest, gain) ==
    [kind |-> kind, channel |-> channel, item |-> item, map |-> map, rest |-> rest,
     state |-> "running", asked |-> MayRead(world, channel), aborted |-> FALSE,
     gain |-> gain]

World ==
    [overwrites: [Channel -> Overwrites \cup {Null}], threads: SUBSET Thread,
     roles: SUBSET Role, permissions: RolePermissions]

EventType == {"GUILD_CREATE", "CHANNEL_CREATE", "CHANNEL_UPDATE", "CHANNEL_DELETE",
              "GUILD_ROLE_CREATE", "GUILD_ROLE_UPDATE", "GUILD_ROLE_DELETE",
              "GUILD_MEMBER_UPDATE", "THREAD_LIST_SYNC"}
EventOf == [type: EventType, subject: Channel \cup Role \cup {Everyone, Null}, world: World]

Operation ==
    [kind: Kind, channel: Channel, item: Item, map: Nat \cup {Null}, rest: SUBSET Thread,
     state: {"running", "hung", "ended"}, asked: BOOLEAN, aborted: BOOLEAN, gain: Nat]
EmptyMap == [item \in {} |-> Null]

\* syncs.maps[k] is the map from IDs to operations that operation k made;
\* syncs.ongoing, the account's maps: for messages to such a map, for lists
\* to an operation.
TypeOK ==
    /\ world \in World /\ gone \subseteq Channel \cup Role /\ changes \in 0..MaxChanges
    /\ events \in Seq(EventOf)
    /\ cache \in [Channel -> CachedChannel \cup {Null}]
    /\ account \in CachedAccount \cup {Null}
    /\ allReady \in BOOLEAN
    /\ process \in {"up", "stopped", "dead"}
    /\ syncs.ops \in Seq(Operation) /\ Len(syncs.ops) <= MaxOps
    /\ DOMAIN syncs.maps = DOMAIN syncs.ops
    /\ \A n \in DOMAIN syncs.ops :
        /\ syncs.ops[n].map \in DOMAIN syncs.ops \cup {Null}
        /\ \A i \in DOMAIN syncs.maps[n] :
            syncs.maps[n][i] \in DOMAIN syncs.ops /\ syncs.ops[syncs.maps[n][i]].item = i
    /\ syncs.ongoing \in [Kind -> [Channel -> DOMAIN syncs.ops \cup {Null}]]
    /\ gained \in [Channel -> Nat]

Init ==
    /\ world \in [overwrites: [Channel -> Overwrites \cup {Null}], threads: SUBSET Thread,
                  roles: SUBSET Role, permissions: RolePermissions]
    /\ \A r \in world.roles \cup {Everyone} : world.permissions[r] # Null
    /\ gone = {} /\ changes = 0
    /\ events = <<[type |-> "GUILD_CREATE", subject |-> Null, world |-> world]>>
    /\ cache = [c \in Channel |-> Null] /\ account = Null
    /\ allReady = FALSE /\ process = "up"
    /\ syncs = [ops |-> <<>>, maps |-> <<>>,
                ongoing |-> [k \in Kind |-> [c \in Channel |-> Null]]]
    /\ gained = [c \in Channel |-> 0]

-----------------------------------------------------------------------------
(* Discord. *)
\* What an event says of its subject is in the world it was sent in.
Event(type, subject, w) == [type |-> type, subject |-> subject, world |-> w]

ActiveIn(w, c) == {t \in w.threads \cap Active : ParentOf[t] = c}

\* The active threads of the channels the account may read now are sent.
ThreadLists(w) ==
    LET opened == {c \in Channel : /\ MayRead(w, c) /\ ~MayRead(world, c)
                                   /\ ActiveIn(w, c) # {}}
    IN FoldSet(LAMBDA c, list : Append(list, Event("THREAD_LIST_SYNC", c, w)), <<>>, opened)

Change(w, type, subject) ==
    /\ changes < MaxChanges /\ process = "up"
    /\ changes' = changes + 1
    /\ w # world /\ world' = w
    /\ events' = Append(events, Event(type, subject, w)) \o ThreadLists(w)
    /\ UNCHANGED <<cache, account, allReady, process, syncs, gained>>

ChangeChannel(c, overwrites) ==
    /\ c \notin gone
    /\ Change([world EXCEPT !.overwrites[c] = overwrites],
              IF world.overwrites[c] = Null THEN "CHANNEL_CREATE" ELSE "CHANNEL_UPDATE", c)
    /\ UNCHANGED gone

DeleteChannel(c) ==
    /\ world.overwrites[c] # Null
    /\ Change([world EXCEPT !.overwrites[c] = Null], "CHANNEL_DELETE", c)
    /\ gone' = gone \cup {c}

ChangeRole(r, permissions) ==
    /\ r \notin gone
    /\ Change([world EXCEPT !.permissions[r] = permissions],
              IF world.permissions[r] = Null THEN "GUILD_ROLE_CREATE"
              ELSE "GUILD_ROLE_UPDATE", r)
    /\ UNCHANGED gone

\* Every member loses the role; no GUILD_MEMBER_UPDATE says so.
DeleteRole(r) ==
    /\ world.permissions[r] # Null
    /\ Change([world EXCEPT !.permissions[r] = Null, !.roles = @ \ {r}],
              "GUILD_ROLE_DELETE", r)
    /\ gone' = gone \cup {r}

ChangeRolesOfAccount(roles) ==
    /\ \A r \in roles : world.permissions[r] # Null
    /\ Change([world EXCEPT !.roles = roles], "GUILD_MEMBER_UPDATE", Null)
    /\ UNCHANGED gone

\* A new session begins with a GUILD_CREATE; the events of the old are lost.
LoseSession ==
    /\ changes < MaxChanges /\ process = "up" /\ events # <<>> /\ account # Null
    /\ changes' = changes + 1
    /\ events' = <<Event("GUILD_CREATE", Null, world)>>
    /\ UNCHANGED <<world, gone, cache, account, allReady, process, syncs, gained>>

-----------------------------------------------------------------------------
(* The operations and their maps. *)
\* Mutant: a thread's download is found under the channel's ID.
StartMessagesOfChannel(s, c, item, gain) ==
    LET n == Len(s.ops) + 1
        kind == IF item \in Private THEN "privateMessages" ELSE "messages"
        k == IF s.ongoing[kind][c] = Null THEN n ELSE s.ongoing[kind][c]
        With(map) == [i \in DOMAIN map \cup {c} |-> IF i = c THEN n ELSE map[i]]
    IN [ops |-> Append(s.ops, Op(kind, c, item, k, {}, gain)),
        maps |-> [Append(s.maps, EmptyMap) EXCEPT ![k] = With(@)],
        ongoing |-> [s.ongoing EXCEPT ![kind][c] = k]]

StartMessages(s, c, item, gain) ==
    LET n == Len(s.ops) + 1
        kind == IF item \in Private THEN "privateMessages" ELSE "messages"
        k == IF s.ongoing[kind][c] = Null THEN n ELSE s.ongoing[kind][c]
        With(map) == [i \in DOMAIN map \cup {item} |-> IF i = item THEN n ELSE map[i]]
    IN [ops |-> Append(s.ops, Op(kind, c, item, k, {}, gain)),
        maps |-> [Append(s.maps, EmptyMap) EXCEPT ![k] = With(@)],
        ongoing |-> [s.ongoing EXCEPT ![kind][c] = k]]

Listed(kind, c) ==
    {t \in world.threads \ Active : ParentOf[t] = c /\ (t \in Private <=> kind = "privateThreads")}

StartList(s, kind, c) ==
    [ops |-> Append(s.ops, Op(kind, c, c, Null, Listed(kind, c), 0)),
     maps |-> Append(s.maps, EmptyMap),
     ongoing |-> [s.ongoing EXCEPT ![kind][c] = Len(s.ops) + 1]]

\* The operations found under a channel in one of the account's maps.
Registered(s, kind, c) ==
    LET n == s.ongoing[kind][c]
    IN IF n = Null THEN {}
       ELSE IF kind \in Lists THEN {n}
       ELSE {s.maps[n][i] : i \in DOMAIN s.maps[n]}

Abort(s, ns) ==
    [s EXCEPT !.ops = [n \in DOMAIN s.ops |->
        IF n \in ns THEN [s.ops[n] EXCEPT !.aborted = TRUE] ELSE s.ops[n]]]

Ended(op) == [op EXCEPT !.state = "ended", !.asked = FALSE, !.rest = {}, !.map = Null]

\* Mutant: an aborted operation returns at once.
EndUnlessAborted(s, n) ==
    LET op == s.ops[n]
        ended == [s EXCEPT !.ops[n] = Ended(op)]
    IN IF op.aborted THEN ended ELSE [ended EXCEPT !.ongoing[op.kind][op.channel] = Null]

\* An operation that ends takes itself out of the account's map: a download,
\* the channel's whole entry unless the map it had found is of several.
End(s, n) ==
    LET op == s.ops[n]
        ended == [s EXCEPT !.ops[n] = Ended(op)]
        map == s.maps[op.map]
    IN IF op.kind \in Messages /\ Cardinality(DOMAIN map) > 1
       THEN [ended EXCEPT !.maps[op.map] = [i \in DOMAIN map \ {op.item} |-> map[i]]]
       ELSE [ended EXCEPT !.ongoing[op.kind][op.channel] = Null]

-----------------------------------------------------------------------------
(* The permissions in the cache. *)

\* The cached channel after updateGuildChannelPermissions; the manage
\* permission is only taken back from one who may still read.
Updated(channel, data) ==
    LET permissions == computeChannelPermissions(
                           data.guildPermissions, data.roles, channel.overwrites)
        read == hasChannelPermissions(permissions, {"ReadMessageHistory"})
        manage == read /\ hasChannelPermissions(permissions, {"ManageThreads"})
    IN [channel EXCEPT !.read = read, !.manage = manage \/ (@ /\ ~read)]

\* Mutant: downloads of messages go on unless threads can be managed still.
LostBoth(s, c, was, is) ==
    IF was.read /\ ~is.read /\ ~is.manage THEN Registered(s, "messages", c) ELSE {}

\* The operations of the permissions that were lost, was and is being the
\* channel before and after its update.
Lost(s, c, was, is) ==
    (IF was.read /\ ~is.read THEN Registered(s, "messages", c) ELSE {}) \cup
    (IF is.read /\ ~is.manage THEN Registered(s, "privateThreads", c)
                                   \cup Registered(s, "privateMessages", c) ELSE {})

\* Mutant: the test of one permission is used for the other.
GainedManage(s, c, was, is) ==
    IF allReady /\ ~was.manage /\ is.read
    THEN StartList(StartMessages(s, c, c, gained[c] + 1), "publicThreads", c) ELSE s

GainedRead(s, c, was, is) ==
    IF allReady /\ ~was.read /\ is.read
    THEN StartList(StartMessages(s, c, c, gained[c] + 1), "publicThreads", c) ELSE s

\* What the update of a channel does to the operations ...
AfterUpdate(s, c, was, is) ==
    LET reading == GainedRead(Abort(s, Lost(s, c, was, is)), c, was, is)
    IN IF allReady /\ ~was.manage /\ is.manage
       THEN StartList(reading, "privateThreads", c) ELSE reading

\* ... and that of these channels.
AfterUpdates(s, channels, was, is) ==
    FoldSet(LAMBDA c, s1 : AfterUpdate(s1, c, was[c], is[c]), s, channels)

\* updateGuildChannelPermissions for these channels, in a cache in which they
\* may have other overwrites.
UpdatePermissions(channels, overwritten, data) ==
    LET is == [c \in Channel |-> IF c \in channels THEN Updated(overwritten[c], data)
                                 ELSE overwritten[c]]
    IN /\ cache' = is
       /\ syncs' = AfterUpdates(syncs, channels, overwritten, is)
       /\ Len(syncs'.ops) <= MaxOps
       /\ gained' = [c \in Channel |->
            gained[c] + IF c \in channels /\ ~overwritten[c].read /\ is[c].read
                        THEN 1 ELSE 0]

Known == {c \in Channel : cache[c] # Null /\ cache[c].known}

\* updateGuildPermissions: what the roles grant is not computed anew.
UpdateGuildPermissions(data) ==
    /\ account' = data
    /\ UpdatePermissions(Known, cache, data)

NoUpdate == UNCHANGED <<cache, syncs, gained>>

-----------------------------------------------------------------------------
(* The listener. *)
Take(type) ==
    /\ process = "up" /\ events # <<>> /\ Head(events).type = type
    /\ events' = Tail(events)
    /\ UNCHANGED <<discord, allReady>>

NewChannel(overwrites, threads) ==
    [overwrites |-> overwrites, read |-> FALSE, manage |-> FALSE, known |-> TRUE,
     activeThreads |-> threads]

\* The account is told of the active threads of channels it may read.
GuildCreate ==
    /\ Take("GUILD_CREATE")
    /\ LET w == Head(events).world
           data == [roles |-> w.roles, rolePermissions |-> w.permissions,
                    guildPermissions |-> computeGuildPermissions(FALSE, w.permissions, w.roles)]
           channels == {c \in Channel : w.overwrites[c] # Null}
       IN IF account = Null
          THEN /\ account' = data
               /\ UpdatePermissions(channels,
                    [c \in Channel |-> IF c \in channels
                                       THEN NewChannel(w.overwrites[c],
                                                IF MayRead(w, c) THEN ActiveIn(w, c) ELSE {})
                                       ELSE Null], data)
          ELSE UNCHANGED account /\ NoUpdate
    /\ UNCHANGED process

StartThreads(s, c, threads) ==
    FoldSet(LAMBDA t, s1 : StartMessages(s1, c, t, 0), s, threads)

\* The channel is downloaded with the threads that were active when it was
\* cached (nothing else reads these), and its archived ones are enumerated.
StartChannel(s, c) ==
    LET reading == StartMessages(s, c, c, gained[c])
        managing == IF cache[c].manage THEN StartList(reading, "privateThreads", c)
                    ELSE reading
    IN StartList(StartThreads(managing, c, cache[c].activeThreads), "publicThreads", c)

StartChannels(s, channels) == FoldSet(LAMBDA c, s1 : StartChannel(s1, c), s, channels)

\* When all accounts are ready: each was sent a GUILD_CREATE of its guilds or
\* told that they are unavailable, so that this one may be unknown yet.
AllReady ==
    /\ process = "up" /\ ~allReady
    /\ allReady' = TRUE
    /\ syncs' = StartChannels(syncs, {c \in Known : cache[c].read})
    /\ Len(syncs'.ops) <= MaxOps
    /\ UNCHANGED <<discord, events, cache, account, process, gained>>

\* The sets of a new channel stay empty until something updates them.
ChannelCreate ==
    /\ Take("CHANNEL_CREATE")
    /\ LET c == Head(events).subject
       IN cache' = [cache EXCEPT ![c] = NewChannel(Head(events).world.overwrites[c], {})]
    /\ UNCHANGED <<account, process, syncs, gained>>

\* The test whether the overwrites changed compares the old ones with
\* themselves.
ChannelUpdate ==
    /\ Take("CHANNEL_UPDATE")
    /\ LET c == Head(events).subject
       IN IF c \in Known
          THEN UpdatePermissions({c},
                 [cache EXCEPT ![c].overwrites = Head(events).world.overwrites[c]], account)
          ELSE NoUpdate
    /\ UNCHANGED <<account, process>>

\* The operations of the channel go on, and the cached channel they hold
\* never changes again.
ChannelDelete ==
    /\ Take("CHANNEL_DELETE")
    /\ LET c == Head(events).subject
       IN cache' = IF c \in Known THEN [cache EXCEPT ![c].known = FALSE] ELSE cache
    /\ UNCHANGED <<account, process, syncs, gained>>

WithRole(r, permissions) == [account EXCEPT !.rolePermissions[r] = permissions]

RoleCreate ==
    /\ Take("GUILD_ROLE_CREATE")
    /\ LET r == Head(events).subject
       IN account' = WithRole(r, Head(events).world.permissions[r])
    /\ NoUpdate /\ UNCHANGED process

\* GUILD_ROLE_UPDATE and GUILD_ROLE_DELETE
RoleUpdate(type) ==
    /\ Take(type)
    /\ LET r == Head(events).subject
           permissions == Head(events).world.permissions[r]
       IN IF account.rolePermissions[r] # permissions
          THEN UpdateGuildPermissions(WithRole(r, permissions))
          ELSE NoUpdate /\ UNCHANGED account
    /\ UNCHANGED process

MemberUpdate ==
    /\ Take("GUILD_MEMBER_UPDATE")
    /\ LET roles == Head(events).world.roles
       IN IF account.roles # roles
          THEN UpdateGuildPermissions([account EXCEPT !.roles = roles])
          ELSE NoUpdate /\ UNCHANGED account
    /\ UNCHANGED process

\* Threads found in the map of the public ones are skipped.  Without an
\* account that may read, syncMessages throws.
ThreadListSync ==
    /\ Take("THREAD_LIST_SYNC")
    /\ LET c == Head(events).subject
           ongoing == {syncs.ops[n].item : n \in Registered(syncs, "messages", c)}
           new == ActiveIn(Head(events).world, c) \ ongoing
       IN IF allReady /\ c \in Known /\ new # {}
          THEN IF cache[c].read
               THEN /\ syncs' = StartThreads(syncs, c, new)
                    /\ Len(syncs'.ops) <= MaxOps
                    /\ UNCHANGED process
               ELSE process' = "dead" /\ UNCHANGED syncs
          ELSE UNCHANGED <<process, syncs>>
    /\ UNCHANGED <<cache, account, gained>>

-----------------------------------------------------------------------------
(* The operations. *)
InOp(n) ==
    /\ process # "dead" /\ n \in DOMAIN syncs.ops /\ syncs.ops[n].state # "ended"
    /\ UNCHANGED <<discord, events, cache, account, allReady, gained>>

\* The answers that may come: what Discord says may have changed meanwhile.
Permitted(n) == {syncs.ops[n].asked, MayRead(world, syncs.ops[n].channel)}

\* The next request is sent.
Asking(s, n) == [s EXCEPT !.ops[n].asked = MayRead(world, s.ops[n].channel)]

Answered(n) == InOp(n) /\ syncs.ops[n].state = "running" /\ ~syncs.ops[n].aborted

\* A request or a waiting period is aborted, or the wait of a hung operation.
Stopped(n) ==
    /\ InOp(n) /\ syncs.ops[n].aborted
    /\ syncs' = End(syncs, n)
    /\ UNCHANGED process

\* 403 and 404
Hang(n) ==
    /\ Answered(n) /\ FALSE \in Permitted(n)
    /\ syncs' = [syncs EXCEPT !.ops[n].state = "hung"]
    /\ UNCHANGED process

\* The last page was received, or an error status.
Finish(n) ==
    /\ Answered(n)
    /\ syncs' = End(syncs, n)
    /\ UNCHANGED process

\* A page of messages after which there are more.
MessagesPage(n) ==
    /\ Answered(n) /\ process = "up" /\ TRUE \in Permitted(n)
    /\ syncs.ops[n].kind \in Messages
    /\ syncs' = Asking(syncs, n)
    /\ UNCHANGED process

\* A page of archived threads, the last one or not: each is downloaded with
\* an account that may read the channel.
ThreadsPage(n) ==
    /\ Answered(n) /\ process = "up" /\ TRUE \in Permitted(n)
    /\ syncs.ops[n].kind \in Lists
    /\ LET op == syncs.ops[n]
       IN \E t \in op.rest :
            IF cache[op.channel].read
            THEN LET more == StartMessages([syncs EXCEPT !.ops[n].rest = @ \ {t}],
                                           op.channel, t, 0)
                 IN /\ syncs' = IF op.rest = {t} THEN End(more, n) ELSE Asking(more, n)
                    /\ Len(syncs'.ops) <= MaxOps /\ UNCHANGED process
            ELSE process' = "dead" /\ UNCHANGED syncs

\* disconnectAccount aborts what is in the account's maps; the one account
\* gone, stop() ends the process.
Unauthorized(n) ==
    /\ Answered(n)
    /\ syncs' = End(Abort(syncs, UNION {Registered(syncs, k, c) : k \in Kind, c \in Channel}), n)
    /\ process' = "stopped"

-----------------------------------------------------------------------------
Listener ==
    \/ GuildCreate \/ ChannelCreate \/ ChannelUpdate \/ ChannelDelete \/ RoleCreate
    \/ \E type \in {"GUILD_ROLE_UPDATE", "GUILD_ROLE_DELETE"} : RoleUpdate(type)
    \/ MemberUpdate \/ ThreadListSync

Next ==
    \/ \E c \in Channel, o \in Overwrites : ChangeChannel(c, o)
    \/ \E c \in Channel : DeleteChannel(c)
    \/ \E r \in Role \cup {Everyone}, g \in Grants : ChangeRole(r, g)
    \/ \E r \in Role : DeleteRole(r)
    \/ \E roles \in SUBSET Role : ChangeRolesOfAccount(roles)
    \/ LoseSession
    \/ AllReady \/ Listener
    \/ \E n \in 1..MaxOps :
        \/ Stopped(n) \/ Hang(n) \/ Finish(n) \/ MessagesPage(n) \/ ThreadsPage(n)
        \/ Unauthorized(n)

Spec == Init /\ [][Next]_vars

-----------------------------------------------------------------------------
(* Once all accounts are ready, every channel that the cache says can be   *)
(* read has been downloaded, or is being, since the account last gained    *)
(* the permission: its download was started then and not aborted.          *)
ReadableIsSynced ==
    allReady /\ process = "up" => \A c \in Known : cache[c].read =>
        \E n \in DOMAIN syncs.ops :
            /\ syncs.ops[n].item = c /\ syncs.ops[n].kind = "messages"
            /\ ~syncs.ops[n].aborted /\ syncs.ops[n].gain = gained[c]

(* No operation that has ended is left in the account's maps, where it     *)
(* would keep THREAD_LIST_SYNC from downloading a thread.                  *)
RegisteredIsRunning ==
    \A k \in Kind, c \in Channel : \A n \in Registered(syncs, k, c) :
        syncs.ops[n].state # "ended"

(* A download of a channel or public thread in the account's maps was      *)
(* aborted if the cache says the account lost the permission to read.      *)
RegisteredMayRead ==
    process = "up" => \A c \in Known : \A n \in Registered(syncs, "messages", c) :
        syncs.ops[n].aborted \/ cache[c].read

(* "channel.accountsWithReadPermission is guaranteed to have an account    *)
(* because if it doesn't, this sync would have been aborted" (index.ts).   *)
ReaderGuaranteed ==
    \A n \in DOMAIN syncs.ops :
        syncs.ops[n].kind \in Lists /\ syncs.ops[n].state # "ended" =>
            syncs.ops[n].aborted \/ cache[syncs.ops[n].channel].read
=============================================================================
