# Gamma Archiver in TLA+

TLA+ specifications of [Gamma Archiver](../src/README.md), model-checked with
TLC and in part proved with TLAPS. The specifications are translated from the
TypeScript source. Paths below are relative to the repository's root; in the modules and
in `PROJECT.json` they have its directory, `src/`, in front.

## 1. The system

The archiver connects one or more Discord accounts, records what the gateway
sends, downloads what already exists over the REST API, and keeps all of it in
one SQLite database as snapshots. Everything on the main thread runs on one
event loop; the database is in a worker thread.

```
 Discord gateway ──► GatewayConnection ──► dispatch listener ──┬─► AsyncDatabaseConnection ──► worker ──► SQLite
                                             │ cache, lists of │   (ConcurrencyLimiter)       request handler
                                             ▼ ongoing syncs   │                              (encodings)
 Discord REST ◄──► apiReq ◄── RateLimiter ◄── sync* functions ─┘
```

| Component (source) | State | Operations | What is hard |
|---|---|---|---|
| Snapshot tables (`src/db/request-handler.ts:80-280`, `schema.sql`) | per object: a row of `latest_*`, rows of `previous_*` | `addSnapshot`, `copyLatestSnapshot`, `markAsDeleted`, `syncDeletions`, `encodeTiming` | snapshots in any order of times, equal times, the primary key |
| Object requests (`request-handler.ts:305-414`) | the tables of users, guilds, roles, members, channels, tags | one request type each | loops that fail half way; members that leave and return; lists that lack what is stored |
| Message requests (`request-handler.ts:416-502`) | tables of messages and attachments | complete messages, edits, embed updates, deletions | absent keys; failure between a message and its files |
| Reaction requests (`request-handler.ts:504-572`) | `reactions` | initial reactions, placements, removals | the same reaction from REST and gateway |
| Encodings (`src/db/generic-encoding.ts`) | none | `encodeObject`, `decodeObject` and what they call | packed bytes, nulls, absent keys |
| Message download (`src/archiver/index.ts:160-392`) | `ongoingMessageSyncs`, the page in hand | `syncMessages` | pages versus live events, crashes, aborts, resuming from the last ID |
| Threads (`index.ts:394-487`) | `ongoing*ThreadListSyncs` | `syncAllArchivedThreads` | pages, one `syncMessages` for each thread |
| Permissions and accounts (`archiver/permissions.ts`, `accounts.ts`, `cache.ts`, `index.ts:488-572`) | cached guilds, permissions per account, lists of running syncs | permission updates, starts and aborts of syncs, choice of an account | permissions that come and go during a sync |
| Dispatch listener (`archiver/index.ts:590-1215`) | – | one case per event | events between the pages of a download; several accounts whose events lag behind each other |
| Members (`index.ts:830-905`) | `memberUserIDs`, `ongoingMemberRequests` | `REQUEST_GUILD_MEMBERS`, chunks | members that come and go between chunks, second requests, lost sessions |
| REST client (`src/discord-api/rest.ts`, `util/abort.ts`) | rate limit reset, abort signals | `apiReq` | retries, aborts in any await, promises nobody awaits yet |
| `RateLimiter` (`src/util/rate-limiter.ts`) | time stamps, waiting calls, one timeout | `whenFree`, `#executeFirstPending` | late timers, pruning while others wait |
| Transactions (`src/db/index.ts`, `src/db/worker.ts`) | `#callbackQueue`, the limiter, SQLite's open transaction | `request`, `transaction`, `close` | answers carry no ID; `CLOSE` is not answered; nothing rolls back |
| `ConcurrencyLimiter` (`src/util/concurrency-limiter.ts`) | counter, queue | `runWhenFree`, `onSettled`, abort | calls between a promise's settling and its handler |
| `GatewayConnection` (`src/discord-api/gateway/connection.ts`) | socket, decoder, session, sequence number, timers | HELLO, READY, RESUMED, RECONNECT, INVALID_SESSION, close, heartbeats, `destroy` | lost and dead connections; timers and awaits that race |
| Start and stop (`index.ts:567-590, 1216-1270`) | readiness of the accounts | `connectAccount`, `disconnectAccount`, `stop` | everybody waits for the last account; promises under way |
| Search, logging, progress display, command line | – | – | – |

What makes each of them correct:

* tables: a history that only grows, in time order; requests that fail leave it
  intact; a list from Discord marks what it lacks; a reaction's row is closed
  once and never rewritten;
* encodings: what was stored comes back, and a partial object changes the columns
  it has and no others;
* download: whatever happens, no message is missed for good, and every sync comes to its end
  (or, after a 403 or 404, waits for an abort, as the code says it should);
* choice of downloads: what can be read is downloaded, what no longer can be read is
  aborted, and no ended sync blocks a later one;
* events and members: when all events are handled, the database is what Discord is;
* REST: no page before the reset announced with the last one; an aborted download ends;
* limiters: the limit holds, the order holds, nobody is forgotten;
* transactions: whole or absent; each answer to its own promise; nothing called
  before `close()` is lost;
* gateway: each event once and in order, replayed ones not taken for live, lost
  connections replaced.

## 2. The modules

| Module | Models | Extended or instantiated by |
|---|---|---|
| `SnapshotTable` | the rows of one object, and the helpers of `request-handler.ts` as operators on them; no state | `GuildStore`, `MessageStore`, `MessageSync`, `GuildSync` |
| `SnapshotHistory` | what the archive promises (abstract) | instantiated by `GuildStore` and `MessageStore`, which implement it |
| `GuildStore` | requests about users, guilds, roles, members, channels, forum tags | instantiated by `GuildSync` for what its requests write |
| `MessageStore` | requests about messages and attachments | `ReactionStore` |
| `ReactionStore` | requests about reactions, over the message tables | |
| `Encoding` | conversion of objects to rows and back; no state | |
| `MessageSync` | one channel: Discord, the gateway's events, `syncMessages`, the FIFO to the worker, the message tables, crashes | |
| `GuildSync` | one guild: Discord, several accounts' events, the listener, the member download, the FIFO to the worker, the tables, crashes, lost sessions | |
| `Permissions` | `permissions.ts`; no state | `ChannelSyncs` |
| `ChannelSyncs` | the cached permissions, the events that change them, and the lists of message downloads and thread enumerations | |
| `RateLimiter` | the class and time | `RestClient`, which also implements it |
| `RestClient` | `apiReq`'s loop and an account's requests behind its limiter, for pages and the reactions of a page, with abort signals | |
| `ConcurrencyLimiter` | the class | instantiated by `DatabaseConnection`, which also implements it |
| `DatabaseConnection` | main thread, two ports, worker, SQLite transaction | |
| `GatewayConnection` | the class, the network, the gateway server | |
| `GuildStore_proofs` | the proofs about `SnapshotTable`, `Encoding` and `GuildStore` | `ReactionStore_proofs`; instantiated by `GuildSync_proofs` |
| `ReactionStore_proofs` | the proofs about `MessageStore` and `ReactionStore` | |
| `GuildSync_proofs`, `DatabaseConnection_proofs`, `MessageSync_proofs` | the proofs about the module of that name | |
| `ChannelSyncs_proofs` | the proofs about `Permissions` and `ChannelSyncs` | |
| `DiscordAPI_proofs` | the proofs about `RateLimiter`, `RestClient` and `GatewayConnection` | |
| `ConcurrencyLimiter_proofs` | the proofs about the limiter | instantiated by `DatabaseConnection_proofs` |
| `MC*` | the constants and restrictions of the runs | |

How state and actions correspond to the code:

* **Tables.** A *cell* is what the two tables hold of one object: `latest` is its
  row of `latest_*_snapshots` or `Null`, `previous` its rows of `previous_*`.
  The columns `addSnapshot` compares are one value, `props`. `AddOutcome` is what
  `addSnapshot` returns or throws and `AddSnapshot` what it writes;
  `MarkAsDeleted`, `EncodeTiming` are the functions of those names. An error of the
  primary key of `previous_*` is an outcome of its own (`"SqliteError"`), so that
  a run and a proof can say that it does not happen.
* **Requests.** One action is one request, because the worker handles each to the
  end. Where a request loops over objects and one of them throws, what was done
  before stays; the order of the loop is left open (`HandledIn`).
* **Messages.** The embeds column holds JSON text. It is modelled as what it says
  and how often it was stringified again (`quotes`), because the update path
  writes back the text it read. An update may lack any key (`Absent`);
  `Merge` says what `encodeObject` and `Object.assign` make of that.
* **Reactions.** The table has no primary key, so it is the sequence of its rows;
  `Close` is the `UPDATE` that sets `end` where it is null.
* **Encodings.** A JavaScript value is a record that says what it is, so that
  `undefined`, `null`, 0 and "" stay apart; a column's value is one with its storage
  class. A 64-bit integer is its eight bytes; flags that do not fit are `TooWide`, for
  which the check of the overwrites throws (`Error`). Blobs are sequences
  of bytes, built and taken apart by index arithmetic as with a `DataView`. The schema of an object type,
  a list of columns in the code, is a parameter.
* **Download.** `sync` is one call of `syncMessages`; its `state` says which await
  it is in, `rest` the messages of the page not yet posted, `start` the stored ID
  it resumed after. Every stretch of code between two awaits is one action
  (`ReadLast`, `ReceivePage`, `ReceiveReactions`, `EndPage`). An abort or an error status ends it
  (`StopSync`); after a 403 or 404 it is *hung*, registered and waiting for an abort that need not come
  (`HangSync`, `AbortHungSync`). The transactions it posts go
  into `pending` together with those of the events, which the worker takes in
  order (`Work`). A rejected transaction ends the process (`FatalError`), since
  `archiver/index.ts` rethrows unhandled rejections.
* **Events of a guild.** In `GuildSync` Discord's state is `world`; each session has its own
  queue `events[a]`, so that accounts lag behind each other. The listener awaits nothing, hence one
  action per event, which posts transactions (`pending`); `Work` is one
  transaction. The member download is `asked` and `answering` at Discord and `memberUserIDs`
  and `requesting` here. A throw in the listener or the worker makes the process `"dying"`:
  it goes on until the rejection is reported (`Die`).
* **Choice of downloads.** `ChannelSyncs` gives each call of `syncMessages` or
  `syncAllArchivedThreads` a number. `syncs.ops` holds the calls, `syncs.maps` the maps from the IDs of channels and threads to
  calls (a call keeps the map it found at its start, so a map has
  an identity, the number of the call that made it), `syncs.ongoing` the account's maps. Events carry the
  state they were sent in. Before the guild's `GUILD_CREATE` the cache is empty, and `AllReady` may come first, as when
  the guild is unavailable or joined later. One account is enough: a cached guild only knows the account whose
  `GUILD_CREATE` made it (section 5), so every set of accounts holds that one or nobody. A
  bitfield of permissions is the set of its flags.
* **Rate limiter.** Time is a counter; a timer fires at its time or up to
  `MaxLate` later, as on a busy event loop. Calls of `whenFree` are numbered; the
  loop that drops old time stamps drops the first `k` such that `Prunes(k)`.
* **REST.** `syncs[s].phase` says which await of `apiReq` or of the download around it
  download `s` is in. Headers and body are two awaits: the promise `rateLimitReset` is `made` with
  the headers, and lost if the body cannot be read (`BodyFailed`). The page's is `reset`, awaited after
  the page is stored; that of its reactions is another variable of the code (`index.ts:231` shadows the one of `:207`),
  awaited by the next request about reactions of the same page (`pausing`) and, after the last, by nobody (`lost`).
  A promise that nobody awaits yet (`Loose`) ends the process when an abort rejects it. `until` and `said` are history: the
  resets announced with the last page and by the last answer. `WhenFree` takes no signal, so
  an aborted download ends only where an await listens.
* **Transactions.** A transaction is its BEGIN, the requests of its callback and
  its COMMIT, each one message to the worker; the callback's `state` is that of
  the call in the limiter. `OnSettled` is a step of its own because the
  handler of a settled promise runs in a later microtask.
* **Gateway.** `client` holds the private fields of the class; `connecting` and
  `reconnectTimers` count the awaits and timeouts that will come back to
  it. `down[x]` are the payloads on the way from server to client on socket x.
  A zlib stream belongs to one connection, so `decoder` is the socket whose stream the decoder is in. A payload of another
  socket makes it fail for good (0; `Receive`'s last case), except that a decoder which has decoded nothing yet (`begun`) takes the first
  payload of any socket, as a fresh `inflate` does: when two calls of `#connect` race, that may be the old one's
  (`crossed` is history and says that it happened). `Error` has the two outcomes of
  the archiver's listener: once the account is ready it throws before `#disconnect`; before, it
  rejects a promise, and the process ends after it.

Every module whose name has a counterpart in the code keeps the names used there.
Operators whose comment begins with "Mutant:" are faulty variants of the operator
after them. No specification uses them: replacing the operator by its
variant makes the properties named in `PROJECT.json` fail, which shows that the
properties depend on that piece of code.

## 3. The runs

TLC, 2 workers: `tlc -workers 2 -config MCx_y.cfg MCx`. Each ends within about two minutes.

| Run | Config | Shows | Bounds |
|---|---|---|---|
| `guild` | `MCGuildStore_guild` | `ObjectsOrdered`, `NeverBreaksPrimaryKey`, `ObjectsImplementArchive` | a channel and a role, a forum with two tags, a guild and a user, or two members; the columns of a leave and others; two times that differ in the realtime flag only, and "at creation" |
| `messages` | `MCMessageStore_all` | `AttachmentsStored`, `ImplementsArchive` (the amendable archive), `ReactionHistoryGrows` | one message, two contents, one embed, one file, two edit times; or its reactions: two emojis, two users, three rows |
| `sync` | `MCMessageSync_sync` | `NoGap`, `QuietLastIDSuffices`, `SyncSettles` | four messages, pages of two, every second one with reactions, one that is edited and deleted, one crash, one abort, error or hang |
| `guildsync` | `MCGuildSync_guild` | `CaughtUp`, `MembersCaughtUp` | a channel seen by two accounts, or a guild and a role, with three changes, crashes, outages or lost connections in all; or two members of one user in two chunks with two of these |
| `channels` | `MCChannelSyncs_channels` | `ReadableIsSynced`, `RegisteredIsRunning`, `RegisteredMayRead` | one channel with a public, a private or an active thread, or with roles, one of them created later; three changes, five operations |
| `limiter` | `MCConcurrencyLimiter_two` | `SlotsExact`, `NoIdleSlot`, `FirstComeFirstServed`, `EveryoneServed` | four calls on two slots, two signals |
| `database` | `MCDatabaseConnection_all` | `AnswersInOrder`, `AllOrNothing`, `CloseKeepsEarlier`, `ImplementsLimiter`, `TransactionsCommitted`, `CloseEnds` | two transactions of up to two requests, a single request or a second `close()`, one failing request, death at any time |
| `gateway` | `MCGatewayConnection_all` | `DispatchedInOrder`, `ReplayNotLive`, `Recovers` | three sockets, two sessions of three events, one disturbance and any reconnects |
| `rest` | `MCRestClient_rest` | `RateLimited`, `ResetRespected`, `AllGranted`, `AbortedEnds` | two per three units; four downloads at the limiter with timers up to two late, one download with two failed attempts, or two downloads; four calls, for pages or reactions |
| `lastid`, `recent`, `reader` | `MCMessageSync_lastid`, `MCMessageSync_recent`, `MCChannelSyncs_reader` | see section 5 | the smallest that show it |

The passing runs also check their module's type invariant. What the properties say,
where the name alone does not:

* `NoGap`: while a download runs, no message between the one it resumed after and the newest it
  downloaded is missing, and once it has finished none is missing up to the present: each is stored, deleted, or in what
  is under way.
* `CaughtUp`: when no event and no transaction is under way, and no session of this process was lost,
  the guild, its roles and channels are recorded as Discord has them, and what Discord no longer has is
  marked. `MembersCaughtUp`: the same of members once they were listed, except that one who
  joins during the listing may be recorded as left.
* `ReadableIsSynced`: for each channel the cache says can be read, a download was started
  since that permission was last gained, and not aborted since.
* `SyncSettles`: a download that runs comes to its end, whatever keeps being posted, or hangs after a 403 or 404, unless the
  process dies. A hung one stays registered until something aborts it, and for a deleted thread, say, nothing need ever: that
  every download *ends* is not true of the code.
* `ResetRespected`: no page is requested before the reset announced with the last page, and no
  reactions before the reset announced with the last reactions of the same page,
  whether the timeout fired before the database answered, after, or late. The code keeps no more than that (section 5).
* `AbortedEnds`: an aborted download ends, wherever the abort finds it, the hung one included.
* `DispatchedInOrder`: the listener gets each session's events once and in order, unless `destroy()` was called or a decoder
  began with another socket's stream (section 5).

Why the bounds are enough to be of interest. Requests about unrelated objects touch
different rows, so a behaviour about the few related objects of one *scope*
loses nothing; two times are needed for "more recent" and "not",
two tags or members for a loop that stops in the middle. One message suffices in
`MessageStore` because no request touches two; three rows are a reaction twice and another
one. A download needs two full pages and a page in which a message with reactions stands
before, and one after, one without, hence four messages and pages of two. In `GuildSync` three changes let one account's
old event come after two newer ones of the other, and let a crash or a lost connection fall between
two changes; two chunks let a member join, leave or change before, between and after them. In `ChannelSyncs` three changes lose a
permission, gain it again and lose it once more, and five operations are those of a channel
synced twice, with an enumeration for each, and a thread. Two transactions and a `close()` fill the queue of the
one-slot limiter with each kind behind the other. Three sockets allow a resume
of a resumed session, or two calls of `#connect` that race; the second session is the one after a failed resume.
Four calls of the rate limiter fill the limit twice, with one waiting behind another; more, and longer
delays, are left to the proof.

The scopes of `MC*` modules are chosen in the initial state; they let one run
cover several kinds of behaviours without their product. `MCMessageSync` lets a
behaviour be *quiet* (nobody posts while the archiver
runs), `MCDatabaseConnection` allows a single request or a second `close()` but
not both, and `MCGatewayConnection` calls `destroy()` only where the network
behaves. In `MCGuildSync` the accounts are symmetric; the run checks no liveness.

Deadlock is not checked in the runs in which the system really stops: a process
that died, a closed database, or all that the bounds allow done. `GuildStore` and
`MessageStore` never stop.

### Fairness

Safety needs none. For liveness:

* `MessageSync`: the event loop and the worker go on while there is something
  to do, and Discord answers (with an error too, `StopSync` and `HangSync`). Nobody
  has to post, edit, abort or stop posting: `SyncSettles` holds although messages
  keep coming, up to the bound.
* `RestClient`: time passes, timers fire, promises settle and the database answers. The
  network does not have to answer: an aborted `fetch` rejects without it. In the run all steps of
  this kind come to an end, so that weak fairness of their disjunction is enough.
* `DatabaseConnection`: both event loops go on, and callbacks end, as all
  callbacks of the archiver only make requests. Nobody has to call anything.
* `ConcurrencyLimiter`: each callback's promise settles; this is up to its
  users. With it the queue is emptied.
* `GatewayConnection`: timers fire, awaits end, and what is on its way arrives. The
  server has to do nothing.

`GuildSync` and `ChannelSyncs` state no liveness: that the listener handles what has arrived and that
the worker answers is what `MessageSync` and `DatabaseConnection` show.

## 4. What is proved

For all values of the constants, with the assumptions named in the modules
(`NullAssumption`: `Null` is neither a number nor a row; `ObjectAssumption`: the kinds, parents
and timings are of their types; `MessageAssumption`: the columns of a message, edit times other than 0, and `MaxQuotes` a
number; `ReactionAssumption`: `MaxRows` a number; `LimiterAssumption`: finitely many calls, a limit of at least 1;
`RateAssumption`: the limit at least 1, the other numbers natural, `Never` none of them; `RestAssumption`: the delays
natural numbers; `ConnectionAssumption`: finitely many callers of three kinds, a transaction makes at least one request;
`GatewayAssumption`: a session has at least one event, `Null` is no session; `SyncAssumption`: a page has at least one
message, the other bounds are natural; `GuildSyncAssumption`: roles, channels and members are the guild's, each
member is in a chunk, there is at least one chunk, the columns of a member that left are columns, the bounds are natural, and `Null` is neither
columns nor an account; `FlagAssumption`, `SyncsAssumption`: the flags that the code asks for are flags, there are finitely many channels
and threads, each thread has a channel, @everyone is not among the other roles, `Null` is nothing that is stored, and the bounds are natural). The bounds are constants like the others, so the theorems hold for every bound:

| Module | Theorem | States |
|---|---|---|
| `GuildStore_proofs` | `TimingRoundTrip` | `decodeTiming` undoes `encodeTiming`, except that the time 0 without the realtime flag reads back as null |
| | `SnowflakeArrayRoundTrip`, `OverwritesRoundTrip` | arrays of IDs and lists of overwrites of any length come back from their blobs |
| | `ValueRoundTrip` | a value of each type comes back from its column, but for the digits after the milliseconds of an instant and the name of an emoji with an ID; only what the property says NULL means is stored as NULL |
| | `ObjectRoundTrip` | for any schema, an object comes back from its row, but for absent sub-objects without a required property (section 5) |
| | `PartialUpdates` | the columns of a partial object laid over a row are the row of the whole object with the given properties |
| | `TypeCorrect` | `ObjectSpec => []ObjectsTypeOK` |
| | `OrderedAlways` | `ObjectSpec => []ObjectsOrdered` |
| | `PrimaryKeySafe` | `ObjectSpec => []NeverBreaksPrimaryKey` |
| | `Refinement` | `ObjectSpec => ObjectsImplementArchive`: the tables implement `SnapshotHistory` |
| `ReactionStore_proofs` | `MessageTypeCorrect`, `MessageOrderedAlways` | the same of the message tables |
| | `AttachmentsAlwaysStored` | `Spec => []AttachmentsStored` |
| | `MessageRefinement` | `Spec => ImplementsArchive`: the message tables implement the archive whose newest snapshot may be amended |
| | `ReactionTypeCorrect` | `ReactionSpec => []ReactionsTypeOK` |
| | `ReactionsOnlyGrow` | `ReactionSpec => ReactionHistoryGrows` (an action property) |
| | `ReactionRefinement` | with the requests about reactions in between, the message tables still implement the archive |
| `ConcurrencyLimiter_proofs` | `LimiterTypeCorrect` | `Spec => []LimiterTypeOK` |
| | `SlotsAlwaysExact` | `Spec => []SlotsExact`: the counter is right and the limit holds |
| | `NeverIdle` | `Spec => []NoIdleSlot` |
| | `NeverOvertaken` | `Spec => []FirstComeFirstServed` |
| `DiscordAPI_proofs` | `RestImplementsRateLimiter` | `RestSpec => RateSpec`: what the downloads do to the limiter is its specification |
| | `RateLimitedAlways`, `GrantsAlwaysInOrder` | `RestSpec => []RateLimited`, `RestSpec => []GrantedInOrder` |
| | `RestTypeCorrect` | `RestSpec => []RestTypeOK` |
| | `ResetAlwaysRespected` | `RestSpec => []ResetRespected`, for any delays, failures, reactions and aborts in between |
| | `GatewayTypeCorrect` | `Spec => []TypeOK`, for the inductive invariant `UntilCrossed` (`GatewayInvariant`): `TypeOK`, and `GInv` until a decoder begins with another socket's stream |
| | `EventsAlwaysInOrder` | `Spec => []DispatchedInOrder`: until then no event is emitted twice, none is skipped but by a new session |
| | `ReplaysNeverLive` | `Spec => [](~client.crossed => ReplayNotLive)`: until then an event replayed after a resume is never marked realtime (the run finds no other either) |
| `DatabaseConnection_proofs` | `ConnectionTypeCorrect` | `Spec => []TypeOK` |
| | `ConnectionUsesLimiter` | `Spec => ImplementsLimiter`: what transactions and `close` do to the limiter is its specification, with a limit of one |
| | `AnswersAlwaysInOrder` | `Spec => []AnswersInOrder`: the answers come in the order of the requests, which is what lets `handleResponse` take the first promise |
| | `TransactionsWhole` | `Spec => []AllOrNothing`: what a transaction wrote is committed whole or not at all |
| | `CloseLosesNothing` | `Spec => []CloseKeepsEarlier`: what was called before `close` is done when it ends |
| `GuildSync_proofs` | `GuildSyncTypeCorrect` | `Spec => []TypeOK`, for the inductive invariant `GuildInv` (`GuildSyncInvariant`) |
| | `DatabaseCatchesUp` | `Spec => []CaughtUp`: once the events are handled, the guild, its roles and its channels are recorded as they are |
| | `MembersCatchUp` | `Spec => []MembersCaughtUp`: once the list is made, so are its members |
| `ChannelSyncs_proofs` | `ChannelSyncsTypeCorrect` | `Spec => []TypeOK`, for the inductive invariant `CInv` (`ChannelSyncsInvariant`) |
| | `ReadableChannelsAreSynced` | `Spec => []ReadableIsSynced`: what can be read is downloaded since it can be |
| | `RegisteredOperationsRun` | `Spec => []RegisteredIsRunning`: no ended operation stays in the lists |
| | `RegisteredOperationsMayRead` | `Spec => []RegisteredMayRead`: a listed download without permission is aborted |
| | `MostSpecificDecides` | each flag of a channel's permissions is what the most specific level of overwrites that names it says, or else the guild's |
| `MessageSync_proofs` | `SyncTypeCorrect` | `Spec => []TypeOK`, for the inductive invariant `SInv` (`MessageSyncInvariant`) |
| | `SyncLeavesNoGap` | `Spec => []NoGap`: what a download has passed over is stored, on its way or deleted |
| | `QuietOrderSuffices` | `MCSpec => []QuietLastIDSuffices`: while nobody posts, the last ID is enough to go on from |

The arguments. *Tables.* `GuildStore_proofs` shows of a single cell that `AddSnapshot` and
`MarkAsDeleted` keep it well-formed and `StrictlyOrdered`, that the history grows by
nothing or by the one new snapshot, and that in an ordered cell the primary key of the
previous table is never taken: the row copied there is newer than all in it.
It lifts this to `CellStep` (what one request may do to one
object) and `StoreStep` (every object makes a cell step), shows for each action
that it is a `StoreStep`, and for `StoreStep` that it keeps the inductive
invariant `IInv == ObjectsTypeOK /\ ObjectsOrdered /\ NeverBreaksPrimaryKey` and is a step of
the archive. `ObjectsTypeOK` alone says nothing of the order; `NeverBreaksPrimaryKey` alone is not
inductive, as it takes `ObjectsOrdered` to exclude the error. No induction over data is
needed because `HandledIn` describes a loop by the set of what it handled.

*Messages and reactions.* `MInv == TypeOK /\ HistoryOrdered /\ AttachmentsStored` is inductive. A
request stores the snapshot before the files, so the proof follows the new snapshot's
files through both: what the history named before is still stored, and what the new snapshot
names is inserted by the same request, or the request threw before it wrote. The
refinement has two kinds of step: a request that adds at most one snapshot or
mark (`GrowsIsRecord`), and the embed update, which amends the newest snapshot; that the row
of `latest_*` *is* the newest is what `HistoryOrdered` is needed for (`EmbedsIsAmend`).
`ReInv` adds that the reactions are a sequence of rows; the requests about
reactions leave the message tables alone, so `MInv` and the refinement carry over, and each
of them keeps the existing rows but for the end of open ones.

*Encodings.* Byte `k` of blocks of `size` bytes is byte `(k - 1) % size` of block
`(k - 1) \div size` (`BlockIndex`), so `Unpack` undoes `Pack`. A value's round trip is by
cases over the types, an object's by its columns: the columns of a key have
names of their own, so that what `decodeObject` reads for a key is what `encodeObject` made of it. No induction
is needed, as arrays are functions on their indices.

*Limiters.* None of the three properties of `ConcurrencyLimiter` is inductive. `LInv` adds to them that the
queue holds exactly the calls that wait (`QueueIsQueued`) and that no two calls have the same
turn (`TurnsDistinct`). The cardinality of the set of calls that hold a slot is followed through a
call (one more), a settling with an empty queue (one less) and a slot handed
on (`BusyHandsOn`: the same number). `NoIdleSlot` is what makes a new call that starts right away
come after everyone else: if a slot is free nobody waits.

`RateLimited` speaks of all grants there ever were, but the class remembers few and
drops more while others wait. `RInv` says what it needs to remember (`Remembered`): its time stamps are those of the
last grants, fewer than the limit while somebody waits, and every grant it has forgotten will be an interval old when the
next grant comes, which is now or at the timeout. A call keeps this because it only drops what is old, the
timeout because it is set from the oldest time stamp left, and lateness only helps. `DInv` adds
`ResetPending` for `ResetRespected`: either `rateLimitReset` has resolved and its time is over, or it
resolves at the time announced with the page and the download is between two requests for pages. The same is said of the
reactions of the page, whose promise is `due` while the download is pausing.

*Transactions.* None of the three properties is inductive. `DInv` of `DatabaseConnection_proofs` takes in the limiter's
`LInv`: that proof is instantiated with one slot, every step of the connection being a step of that
limiter or none. One slot means that when an operation has started, those called before it are over (`OneAfterTheOther`).
While the worker takes requests, its port holds only requests that were posted, those of the limiter's operations in
the order they were called (`InboxPosted`, `InboxOrdered`), and they are done in that order (`DoneInOrder`), so that between a
transaction's BEGIN and COMMIT only its own requests and single ones come, and what SQLite holds of a transaction
follows from what was done of it (`DatabaseState`). After the worker's exit nothing is answered any more (`AfterExit`).
What is stored was requested (`StoredWasMade`), so that nothing stays of a transaction without its COMMIT.

*Gateway.* `DispatchedInOrder` depends on what is still on the way. Until a decoder begins with another's stream, which
`crossed` never forgets (`StaysCrossed`), only the newest socket can be decoded (`Sockets` in `GInv`), so an event of an old one never reaches `#onPayload`; on each socket no event follows a payload that asks
the client to identify or resume until it has, and none is of a session or a number yet to come (`Lines`);
and what is on its way to the client continues what was passed on: the same session, or one new to
the client, from the next number on without a hole, up to the last event produced (`InOrder`). `ReplayNotLive` rests on
`ReplaysAwaitedNotLive`: with `#live` set, no replayed event is on the way to the decoder.

*Download.* `NoGap` speaks of the messages between the ID a download began after and the last it has come to. The
hard case is a page that ends at a message already known: the code then stops and takes all above it to be known too. This is
right because a message that the download has not come across but is known came by the gateway, and of what
comes by the gateway nothing above is missing: each later message is stored, in a transaction or an event under way, or deleted
(`FreshLive`, `CreatedLive`, `StartedLive`; `Live(m)` is that statement about everything from `m` on). `SInv` adds what holds
at each await: at most one transaction is awaited (`OneAwaited`), behind it there is only what the gateway brought (`LastAsked`,
`FlushAsked`), what its answer means (`Answers`), what the page in hand holds (`PageInHand`), and that there is no hole below
it (`NoHole`); a dead process has nothing under way (`Dead`). `QuietOrderSuffices` is about a behaviour in which nobody posts while
the archiver runs: `QInv` says that messages get onto the page, into transactions and into the tables from the oldest to the
newest, and is proved on top of `SInv`. That a set of numbers has a least element, which decides what a
page of any size holds, comes from the well-foundedness of the natural numbers (`WFMin`), without an induction over data.

*Guild.* `CaughtUp` and `MembersCaughtUp` only speak of states in which nothing is under way, so the invariant has to say of every state
what is under way and that it suffices. Each session's events end with what is: the last of them about an object tells its present state
(`LinesTell`), because a change at Discord is sent to every session. An account that lags behind can put an old state into
the database after a newer one; it is right in the end because that account's own later event, which tells the present state, is still to come. So
of every object either an event is still to be handled (`Awaited`), or the last transaction that concerns it brings what is, or no transaction
concerns it and the tables have it (`WillHave`). Before the first GUILD_CREATE nothing is written, and each account's line has one
that announces what was, but for what later events are about (`Announced`, `Announces`); its list is complete, so that what it marks is gone,
and an ID that is gone is never used again (`StoreSound`). A request that throws ends the process, which is why what it skipped
need not be brought (`GuildComing` is about a process that is up). Members need more: the first GUILD_CREATE does not
list them all, so one who left while the process was down is still recorded as present, until the list of members is made. `MemberComing`
says that a member who is there is or will be listed, and so is not taken to have left; `LeaveComing` that one who is not there is
either told of by an event, or is not in the list and the list will be finished. Those who join while the list is made may be missing
in it and be marked as left after their arrival was recorded (`newcomers`, section 5).

*Choice of downloads.* `RegisteredIsRunning` needs to know whose maps the account's are. In `SyncsSound` an entry for downloads is the map that a
download of that kind and channel made, and whatever it lists goes on and knows that map; an entry for an enumeration is one that goes on
(`EntrySound`, `Going`). A download that ends takes itself out of its map or removes the channel's entry; if the map was of several, the
entry that stays lists only the others, and if it removes the entry of a newer map, nothing is listed that should not be.
`RegisteredMayRead` and `ReadableIsSynced` are the two halves of `ReadInv`, which speaks of the cache: a channel that
cannot be read has only aborted downloads in the lists, one that can, once all are ready, has one started for the current `gained` and not aborted. Each update of
permissions aborts or starts exactly when the cached set changes. Two things make this inductive: what is done to one channel's operations leaves
the others' alone (`Outside`, `StillSynced`), and a channel enters the cache with nobody's permission only if nothing is listed
for it, since it was never there before (`CreatedOnce`: an ID is created once, and its CHANNEL_CREATE comes before anything else
says it exists; `SyncsInv`: operations are of cached channels).
`updateGuildPermissions`, the start when all are ready and `THREAD_LIST_SYNC` loop over channels or threads, in the model with `FoldSet`. What such a
fold keeps is shown without an induction theorem: `FoldingExists` shows that the recursive function behind the fold exists, and `SetInduction` that a
property of the empty set which carries over from a set to one with an element more holds of every finite set, by the least
cardinality of a counterexample (`LeastNumber`, from `WFMin`).

Only model-checked: liveness (`SyncSettles`, `EveryoneServed`, `TransactionsCommitted`, `CloseEnds`, `Recovers`, `AllGranted`,
`AbortedEnds`) and `ENABLED`, for which the prover has no backend. Every invariant, action property and refinement that a passing
run checks is also the statement of a theorem.

## 5. Where the code differs from what it says

Three disagreements have a run in which TLC finds a counterexample:

* `lastid` (`src/archiver/index.ts:181,222`). "Messages must be added from oldest to
  newest so that the program can detect which messages need to be archived solely
  based on the ID of the last archived message." A message recorded live is above
  messages not downloaded yet. If it is stored before `GET_LAST_MESSAGE_ID` is answered, already
  the first sync of a channel begins after the hole, and nothing ever fills it; no crash is
  needed, though a sync after one that ended early does the same. Without live messages
  the claim holds (`QuietLastIDSuffices`).
* `recent` (`src/db/request-handler.ts:258`). `addSnapshot` asserts that a snapshot that
  differs is more recent. A page requested before an edit and stored after
  it is not: the request throws, no one handles it, the process ends.
* `reader` (`src/archiver/index.ts:455-457`). "channel.accountsWithReadPermission is guaranteed to have
  an account because if it doesn't, this sync would have been aborted." Losing the
  permission aborts downloads of messages, not the enumeration of public archived
  threads, which at its next page calls `syncMessages` without an account.

Others were met while modelling. The models follow the code in each; they have
no run of their own.

In the database:

* An edit or deletion of a message that is in a page not yet stored finds no row
  and is dropped; the page then brings the old version (`After` in `MessageSync`). `README.md:13`: "It records
  all changes to objects".
* `markAsDeleted` overwrites `_deleted` (`request-handler.ts:104`); `schema.sql:10-11` says it
  holds the time of the first snapshot that found the object deleted.
* An edit of a message that is not archived, with an attachment, throws a foreign
  key error (`:491`), whereas `db/types.ts:14` says of PARTIAL_NO_SNAPSHOT that nothing is
  modified and the request is answered.
* `_attachment_ids` is computed from `attachments ?? []` for partial messages too
  (`:421`), so that an edit without that key empties it.
* The embed update writes the stored embeds back, stringified again, instead of the new ones (`:472`), whereas the comment says
  "we add the embeds to the latest snapshot" (`:461-462`). The archive that the tables implement lets the newest snapshot be
  amended at will, so `ImplementsArchive` claims nothing of these embeds.
* The removal of one emoji's reactions runs the statement for all of the message's (`:565`), so that reactions that
  were not removed get an `end`; `schema.sql:385` says of it "NULL if it wasn't". `ReactionHistoryGrows` says that a row that has an end
  keeps it, not that the end is right.
* `ADD_INITIAL_REACTIONS` of a message that has reactions from the gateway adds them again (`:513`), which is
  why `ReactionHistoryGrows` only says of the gateway's rows that they are the only open ones.
* A role without `tags` is read back with a `tags` object: all properties of that sub-object have a null value, so
  `decodeObject` never finds one that makes it absent (`ObjectRoundTrip`).
* `GET_CHANNEL_MESSAGES` decodes messages by the schema of channels (`:629`).

In the listener and the syncs:

* A second account's `GUILD_CREATE` never enters the cached guild's `accountData` (`index.ts:748`), so that this account is
  chosen for nothing and the switch between accounts has nobody to switch to.
* `cache.ts:24` describes accounts that may read and manage threads; the test at `index.ts:521` takes the second
  permission back only from an account that can still read.
* `areMapsEqual` compares a channel's overwrites with themselves (`:983`); each update therefore recomputes.
* A change of a role's permissions does not recompute `guildPermissions`, so channels keep what the roles granted at the
  `GUILD_CREATE`.
* A sync that ends, or is replaced, removes the entry of a newer one of the same channel (`:369`), which then cannot be
  aborted. This is why `RegisteredMayRead` speaks of what the lists hold.
* The threads downloaded once all accounts are ready are those of the first `GUILD_CREATE` (`:1308`), and a `THREAD_LIST_SYNC` that comes before is only
  recorded (`:1007`): the active threads of a channel that becomes readable in between are not downloaded.
* A `THREAD_LIST_SYNC` for a channel nobody can read calls `syncMessages` without an account, which throws; one for a
  channel whose downloads were aborted but have not ended skips their threads (`:1019`).
* `memberUserIDs` is never emptied, and is null after a lost session, when a chunk that still comes ends the process; a member who joins
  while the list is made can be recorded as having left.
* An account without guilds never becomes ready (`:597`), and all others wait for it.
* `rateLimitReset` is rejected without a handler when a download is aborted, or its account gets a 401, between the headers of a response and the
  storage of its page, or at any time before its timeout if nobody is to await it; this ends the process (`AbortedEnds` allows for it).
* The `rateLimitReset` of a page's reactions shadows that of the page (`:231`): the first request about reactions does not wait for the reset
  announced with the page, nor the next page for that announced with the last reactions.
* When the body of a response cannot be read, the request is made again at once (`rest.ts:120`, with an interval of 0), whatever reset its headers
  announced. A body that is not JSON leaves `data` undefined (`rest.ts:99`), on which the download throws, and the process ends.
* A download or enumeration that gets a 403 or 404 waits for an abort (`:212`, `:286`, `:429`), registered and counted as ongoing; if what it
  reads was deleted, nothing need ever abort it ("TODO: Maybe not ideal?").
* Retries do not pass the account's limiter, and `whenFree` takes no signal, so an aborted request first waits for its turn.
* After the first retry the interval is `Math.max(interval + 2_000, 60_000)` (`rest.ts:121`): at least a minute, not at most.

In the gateway connection:

* `#live` is "false if the server is replaying missed events after resuming" (`connection.ts:62`), but
  RESUMED does not set it back (`:300`): all later events of that connection lose their realtime flag.
* After a resume the state never becomes READY, so that `sendPayload` rejects with "The connection isn't
  ready yet" (`:262`) on a connection that serves events.
* "Reconnect if the destroy() method wasn't called" (`:184-190`): neither the timeout nor `#connect` after its
  await looks whether it was called since.
* A connection that goes dead before HELLO is never noticed (`:142`); `Recovers` starts with the heartbeats.
* The messages of a socket that was closed are not ignored (`:144`; the `close` listener does compare sockets). If two calls of `#connect` race,
  a fresh decoder may take the first one's HELLO and then its events, and the client resumes from a sequence number it passes on again: without
  its exception for this, `DispatchedInOrder` is violated with five sockets.

## 6. Not modelled, and the plan

Left out of the modelled parts:

* tables: which columns each object type has; partial members (no caller sends any); webhook users and message
  references; which emojis are custom;
* downloads: the switch between accounts in `syncMessages`, which by the above never
  happens; voice channels; what an enumeration stores of the threads; the options `--guild` and `--no-sync`;
* listener: the events of threads but for `THREAD_LIST_SYNC`; what a `GUILD_CREATE` records of the threads it lists (`ChannelSyncs` takes
  them for the downloads); the owner of the guild; the counters by which the least occupied account is chosen;
* connections: `iteratorRequest`, the worker's start and `SyncDatabaseConnection`; what `sendPayload` sends; the heartbeats
  the server asks for.

Not modelled at all: the queries and the search program (read-only SQL and its
output), logging, the progress display and the command line (nothing reads their
state).

Planned, in this order:

1. Threads: their events, deletion and unarchiving in `ChannelSyncs`, and the threads of a `GUILD_CREATE` in `GuildSync`.
2. The counters of ongoing operations (`index.ts:478, 1137`): that they return to what runs.
3. `iteratorRequest` in `DatabaseConnection`.
4. The schemas of `Encoding`, with the round trip of each object type as a consequence of `ObjectRoundTrip`.
