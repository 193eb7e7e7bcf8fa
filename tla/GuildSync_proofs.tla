-------------------------- MODULE GuildSync_proofs --------------------------
(* GuildSync catches up with Discord: for every set of objects, accounts   *)
(* and chunks, and any changes, crashes and lost connections.              *)
EXTENDS GuildSync, TLAPS

\* What is proved of the tables that the transactions change.
Tables == INSTANCE GuildStore_proofs WITH
    objects <- store, answered <- "none", Timings <- {}

\* The objects that the properties are about; nothing tells of users.
GuildObject == RoleOrChannel \cup {Guild}
Subject == GuildObject \cup Member

-----------------------------------------------------------------------------
(* The tables are those of GuildStore, with what is proved of them. *)
LEMMA TablesConstants == Tables!ObjectAssumption /\ Tables!NullAssumption
  BY GuildSyncAssumption, NullAssumption
     DEF Tables!ObjectAssumption, Tables!Kind, Tables!Timing, Tables!NullAssumption,
         Tables!LatestRow, Tables!Deletion, LatestRow, Deletion

LEMMA SameOutcome ==
    \A cell, snap :
        /\ Tables!AddOutcome(cell, snap) = AddOutcome(cell, snap)
        /\ Tables!AddSnapshot(cell, snap) = AddSnapshot(cell, snap)
  BY DEF Tables!AddOutcome, AddOutcome, Tables!AddSnapshot, AddSnapshot, Tables!Stored,
         Stored, Tables!PrimaryKeyTaken, PrimaryKeyTaken, Tables!SnapshotOf, SnapshotOf

LEMMA SameCells ==
    /\ Tables!Cell = Cell /\ Tables!Snapshot = Snapshot
    /\ \A cell : Tables!StrictlyOrdered(cell) <=> StrictlyOrdered(cell)
    /\ \A cell : Tables!Stored(cell) <=> Stored(cell)
    /\ \A cell, ts : Tables!MarkAsDeleted(cell, ts) = MarkAsDeleted(cell, ts)
  BY DEF Tables!Cell, Cell, Tables!Snapshot, Snapshot, Tables!LatestRow, LatestRow,
         Tables!Deletion, Deletion, Tables!StrictlyOrdered, StrictlyOrdered,
         Tables!Stored, Stored, Tables!MarkAsDeleted, MarkAsDeleted

LEMMA AddOutcomeCases ==
    ASSUME NEW cell \in Cell, NEW snap \in Snapshot, StrictlyOrdered(cell)
    PROVE  \/ AddOutcome(cell, snap) = "ADDED_FIRST_SNAPSHOT" /\ ~Stored(cell)
           \/ AddOutcome(cell, snap) = "SAME_AS_LATEST" /\ Stored(cell)
           \/ AddOutcome(cell, snap) = "RangeError" /\ Stored(cell)
           \/ AddOutcome(cell, snap) = "ADDED_ANOTHER_SNAPSHOT" /\ Stored(cell)
  BY SameCells, SameOutcome, TablesConstants, Tables!AddOutcomeCases

LEMMA AddKeepsOrder ==
    ASSUME NEW cell \in Cell, NEW snap \in Snapshot, StrictlyOrdered(cell)
    PROVE  /\ AddSnapshot(cell, snap) \in Cell
           /\ StrictlyOrdered(AddSnapshot(cell, snap))
           /\ Stored(cell) =>
                /\ Stored(AddSnapshot(cell, snap))
                /\ AddSnapshot(cell, snap).latest.deleted = cell.latest.deleted
           /\ ~Stored(cell) => AddSnapshot(cell, snap).latest.deleted = Null
  BY SameCells, SameOutcome, TablesConstants, Tables!AddKeepsOrder

LEMMA MarkFacts ==
    ASSUME NEW cell \in Cell, NEW ts \in Nat, StrictlyOrdered(cell)
    PROVE  /\ MarkAsDeleted(cell, ts) \in Cell
           /\ StrictlyOrdered(MarkAsDeleted(cell, ts))
           /\ Stored(MarkAsDeleted(cell, ts)) <=> Stored(cell)
           /\ Stored(cell) => MarkAsDeleted(cell, ts).latest.deleted = ts
  BY SameCells, TablesConstants, Tables!MarkFacts

(* The encoding of a timing is a number of the _timestamp columns. *)
LEMMA EncodeTimingType ==
    ASSUME NEW timing \in Timing
    PROVE  EncodeTiming(timing) \in Nat
  BY DEF EncodeTiming, Timing

(* An empty cell is a cell, in order. *)
LEMMA EmptyCellFacts ==
    EmptyCell \in Cell /\ StrictlyOrdered(EmptyCell) /\ ~Stored(EmptyCell)
  BY NullAssumption DEF EmptyCell, Cell, StrictlyOrdered, Stored

-----------------------------------------------------------------------------
(* Events and transactions about an object, and whether they say what is:  *)
(* now is world[o], the object's properties at Discord, or Null.           *)
Gone == {"DELETE", "MEMBER_REMOVE"}
Telling == {"CREATE", "UPDATE", "CHUNK"} \cup Gone

About(e, o) == e.type \in Telling /\ o \in DOMAIN e.list

Tells(e, o, is) ==
    IF is = Null THEN e.type \in Gone ELSE e.type \notin Gone /\ e.list[o] = is

AboutIn(line, o) == \E k \in 1..Len(line) : About(line[k], o)

\* The last event of the line about the object is right.
LastTells(line, o, is) ==
    \A k \in 1..Len(line) :
        About(line[k], o) /\ (\A j \in k + 1..Len(line) : ~About(line[j], o))
        => Tells(line[k], o, is)

\* What a transaction may change: a list of the guild's channels and roles
\* is about all of them, one of its members about those not in it.
Concerns(tx, o) ==
    \/ tx.op = "guild" /\ o \in GuildObject
    \/ tx.op \in {"add", "delete"} /\ o \in DOMAIN tx.list
    \/ tx.op = "members" /\ o \in Member \ DOMAIN tx.list

Brings(tx, o, is) ==
    IF is = Null
    THEN \/ tx.op = "guild" /\ o \notin DOMAIN tx.list
         \/ tx.op \in {"delete", "members"}
         \/ tx.op = "add" /\ o \in Member /\ tx.list[o] = LeftProps
    ELSE tx.op \in {"guild", "add"} /\ o \in DOMAIN tx.list /\ tx.list[o] = is

\* The tables have the object as it is, but for the mark of one that exists.
Has(cell, o, is) ==
    IF is = Null
    THEN Stored(cell) => IF o \in Member THEN cell.latest.props = LeftProps
                         ELSE Mark(cell) # Null
    ELSE Stored(cell) /\ cell.latest.props = is

\* The tables will have it when these transactions are done.
WillHave(cell, txs, o, is) ==
    \/ \E k \in 1..Len(txs) :
        /\ Concerns(txs[k], o) /\ Brings(txs[k], o, is)
        /\ \A j \in k + 1..Len(txs) : ~Concerns(txs[j], o)
    \/ Has(cell, o, is) /\ \A k \in 1..Len(txs) : ~Concerns(txs[k], o)

-----------------------------------------------------------------------------
(* The inductive invariant. *)
EverWas(o) == Exists(o) \/ o \in gone

\* Roles and channels in a list exist or were deleted.
WereAll(list) == \A o \in DOMAIN list \cap RoleOrChannel : EverWas(o)

\* The process is down or has accounts, and only these get events.
Connected ==
    /\ process = "down" => accounts = {} /\ pending = <<>>
    /\ process # "down" => accounts # {}
    /\ \A a \in Account :
        IF a \in accounts THEN link[a] # "none"
        ELSE link[a] = "none" /\ events[a] = <<>>

EventSound(e) ==
    /\ WereAll(e.list)
    /\ e.type = "DELETE" => DOMAIN e.list \subseteq gone
    /\ e.type = "MEMBER_REMOVE" => DOMAIN e.list \subseteq Member
    /\ e.type = "CHUNK" => DOMAIN e.list \cap GuildObject = {}

EventsSound == \A a \in Account : \A k \in 1..Len(events[a]) : EventSound(events[a][k])

\* A list of the guild, its roles and channels; those in the tables that it
\* lacks were deleted.
Complete(list) ==
    /\ DOMAIN list \subseteq GuildObject
    /\ \A o \in RoleOrChannel \ DOMAIN list : Stored(store[o]) => o \in gone

\* A transaction that says what the guild has is the first of the process.
PendingSound ==
    \A k \in 1..Len(pending) :
        /\ WereAll(pending[k].list)
        /\ pending[k].op = "delete" => DOMAIN pending[k].list \subseteq gone
        /\ pending[k].op = "guild" => k = 1 /\ Complete(pending[k].list)

\* What exists is never marked.
StoreSound ==
    /\ \A o \in Object : StrictlyOrdered(store[o])
    /\ Exists(Guild) /\ Mark(store[Guild]) = Null
    /\ \A o \in gone : ~Exists(o)
    /\ \A o \in RoleOrChannel :
        /\ Stored(store[o]) => EverWas(o)
        /\ Mark(store[o]) # Null => o \in gone

\* Every session's events end with what is.
LinesTell == \A a \in Account, o \in Subject : LastTells(events[a], o, world[o])

\* The event that makes the cached guild is the first that says anything, and
\* says how everything was that no later event is about.
Announces(line, k) ==
    /\ line[k].type = "GUILD_CREATE"
    /\ \A j \in 1..k - 1 : line[j].type = "GUILD_DELETE"
    /\ Complete(line[k].list)
    /\ \A o \in GuildObject :
        \/ AboutIn(line, o)
        \/ IF Exists(o) THEN o \in DOMAIN line[k].list /\ line[k].list[o] = world[o]
           ELSE o \notin DOMAIN line[k].list

Announced ==
    process # "down" /\ guildOf = Null =>
        /\ pending = <<>>
        /\ \A a \in accounts : \E k \in 1..Len(events[a]) : Announces(events[a], k)

\* An event about the object will be handled.
Awaited(o) == \E a \in Account : AboutIn(events[a], o)

Coming(o) == Awaited(o) \/ WillHave(store[o], pending, o, world[o])

GuildComing ==
    process = "up" /\ ~lost /\ guildOf # Null => \A o \in GuildObject : Coming(o)

-----------------------------------------------------------------------------
(* Members. *)
\* The member will be in a chunk.
WillBeListed(m) ==
    asked > 0 \/ (answering > 0 /\ \E k \in answering..Len(Chunks) : m \in Chunks[k])

\* The list of members that is made, or the chunks to come, have the member.
InList(m) ==
    \/ m \in memberUserIDs
    \/ \E a \in Account : \E k \in 1..Len(events[a]) :
        events[a][k].type = "CHUNK" /\ m \in DOMAIN events[a][k].list

\* The list will be finished.
ListToCome ==
    \/ asked > 0 \/ answering > 0
    \/ \E a \in Account : \E k \in 1..Len(events[a]) :
        events[a][k].type = "CHUNK" /\ events[a][k].last

\* A member who is there is recorded in the end, and not by mistake as left ...
MemberComing(m) ==
    allReady /\ guildOf # Null /\ m \notin newcomers =>
        WillBeListed(m) \/ (Coming(m) /\ (InList(m) \/ ~BeingListed))

\* ... and one who is not there as left, by a later event or because of the list.
LeaveComing(m) ==
    \/ Coming(m)
    \/ /\ ~Awaited(m)
       /\ guildOf # Null => m \notin memberUserIDs /\ (allReady => ListToCome)

MembersComing ==
    process = "up" /\ ~lost => \A m \in Member :
        IF Exists(m) THEN MemberComing(m) ELSE LeaveComing(m)

GuildInv ==
    /\ TypeOK /\ Connected /\ EventsSound /\ PendingSound /\ StoreSound
    /\ LinesTell /\ Announced /\ GuildComing /\ MembersComing

-----------------------------------------------------------------------------
(* Lines of events.                                                        *)
(* The line without its first event. *)
LEMMA TailLine ==
    ASSUME NEW line \in Seq(EventOf), line # <<>>, NEW o, NEW is
    PROVE  /\ Head(line) \in EventOf /\ Tail(line) \in Seq(EventOf)
           /\ AboutIn(line, o) <=> About(Head(line), o) \/ AboutIn(Tail(line), o)
           /\ LastTells(line, o, is) =>
                /\ LastTells(Tail(line), o, is)
                /\ About(Head(line), o) => Tells(Head(line), o, is) \/ AboutIn(Tail(line), o)
<1> DEFINE rest == Tail(line)
<1>1. /\ Len(line) \in Nat \ {0} /\ Len(rest) = Len(line) - 1 /\ rest \in Seq(EventOf)
      /\ Head(line) = line[1] /\ \A k \in 1..Len(rest) : rest[k] = line[k + 1]
      /\ Head(line) \in EventOf
  OBVIOUS
<1> HIDE DEF rest
<1>2. AboutIn(line, o) <=> About(line[1], o) \/ AboutIn(rest, o)
  <2>1. \A k \in 1..Len(line) : k = 1 \/ (k - 1 \in 1..Len(rest) /\ rest[k - 1] = line[k])
    BY <1>1
  <2>2. \A k \in 1..Len(rest) : k + 1 \in 1..Len(line)
    BY <1>1
  <2>3. 1 \in 1..Len(line)
    BY <1>1
  <2> QED
    BY <1>1, <2>1, <2>2, <2>3 DEF AboutIn
<1>3. ASSUME LastTells(line, o, is)
      PROVE  LastTells(rest, o, is)
  <2> SUFFICES ASSUME NEW k \in 1..Len(rest), About(rest[k], o),
                      \A j \in k + 1..Len(rest) : ~About(rest[j], o)
               PROVE  Tells(rest[k], o, is)
    BY DEF LastTells
  <2>1. k + 1 \in 1..Len(line) /\ rest[k] = line[k + 1]
    BY <1>1
  <2>2. ASSUME NEW j \in k + 2..Len(line) PROVE ~About(line[j], o)
    <3>1. j - 1 \in k + 1..Len(rest) /\ j - 1 \in 1..Len(rest) /\ rest[j - 1] = line[j]
      BY <1>1
    <3> QED
      BY <3>1
  <2>3. k + 1 + 1 = k + 2
    OBVIOUS
  <2> QED
    BY <1>3, <2>1, <2>2, <2>3 DEF LastTells
<1>4. ASSUME LastTells(line, o, is), About(line[1], o), ~AboutIn(rest, o)
      PROVE  Tells(line[1], o, is)
  <2>1. ASSUME NEW j \in 1 + 1..Len(line) PROVE ~About(line[j], o)
    <3>1. j - 1 \in 1..Len(rest) /\ rest[j - 1] = line[j]
      BY <1>1
    <3> QED
      BY <1>4, <3>1 DEF AboutIn
  <2>2. 1 \in 1..Len(line)
    BY <1>1
  <2> QED
    BY <1>4, <2>1, <2>2 DEF LastTells
<1> QED
  BY <1>1, <1>2, <1>3, <1>4 DEF rest

(* The line with one more event. *)
LEMMA AppendLine ==
    ASSUME NEW line \in Seq(EventOf), NEW e \in EventOf, NEW o, NEW is
    PROVE  /\ line \o <<e>> = Append(line, e)
           /\ AboutIn(Append(line, e), o) <=> AboutIn(line, o) \/ About(e, o)
           /\ About(e, o) /\ Tells(e, o, is) => LastTells(Append(line, e), o, is)
           /\ ~About(e, o) /\ LastTells(line, o, is) => LastTells(Append(line, e), o, is)
<1> DEFINE more == Append(line, e)
           n == Len(line)
<1>1. /\ n \in Nat /\ Len(more) = n + 1 /\ more[n + 1] = e
      /\ \A k \in 1..n : more[k] = line[k]
  OBVIOUS
<1>2. line \o <<e>> = more
  OBVIOUS
<1> HIDE DEF more
<1>3. 1..n + 1 = 1..n \cup {n + 1}
  BY <1>1
<1>4. AboutIn(more, o) <=> AboutIn(line, o) \/ About(e, o)
  BY <1>1, <1>3 DEF AboutIn
<1>5. ASSUME NEW k \in 1..n + 1, \A j \in k + 1..n + 1 : ~About(more[j], o)
      PROVE  k = n + 1 \/ (~About(e, o) /\ k \in 1..n /\ \A j \in k + 1..n : ~About(line[j], o))
  <2>1. CASE k # n + 1
    <3>1. k \in 1..n /\ n + 1 \in k + 1..n + 1
      BY <1>1, <2>1
    <3>2. ~About(e, o)
      BY <1>1, <1>5, <3>1
    <3>3. \A j \in k + 1..n : j \in k + 1..n + 1 /\ j \in 1..n
      BY <1>1
    <3> QED
      BY <1>1, <1>5, <3>1, <3>2, <3>3
  <2> QED
    BY <2>1
<1>6. About(e, o) /\ Tells(e, o, is) => LastTells(more, o, is)
  BY <1>1, <1>5 DEF LastTells
<1>7. ~About(e, o) /\ LastTells(line, o, is) => LastTells(more, o, is)
  BY <1>1, <1>5, <1>3 DEF LastTells
<1> QED
  BY <1>2, <1>4, <1>6, <1>7 DEF more

(* An empty line is about nothing. *)
LEMMA EmptyLine == \A o, is : ~AboutIn(<<>>, o) /\ LastTells(<<>>, o, is)
  BY DEF AboutIn, LastTells

-----------------------------------------------------------------------------
(* Pending transactions.                                                   *)
(* One more transaction. *)
LEMMA AppendTx ==
    ASSUME NEW txs \in Seq(Transaction), NEW tx \in Transaction, NEW cell, NEW o, NEW is
    PROVE  /\ Concerns(tx, o) /\ Brings(tx, o, is) => WillHave(cell, Append(txs, tx), o, is)
           /\ ~Concerns(tx, o) /\ WillHave(cell, txs, o, is)
              => WillHave(cell, Append(txs, tx), o, is)
<1> DEFINE more == Append(txs, tx)
           n == Len(txs)
<1>1. /\ n \in Nat /\ Len(more) = n + 1 /\ more[n + 1] = tx
      /\ \A k \in 1..n : more[k] = txs[k]
  OBVIOUS
<1> HIDE DEF more
<1>2. 1..n + 1 = 1..n \cup {n + 1} /\ n + 1 + 1..n + 1 = {}
  BY <1>1
<1>3. ASSUME Concerns(tx, o), Brings(tx, o, is)
      PROVE  WillHave(cell, more, o, is)
  <2>1. n + 1 \in 1..Len(more) /\ \A j \in n + 1 + 1..Len(more) : ~Concerns(more[j], o)
    BY <1>1, <1>2
  <2> QED
    BY <1>1, <1>3, <2>1 DEF WillHave
<1>4. ASSUME ~Concerns(tx, o), WillHave(cell, txs, o, is)
      PROVE  WillHave(cell, more, o, is)
  <2>1. CASE Has(cell, o, is) /\ \A k \in 1..n : ~Concerns(txs[k], o)
    BY <1>1, <1>2, <1>4, <2>1 DEF WillHave
  <2>2. ASSUME NEW k \in 1..n, Concerns(txs[k], o), Brings(txs[k], o, is),
               \A j \in k + 1..n : ~Concerns(txs[j], o)
        PROVE  WillHave(cell, more, o, is)
    <3>1. \A j \in k + 1..n + 1 : j = n + 1 \/ (j \in k + 1..n /\ j \in 1..n)
      BY <1>1
    <3>2. \A j \in k + 1..n + 1 : ~Concerns(more[j], o)
      BY <1>1, <1>4, <2>2, <3>1
    <3>3. k \in 1..n + 1
      BY <1>1
    <3> QED
      BY <1>1, <2>2, <3>2, <3>3 DEF WillHave
  <2> QED
    BY <1>4, <2>1, <2>2 DEF WillHave
<1> QED
  BY <1>3, <1>4 DEF more

(* The first transaction is done. *)
LEMMA TailTx ==
    ASSUME NEW txs \in Seq(Transaction), txs # <<>>, NEW cell, NEW new, NEW o, NEW is,
           WillHave(cell, txs, o, is),
           ~Concerns(Head(txs), o) => new = cell,
           Concerns(Head(txs), o) /\ Brings(Head(txs), o, is) => Has(new, o, is)
    PROVE  WillHave(new, Tail(txs), o, is)
<1> DEFINE rest == Tail(txs)
           n == Len(rest)
<1>1. /\ n \in Nat /\ Len(txs) = n + 1 /\ Head(txs) = txs[1]
      /\ \A k \in 1..n : rest[k] = txs[k + 1]
  OBVIOUS
<1> HIDE DEF rest
<1>2. \A k \in 1..n : k + 1 \in 1..n + 1
  BY <1>1
<1>3. CASE Has(cell, o, is) /\ \A k \in 1..Len(txs) : ~Concerns(txs[k], o)
  <2>1. 1 \in 1..Len(txs)
    BY <1>1
  <2> QED
    BY <1>1, <1>2, <1>3, <2>1 DEF WillHave
<1>4. ASSUME NEW k \in 1..Len(txs), Concerns(txs[k], o), Brings(txs[k], o, is),
             \A j \in k + 1..Len(txs) : ~Concerns(txs[j], o)
      PROVE  WillHave(new, rest, o, is)
  <2>1. CASE k = 1
    <3>1. \A j \in 1..n : j + 1 \in k + 1..Len(txs)
      BY <1>1, <2>1
    <3>2. \A j \in 1..n : ~Concerns(rest[j], o)
      BY <1>1, <1>4, <3>1
    <3> QED
      BY <1>1, <1>4, <2>1, <3>2 DEF WillHave
  <2>2. CASE k # 1
    <3>1. k - 1 \in 1..n /\ rest[k - 1] = txs[k]
      BY <1>1, <2>2
    <3>2. \A j \in k - 1 + 1..n : j \in 1..n /\ j + 1 \in k + 1..Len(txs)
      BY <1>1, <2>2
    <3>3. \A j \in k - 1 + 1..n : ~Concerns(rest[j], o)
      BY <1>1, <1>4, <3>2
    <3> QED
      BY <1>4, <3>1, <3>3 DEF WillHave
  <2> QED
    BY <2>1, <2>2
<1> QED
  BY <1>3, <1>4 DEF WillHave, rest

-----------------------------------------------------------------------------
(* Types.                                                                  *)
LEMMA ListOf ==
    ASSUME NEW objects \in SUBSET Object, NEW list \in [objects -> Props]
    PROVE  list \in List
  BY DEF List

(* A list is a function from objects to columns. *)
LEMMA ListParts ==
    ASSUME NEW list \in List
    PROVE  /\ DOMAIN list \subseteq Object
           /\ \A o \in DOMAIN list : list[o] \in Props
           /\ list \in [DOMAIN list -> Props]
<1>1. PICK objects \in SUBSET Object : list \in [objects -> Props]
  BY DEF List
<1> QED
  BY <1>1

LEMMA ConstantFacts ==
    /\ Guild \in Object /\ KindOf[Guild] = "guild" /\ Member \subseteq Object
    /\ RoleOrChannel \subseteq Object /\ Subject \subseteq Object
    /\ RoleOrChannel \cap Member = {} /\ Guild \notin RoleOrChannel \cup Member
    /\ \A m \in Member : UserOf[m] \in Object \ Subject
    /\ LeftProps \in Props /\ Null \notin Props /\ Null \notin Account /\ Null \notin Nat
    /\ Len(Chunks) \in Nat \ {0} /\ \A k \in 1..Len(Chunks) : Chunks[k] \subseteq Member
    /\ \A m \in Member : \E k \in 1..Len(Chunks) : m \in Chunks[k]
    /\ \A o \in GuildObject : o \in Subject /\ o \notin Member
<1>1. /\ Member \subseteq Object /\ RoleOrChannel \subseteq Object
      /\ \A o \in Member : KindOf[o] = "member"
      /\ \A o \in RoleOrChannel : KindOf[o] \in {"role", "channel"}
  BY DEF Member, RoleOrChannel
<1>2. \A m \in Member : UserOf[m] \in Object /\ KindOf[UserOf[m]] = "user"
  BY GuildSyncAssumption
<1>3. /\ Len(Chunks) \in Nat \ {0} /\ DOMAIN Chunks = 1..Len(Chunks)
      /\ \A k \in 1..Len(Chunks) : Chunks[k] \subseteq Member
  BY GuildSyncAssumption
<1> QED
  BY <1>1, <1>2, <1>3, GuildSyncAssumption, NullAssumption DEF Subject, GuildObject

LEMMA EventTypes ==
    ASSUME TypeOK
    PROVE  /\ GuildCreated \in EventOf
           /\ \A last \in BOOLEAN : Event("GUILD_DELETE", None, last) \in EventOf
           /\ \A o \in Object, props \in Props, type \in EventType, last \in BOOLEAN :
                Event(type, One(o, props), last) \in EventOf
           /\ \A objects \in SUBSET Object :
                /\ Existing(objects) \in List
                /\ DOMAIN Existing(objects) = {o \in objects : Exists(o)}
                /\ \A o \in DOMAIN Existing(objects) : Existing(objects)[o] = world[o]
<1>0. world \in [Object -> (Props \ {LeftProps}) \cup {Null}]
  BY DEF TypeOK
<1>1. ASSUME NEW objects \in SUBSET Object
      PROVE  /\ Existing(objects) \in List
             /\ DOMAIN Existing(objects) = {o \in objects : Exists(o)}
             /\ \A o \in DOMAIN Existing(objects) : Existing(objects)[o] = world[o]
  <2> DEFINE S == {o \in objects : Exists(o)}
  <2>1. Existing(objects) = [o \in S |-> world[o]] /\ S \in SUBSET Object
    BY DEF Existing
  <2>2. \A o \in S : world[o] \in Props
    BY <1>0 DEF Exists
  <2>3. Existing(objects) \in [S -> Props]
    BY <2>1, <2>2
  <2> HIDE DEF S
  <2>4. Existing(objects) \in List
    BY <2>1, <2>3, ListOf
  <2> QED
    BY <2>1, <2>4 DEF S
<1>2. GuildCreated \in EventOf
  <2>1. RoleOrChannel \cup {Guild} \in SUBSET Object
    BY ConstantFacts
  <2>2. Existing(RoleOrChannel \cup {Guild}) \in List
    BY <1>1, <2>1
  <2> QED
    BY <2>2 DEF GuildCreated, Event, EventOf, EventType
<1>3. None \in List
  <2>1. None \in [{} -> Props] /\ {} \in SUBSET Object
    BY DEF None
  <2> QED
    BY <2>1, ListOf
<1>4. ASSUME NEW o \in Object, NEW props \in Props
      PROVE  One(o, props) \in List
  <2>1. One(o, props) \in [{o} -> Props] /\ {o} \in SUBSET Object
    BY DEF One
  <2> QED
    BY <2>1, ListOf
<1> QED
  BY <1>1, <1>2, <1>3, <1>4 DEF Event, EventOf, EventType

(* Emit appends to the lines of sessions and leaves the others empty. *)
LEMMA EmitType ==
    ASSUME TypeOK, NEW new \in Seq(EventOf), Emit(new)
    PROVE  events' \in [Account -> Seq(EventOf)]
<1>1. \A a \in Account : events[a] \in Seq(EventOf)
  BY DEF TypeOK
<1>2. \A a \in Account : events[a] \o new \in Seq(EventOf)
  BY <1>1
<1> QED
  BY <1>2 DEF Emit

(* What is taken from a line and what is posted for it. *)
LEMMA TakeType ==
    ASSUME TypeOK, NEW a \in Account, NEW type, Take(a, type)
    PROVE  /\ Head(events[a]) \in EventOf /\ events[a] # <<>>
           /\ Head(events[a]).type = type
           /\ events' \in [Account -> Seq(EventOf)]
           /\ events' = [events EXCEPT ![a] = Tail(events[a])]
<1>1. events[a] \in Seq(EventOf) /\ events[a] # <<>>
  BY DEF TypeOK, Take
<1>2. Head(events[a]) \in EventOf /\ Tail(events[a]) \in Seq(EventOf)
  BY <1>1
<1> QED
  BY <1>1, <1>2 DEF TypeOK, Take

LEMMA TxType ==
    ASSUME NEW list \in List, NEW op \in TxOp, NEW timing \in Timing
    PROVE  Tx(op, list, timing) \in Transaction
  BY DEF Tx, Transaction

LEMMA AtType ==
    ASSUME TypeOK, NEW realtime \in BOOLEAN
    PROVE  At(realtime) \in Timing /\ Null \in Timing
  BY DEF TypeOK, At, Timing

(* The list of the leaves of members. *)
LEMMA MapToList ==
    ASSUME NEW objects \in SUBSET Object
    PROVE  [o \in objects |-> LeftProps] \in List
<1>1. [o \in objects |-> LeftProps] \in [objects -> Props]
  BY ConstantFacts
<1> QED
  BY <1>1, ListOf

LEMMA SnapType ==
    ASSUME NEW props \in Props, NEW timing \in Timing
    PROVE  Snap(props, timing) \in Snapshot
  BY EncodeTimingType DEF Snap, Snapshot

(* The requests are about the same tables. *)
LEMMA SameTables ==
    \A cell, ts :
        /\ Requests!Stored(cell) <=> Stored(cell)
        /\ Requests!Mark(cell) = Mark(cell)
        /\ Requests!MarkAsDeleted(cell, ts) = MarkAsDeleted(cell, ts)
        /\ Requests!EncodeTiming(ts) = EncodeTiming(ts)
  BY DEF Requests!Stored, Stored, Requests!Mark, Mark, Requests!MarkAsDeleted,
         MarkAsDeleted, Requests!EncodeTiming, EncodeTiming

(* Roles and channels that are not in the list are marked, once. *)
LEMMA SyncedCell ==
    ASSUME NEW tx \in Transaction, store \in [Object -> Cell], NEW o \in Object
    PROVE  Synced(tx)[o] =
            IF o \in RoleOrChannel \ DOMAIN tx.list /\ Stored(store[o]) /\ Mark(store[o]) = Null
            THEN MarkAsDeleted(store[o], EncodeTiming(tx.timing)) ELSE store[o]
<1> DEFINE ids == DOMAIN tx.list
           once == Requests!AfterSyncing(store, Guild, "channel", ids, tx.timing)
           Missing(s, kind) == /\ KindOf[o] = kind /\ o \notin ids
                               /\ Stored(s[o]) /\ Mark(s[o]) = Null
<1>1. o \in RoleOrChannel => Parent[o] = Guild
  BY GuildSyncAssumption
<1>2. o \in RoleOrChannel <=> KindOf[o] = "role" \/ KindOf[o] = "channel"
  BY DEF RoleOrChannel
<1>3. once[o] = IF Missing(store, "channel") THEN MarkAsDeleted(store[o], EncodeTiming(tx.timing))
                ELSE store[o]
  BY <1>1, <1>2, SameTables DEF Requests!AfterSyncing, Requests!ChildrenOf, Requests!Of
<1>4. Synced(tx)[o] = IF Missing(once, "role") THEN MarkAsDeleted(once[o], EncodeTiming(tx.timing))
                      ELSE once[o]
  BY <1>1, <1>2, SameTables DEF Synced, Requests!AfterSyncing, Requests!ChildrenOf, Requests!Of
<1> HIDE DEF once
<1>5. CASE KindOf[o] = "channel"
  BY <1>2, <1>3, <1>4, <1>5
<1>6. CASE KindOf[o] # "channel"
  <2>1. once[o] = store[o]
    BY <1>3, <1>6
  <2> QED
    BY <1>2, <1>4, <1>6, <2>1
<1> QED
  BY <1>5, <1>6

(* SYNC_GUILD_MEMBERS records a leave of those recorded that it does not list. *)
LEMMA LeavesFacts ==
    ASSUME NEW tx \in Transaction, TypeOK
    PROVE  /\ DOMAIN Leaves(tx) =
                {m \in Member \ DOMAIN tx.list : Stored(store[m]) /\ store[m].latest.props # LeftProps}
           /\ \A m \in DOMAIN Leaves(tx) : Leaves(tx)[m] = LeftProps
<1>1. Requests!Of("member") = Member
  BY DEF Requests!Of, Member
<1>2. Requests!ChildrenOf(Guild, "member") = Member
  BY <1>1, GuildSyncAssumption DEF Requests!ChildrenOf
<1> QED
  BY <1>2, SameTables DEF Leaves, Requests!Leaving, Requests!NotLeft

\* What a transaction does to the cell of an object.
Adds(o, props, timing, new) == new = AddSnapshot(store[o], Snap(props, timing))
Marks(o, timing, new) == new = MarkAsDeleted(store[o], EncodeTiming(timing))

(* "add" stores what it lists. *)
LEMMA AfterAdd ==
    ASSUME NEW tx \in Transaction, tx.op = "add", NEW new \in After(tx), NEW o \in Object
    PROVE  IF o \in DOMAIN tx.list THEN Adds(o, tx.list[o], tx.timing, new[o])
           ELSE new[o] = store[o]
<1>1. After(tx) = {AddAll(store, tx.list, tx.timing)}
  BY DEF After
<1> QED
  BY <1>1 DEF AddAll, Adds

(* "guild" stores what it lists and marks the other roles and channels. *)
LEMMA AfterGuild ==
    ASSUME TypeOK, NEW tx \in Transaction, tx.op = "guild", NEW new \in After(tx),
           NEW o \in Object
    PROVE  /\ o \in DOMAIN tx.list => Adds(o, tx.list[o], tx.timing, new[o])
           /\ o \notin DOMAIN tx.list =>
                IF o \in RoleOrChannel /\ Stored(store[o]) /\ Mark(store[o]) = Null
                THEN Marks(o, tx.timing, new[o]) ELSE new[o] = store[o]
<1>1. After(tx) = {AddAll(Synced(tx), tx.list, tx.timing)}
  BY DEF After
<1>2. store \in [Object -> Cell]
  BY DEF TypeOK
<1>3. new[o] = IF o \in DOMAIN tx.list
               THEN AddSnapshot(Synced(tx)[o], Snap(tx.list[o], tx.timing)) ELSE Synced(tx)[o]
  BY <1>1 DEF AddAll
<1> QED
  BY <1>2, <1>3, SyncedCell DEF Adds, Marks

(* "delete" marks what it lists. *)
LEMMA AfterDelete ==
    ASSUME NEW tx \in Transaction, tx.op = "delete", NEW new \in After(tx), NEW o \in Object
    PROVE  IF o \in DOMAIN tx.list THEN Marks(o, tx.timing, new[o]) ELSE new[o] = store[o]
<1>1. After(tx) = {[x \in Object |-> IF x \in DOMAIN tx.list
                                     THEN MarkAsDeleted(store[x], EncodeTiming(tx.timing))
                                     ELSE store[x]]}
  BY DEF After
<1> QED
  BY <1>1 DEF Marks

(* "members" records leaves of members that it does not list, all of them if *)
(* none throws.                                                              *)
LEMMA AfterMembers ==
    ASSUME TypeOK, NEW tx \in Transaction, tx.op = "members", NEW new \in After(tx),
           NEW o \in Object
    PROVE  /\ new[o] = store[o] \/ (o \in DOMAIN Leaves(tx) /\ Adds(o, LeftProps, tx.timing, new[o]))
           /\ o \in DOMAIN Leaves(tx) /\ ~Fails(tx) => Adds(o, LeftProps, tx.timing, new[o])
<1> DEFINE all == DOMAIN Leaves(tx)
           throwing == ThrowingIn(Leaves(tx), tx.timing)
           Done == IF throwing = {} THEN {all} ELSE SUBSET (all \ throwing)
<1>1. After(tx) = {AddAll(store, Only(Leaves(tx), done), tx.timing) : done \in Done}
  BY DEF After
<1>2. PICK done \in Done : new = AddAll(store, Only(Leaves(tx), done), tx.timing)
  BY <1>1
<1>3. done \subseteq all
  BY <1>2
<1>4. /\ DOMAIN Only(Leaves(tx), done) = done
      /\ \A m \in done : Only(Leaves(tx), done)[m] = LeftProps
  BY <1>3, LeavesFacts DEF Only
<1>5. new[o] = IF o \in done THEN AddSnapshot(store[o], Snap(LeftProps, tx.timing)) ELSE store[o]
  BY <1>2, <1>4 DEF AddAll
<1>6. ~Fails(tx) => done = all
  BY <1>2 DEF Fails
<1> QED
  BY <1>3, <1>5, <1>6 DEF Adds

(* A transaction leaves a cell as it was, adds a snapshot to it or marks it. *)
LEMMA AfterCell ==
    ASSUME TypeOK, NEW tx \in Transaction, NEW new \in After(tx), NEW o \in Object
    PROVE  \/ new[o] = store[o]
           \/ \E props \in Props : Adds(o, props, tx.timing, new[o])
           \/ Marks(o, tx.timing, new[o])
<1>1. tx.list \in List /\ tx.op \in TxOp
  BY DEF Transaction
<1>2. \A x \in DOMAIN tx.list : tx.list[x] \in Props
  BY <1>1, ListParts
<1>3. CASE tx.op = "add"
  BY <1>2, <1>3, AfterAdd
<1>4. CASE tx.op = "guild"
  BY <1>2, <1>4, AfterGuild
<1>5. CASE tx.op = "delete"
  BY <1>5, AfterDelete
<1>6. CASE tx.op = "members"
  BY <1>6, AfterMembers, ConstantFacts
<1> QED
  BY <1>1, <1>3, <1>4, <1>5, <1>6 DEF TxOp

(* The tables stay well-formed and in order. *)
LEMMA AfterType ==
    ASSUME TypeOK, \A o \in Object : StrictlyOrdered(store[o]),
           NEW tx \in Transaction, NEW new \in After(tx)
    PROVE  new \in [Object -> Cell] /\ \A o \in Object : StrictlyOrdered(new[o])
<1>1. ASSUME NEW o \in Object
      PROVE  new[o] \in Cell /\ StrictlyOrdered(new[o])
  <2>1. store[o] \in Cell /\ StrictlyOrdered(store[o]) /\ tx.timing \in Timing
    BY DEF TypeOK, Transaction
  <2>2. \A props \in Props : Snap(props, tx.timing) \in Snapshot
    BY <2>1, SnapType
  <2>3. EncodeTiming(tx.timing) \in Nat
    BY <2>1, EncodeTimingType
  <2> QED
    BY <2>1, <2>2, <2>3, AfterCell, AddKeepsOrder, MarkFacts DEF Adds, Marks
<1>2. \E f : new = [o \in Object |-> f[o]]
  <2>1. CASE tx.op = "add"
    <3>1. new = AddAll(store, tx.list, tx.timing)
      BY <2>1 DEF After
    <3> QED
      BY <3>1 DEF AddAll
  <2>2. CASE tx.op = "guild"
    <3>1. new = AddAll(Synced(tx), tx.list, tx.timing)
      BY <2>2 DEF After
    <3> QED
      BY <3>1 DEF AddAll
  <2>3. CASE tx.op = "delete"
    BY <2>3 DEF After
  <2>4. CASE tx.op = "members"
    <3>1. \E done : new = AddAll(store, Only(Leaves(tx), done), tx.timing)
      BY <2>4 DEF After
    <3> QED
      BY <3>1 DEF AddAll
  <2> QED
    BY <2>1, <2>2, <2>3, <2>4 DEF Transaction, TxOp
<1> QED
  BY <1>1, <1>2

\* The parts of TypeOK that only concern numbers and sets of names.
Ordered == \A o \in Object : StrictlyOrdered(store[o])

LEMMA TxsType ==
    ASSUME NEW txs \in Seq(Transaction), NEW tx \in Transaction, NEW tx2 \in Transaction
    PROVE  /\ Append(txs, tx) \in Seq(Transaction)
           /\ txs \o <<tx>> = Append(txs, tx)
           /\ txs \o <<tx, tx2>> = Append(Append(txs, tx), tx2)
  OBVIOUS

(* An event that was taken makes one transaction. *)
LEMMA RecordType ==
    ASSUME TypeOK, NEW a \in Account, NEW type, NEW op \in TxOp, NEW timing \in Timing,
           Record(a, type, op, timing)
    PROVE  TypeOK'
<1>1. Take(a, type) /\ events' \in [Account -> Seq(EventOf)] /\ Head(events[a]) \in EventOf
  BY TakeType DEF Record
<1>2. Tx(op, Head(events[a]).list, timing) \in Transaction
  BY <1>1, TxType DEF EventOf
<1>3. pending' \in Seq(Transaction)
  BY <1>2 DEF Record, TypeOK
<1> QED
  BY <1>1, <1>3 DEF TypeOK, Record, Take, DoNotSyncMembers, discord

(* Types of what the listing of the members changes. *)
LEMMA SyncType ==
    ASSUME TypeOK, NEW a \in accounts, SyncAllGuildMembers(a)
    PROVE  /\ requesting' \subseteq accounts /\ newcomers' \subseteq Member /\ asked' \in Nat
           /\ process' \in {"down", "up", "dying"}
  BY DEF TypeOK, SyncAllGuildMembers

LEMMA DispatchType ==
    ASSUME TypeOK, Connected, NEW a \in Account, Dispatch(a)
    PROVE  TypeOK'
<1>0. \A realtime \in BOOLEAN : At(realtime) \in Timing /\ Null \in Timing
  BY AtType
<1>a. a \in accounts
  <2>1. events[a] # <<>>
    BY DEF Dispatch, GuildDelete, GuildCreate, ObjectCreate, ObjectUpdate, ObjectDelete,
           MemberRemove, GuildMembersChunk, Record, Take
  <2> QED
    BY <2>1 DEF Connected
<1>1. ASSUME GuildDelete(a) PROVE TypeOK'
  <2>1. Take(a, "GUILD_DELETE")
    BY <1>1 DEF GuildDelete
  <2> QED
    BY <1>1, <1>a, <2>1, TakeType DEF TypeOK, GuildDelete, Take, DoNotSyncMembers, discord
<1>2. ASSUME GuildCreate(a) PROVE TypeOK'
  <2>1. /\ Take(a, "GUILD_CREATE") /\ events' \in [Account -> Seq(EventOf)]
        /\ Head(events[a]).list \in List
    BY <1>2, TakeType DEF GuildCreate, EventOf
  <2>2. /\ guildOf' \in accounts \cup {Null}
        /\ memberUserIDs' = Null \/ memberUserIDs' \subseteq Member
        /\ pending' \in Seq(Transaction)
    <3>1. CASE guildOf = Null
      <4>1. Tx("guild", Head(events[a]).list, At(FALSE)) \in Transaction
        BY <1>0, <2>1, TxType DEF TxOp
      <4>2. /\ guildOf' = a /\ memberUserIDs' = {}
            /\ pending' = Append(pending, Tx("guild", Head(events[a]).list, At(FALSE)))
        BY <1>2, <3>1 DEF GuildCreate
      <4>3. pending' \in Seq(Transaction)
        BY <4>1, <4>2, TxsType DEF TypeOK
      <4> QED
        BY <1>a, <4>2, <4>3
    <3>2. CASE guildOf # Null
      BY <1>2, <3>2 DEF GuildCreate, TypeOK
    <3> QED
      BY <3>1, <3>2
  <2>3. /\ requesting' \subseteq accounts /\ newcomers' \subseteq Member /\ asked' \in Nat
        /\ process' \in {"down", "up", "dying"}
    <3>1. CASE allReady
      <4>1. guildOf' \in accounts
        BY <1>2, <1>a, ConstantFacts DEF GuildCreate, TypeOK
      <4> QED
        BY <1>2, <3>1, <4>1, SyncType DEF GuildCreate
    <3>2. CASE ~allReady
      BY <1>2, <3>2 DEF GuildCreate, DoNotSyncMembers, TypeOK
    <3> QED
      BY <3>1, <3>2
  <2> QED
    BY <1>2, <1>a, <2>1, <2>2, <2>3 DEF TypeOK, GuildCreate, Take, discord
<1>3. ASSUME ObjectCreate(a) PROVE TypeOK'
  <2>1. PICK o \in Object : Record(a, "CREATE", "add", IF KindOf[o] = "channel" THEN Null ELSE At(Live(a)))
    BY <1>3 DEF ObjectCreate
  <2>2. (IF KindOf[o] = "channel" THEN Null ELSE At(Live(a))) \in Timing
    BY <1>0 DEF Live
  <2> QED
    BY <2>1, <2>2, RecordType DEF TxOp
<1>4. ASSUME ObjectUpdate(a) PROVE TypeOK'
  <2>1. Record(a, "UPDATE", "add", At(Live(a))) /\ At(Live(a)) \in Timing
    BY <1>0, <1>4 DEF ObjectUpdate, Live
  <2> QED
    BY <2>1, RecordType DEF TxOp
<1>5. ASSUME ObjectDelete(a) PROVE TypeOK'
  <2>1. Record(a, "DELETE", "delete", At(Live(a))) /\ At(Live(a)) \in Timing
    BY <1>0, <1>5 DEF ObjectDelete, Live
  <2> QED
    BY <2>1, RecordType DEF TxOp
<1>6. ASSUME MemberRemove(a) PROVE TypeOK'
  <2>1. /\ Take(a, "MEMBER_REMOVE") /\ events' \in [Account -> Seq(EventOf)]
        /\ Head(events[a]).list \in List
    BY <1>6, TakeType DEF MemberRemove, EventOf
  <2>2. [m \in DOMAIN Head(events[a]).list |-> LeftProps] \in List
    BY <2>1, ListParts, MapToList
  <2>3. Tx("add", [m \in DOMAIN Head(events[a]).list |-> LeftProps], At(Live(a))) \in Transaction
    BY <1>0, <2>2, TxType DEF TxOp, Live
  <2>4. pending' \in Seq(Transaction)
    BY <1>6, <2>3 DEF MemberRemove, TypeOK
  <2> QED
    BY <1>6, <2>1, <2>4 DEF TypeOK, MemberRemove, Take, DoNotSyncMembers, discord
<1>7. ASSUME GuildMembersChunk(a) PROVE TypeOK'
  <2> DEFINE e == Head(events[a])
             userIDs == memberUserIDs \cup (DOMAIN e.list \cap Member)
             add == Tx("add", e.list, At(FALSE))
             sync == Tx("members", [m \in userIDs |-> LeftProps], At(FALSE))
  <2>1. /\ Take(a, "CHUNK") /\ events' \in [Account -> Seq(EventOf)] /\ e.list \in List
    BY <1>7, TakeType DEF GuildMembersChunk, EventOf
  <2>2. add \in Transaction
    BY <1>0, <2>1, TxType DEF TxOp
  <2>3. CASE memberUserIDs = Null
    <3>1. /\ process' = "dying" /\ pending' = Append(pending, add)
          /\ UNCHANGED <<memberUserIDs, requesting>>
      BY <1>7, <2>3 DEF GuildMembersChunk
    <3>2. pending' \in Seq(Transaction)
      BY <2>2, <3>1, TxsType DEF TypeOK
    <3> QED
      BY <1>7, <2>1, <3>1, <3>2 DEF TypeOK, GuildMembersChunk, Take, discord
  <2>4. CASE memberUserIDs # Null
    <3>1. /\ memberUserIDs' = userIDs
          /\ pending' = pending \o (IF e.last THEN <<add, sync>> ELSE <<add>>)
          /\ requesting' = IF e.last THEN requesting \ {a} ELSE requesting
          /\ UNCHANGED process
      BY <1>7, <2>4 DEF GuildMembersChunk
    <3>2. userIDs \subseteq Member
      BY <2>4 DEF TypeOK
    <3>3. sync \in Transaction
      BY <1>0, <3>2, MapToList, ConstantFacts, TxType DEF TxOp
    <3> HIDE DEF add, sync, userIDs, e
    <3>4. pending' \in Seq(Transaction)
      BY <2>2, <3>1, <3>3, TxsType DEF TypeOK
    <3> QED
      BY <1>7, <2>1, <3>1, <3>2, <3>4 DEF TypeOK, GuildMembersChunk, Take, discord
  <2> QED
    BY <2>3, <2>4
<1> QED
  BY <1>1, <1>2, <1>3, <1>4, <1>5, <1>6, <1>7 DEF Dispatch

(* The chunk that is sent lists those who are there and their users. *)
LEMMA ChunkSent ==
    ASSUME TypeOK, SendChunk
    PROVE  \E k \in 1..Len(Chunks), list \in List :
            /\ k = IF answering > 0 THEN answering ELSE 1
            /\ DOMAIN list \cap GuildObject = {}
            /\ DOMAIN list \cap Member = {m \in Chunks[k] : Exists(m)}
            /\ \A o \in DOMAIN list : list[o] = world[o]
            /\ events' = [events EXCEPT ![guildOf] = Append(@, Event("CHUNK", list, k = Len(Chunks)))]
            /\ answering' = IF k = Len(Chunks) THEN 0 ELSE k + 1
            /\ asked' = IF answering > 0 THEN asked ELSE asked - 1
<1> DEFINE k == IF answering > 0 THEN answering ELSE 1
           members == {m \in Chunks[k] : Exists(m)}
           objects == members \cup {UserOf[m] : m \in members}
           list == Existing(objects)
<1>1. k \in 1..Len(Chunks)
  BY ConstantFacts DEF TypeOK
<1>2. members \subseteq Member
  BY <1>1, ConstantFacts
<1>3. /\ {UserOf[m] : m \in members} \subseteq Object
      /\ {UserOf[m] : m \in members} \cap Subject = {}
  BY <1>2, ConstantFacts
<1>4. members \in SUBSET Object /\ objects \in SUBSET Object
  BY <1>2, <1>3, ConstantFacts
<1>5. /\ events' = [events EXCEPT ![guildOf] = Append(@, Event("CHUNK", list, k = Len(Chunks)))]
      /\ answering' = IF k = Len(Chunks) THEN 0 ELSE k + 1
      /\ asked' = IF answering > 0 THEN asked ELSE asked - 1
  BY DEF SendChunk
<1> HIDE DEF k
<1>6. /\ list \in List /\ DOMAIN list = {o \in objects : Exists(o)}
      /\ \A o \in DOMAIN list : list[o] = world[o]
  BY <1>4, EventTypes
<1>7. DOMAIN list \cap GuildObject = {} /\ DOMAIN list \cap Member = members
  BY <1>2, <1>3, <1>6, ConstantFacts DEF Subject, GuildObject
<1> HIDE DEF list
<1>8. k = IF answering > 0 THEN answering ELSE 1
  BY DEF k
<1> QED
  BY <1>1, <1>5, <1>6, <1>7, <1>8

LEMMA AppendParts ==
    ASSUME NEW line \in Seq(EventOf), NEW e \in EventOf
    PROVE  /\ Append(line, e) \in Seq(EventOf) /\ Len(line) \in Nat
           /\ Len(Append(line, e)) = Len(line) + 1
           /\ Append(line, e)[Len(line) + 1] = e
           /\ \A k \in 1..Len(line) : Append(line, e)[k] = line[k]
  OBVIOUS

LEMMA LineType ==
    ASSUME NEW e \in EventOf, NEW e2 \in EventOf
    PROVE  /\ <<>> \in Seq(EventOf) /\ <<e>> \in Seq(EventOf) /\ <<e, e2>> \in Seq(EventOf)
           /\ Append(<<>>, e) = <<e>> /\ Append(<<e2>>, e) \in Seq(EventOf)
           /\ Len(Append(<<e2>>, e)) = 2
           /\ Append(<<e2>>, e)[1] = e2 /\ Append(<<e2>>, e)[2] = e
<1>1. <<>> \in Seq(EventOf) /\ <<e>> \in Seq(EventOf) /\ <<e, e2>> \in Seq(EventOf)
  OBVIOUS
<1>2. <<e2>> \in Seq(EventOf)
  OBVIOUS
<1>3. Append(<<>>, e) = <<e>>
  OBVIOUS
<1>4. Len(<<e2>>) = 1 /\ <<e2>>[1] = e2
  OBVIOUS
<1> DEFINE first == <<e2>>
<1> HIDE DEF first
<1>5. first \in Seq(EventOf) /\ Len(first) = 1 /\ first[1] = e2
  BY <1>2, <1>4 DEF first
<1>6. /\ Append(first, e) \in Seq(EventOf) /\ Len(Append(first, e)) = 2
      /\ Append(first, e)[1] = e2 /\ Append(first, e)[2] = e
  <2> DEFINE more == Append(first, e)
             n == Len(first)
  <2>1. /\ n \in Nat /\ Len(more) = n + 1 /\ more[n + 1] = e
        /\ \A k \in 1..n : more[k] = first[k]
    BY <1>5, AppendParts
  <2>2. more \in Seq(EventOf)
    BY <1>5
  <2> HIDE DEF more
  <2>3. Len(more) = 2 /\ more[2] = e /\ more[1] = first[1]
    BY <1>5, <2>1
  <2> QED
    BY <1>5, <2>2, <2>3 DEF more
<1> QED
  BY <1>1, <1>3, <1>6 DEF first

LEMMA EmitOneType ==
    ASSUME TypeOK, NEW e \in EventOf, Emit(<<e>>)
    PROVE  events' \in [Account -> Seq(EventOf)]
<1>1. <<e>> \in Seq(EventOf)
  OBVIOUS
<1> QED
  BY <1>1, EmitType

(* Every step keeps the types. *)
LEMMA TypeStep ==
    ASSUME TypeOK, Connected, Ordered, [Next]_vars
    PROVE  TypeOK'
<1>0. world \in [Object -> (Props \ {LeftProps}) \cup {Null}] /\ gone \subseteq RoleOrChannel
  BY DEF TypeOK
<1>1. ASSUME NEW o \in Object, NEW props \in Props, Create(o, props) PROVE TypeOK'
  <2>1. Event("CREATE", One(o, props), FALSE) \in EventOf
    BY <1>0, EventTypes DEF EventType
  <2>2. events' \in [Account -> Seq(EventOf)]
    BY <1>1, <2>1, EmitOneType DEF Create
  <2>3. /\ world' \in [Object -> (Props \ {LeftProps}) \cup {Null}]
        /\ changes' \in 0..MaxChanges /\ newcomers' \subseteq Member
    BY <1>0, <1>1, GuildSyncAssumption DEF Create, Change, TypeOK
  <2> QED
    BY <1>1, <2>2, <2>3 DEF TypeOK, Create, Change, download, main
<1>2. ASSUME NEW o \in Object, NEW props \in Props, Update(o, props) PROVE TypeOK'
  <2>1. Event("UPDATE", One(o, props), FALSE) \in EventOf
    BY <1>0, EventTypes DEF EventType
  <2>2. events' \in [Account -> Seq(EventOf)]
    <3>1. CASE KindOf[o] = "user"
      BY <1>2, <3>1 DEF Update, TypeOK
    <3>2. CASE KindOf[o] # "user"
      BY <1>2, <2>1, <3>2, EmitOneType DEF Update
    <3> QED
      BY <3>1, <3>2
  <2>3. /\ world' \in [Object -> (Props \ {LeftProps}) \cup {Null}]
        /\ changes' \in 0..MaxChanges
    BY <1>0, <1>2, GuildSyncAssumption DEF Update, Change, TypeOK
  <2> QED
    BY <1>2, <2>2, <2>3 DEF TypeOK, Update, Change, download, main
<1>3. ASSUME NEW o \in Object, Delete(o) PROVE TypeOK'
  <2>1. world[o] \in Props
    BY <1>0, <1>3 DEF Delete, Exists
  <2>2. Event(IF o \in Member THEN "MEMBER_REMOVE" ELSE "DELETE", One(o, world[o]), FALSE) \in EventOf
    BY <2>1, EventTypes DEF EventType
  <2>3. events' \in [Account -> Seq(EventOf)]
    BY <1>3, <2>2, EmitOneType DEF Delete
  <2>4. /\ world' \in [Object -> (Props \ {LeftProps}) \cup {Null}]
        /\ changes' \in 0..MaxChanges /\ gone' \subseteq RoleOrChannel
    BY <1>0, <1>3, GuildSyncAssumption DEF Delete, Change, TypeOK
  <2> QED
    BY <1>3, <2>3, <2>4 DEF TypeOK, Delete, Change, download, main
<1>4. ASSUME Outage PROVE TypeOK'
  <2>0. Event("GUILD_DELETE", None, FALSE) \in EventOf /\ GuildCreated \in EventOf
    BY EventTypes
  <2>1. <<Event("GUILD_DELETE", None, FALSE), GuildCreated>> \in Seq(EventOf)
    BY <2>0, LineType
  <2>2. events' \in [Account -> Seq(EventOf)]
    BY <1>4, <2>1, EmitType DEF Outage
  <2> QED
    BY <1>4, <2>2 DEF TypeOK, Outage, UnchangedByDiscord, discord, download, main
<1>5. ASSUME SendChunk PROVE TypeOK'
  <2>1. PICK k \in 1..Len(Chunks), list \in List :
            /\ events' = [events EXCEPT ![guildOf] = Append(@, Event("CHUNK", list, k = Len(Chunks)))]
            /\ answering' = IF k = Len(Chunks) THEN 0 ELSE k + 1
            /\ asked' = IF answering > 0 THEN asked ELSE asked - 1
    BY <1>5, ChunkSent
  <2>3. Event("CHUNK", list, k = Len(Chunks)) \in EventOf
    BY DEF Event, EventOf, EventType
  <2>4. events' \in [Account -> Seq(EventOf)]
    <3>1. events[guildOf] \in Seq(EventOf)
      BY <1>5 DEF TypeOK, SendChunk
    <3>2. Append(events[guildOf], Event("CHUNK", list, k = Len(Chunks))) \in Seq(EventOf)
      BY <2>3, <3>1
    <3> QED
      BY <2>1, <3>2 DEF TypeOK
  <2>5. asked' \in Nat
    BY <1>5, <2>1 DEF SendChunk, TypeOK
  <2>6. answering' \in 0..Len(Chunks)
    BY <2>1, ConstantFacts
  <2> QED
    BY <1>5, <2>4, <2>5, <2>6 DEF TypeOK, SendChunk, UnchangedByDiscord, discord, main
<1>6. ASSUME Start PROVE TypeOK'
  <2>1. PICK first \in {<<>>, <<Event("GUILD_DELETE", None, FALSE)>>} :
            events' = [a \in Account |-> IF a \in accounts' THEN Append(first, GuildCreated) ELSE <<>>]
    BY <1>6 DEF Start
  <2>0. Event("GUILD_DELETE", None, FALSE) \in EventOf /\ GuildCreated \in EventOf
    BY EventTypes
  <2>2. Append(first, GuildCreated) \in Seq(EventOf)
    <3>1. CASE first = <<>>
      BY <2>0, <3>1, LineType
    <3>2. CASE first = <<Event("GUILD_DELETE", None, FALSE)>>
      BY <2>0, <3>2, LineType
    <3> QED
      BY <3>1, <3>2
  <2>3. events' \in [Account -> Seq(EventOf)]
    BY <2>1, <2>2
  <2>4. /\ link' \in [Account -> {"none", "identified", "resumed", "lost"}]
        /\ now' \in 0..MaxTime /\ accounts' \subseteq Account
    BY <1>6, GuildSyncAssumption DEF Start, TypeOK
  <2>5. ready' = {} /\ requesting' = {} /\ guildOf' = Null
    BY <1>6 DEF Start, TypeOK, Connected
  <2> QED
    BY <1>6, <2>3, <2>4, <2>5 DEF TypeOK, Start, discord, download
<1>7. ASSUME Dies PROVE TypeOK'
  <2>1. events' \in [Account -> Seq(EventOf)] /\ pending' \in Seq(Transaction)
    BY <1>7 DEF Dies
  <2>2. answering' \in 0..Len(Chunks) /\ asked' \in Nat
    BY <1>7, ConstantFacts DEF Dies
  <2>3. link' \in [Account -> {"none", "identified", "resumed", "lost"}]
    BY <1>7 DEF Dies
  <2> QED
    BY <1>7, <2>1, <2>2, <2>3 DEF TypeOK, Dies, discord
<1>8. ASSUME Tick PROVE TypeOK'
  BY <1>8, GuildSyncAssumption DEF Tick, TypeOK, discord, download, main, history
<1>9. ASSUME AllReady PROVE TypeOK'
  <2>1. /\ requesting' \subseteq accounts /\ newcomers' \subseteq Member /\ asked' \in Nat
        /\ process' \in {"down", "up", "dying"}
    <3>1. CASE guildOf # Null
      <4>1. guildOf \in accounts /\ SyncAllGuildMembers(guildOf)
        BY <1>9, <3>1 DEF AllReady, TypeOK
      <4> QED
        BY <4>1, SyncType
    <3>2. CASE guildOf = Null
      BY <1>9, <3>2 DEF AllReady, DoNotSyncMembers, TypeOK
    <3> QED
      BY <3>1, <3>2
  <2> QED
    BY <1>9, <2>1 DEF TypeOK, AllReady, discord
<1>10. ASSUME NEW a \in Account, LoseConnection(a) \/ Resume(a) PROVE TypeOK'
  BY <1>10 DEF LoseConnection, Resume, UnchangedByLink, TypeOK, discord, download, main
<1>11. ASSUME NEW a \in Account, LoseSession(a) PROVE TypeOK'
  <2>1. events' \in [Account -> Seq(EventOf)]
    <3>1. <<GuildCreated>> \in Seq(EventOf)
      BY EventTypes
    <3> QED
      BY <1>11, <3>1 DEF LoseSession, TypeOK
  <2>2. answering' \in 0..Len(Chunks) /\ asked' \in Nat
    BY <1>11, ConstantFacts DEF LoseSession, TypeOK, download
  <2>3. /\ link' \in [Account -> {"none", "identified", "resumed", "lost"}]
        /\ memberUserIDs' = Null \/ memberUserIDs' \subseteq Member
    BY <1>11 DEF LoseSession, TypeOK
  <2> QED
    BY <1>11, <2>1, <2>2, <2>3 DEF TypeOK, LoseSession, UnchangedByLink, discord
<1>12. ASSUME Work PROVE TypeOK'
  <2>1. pending \in Seq(Transaction) /\ pending # <<>>
    BY <1>12 DEF Work, TypeOK
  <2>2. Head(pending) \in Transaction /\ Tail(pending) \in Seq(Transaction)
    BY <2>1
  <2>3. store' \in [Object -> Cell]
    BY <1>12, <2>2, AfterType DEF Work, Ordered
  <2> QED
    BY <1>12, <2>2, <2>3 DEF TypeOK, Work, discord, download, main, history
<1>13. ASSUME UNCHANGED vars PROVE TypeOK'
  BY <1>13 DEF TypeOK, vars, discord, download, main, history
<1> QED
  BY <1>1, <1>2, <1>3, <1>4, <1>5, <1>6, <1>7, <1>8, <1>9, <1>10, <1>11, <1>12, <1>13,
     DispatchType DEF Next, Crash, Die


-----------------------------------------------------------------------------
(* What is coming still comes.                                             *)
\* What an object needs of a step for what is said of it to stay true.
Undisturbed(o) ==
    /\ UNCHANGED <<guildOf, allReady, asked, answering>>
    /\ newcomers \subseteq newcomers'
    /\ Coming(o) => Coming(o)'
    /\ Awaited(o)' => Awaited(o)
    /\ o \in memberUserIDs' => o \in memberUserIDs
    /\ InList(o) => InList(o)'
    /\ BeingListed' => BeingListed
    /\ ListToCome => ListToCome'

LEMMA StillComing ==
    ASSUME NEW m \in Member, Undisturbed(m)
    PROVE  /\ MemberComing(m) => MemberComing(m)'
           /\ LeaveComing(m) => LeaveComing(m)'
<1>1. WillBeListed(m) => WillBeListed(m)'
  BY DEF WillBeListed, Undisturbed
<1>2. ASSUME MemberComing(m) PROVE MemberComing(m)'
  <2> SUFFICES ASSUME allReady', guildOf' # Null, m \notin newcomers', ~WillBeListed(m)'
               PROVE  Coming(m)' /\ (InList(m)' \/ ~BeingListed')
    BY DEF MemberComing
  <2>1. allReady /\ guildOf # Null /\ m \notin newcomers /\ ~WillBeListed(m)
    BY <1>1 DEF Undisturbed
  <2>2. Coming(m) /\ (InList(m) \/ ~BeingListed)
    BY <1>2, <2>1 DEF MemberComing
  <2> QED
    BY <2>2 DEF Undisturbed
<1>3. ASSUME LeaveComing(m) PROVE LeaveComing(m)'
  <2>1. CASE Coming(m)
    BY <2>1 DEF LeaveComing, Undisturbed
  <2>2. CASE ~Awaited(m) /\ (guildOf # Null => m \notin memberUserIDs /\ (allReady => ListToCome))
    <3>1. ~Awaited(m)'
      BY <2>2 DEF Undisturbed
    <3>2. guildOf' # Null => m \notin memberUserIDs' /\ (allReady' => ListToCome')
      BY <2>2 DEF Undisturbed
    <3> QED
      BY <3>1, <3>2 DEF LeaveComing
  <2> QED
    BY <1>3, <2>1, <2>2 DEF LeaveComing
<1> QED
  BY <1>2, <1>3

(* A step that disturbs nothing keeps both. *)
LEMMA AllStillComing ==
    ASSUME GuildComing, MembersComing, process' = "up" => process = "up", ~lost' => ~lost,
           \A o \in Subject : Undisturbed(o) /\ (Exists(o)' <=> Exists(o))
    PROVE  GuildComing' /\ MembersComing'
<1>1. GuildComing'
  <2> SUFFICES ASSUME process' = "up", ~lost', guildOf' # Null, NEW o \in GuildObject
               PROVE  Coming(o)'
    BY DEF GuildComing
  <2>1. o \in Subject
    BY DEF Subject
  <2>2. guildOf # Null
    BY <2>1 DEF Undisturbed
  <2>3. Coming(o)
    BY <2>2 DEF GuildComing
  <2> QED
    BY <2>1, <2>3 DEF Undisturbed
<1>2. MembersComing'
  <2> SUFFICES ASSUME process' = "up", ~lost', NEW m \in Member
               PROVE  IF Exists(m)' THEN MemberComing(m)' ELSE LeaveComing(m)'
    BY DEF MembersComing
  <2>1. m \in Subject
    BY DEF Subject
  <2>2. IF Exists(m) THEN MemberComing(m) ELSE LeaveComing(m)
    BY DEF MembersComing
  <2> QED
    BY <2>1, <2>2, StillComing
<1> QED
  BY <1>1, <1>2

-----------------------------------------------------------------------------
(* Steps that say nothing.                                                 *)
Untouched ==
    /\ UNCHANGED <<gone, download, events, pending, store, lost, newcomers>>
    /\ UNCHANGED <<accounts, allReady, guildOf, memberUserIDs, process>>
    /\ \A o \in Subject : world'[o] = world[o]
    /\ \A a \in Account : link'[a] = "none" <=> link[a] = "none"

LEMMA UntouchedKeeps ==
    ASSUME GuildInv, Untouched, TypeOK'
    PROVE  GuildInv'
<1>0. /\ \A o \in Subject : Exists(o)' <=> Exists(o)
      /\ RoleOrChannel \subseteq Subject /\ Guild \in Subject /\ GuildObject \subseteq Subject
      /\ Member \subseteq Subject /\ gone \subseteq RoleOrChannel
  BY DEF Untouched, Exists, Subject, GuildObject, GuildInv, TypeOK
<1>1. Connected'
  BY DEF GuildInv, Connected, Untouched
<1>2. \A o \in RoleOrChannel : EverWas(o)' <=> EverWas(o)
  BY <1>0 DEF Untouched, EverWas
<1>3. \A list : WereAll(list)' <=> WereAll(list)
  BY <1>2 DEF WereAll
<1>4. EventsSound'
  BY <1>3 DEF GuildInv, EventsSound, EventSound, Untouched
<1>5. \A list : Complete(list)' <=> Complete(list)
  BY DEF Complete, Untouched
<1>6. PendingSound'
  BY <1>3, <1>5 DEF GuildInv, PendingSound, Untouched
<1>7. StoreSound'
  BY <1>0, <1>2 DEF GuildInv, StoreSound, Untouched
<1>8. LinesTell'
  BY DEF GuildInv, LinesTell, Untouched
<1>9. Announced'
  <2>1. \A line, k : Announces(line, k) => Announces(line, k)'
    BY <1>0, <1>5 DEF Announces, Untouched
  <2> QED
    BY <2>1 DEF GuildInv, Announced, Untouched
<1>10. ASSUME NEW o \in Subject PROVE Undisturbed(o)
  <2>1. Awaited(o)' <=> Awaited(o)
    BY DEF Awaited, Untouched
  <2>2. Coming(o) => Coming(o)'
    BY <2>1 DEF Coming, Untouched
  <2> QED
    BY <2>1, <2>2 DEF Undisturbed, Untouched, download, InList, BeingListed, ListToCome
<1>11. GuildComing' /\ MembersComing'
  BY <1>0, <1>10, AllStillComing DEF Untouched, GuildInv
<1> QED
  BY <1>1, <1>4, <1>6, <1>7, <1>8, <1>9, <1>11 DEF GuildInv

-----------------------------------------------------------------------------
(* Changes in Discord.                                                     *)
\* The event that tells of a change of an object, and what becomes of it.
Changes(o, e) ==
    /\ e.type \in Telling \ {"CHUNK"} /\ DOMAIN e.list = {o} /\ Tells(e, o, world'[o])
    /\ EventSound(e)'
    /\ Emit(<<e>>)
    /\ \A x \in Subject \ {o} : world'[x] = world[x]
    /\ Exists(Guild)' /\ gone \subseteq gone' /\ \A x \in gone' : ~Exists(x)'
    /\ \A x \in RoleOrChannel : EverWas(x) => EverWas(x)'
    /\ newcomers \subseteq newcomers'
    /\ o \in Member /\ BeingListed /\ ~Exists(o) => ~Exists(o)' \/ o \in newcomers'
    /\ UNCHANGED <<download, link, main, process, pending, store, lost>>

LEMMA ChangesKeeps ==
    ASSUME GuildInv, NEW o \in Object, NEW e \in EventOf, Changes(o, e), TypeOK'
    PROVE  GuildInv'
<1> USE DEF GuildInv
<1>0. /\ \A a \in Account : events[a] \in Seq(EventOf)
      /\ \A x \in Subject : About(e, x) <=> x = o
      /\ RoleOrChannel \subseteq Subject /\ Guild \in Subject /\ GuildObject \subseteq Subject
      /\ Member \subseteq Subject
  BY DEF Changes, About, TypeOK, Subject, GuildObject
<1>1. \A a \in Account : IF a \in accounts THEN events'[a] = Append(events[a], e)
                         ELSE events'[a] = <<>> /\ events[a] = <<>>
  BY <1>0, AppendLine DEF Changes, Emit, Connected
<1>2. UNCHANGED <<asked, answering, link, accounts, ready, allReady, guildOf, memberUserIDs,
                  requesting, process, pending, store, lost>>
  BY DEF Changes, download, main
<1>3. \A a \in Account, x \in Subject :
        AboutIn(events[a], x)' <=> AboutIn(events[a], x) \/ (a \in accounts /\ x = o)
  <2> SUFFICES ASSUME NEW a \in Account, NEW x \in Subject
               PROVE  AboutIn(events[a], x)' <=> AboutIn(events[a], x) \/ (a \in accounts /\ x = o)
    OBVIOUS
  <2>1. CASE a \in accounts
    <3>1. /\ events'[a] = Append(events[a], e)
          /\ AboutIn(Append(events[a], e), x) <=> AboutIn(events[a], x) \/ About(e, x)
      BY <1>0, <1>1, <2>1, AppendLine
    <3> QED
      BY <1>0, <2>1, <3>1
  <2>2. CASE a \notin accounts
    BY <1>1, <2>2, EmptyLine
  <2> QED
    BY <2>1, <2>2
<1>4. \A list : WereAll(list) => WereAll(list)'
  BY DEF Changes, WereAll
<1>5. \A list : Complete(list) => Complete(list)'
  BY <1>2 DEF Changes, Complete
<1>6. Connected'
  BY <1>1, <1>2 DEF Connected
<1>7. \A a \in Account : \A k \in 1..Len(events'[a]) :
        \/ k \in 1..Len(events[a]) /\ events'[a][k] = events[a][k]
        \/ k = Len(events[a]) + 1 /\ events'[a][k] = e
  <2> SUFFICES ASSUME NEW a \in Account, NEW k \in 1..Len(events'[a])
               PROVE  \/ k \in 1..Len(events[a]) /\ events'[a][k] = events[a][k]
                      \/ k = Len(events[a]) + 1 /\ events'[a][k] = e
    OBVIOUS
  <2>1. CASE a \in accounts
    BY <1>0, <1>1, <2>1, AppendParts
  <2>2. CASE a \notin accounts
    BY <1>1, <2>2
  <2> QED
    BY <2>1, <2>2
<1>8. \A a \in Account : \A k \in 1..Len(events[a]) :
        k \in 1..Len(events'[a]) /\ events'[a][k] = events[a][k]
  <2> SUFFICES ASSUME NEW a \in Account, NEW k \in 1..Len(events[a])
               PROVE  k \in 1..Len(events'[a]) /\ events'[a][k] = events[a][k]
    OBVIOUS
  <2>1. CASE a \in accounts
    BY <1>0, <1>1, <2>1, AppendParts
  <2>2. CASE a \notin accounts
    BY <1>1, <2>2
  <2> QED
    BY <2>1, <2>2
<1>9. EventsSound'
  <2> SUFFICES ASSUME NEW a \in Account, NEW k \in 1..Len(events'[a])
               PROVE  EventSound(events[a][k])'
    BY DEF EventsSound
  <2>1. \A x : EventSound(x) => EventSound(x)'
    BY <1>4 DEF EventSound, Changes
  <2>2. EventSound(e)'
    BY DEF Changes
  <2>3. CASE k \in 1..Len(events[a]) /\ events'[a][k] = events[a][k]
    BY <2>1, <2>3 DEF EventsSound, EventSound, WereAll, EverWas, Exists
  <2>4. CASE events'[a][k] = e
    BY <2>2, <2>4 DEF EventSound, WereAll, EverWas, Exists
  <2> QED
    BY <1>7, <2>3, <2>4
<1>10. PendingSound'
  BY <1>2, <1>4, <1>5 DEF PendingSound, Changes
<1>11. StoreSound'
  BY <1>2 DEF StoreSound, Changes
<1>12. LinesTell'
  <2> SUFFICES ASSUME NEW a \in Account, NEW x \in Subject
               PROVE  LastTells(events'[a], x, world'[x])
    BY DEF LinesTell
  <2>1. CASE a \notin accounts
    BY <1>1, <2>1, EmptyLine
  <2>2. CASE a \in accounts
    <3>1. events'[a] = Append(events[a], e) /\ events[a] \in Seq(EventOf)
      BY <1>0, <1>1, <2>2
    <3>2. CASE x = o
      <4>1. About(e, x) /\ Tells(e, x, world'[x])
        BY <1>0, <3>2 DEF Changes
      <4> QED
        BY <3>1, <4>1, AppendLine
    <3>3. CASE x # o
      <4>1. ~About(e, x) /\ LastTells(events[a], x, world'[x])
        BY <1>0, <3>3 DEF Changes, LinesTell
      <4> QED
        BY <3>1, <4>1, AppendLine
    <3> QED
      BY <3>2, <3>3
  <2> QED
    BY <2>1, <2>2
<1>13. Announced'
  <2> SUFFICES ASSUME process' # "down", guildOf' = Null
               PROVE  pending' = <<>> /\ \A a \in accounts' : \E k \in 1..Len(events'[a]) : Announces(events[a], k)'
    BY DEF Announced
  <2>1. pending' = <<>>
    BY <1>2 DEF Announced
  <2>2. ASSUME NEW a \in accounts PROVE \E k \in 1..Len(events'[a]) : Announces(events[a], k)'
    <3>0. a \in Account
      BY DEF TypeOK
    <3>1. PICK k \in 1..Len(events[a]) : Announces(events[a], k)
      BY <1>2 DEF Announced
    <3>2. /\ events'[a][k] = events[a][k] /\ k \in 1..Len(events'[a])
          /\ \A j \in 1..k - 1 : j \in 1..Len(events[a]) /\ events'[a][j] = events[a][j]
      <4>1. \A j \in 1..k - 1 : j \in 1..Len(events[a])
        BY <1>0, <3>0
      <4> QED
        BY <1>8, <3>0, <4>1
    <3>3. ASSUME NEW x \in GuildObject
          PROVE  \/ AboutIn(events[a], x)'
                 \/ IF Exists(x)' THEN x \in DOMAIN events'[a][k].list /\ events'[a][k].list[x] = world'[x]
                    ELSE x \notin DOMAIN events'[a][k].list
      <4>1. CASE x = o
        BY <1>0, <1>3, <3>0, <4>1
      <4>2. CASE x # o
        <5>1. world'[x] = world[x]
          BY <1>0, <4>2 DEF Changes
        <5> QED
          BY <1>0, <1>3, <3>0, <3>1, <3>2, <5>1 DEF Announces, Exists
      <4> QED
        BY <4>1, <4>2
    <3>4. Announces(events[a], k)'
      BY <1>5, <3>1, <3>2, <3>3 DEF Announces
    <3> QED
      BY <3>2, <3>4
  <2> QED
    BY <1>2, <2>1, <2>2
<1>14. ASSUME NEW x \in Subject, x # o
       PROVE  Awaited(x)' <=> Awaited(x)
  BY <1>3, <1>14 DEF Awaited
<1>15. ASSUME NEW x \in Subject, Coming(x), x # o
       PROVE  Coming(x)'
  BY <1>2, <1>14, <1>15 DEF Coming, Changes
<1>16. process # "down" /\ o \in Subject => Coming(o)'
  <2>1. process # "down" => \E a \in Account : a \in accounts
    BY DEF Connected, TypeOK
  <2> QED
    BY <1>3, <2>1 DEF Coming, Awaited
<1>17. \A x : InList(x) => InList(x)'
  BY <1>2, <1>8 DEF InList
<1>18. BeingListed' => BeingListed
  <2>1. \A a \in Account : \A k \in 1..Len(events'[a]) :
          events'[a][k].type = "CHUNK" => k \in 1..Len(events[a]) /\ events'[a][k] = events[a][k]
    BY <1>7 DEF Changes
  <2>2. \A a \in Account : /\ DOMAIN events[a] = 1..Len(events[a])
                            /\ DOMAIN events'[a] = 1..Len(events'[a])
    BY DEF TypeOK
  <2> QED
    BY <1>2, <2>1, <2>2 DEF BeingListed
<1>19. ListToCome => ListToCome'
  BY <1>2, <1>8 DEF ListToCome
<1>20. GuildComing'
  BY <1>0, <1>2, <1>15, <1>16 DEF GuildComing
<1>21. ASSUME NEW m \in Member, process' = "up", ~lost'
       PROVE  IF Exists(m)' THEN MemberComing(m)' ELSE LeaveComing(m)'
  <2>0. IF Exists(m) THEN MemberComing(m) ELSE LeaveComing(m)
    BY <1>2, <1>21 DEF MembersComing
  <2>1. CASE m # o
    <3>1. Undisturbed(m)
      BY <1>0, <1>2, <1>14, <1>15, <1>17, <1>18, <1>19, <2>1 DEF Undisturbed, Changes
    <3>2. Exists(m)' <=> Exists(m)
      BY <1>0, <2>1 DEF Changes, Exists
    <3> QED
      BY <2>0, <3>1, <3>2, StillComing
  <2>2. CASE m = o
    <3>1. Coming(m)'
      BY <1>0, <1>2, <1>16, <1>21, <2>2
    <3>2. CASE ~Exists(m)'
      BY <3>1, <3>2 DEF LeaveComing
    <3>3. CASE Exists(m)' /\ ~Exists(m)
      BY <1>18, <2>2, <3>1, <3>3 DEF MemberComing, Changes
    <3>4. CASE Exists(m)' /\ Exists(m)
      <4>1. MemberComing(m)
        BY <2>0, <3>4
      <4>2. WillBeListed(m) => WillBeListed(m)'
        BY <1>2 DEF WillBeListed
      <4> QED
        BY <1>2, <1>17, <1>18, <3>1, <3>4, <4>1, <4>2 DEF MemberComing, Changes
    <3> QED
      BY <3>2, <3>3, <3>4
  <2> QED
    BY <2>1, <2>2
<1>22. MembersComing'
  BY <1>21 DEF MembersComing
<1> QED
  BY <1>6, <1>9, <1>10, <1>11, <1>12, <1>13, <1>20, <1>22

(* What is created, changed or deleted is told to every session. *)
LEMMA DiscordKeeps ==
    ASSUME GuildInv, TypeOK', NEW o \in Object, NEW props \in Props,
           Create(o, props) \/ Update(o, props) \/ Delete(o)
    PROVE  GuildInv'
<1>a. TypeOK /\ StoreSound
  BY DEF GuildInv
<1>0. /\ world \in [Object -> (Props \ {LeftProps}) \cup {Null}] /\ Null \notin Props
      /\ KindOf[Guild] = "guild" /\ Guild \in Object /\ Guild \notin RoleOrChannel \cup Member
      /\ RoleOrChannel \cap Member = {} /\ gone \subseteq RoleOrChannel
      /\ Exists(Guild) /\ \A x \in gone : ~Exists(x)
      /\ \A x \in Subject : KindOf[x] # "user"
  BY <1>a, ConstantFacts DEF TypeOK, StoreSound, Subject, GuildObject, RoleOrChannel, Member
<1>1. \A type : /\ Event(type, One(o, props), FALSE).type = type
                /\ Event(type, One(o, props), FALSE).list = One(o, props)
                /\ DOMAIN One(o, props) = {o} /\ One(o, props)[o] = props
  BY DEF Event, One
<1>2. ASSUME Create(o, props)
      PROVE  GuildInv'
  <2>1. PICK e \in EventOf : e = Event("CREATE", One(o, props), FALSE)
    BY <1>a, EventTypes DEF EventType
  <2>2. /\ ~Exists(o) /\ o \notin gone /\ Emit(<<e>>)
        /\ world' = [world EXCEPT ![o] = props] /\ UNCHANGED gone
        /\ newcomers' = IF o \in Member /\ BeingListed THEN newcomers \cup {o} ELSE newcomers
        /\ UNCHANGED <<download, link, main, process, pending, store, lost>>
    BY <1>2, <2>1 DEF Create, Change
  <2>3. /\ e.type = "CREATE" /\ e.list = One(o, props)
        /\ DOMAIN e.list = {o} /\ e.list[o] = props
    BY <1>1, <2>1
  <2>4. world'[o] = props /\ \A x \in Object \ {o} : world'[x] = world[x]
    BY <1>0, <2>2
  <2>5. /\ \A x \in Object : Exists(x) => Exists(x)'
        /\ Exists(o)' /\ \A x \in Object \ {o} : Exists(x)' <=> Exists(x)
    BY <1>0, <2>4 DEF Exists
  <2>6. EventSound(e)'
    BY <2>3, <2>5 DEF EventSound, WereAll, EverWas
  <2>7. e.type \in Telling \ {"CHUNK"} /\ Tells(e, o, world'[o])
    BY <1>0, <2>3, <2>4 DEF Telling, Tells, Gone
  <2>8. \A x \in gone' : ~Exists(x)'
    <3>1. gone \subseteq Object
      BY <1>0, ConstantFacts
    <3> QED
      BY <1>0, <2>2, <2>5, <3>1
  <2>9. \A x \in RoleOrChannel : EverWas(x) => EverWas(x)'
    BY <2>2, <2>5, ConstantFacts DEF EverWas
  <2>10. Subject \subseteq Object
    BY ConstantFacts
  <2>11. Changes(o, e)
    BY <1>0, <2>2, <2>3, <2>4, <2>5, <2>6, <2>7, <2>8, <2>9, <2>10 DEF Changes
  <2> QED
    BY <2>1, <2>11, ChangesKeeps
<1>3. ASSUME Update(o, props)
      PROVE  GuildInv'
  <2>1. PICK e \in EventOf : e = Event("UPDATE", One(o, props), FALSE)
    BY <1>a, EventTypes DEF EventType
  <2>2. /\ Exists(o) /\ (KindOf[o] # "user" => Emit(<<e>>))
        /\ KindOf[o] = "user" => UNCHANGED events
        /\ world' = [world EXCEPT ![o] = props] /\ UNCHANGED <<gone, newcomers>>
        /\ UNCHANGED <<download, link, main, process, pending, store, lost>>
    BY <1>3, <2>1 DEF Update, Change
  <2>3. /\ e.type = "UPDATE" /\ e.list = One(o, props)
        /\ DOMAIN e.list = {o} /\ e.list[o] = props
    BY <1>1, <2>1
  <2>4. world'[o] = props /\ \A x \in Object \ {o} : world'[x] = world[x]
    BY <1>0, <2>2
  <2>5. \A x \in Object : Exists(x)' <=> Exists(x)
    BY <1>0, <2>2, <2>4 DEF Exists
  <2>6. EventSound(e)'
    BY <2>2, <2>3, <2>5 DEF EventSound, WereAll, EverWas
  <2>7. e.type \in Telling \ {"CHUNK"} /\ Tells(e, o, world'[o])
    BY <1>0, <2>3, <2>4 DEF Telling, Tells, Gone
  <2>8. \A x \in gone' : ~Exists(x)'
    <3>1. gone \subseteq Object
      BY <1>0, ConstantFacts
    <3> QED
      BY <1>0, <2>2, <2>5, <3>1
  <2>9. \A x \in RoleOrChannel : EverWas(x) => EverWas(x)'
    BY <2>2, <2>5, ConstantFacts DEF EverWas
  <2>10. Subject \subseteq Object
    BY ConstantFacts
  <2>11. CASE KindOf[o] # "user"
    <3>1. Changes(o, e)
      BY <1>0, <2>2, <2>3, <2>4, <2>5, <2>6, <2>7, <2>8, <2>9, <2>10, <2>11 DEF Changes
    <3> QED
      BY <2>1, <3>1, ChangesKeeps
  <2>12. CASE KindOf[o] = "user"
    <3>1. o \notin Subject
      BY <1>0, <2>12
    <3> QED
      BY <2>2, <2>4, <2>10, <2>12, <3>1, UntouchedKeeps DEF Untouched, download, main
  <2> QED
    BY <2>11, <2>12
<1>4. ASSUME Delete(o)
      PROVE  GuildInv'
  <2> DEFINE type == IF o \in Member THEN "MEMBER_REMOVE" ELSE "DELETE"
  <2>1. PICK e \in EventOf : e = Event(type, One(o, world[o]), FALSE)
    <3>1. world[o] \in Props /\ type \in EventType
      BY <1>0, <1>4 DEF Delete, Exists, EventType
    <3> QED
      BY <1>a, <3>1, EventTypes
  <2>2. /\ Exists(o) /\ o \in RoleOrChannel \cup Member /\ Emit(<<e>>)
        /\ world' = [world EXCEPT ![o] = Null] /\ UNCHANGED newcomers
        /\ gone' = IF o \in Member THEN gone ELSE gone \cup {o}
        /\ UNCHANGED <<download, link, main, process, pending, store, lost>>
    BY <1>4, <2>1 DEF Delete, Change
  <2>3. e.type = type /\ DOMAIN e.list = {o}
    BY <2>1 DEF Event, One
  <2>4. world'[o] = Null /\ \A x \in Object \ {o} : world'[x] = world[x]
    BY <1>0, <2>2
  <2>5. ~Exists(o)' /\ \A x \in Object \ {o} : Exists(x)' <=> Exists(x)
    BY <2>4 DEF Exists
  <2>6. EventSound(e)'
    <3>1. CASE o \in Member
      BY <1>0, <2>2, <2>3, <3>1 DEF EventSound, WereAll, EverWas
    <3>2. CASE o \notin Member
      <4>1. o \in RoleOrChannel /\ o \in gone'
        BY <2>2, <3>2
      <4> QED
        BY <2>3, <3>2, <4>1 DEF EventSound, WereAll, EverWas
    <3> QED
      BY <3>1, <3>2
  <2>7. e.type \in Telling \ {"CHUNK"} /\ Tells(e, o, world'[o])
    BY <2>3, <2>4 DEF Telling, Tells, Gone
  <2>8. \A x \in gone' : ~Exists(x)'
    <3>1. gone \subseteq Object
      BY <1>0, ConstantFacts
    <3> QED
      BY <1>0, <2>2, <2>5, <3>1
  <2>9. \A x \in RoleOrChannel : EverWas(x) => EverWas(x)'
    BY <1>0, <2>2, <2>5, ConstantFacts DEF EverWas
  <2>10. Subject \subseteq Object
    BY ConstantFacts
  <2>11. Exists(Guild)'
    BY <1>0, <2>2, <2>4 DEF Exists
  <2>12. Changes(o, e)
    BY <1>0, <2>2, <2>3, <2>4, <2>5, <2>6, <2>7, <2>8, <2>9, <2>10, <2>11 DEF Changes
  <2> QED
    BY <2>1, <2>12, ChangesKeeps
<1> QED
  BY <1>2, <1>3, <1>4

-----------------------------------------------------------------------------
(* Outages.                                                                *)
Guilds == {"GUILD_CREATE", "GUILD_DELETE"}

\* The longer line has only events more that tell nothing of any object.
NothingNew(line, more) ==
    /\ \A k \in 1..Len(line) : k \in 1..Len(more) /\ more[k] = line[k]
    /\ \A k \in 1..Len(more) : k \in 1..Len(line) \/ more[k].type \in Guilds

LEMMA NothingNewTells ==
    ASSUME NEW line \in Seq(EventOf), NEW more \in Seq(EventOf), NothingNew(line, more),
           NEW o, NEW is
    PROVE  /\ AboutIn(more, o) <=> AboutIn(line, o)
           /\ LastTells(line, o, is) => LastTells(more, o, is)
<1>1. Len(line) \in Nat /\ Len(more) \in Nat
  OBVIOUS
<1>2. \A k \in 1..Len(more) : About(more[k], o) => k \in 1..Len(line)
  BY DEF NothingNew, About, Telling, Gone, Guilds
<1>3. AboutIn(more, o) <=> AboutIn(line, o)
  BY <1>2 DEF NothingNew, AboutIn
<1>4. ASSUME LastTells(line, o, is), NEW k \in 1..Len(more), About(more[k], o),
             \A j \in k + 1..Len(more) : ~About(more[j], o)
      PROVE  Tells(more[k], o, is)
  <2>1. k \in 1..Len(line) /\ more[k] = line[k]
    BY <1>2, <1>4 DEF NothingNew
  <2>2. ASSUME NEW j \in k + 1..Len(line) PROVE ~About(line[j], o)
    <3>1. j \in 1..Len(line)
      BY <1>1
    <3>2. j \in 1..Len(more) /\ more[j] = line[j]
      BY <3>1 DEF NothingNew
    <3>3. j \in k + 1..Len(more)
      BY <1>1, <3>2
    <3> QED
      BY <1>4, <3>2, <3>3
  <2> QED
    BY <1>4, <2>1, <2>2 DEF LastTells
<1> QED
  BY <1>3, <1>4 DEF LastTells

LEMMA OutageKeeps ==
    ASSUME GuildInv, Outage, TypeOK'
    PROVE  GuildInv'
<1> USE DEF GuildInv
<1>1. PICK d \in EventOf, c \in EventOf :
        /\ d = Event("GUILD_DELETE", None, FALSE) /\ c = GuildCreated
        /\ Emit(<<d, c>>)
  BY EventTypes DEF Outage
<1>2. d.type \in Guilds /\ c.type \in Guilds /\ EventSound(d) /\ EventSound(c)
  <2>1. d.type = "GUILD_DELETE" /\ DOMAIN d.list = {}
    BY <1>1 DEF Event, None
  <2>2. c.type = "GUILD_CREATE" /\ c.list = Existing(RoleOrChannel \cup {Guild})
    BY <1>1 DEF Event, GuildCreated
  <2>3. \A o \in DOMAIN c.list : Exists(o)
    BY <2>2 DEF Existing
  <2> QED
    BY <2>1, <2>2, <2>3 DEF Guilds, EventSound, WereAll, EverWas
<1>3. /\ UNCHANGED <<world, gone, asked, answering, link, accounts, allReady, guildOf>>
      /\ UNCHANGED <<memberUserIDs, process, pending, store, lost, newcomers>>
  BY DEF Outage, UnchangedByDiscord, discord, download, main
<1>4. \A a \in Account : events[a] \in Seq(EventOf) /\ events'[a] \in Seq(EventOf)
  BY DEF TypeOK
<1>5. ASSUME NEW a \in Account
      PROVE  /\ NothingNew(events[a], events'[a])
             /\ \A k \in 1..Len(events'[a]) : EventSound(events'[a][k])
             /\ a \notin accounts => events'[a] = <<>>
  <2>1. CASE a \notin accounts
    <3>1. events[a] = <<>> /\ events'[a] = <<>>
      BY <1>1, <2>1 DEF Connected, Emit
    <3> QED
      BY <2>1, <3>1 DEF NothingNew
  <2>2. CASE a \in accounts
    <3>1. events'[a] = events[a] \o <<d, c>>
      BY <1>1, <2>2 DEF Connected, Emit
    <3> DEFINE more == events'[a]
               n == Len(events[a])
    <3>2. /\ n \in Nat /\ Len(more) = n + 2 /\ more[n + 1] = d /\ more[n + 2] = c
          /\ \A k \in 1..n : more[k] = events[a][k]
      BY <1>4, <3>1
    <3> HIDE DEF more
    <3>3. \A k \in 1..Len(more) : k \in 1..n \/ k = n + 1 \/ k = n + 2
      BY <3>2
    <3>4. \A k \in 1..n : k \in 1..Len(more)
      BY <3>2
    <3>5. NothingNew(events[a], more)
      BY <1>2, <3>2, <3>3, <3>4 DEF NothingNew
    <3>6. \A k \in 1..Len(more) : EventSound(more[k])
      BY <1>2, <3>2, <3>3 DEF EventsSound
    <3> QED
      BY <2>2, <3>5, <3>6 DEF more
  <2> QED
    BY <2>1, <2>2
<1>6. \A a \in Account, o \in Subject : AboutIn(events[a], o)' <=> AboutIn(events[a], o)
  BY <1>4, <1>5, NothingNewTells
<1>7. Connected'
  BY <1>3, <1>5 DEF Connected
<1>8. EventsSound'
  <2>1. \A a \in Account : \A k \in 1..Len(events'[a]) : EventSound(events[a][k])'
    BY <1>3, <1>5 DEF EventSound, WereAll, EverWas, Exists
  <2> QED
    BY <2>1 DEF EventsSound
<1>9. PendingSound' /\ StoreSound'
  BY <1>3 DEF PendingSound, StoreSound, WereAll, EverWas, Exists, Complete
<1>10. LinesTell'
  BY <1>3, <1>4, <1>5, NothingNewTells DEF LinesTell
<1>11. Announced'
  <2> SUFFICES ASSUME process' # "down", guildOf' = Null
               PROVE  pending' = <<>> /\ \A a \in accounts' : \E k \in 1..Len(events'[a]) : Announces(events[a], k)'
    BY DEF Announced
  <2>1. pending = <<>> /\ \A a \in accounts : \E k \in 1..Len(events[a]) : Announces(events[a], k)
    BY <1>3 DEF Announced
  <2>2. ASSUME NEW a \in accounts PROVE \E k \in 1..Len(events'[a]) : Announces(events[a], k)'
    <3>0. a \in Account /\ GuildObject \subseteq Subject
      BY DEF TypeOK, Subject
    <3>1. PICK k \in 1..Len(events[a]) : Announces(events[a], k)
      BY <2>1
    <3>2. \A j \in 1..k : j \in 1..Len(events[a])
      BY <1>4, <3>0
    <3>3. k \in 1..k /\ \A j \in 1..k - 1 : j \in 1..k
      OBVIOUS
    <3>4. /\ k \in 1..Len(events'[a])
          /\ events'[a][k] = events[a][k]
          /\ \A j \in 1..k - 1 : events'[a][j] = events[a][j]
      BY <1>5, <3>0, <3>2, <3>3 DEF NothingNew
    <3>5. Announces(events[a], k)'
      BY <1>3, <1>6, <3>0, <3>1, <3>4 DEF Announces, Complete, Exists
    <3> QED
      BY <3>4, <3>5
  <2> QED
    BY <1>3, <2>1, <2>2
<1>12. ASSUME NEW o \in Subject PROVE Undisturbed(o)
  <2>1. Awaited(o)' <=> Awaited(o)
    BY <1>6 DEF Awaited
  <2>2. Coming(o) => Coming(o)'
    BY <1>3, <2>1 DEF Coming
  <2>3. InList(o) => InList(o)'
    BY <1>3, <1>5 DEF InList, NothingNew
  <2>4. BeingListed' => BeingListed
    <3>1. \A a \in Account : \A k \in 1..Len(events'[a]) :
            events'[a][k].type = "CHUNK" => k \in 1..Len(events[a]) /\ events'[a][k] = events[a][k]
      BY <1>5 DEF NothingNew, Guilds
    <3> QED
      BY <1>3, <3>1, <1>4 DEF BeingListed
  <2>5. ListToCome => ListToCome'
    BY <1>3, <1>5 DEF ListToCome, NothingNew
  <2> QED
    BY <1>3, <2>1, <2>2, <2>3, <2>4, <2>5 DEF Undisturbed
<1>13. GuildComing' /\ MembersComing'
  BY <1>3, <1>12, AllStillComing DEF Exists
<1> QED
  BY <1>7, <1>8, <1>9, <1>10, <1>11, <1>13

-----------------------------------------------------------------------------
(* Chunks.                                                                 *)
LEMMA SendChunkKeeps ==
    ASSUME GuildInv, SendChunk, TypeOK'
    PROVE  GuildInv'
<1> USE DEF GuildInv
<1>1. PICK k \in 1..Len(Chunks), list \in List :
        /\ k = IF answering > 0 THEN answering ELSE 1
        /\ DOMAIN list \cap GuildObject = {}
        /\ DOMAIN list \cap Member = {m \in Chunks[k] : Exists(m)}
        /\ \A o \in DOMAIN list : list[o] = world[o]
        /\ events' = [events EXCEPT ![guildOf] = Append(@, Event("CHUNK", list, k = Len(Chunks)))]
        /\ answering' = IF k = Len(Chunks) THEN 0 ELSE k + 1
        /\ asked' = IF answering > 0 THEN asked ELSE asked - 1
  BY ChunkSent
<1>2. PICK g \in Account : g = guildOf /\ g \in accounts
  BY DEF SendChunk, TypeOK
<1>3. PICK e \in EventOf : e = Event("CHUNK", list, k = Len(Chunks))
  <2>1. Event("CHUNK", list, k = Len(Chunks)) \in EventOf
    BY DEF Event, EventOf, EventType
  <2> QED
    BY <2>1
<1>4. /\ e.type = "CHUNK" /\ e.list = list /\ e.last = (k = Len(Chunks))
      /\ RoleOrChannel \subseteq GuildObject
  BY <1>3 DEF Event, GuildObject
<1>5. /\ UNCHANGED <<world, gone, link, accounts, allReady, guildOf>>
      /\ UNCHANGED <<memberUserIDs, process, pending, store, lost, newcomers>>
      /\ answering > 0 \/ asked > 0
  BY DEF SendChunk, UnchangedByDiscord, discord, main
<1>6. \A a \in Account : events[a] \in Seq(EventOf)
  BY DEF TypeOK
<1>7. \A a \in Account : events'[a] = IF a = g THEN Append(events[a], e) ELSE events[a]
  BY <1>1, <1>2, <1>3 DEF TypeOK
<1>g. /\ Len(events[g]) \in Nat /\ Len(events'[g]) = Len(events[g]) + 1
      /\ events'[g][Len(events[g]) + 1] = e
      /\ \A j \in 1..Len(events[g]) : events'[g][j] = events[g][j]
  <2>1. events'[g] = Append(events[g], e) /\ events[g] \in Seq(EventOf)
    BY <1>6, <1>7
  <2> QED
    BY <2>1, AppendParts
<1>8. \A a \in Account : \A j \in 1..Len(events[a]) :
        j \in 1..Len(events'[a]) /\ events'[a][j] = events[a][j]
  <2> SUFFICES ASSUME NEW a \in Account, NEW j \in 1..Len(events[a])
               PROVE  j \in 1..Len(events'[a]) /\ events'[a][j] = events[a][j]
    OBVIOUS
  <2>1. CASE a = g
    <3>1. j \in 1..Len(events'[g])
      BY <1>g, <2>1
    <3> QED
      BY <1>g, <2>1, <3>1
  <2>2. CASE a # g
    BY <1>7, <2>2
  <2> QED
    BY <2>1, <2>2
<1>9. \A a \in Account : \A j \in 1..Len(events'[a]) :
        (j \in 1..Len(events[a]) /\ events'[a][j] = events[a][j]) \/ events'[a][j] = e
  <2> SUFFICES ASSUME NEW a \in Account, NEW j \in 1..Len(events'[a])
               PROVE  (j \in 1..Len(events[a]) /\ events'[a][j] = events[a][j]) \/ events'[a][j] = e
    OBVIOUS
  <2>1. CASE a = g
    <3>1. j \in 1..Len(events[g]) \/ j = Len(events[g]) + 1
      BY <1>g, <2>1
    <3> QED
      BY <1>g, <2>1, <3>1
  <2>2. CASE a # g
    BY <1>7, <2>2
  <2> QED
    BY <2>1, <2>2
<1>10. \E j \in 1..Len(events'[g]) : events'[g][j] = e
  <2>1. /\ events'[g][Len(events[g]) + 1] = e
        /\ Len(events[g]) + 1 \in 1..Len(events'[g])
    BY <1>g
  <2> QED
    BY <2>1
<1>11. EventSound(e)
  BY <1>1, <1>4 DEF EventSound, WereAll
<1>12. Connected'
  BY <1>2, <1>5, <1>7 DEF Connected
<1>13. EventsSound'
  <2> SUFFICES ASSUME NEW a \in Account, NEW j \in 1..Len(events'[a])
               PROVE  EventSound(events[a][j])'
    BY DEF EventsSound
  <2>1. EventSound(events'[a][j])
    BY <1>9, <1>11 DEF EventsSound
  <2> QED
    BY <1>5, <2>1 DEF EventSound, WereAll, EverWas, Exists
<1>14. PendingSound' /\ StoreSound'
  BY <1>5 DEF PendingSound, StoreSound, WereAll, EverWas, Exists, Complete
<1>15. \A o \in Subject : About(e, o) <=> o \in DOMAIN list
  BY <1>4 DEF About, Telling
<1>16. \A o \in Subject : About(e, o) => Tells(e, o, world[o])
  <2> SUFFICES ASSUME NEW o \in Subject, o \in DOMAIN list PROVE Tells(e, o, world[o])
    BY <1>15
  <2>1. list[o] \in Props /\ list[o] = world[o]
    BY <1>1, ListParts
  <2> QED
    BY <1>4, <2>1, ConstantFacts DEF Tells, Gone
<1>17. LinesTell'
  <2> SUFFICES ASSUME NEW a \in Account, NEW o \in Subject
               PROVE  LastTells(events'[a], o, world'[o])
    BY DEF LinesTell
  <2>1. LastTells(events[a], o, world[o])
    BY DEF LinesTell
  <2>2. CASE a = g
    <3>1. events'[a] = Append(events[a], e) /\ events[a] \in Seq(EventOf)
      BY <1>6, <1>7, <2>2
    <3>2. LastTells(Append(events[a], e), o, world[o])
      BY <1>16, <2>1, <3>1, AppendLine
    <3> QED
      BY <1>5, <3>1, <3>2
  <2>3. CASE a # g
    BY <1>5, <1>7, <2>1, <2>3
  <2> QED
    BY <2>2, <2>3
<1>18. Announced'
  BY <1>2, <1>5, ConstantFacts DEF Announced
<1>19. \A o \in Subject : /\ Awaited(o) => Awaited(o)'
                          /\ o \in DOMAIN list => Awaited(o)'
                          /\ Awaited(o)' => Awaited(o) \/ o \in DOMAIN list
  <2> SUFFICES ASSUME NEW o \in Subject
               PROVE  /\ Awaited(o) => Awaited(o)'
                      /\ o \in DOMAIN list => Awaited(o)'
                      /\ Awaited(o)' => Awaited(o) \/ o \in DOMAIN list
    OBVIOUS
  <2>1. \A a \in Account : AboutIn(events[a], o) => AboutIn(events'[a], o)
    BY <1>8 DEF AboutIn
  <2>2. About(e, o) => AboutIn(events'[g], o)
    BY <1>10 DEF AboutIn
  <2>3. \A a \in Account : AboutIn(events'[a], o) => AboutIn(events[a], o) \/ About(e, o)
    BY <1>9 DEF AboutIn
  <2> QED
    BY <1>15, <2>1, <2>2, <2>3 DEF Awaited
<1>20. \A o \in Subject : /\ Coming(o) => Coming(o)'
                          /\ o \in DOMAIN list => Coming(o)'
  BY <1>5, <1>19 DEF Coming
<1>21. \A m \in Member : /\ InList(m) => InList(m)'
                         /\ m \in DOMAIN list => InList(m)'
  <2> SUFFICES ASSUME NEW m \in Member
               PROVE  (InList(m) => InList(m)') /\ (m \in DOMAIN list => InList(m)')
    OBVIOUS
  <2>1. InList(m) => InList(m)'
    BY <1>5, <1>8 DEF InList
  <2>2. m \in DOMAIN list => InList(m)'
    BY <1>4, <1>10 DEF InList
  <2> QED
    BY <2>1, <2>2
<1>22. ListToCome'
  <2>1. CASE k = Len(Chunks)
    BY <1>4, <1>10, <2>1 DEF ListToCome
  <2>2. CASE k # Len(Chunks)
    BY <1>1, <2>2 DEF ListToCome
  <2> QED
    BY <2>1, <2>2
<1>23. GuildComing'
  <2>1. GuildObject \subseteq Subject
    BY DEF Subject
  <2> QED
    BY <1>5, <1>20, <2>1 DEF GuildComing
<1>24. ASSUME NEW m \in Member, process' = "up", ~lost'
       PROVE  IF Exists(m)' THEN MemberComing(m)' ELSE LeaveComing(m)'
  <2>0. m \in Subject /\ (Exists(m)' <=> Exists(m))
    BY <1>5 DEF Subject, Exists
  <2>1. IF Exists(m) THEN MemberComing(m) ELSE LeaveComing(m)
    BY <1>5, <1>24 DEF MembersComing
  <2>2. CASE Exists(m)
    <3> SUFFICES ASSUME allReady', guildOf' # Null, m \notin newcomers', ~WillBeListed(m)'
                 PROVE  Coming(m)' /\ InList(m)'
      BY <2>0, <2>2 DEF MemberComing
    <3>1. CASE m \in Chunks[k]
      <4>1. m \in DOMAIN list
        BY <1>1, <2>2, <3>1
      <4> QED
        BY <1>20, <1>21, <2>0, <4>1
    <3>2. CASE m \notin Chunks[k]
      <4>1. ~WillBeListed(m)
        <5> SUFFICES ASSUME WillBeListed(m) PROVE WillBeListed(m)'
          OBVIOUS
        <5>0. asked \in Nat /\ answering \in 0..Len(Chunks) /\ Len(Chunks) \in Nat
          BY ConstantFacts DEF TypeOK
        <5>1. CASE answering > 0 /\ asked > 0
          BY <1>1, <5>1 DEF WillBeListed
        <5>2. CASE answering > 0 /\ ~(asked > 0)
          <6>1. PICK j \in answering..Len(Chunks) : m \in Chunks[j]
            BY <5>2 DEF WillBeListed
          <6>2. k = answering /\ j # k /\ j \in k + 1..Len(Chunks) /\ k # Len(Chunks)
            BY <1>1, <3>2, <5>0, <5>2, <6>1
          <6>3. answering' = k + 1 /\ k + 1 > 0
            BY <1>1, <6>2
          <6> QED
            BY <6>1, <6>2, <6>3 DEF WillBeListed
        <5>3. CASE ~(answering > 0)
          <6>1. PICK j \in 1..Len(Chunks) : m \in Chunks[j]
            BY ConstantFacts
          <6>2. k = 1 /\ j # k /\ j \in 2..Len(Chunks) /\ k # Len(Chunks)
            BY <1>1, <3>2, <5>0, <5>3, <6>1
          <6>3. answering' = 2
            BY <1>1, <6>2
          <6> QED
            BY <6>1, <6>2, <6>3 DEF WillBeListed
        <5> QED
          BY <5>1, <5>2, <5>3
      <4>2. BeingListed
        BY <1>5 DEF BeingListed
      <4>3. Coming(m) /\ InList(m)
        BY <1>5, <2>1, <2>2, <4>1, <4>2 DEF MemberComing
      <4> QED
        BY <1>20, <1>21, <2>0, <4>3
    <3> QED
      BY <3>1, <3>2
  <2>3. CASE ~Exists(m)
    <3>1. LeaveComing(m) /\ m \notin DOMAIN list
      BY <1>1, <2>1, <2>3
    <3> QED
      BY <1>5, <1>19, <1>20, <1>22, <2>0, <2>3, <3>1 DEF LeaveComing
  <2> QED
    BY <2>2, <2>3
<1>25. MembersComing'
  BY <1>24 DEF MembersComing
<1> QED
  BY <1>12, <1>13, <1>14, <1>17, <1>18, <1>23, <1>25

-----------------------------------------------------------------------------
(* Beginnings and ends.                                                    *)
(* A session's first events say nothing but how the guild is. *)
LEMMA NewLine ==
    ASSUME GuildInv
    PROVE  /\ GuildCreated.type = "GUILD_CREATE" /\ EventSound(GuildCreated)
           /\ Complete(GuildCreated.list)
           /\ \A o \in GuildObject :
                IF Exists(o) THEN o \in DOMAIN GuildCreated.list /\ GuildCreated.list[o] = world[o]
                ELSE o \notin DOMAIN GuildCreated.list
<1> USE DEF GuildInv
<1>1. RoleOrChannel \cup {Guild} \in SUBSET Object
  BY ConstantFacts
<1> DEFINE list == Existing(RoleOrChannel \cup {Guild})
<1>2. /\ DOMAIN list = {o \in RoleOrChannel \cup {Guild} : Exists(o)}
      /\ \A o \in DOMAIN list : list[o] = world[o]
  BY <1>1, EventTypes
<1> HIDE DEF list
<1>3. GuildCreated.type = "GUILD_CREATE" /\ GuildCreated.list = list
  BY DEF GuildCreated, Event, list
<1>4. EventSound(GuildCreated)
  BY <1>2, <1>3 DEF EventSound, WereAll, EverWas
<1>5. Complete(list)
  BY <1>2 DEF Complete, StoreSound, EverWas, GuildObject
<1> QED
  BY <1>2, <1>3, <1>4, <1>5 DEF GuildObject

LEMMA StartKeeps ==
    ASSUME GuildInv, Start, TypeOK'
    PROVE  GuildInv'
<1> USE DEF GuildInv
<1>1. /\ process = "down" /\ process' = "up" /\ accounts' # {} /\ accounts' \subseteq Account
      /\ link' = [a \in Account |-> IF a \in accounts' THEN "identified" ELSE "none"]
      /\ UNCHANGED <<world, gone, allReady, guildOf, memberUserIDs, pending, store>>
  <2>1. accounts' # {} /\ accounts' \subseteq Account
    <3>1. accounts' \in (SUBSET Account) \ {{}}
      BY DEF Start
    <3>2. accounts' \subseteq Account
      BY <3>1
    <3>3. accounts' \notin {{}}
      BY <3>1, Zenon
    <3> QED
      BY <3>2, <3>3
  <2>2. UNCHANGED <<world, gone, allReady, guildOf, memberUserIDs, pending, store>>
    BY DEF Start, discord
  <2> QED
    BY <2>1, <2>2 DEF Start
<1>2. accounts = {} /\ pending = <<>> /\ guildOf = Null
  BY <1>1 DEF Connected, TypeOK
<1>3. PICK c \in EventOf : c = GuildCreated
  BY EventTypes
<1>4. PICK d \in EventOf : d = Event("GUILD_DELETE", None, FALSE)
  BY EventTypes
<1>5. d.type = "GUILD_DELETE" /\ EventSound(d)
  <2>1. d.type = "GUILD_DELETE" /\ DOMAIN d.list = {}
    BY <1>4 DEF Event, None
  <2> QED
    BY <2>1 DEF EventSound, WereAll
<1>6. PICK line \in Seq(EventOf) :
        /\ events' = [a \in Account |-> IF a \in accounts' THEN line ELSE <<>>]
        /\ \/ Len(line) = 1 /\ line[1] = c
           \/ Len(line) = 2 /\ line[1] = d /\ line[2] = c
  <2>1. PICK first \in {<<>>, <<Event("GUILD_DELETE", None, FALSE)>>} :
            events' = [a \in Account |-> IF a \in accounts' THEN Append(first, GuildCreated) ELSE <<>>]
    BY DEF Start
  <2>2. CASE first = <<>>
    <3>1. Append(first, GuildCreated) = <<c>>
      BY <1>3, <2>2, LineType
    <3>2. <<c>> \in Seq(EventOf) /\ Len(<<c>>) = 1 /\ <<c>>[1] = c
      OBVIOUS
    <3> QED
      BY <2>1, <3>1, <3>2
  <2>3. CASE first # <<>>
    <3>1. Append(first, GuildCreated) = Append(<<d>>, c)
      BY <1>3, <1>4, <2>3
    <3>2. /\ Append(<<d>>, c) \in Seq(EventOf) /\ Len(Append(<<d>>, c)) = 2
          /\ Append(<<d>>, c)[1] = d /\ Append(<<d>>, c)[2] = c
      BY LineType
    <3> QED
      BY <2>1, <3>1, <3>2
  <2> QED
    BY <2>2, <2>3
<1>7. c.type = "GUILD_CREATE" /\ EventSound(c)
  BY <1>3, NewLine
<1>8. \A k \in 1..Len(line) : line[k].type \in Guilds /\ EventSound(line[k])
  BY <1>5, <1>6, <1>7 DEF Guilds
<1>9. \A a \in Account : \A k \in 1..Len(events'[a]) :
        /\ events'[a][k].type \in Guilds /\ EventSound(events'[a][k])
        /\ \A o : ~About(events'[a][k], o)
  <2>1. \A k \in 1..Len(line) : \A o : ~About(line[k], o)
    BY <1>8 DEF Guilds, About, Telling, Gone
  <2>2. \A a \in Account : events'[a] = line \/ events'[a] = <<>>
    BY <1>6
  <2>3. \A k \in 1..Len(<<>>) : FALSE
    OBVIOUS
  <2> QED
    BY <1>8, <2>1, <2>2, <2>3
<1>10. Connected'
  BY <1>1, <1>6 DEF Connected
<1>11. EventsSound'
  BY <1>1, <1>9 DEF EventsSound, EventSound, WereAll, EverWas, Exists
<1>12. PendingSound' /\ StoreSound'
  BY <1>1 DEF PendingSound, StoreSound, WereAll, EverWas, Exists, Complete
<1>13. LinesTell'
  BY <1>9 DEF LinesTell, LastTells
<1>14. ASSUME NEW a \in accounts' PROVE \E k \in 1..Len(events'[a]) : Announces(events[a], k)'
  <2>1. events'[a] = line
    BY <1>1, <1>6
  <2>2. PICK k \in 1..Len(line) : line[k] = c /\ \A j \in 1..k - 1 : line[j] = d
    <3>1. CASE Len(line) = 1 /\ line[1] = c
      BY <3>1
    <3>2. CASE Len(line) = 2 /\ line[1] = d /\ line[2] = c
      BY <3>2
    <3> QED
      BY <1>6, <3>1, <3>2
  <2>3. /\ Complete(c.list)
        /\ \A o \in GuildObject :
             IF Exists(o) THEN o \in DOMAIN c.list /\ c.list[o] = world[o] ELSE o \notin DOMAIN c.list
    BY <1>3, NewLine
  <2>4. Announces(events[a], k)'
    BY <1>1, <1>5, <1>7, <2>1, <2>2, <2>3 DEF Announces, Complete, Exists
  <2> QED
    BY <2>1, <2>4
<1>15. Announced'
  BY <1>1, <1>2, <1>14 DEF Announced
<1>16. GuildComing'
  BY <1>1, <1>2 DEF GuildComing
<1>17. MembersComing'
  <2>1. \A o : ~Awaited(o)'
    BY <1>9 DEF Awaited, AboutIn
  <2>2. \A m \in Member : MemberComing(m)' /\ LeaveComing(m)'
    BY <1>1, <1>2, <2>1 DEF MemberComing, LeaveComing
  <2> QED
    BY <2>2 DEF MembersComing
<1> QED
  BY <1>10, <1>11, <1>12, <1>13, <1>15, <1>16, <1>17

LEMMA DiesKeeps ==
    ASSUME GuildInv, Dies, TypeOK'
    PROVE  GuildInv'
<1> USE DEF GuildInv
<1>1. /\ process' = "down" /\ accounts' = {} /\ pending' = <<>>
      /\ UNCHANGED <<world, gone, store>>
      /\ \A a \in Account : link'[a] = "none" /\ events'[a] = <<>>
  BY DEF Dies, discord
<1>2. Connected' /\ GuildComing' /\ MembersComing' /\ Announced'
  BY <1>1 DEF Connected, GuildComing, MembersComing, Announced
<1>3. EventsSound' /\ PendingSound'
  BY <1>1 DEF EventsSound, PendingSound
<1>4. StoreSound'
  BY <1>1 DEF StoreSound, EverWas, Exists
<1>5. LinesTell'
  BY <1>1, EmptyLine DEF LinesTell
<1> QED
  BY <1>2, <1>3, <1>4, <1>5

LEMMA LoseSessionKeeps ==
    ASSUME GuildInv, NEW a \in Account, LoseSession(a), TypeOK'
    PROVE  GuildInv'
<1> USE DEF GuildInv
<1>1. /\ link[a] = "lost" /\ link' = [link EXCEPT ![a] = "identified"] /\ lost' = TRUE
      /\ events' = [events EXCEPT ![a] = <<GuildCreated>>]
      /\ UNCHANGED <<world, gone, accounts, guildOf, process, pending, store>>
  BY DEF LoseSession, UnchangedByLink, discord
<1>2. a \in accounts
  BY <1>1 DEF Connected
<1>3. PICK c \in EventOf : c = GuildCreated
  BY EventTypes
<1>4. /\ Len(events'[a]) = 1 /\ events'[a][1] = c
      /\ \A b \in Account \ {a} : events'[b] = events[b]
      /\ \A b \in Account : link'[b] = "none" <=> link[b] = "none"
  BY <1>1, <1>3 DEF TypeOK
<1>5. c.type = "GUILD_CREATE" /\ EventSound(c) /\ \A o : ~About(c, o)
  BY <1>3, NewLine DEF About, Telling, Gone
<1>6. Connected'
  BY <1>1, <1>2, <1>4 DEF Connected
<1>7. EventsSound'
  <2> SUFFICES ASSUME NEW b \in Account, NEW k \in 1..Len(events'[b])
               PROVE  EventSound(events[b][k])'
    BY DEF EventsSound
  <2>1. EventSound(events'[b][k])
    BY <1>4, <1>5 DEF EventsSound
  <2> QED
    BY <1>1, <2>1 DEF EventSound, WereAll, EverWas, Exists
<1>8. PendingSound' /\ StoreSound'
  BY <1>1 DEF PendingSound, StoreSound, WereAll, EverWas, Exists, Complete
<1>9. LinesTell'
  <2> SUFFICES ASSUME NEW b \in Account, NEW o \in Subject
               PROVE  LastTells(events'[b], o, world'[o])
    BY DEF LinesTell
  <2>1. CASE b = a
    BY <1>4, <1>5, <2>1 DEF LastTells
  <2>2. CASE b # a
    BY <1>1, <1>4, <2>2 DEF LinesTell
  <2> QED
    BY <2>1, <2>2
<1>10. Announced'
  <2> SUFFICES ASSUME process' # "down", guildOf' = Null
               PROVE  pending' = <<>> /\ \A b \in accounts' : \E k \in 1..Len(events'[b]) : Announces(events[b], k)'
    BY DEF Announced
  <2>1. pending = <<>> /\ \A b \in accounts : \E k \in 1..Len(events[b]) : Announces(events[b], k)
    BY <1>1 DEF Announced
  <2>2. \E k \in 1..Len(events'[a]) : Announces(events[a], k)'
    <3>1. /\ Complete(c.list)
          /\ \A o \in GuildObject :
               IF Exists(o) THEN o \in DOMAIN c.list /\ c.list[o] = world[o] ELSE o \notin DOMAIN c.list
      BY <1>3, NewLine
    <3>2. 1 \in 1..Len(events'[a]) /\ 1..1 - 1 = {}
      BY <1>4
    <3>3. Announces(events[a], 1)'
      BY <1>1, <1>4, <1>5, <3>1, <3>2 DEF Announces, Complete, Exists
    <3> QED
      BY <3>2, <3>3
  <2>3. ASSUME NEW b \in accounts, b # a
        PROVE  \E k \in 1..Len(events'[b]) : Announces(events[b], k)'
    <3>0. b \in Account
      BY DEF TypeOK
    <3> QED
      BY <1>1, <1>4, <2>1, <2>3, <3>0 DEF Announces, Complete, Exists
  <2> QED
    BY <1>1, <2>1, <2>2, <2>3
<1>11. GuildComing' /\ MembersComing'
  BY <1>1 DEF GuildComing, MembersComing
<1> QED
  BY <1>6, <1>7, <1>8, <1>9, <1>10, <1>11

LEMMA AllReadyKeeps ==
    ASSUME GuildInv, AllReady, TypeOK'
    PROVE  GuildInv'
<1> USE DEF GuildInv
<1>1. /\ process = "up"
      /\ UNCHANGED <<world, gone, answering, events, link, accounts, guildOf, memberUserIDs>>
      /\ UNCHANGED <<pending, store, lost>>
      /\ IF guildOf # Null THEN SyncAllGuildMembers(guildOf) ELSE DoNotSyncMembers
  BY DEF AllReady, discord
<1>2. process' # "down"
  BY <1>1 DEF SyncAllGuildMembers, DoNotSyncMembers
<1>3. Connected'
  BY <1>1, <1>2 DEF Connected
<1>4. EventsSound' /\ PendingSound' /\ StoreSound'
  BY <1>1 DEF EventsSound, EventSound, PendingSound, StoreSound, WereAll, EverWas, Exists, Complete
<1>5. LinesTell'
  BY <1>1 DEF LinesTell
<1>6. Announced'
  BY <1>1, <1>2 DEF Announced, Announces, Complete, Exists
<1>7. \A o \in Subject : (Coming(o)' <=> Coming(o)) /\ (Awaited(o)' <=> Awaited(o))
  BY <1>1 DEF Coming, Awaited
<1>8. GuildComing'
  BY <1>1, <1>7 DEF GuildComing, Subject
<1>9. MembersComing'
  <2> SUFFICES ASSUME process' = "up", ~lost', NEW m \in Member
               PROVE  IF Exists(m)' THEN MemberComing(m)' ELSE LeaveComing(m)'
    BY DEF MembersComing
  <2>0. m \in Subject /\ (Exists(m)' <=> Exists(m))
    BY <1>1 DEF Subject, Exists
  <2>1. IF Exists(m) THEN MemberComing(m) ELSE LeaveComing(m)
    BY <1>1 DEF MembersComing
  <2>2. CASE guildOf = Null
    BY <1>1, <1>7, <2>0, <2>1, <2>2 DEF MemberComing, LeaveComing
  <2>3. CASE guildOf # Null
    <3>1. asked' > 0
      BY <1>1, <2>3 DEF SyncAllGuildMembers, TypeOK
    <3>2. WillBeListed(m)' /\ ListToCome'
      BY <3>1 DEF WillBeListed, ListToCome
    <3> QED
      BY <1>1, <1>7, <2>0, <2>1, <2>3, <3>2 DEF MemberComing, LeaveComing
  <2> QED
    BY <2>2, <2>3
<1> QED
  BY <1>3, <1>4, <1>5, <1>6, <1>8, <1>9

-----------------------------------------------------------------------------
(* Handling an event.                                                      *)
(* The account's line without its first event; a guild was announced unless *)
(* that is one of the events that do.                                       *)
LEMMA TakeFacts ==
    ASSUME GuildInv, NEW a \in Account, NEW type, Take(a, type)
    PROVE  /\ events[a] \in Seq(EventOf) /\ events[a] # <<>> /\ Head(events[a]).type = type
           /\ Head(events[a]) \in EventOf /\ EventSound(Head(events[a]))
           /\ a \in accounts /\ process # "down"
           /\ \A b \in Account : events'[b] = IF b = a THEN Tail(events[a]) ELSE events[b]
           /\ Len(events[a]) \in Nat \ {0} /\ Len(Tail(events[a])) = Len(events[a]) - 1
           /\ Head(events[a]) = events[a][1]
           /\ \A k \in 1..Len(Tail(events[a])) :
                k + 1 \in 1..Len(events[a]) /\ Tail(events[a])[k] = events[a][k + 1]
           /\ \A k \in 1..Len(events[a]) : k = 1 \/
                (k - 1 \in 1..Len(Tail(events[a])) /\ Tail(events[a])[k - 1] = events[a][k])
           /\ guildOf = Null => type \in Guilds
           /\ UNCHANGED <<world, gone, answering, link, accounts, allReady, store, lost>>
<1> USE DEF GuildInv
<1>1. events[a] \in Seq(EventOf) /\ events[a] # <<>> /\ Head(events[a]).type = type
  BY DEF TypeOK, Take
<1>2. /\ Len(events[a]) \in Nat \ {0} /\ Len(Tail(events[a])) = Len(events[a]) - 1
      /\ Head(events[a]) = events[a][1] /\ Head(events[a]) \in EventOf
      /\ \A k \in 1..Len(Tail(events[a])) : Tail(events[a])[k] = events[a][k + 1]
  BY <1>1
<1> DEFINE line == events[a]
           rest == Tail(events[a])
<1> HIDE DEF line, rest
<1>3. /\ Len(line) \in Nat \ {0} /\ Len(rest) = Len(line) - 1
      /\ \A k \in 1..Len(rest) : rest[k] = line[k + 1]
  BY <1>2 DEF line, rest
<1>4. \A k \in 1..Len(rest) : k + 1 \in 1..Len(line)
  BY <1>3
<1>5. \A k \in 1..Len(line) : k = 1 \/ (k - 1 \in 1..Len(rest) /\ rest[k - 1] = line[k])
  BY <1>3
<1>6. 1 \in 1..Len(line)
  BY <1>3
<1>7. EventSound(Head(events[a]))
  BY <1>2, <1>6 DEF line, EventsSound
<1>8. a \in accounts /\ process # "down"
  BY <1>1 DEF Connected, Take
<1>9. \A b \in Account : events'[b] = IF b = a THEN Tail(events[a]) ELSE events[b]
  BY DEF Take, TypeOK
<1>10. guildOf = Null => type \in Guilds
  <2> SUFFICES ASSUME guildOf = Null PROVE type \in Guilds
    OBVIOUS
  <2>1. PICK k \in 1..Len(line) : Announces(line, k)
    BY <1>8 DEF Announced, line
  <2>2. line[1].type = type
    BY <1>1, <1>2 DEF line
  <2>3. CASE k = 1
    BY <2>1, <2>2, <2>3 DEF Announces, Guilds
  <2>4. CASE k # 1
    <3>1. 1 \in 1..k - 1
      BY <1>3, <2>4
    <3> QED
      BY <2>1, <2>2, <3>1 DEF Announces, Guilds
  <2> QED
    BY <2>3, <2>4
<1>11. UNCHANGED <<world, gone, answering, link, accounts, allReady, store, lost>>
  BY DEF Take, discord
<1> QED
  BY <1>1, <1>2, <1>4, <1>5, <1>7, <1>8, <1>9, <1>10, <1>11 DEF line, rest

(* What holds after whatever event was taken. *)
LEMMA TakeKeeps ==
    ASSUME GuildInv, NEW a \in Account, NEW type, Take(a, type), process' # "down", TypeOK'
    PROVE  /\ Connected' /\ EventsSound' /\ StoreSound' /\ LinesTell'
           /\ \A list : WereAll(list)' <=> WereAll(list)
           /\ \A list : Complete(list)' <=> Complete(list)
           /\ \A o : Exists(o)' <=> Exists(o)
<1> USE DEF GuildInv
<1>1. UNCHANGED <<world, gone, answering, link, accounts, allReady, store, lost>>
  BY TakeFacts
<1>2. \A list : WereAll(list)' <=> WereAll(list)
  BY <1>1 DEF WereAll, EverWas, Exists
<1>3. \A list : Complete(list)' <=> Complete(list)
  BY <1>1 DEF Complete
<1>4. StoreSound'
  BY <1>1 DEF StoreSound, EverWas, Exists
<1>5. Connected'
  BY <1>1, TakeFacts DEF Connected
<1>6. EventsSound'
  <2> SUFFICES ASSUME NEW b \in Account, NEW k \in 1..Len(events'[b])
               PROVE  EventSound(events[b][k])'
    BY DEF EventsSound
  <2>1. EventSound(events'[b][k])
    <3>1. CASE b = a
      <4>0. events'[b] = Tail(events[a])
        BY <3>1, TakeFacts
      <4>1. k + 1 \in 1..Len(events[a]) /\ events'[b][k] = events[a][k + 1]
        BY <4>0, TakeFacts
      <4> QED
        BY <4>1 DEF EventsSound
    <3>2. CASE b # a
      BY <3>2, TakeFacts DEF EventsSound
    <3> QED
      BY <3>1, <3>2
  <2> QED
    BY <1>1, <2>1 DEF EventSound, WereAll, EverWas, Exists
<1>7. LinesTell'
  <2> SUFFICES ASSUME NEW b \in Account, NEW o \in Subject
               PROVE  LastTells(events'[b], o, world'[o])
    BY DEF LinesTell
  <2>1. LastTells(events[b], o, world[o])
    BY DEF LinesTell
  <2>2. CASE b = a
    <3>1. events[a] \in Seq(EventOf) /\ events[a] # <<>> /\ events'[b] = Tail(events[a])
      BY <2>2, TakeFacts
    <3>2. LastTells(Tail(events[a]), o, world[o])
      BY <2>1, <2>2, <3>1, TailLine
    <3> QED
      BY <1>1, <3>1, <3>2
  <2>3. CASE b # a
    BY <1>1, <2>1, <2>3, TakeFacts
  <2> QED
    BY <2>2, <2>3
<1>8. \A o : Exists(o)' <=> Exists(o)
  BY <1>1 DEF Exists
<1> QED
  BY <1>2, <1>3, <1>4, <1>5, <1>6, <1>7, <1>8

(* What is said of an object after an event was taken. *)
LEMMA TakeSays ==
    ASSUME GuildInv, NEW a \in Account, NEW type, Take(a, type), NEW o \in Subject
    PROVE  /\ Awaited(o)' => Awaited(o)
           /\ Awaited(o) => Awaited(o)' \/
                (About(Head(events[a]), o) /\ Tells(Head(events[a]), o, world[o]))
           /\ About(Head(events[a]), o) => Awaited(o)
           /\ About(Head(events[a]), o) => Awaited(o)' \/ Tells(Head(events[a]), o, world[o])
<1>1. /\ events[a] \in Seq(EventOf) /\ events[a] # <<>>
      /\ \A b \in Account : events'[b] = IF b = a THEN Tail(events[a]) ELSE events[b]
  BY TakeFacts
<1>2. LastTells(events[a], o, world[o])
  BY DEF GuildInv, LinesTell
<1>3. /\ AboutIn(events[a], o) <=> About(Head(events[a]), o) \/ AboutIn(Tail(events[a]), o)
      /\ About(Head(events[a]), o) =>
            Tells(Head(events[a]), o, world[o]) \/ AboutIn(Tail(events[a]), o)
  BY <1>1, <1>2, TailLine
<1> QED
  BY <1>1, <1>3 DEF Awaited

(* The lists of members after an event was taken. *)
LEMMA TakeLists ==
    ASSUME GuildInv, NEW a \in Account, NEW type, Take(a, type), asked' = asked
    PROVE  /\ BeingListed' => BeingListed
           /\ type = "CHUNK" => BeingListed
           /\ ListToCome => ListToCome' \/ (type = "CHUNK" /\ Head(events[a]).last)
           /\ \A m : InList(m) =>
                \/ m \in memberUserIDs
                \/ type = "CHUNK" /\ m \in DOMAIN Head(events[a]).list
                \/ \E b \in Account : \E k \in 1..Len(events'[b]) :
                     events'[b][k].type = "CHUNK" /\ m \in DOMAIN events'[b][k].list
<1>1. asked' = asked /\ answering' = answering /\ Head(events[a]).type = type
  BY TakeFacts
<1> DEFINE line == events[a]
           rest == Tail(events[a])
<1>2. /\ \A b \in Account : events'[b] = IF b = a THEN rest ELSE events[b]
      /\ Len(line) \in Nat \ {0} /\ Head(line) = line[1]
      /\ \A k \in 1..Len(rest) : k + 1 \in 1..Len(line) /\ rest[k] = line[k + 1]
      /\ \A k \in 1..Len(line) : k = 1 \/ (k - 1 \in 1..Len(rest) /\ rest[k - 1] = line[k])
  BY TakeFacts
<1> HIDE DEF line, rest
<1>3. \A b \in Account : \A k \in 1..Len(events'[b]) :
        \E j \in 1..Len(events[b]) : events[b][j] = events'[b][k]
  <2> SUFFICES ASSUME NEW b \in Account, NEW k \in 1..Len(events'[b])
               PROVE  \E j \in 1..Len(events[b]) : events[b][j] = events'[b][k]
    OBVIOUS
  <2>1. CASE b = a
    BY <1>2, <2>1 DEF line
  <2>2. CASE b # a
    BY <1>2, <2>2
  <2> QED
    BY <2>1, <2>2
<1>4. \A b \in Account : \A k \in 1..Len(events[b]) :
        \/ b = a /\ events[b][k] = Head(events[a])
        \/ \E j \in 1..Len(events'[b]) : events'[b][j] = events[b][k]
  <2> SUFFICES ASSUME NEW b \in Account, NEW k \in 1..Len(events[b])
               PROVE  \/ b = a /\ events[b][k] = Head(events[a])
                      \/ \E j \in 1..Len(events'[b]) : events'[b][j] = events[b][k]
    OBVIOUS
  <2>1. CASE b = a
    BY <1>2, <2>1 DEF line
  <2>2. CASE b # a
    BY <1>2, <2>2
  <2> QED
    BY <2>1, <2>2
<1>5. BeingListed' => BeingListed
  <2>1. ASSUME NEW b \in Account, NEW k \in 1..Len(events'[b]), events'[b][k].type = "CHUNK"
        PROVE  \E j \in 1..Len(events[b]) : events[b][j].type = "CHUNK"
    BY <1>3, <2>1
  <2>2. \A b \in Account : /\ events[b] \in Seq(EventOf) /\ events'[b] \in Seq(EventOf)
                            /\ DOMAIN events[b] = 1..Len(events[b])
                            /\ DOMAIN events'[b] = 1..Len(events'[b])
    BY TakeType DEF GuildInv, TypeOK
  <2> QED
    BY <1>1, <2>1, <2>2 DEF BeingListed
<1>6. type = "CHUNK" => BeingListed
  <2>1. 1 \in 1..Len(events[a]) /\ events[a][1].type = type
    BY <1>1, <1>2 DEF line
  <2> QED
    BY <2>1 DEF BeingListed
<1>7. ListToCome => ListToCome' \/ (type = "CHUNK" /\ Head(events[a]).last)
  BY <1>1, <1>4 DEF ListToCome
<1>8. ASSUME NEW m, InList(m)
      PROVE  \/ m \in memberUserIDs
             \/ type = "CHUNK" /\ m \in DOMAIN Head(events[a]).list
             \/ \E b \in Account : \E k \in 1..Len(events'[b]) :
                  events'[b][k].type = "CHUNK" /\ m \in DOMAIN events'[b][k].list
  BY <1>1, <1>4, <1>8 DEF InList
<1> QED
  BY <1>5, <1>6, <1>7, <1>8

(* An event that does not announce the guild leaves it announced. *)
LEMMA TakeAnnounced ==
    ASSUME GuildInv, NEW a \in Account, NEW type, Take(a, type), type # "GUILD_CREATE",
           UNCHANGED pending \/ guildOf' # Null, guildOf' = guildOf, TypeOK'
    PROVE  Announced'
<1> USE DEF GuildInv
<1> SUFFICES ASSUME process' # "down", guildOf' = Null
             PROVE  pending' = <<>> /\ \A b \in accounts' : \E k \in 1..Len(events'[b]) : Announces(events[b], k)'
  BY DEF Announced
<1>1. UNCHANGED <<world, gone, answering, link, accounts, allReady, store, lost>>
  BY TakeFacts
<1>2. /\ pending = <<>> /\ \A b \in accounts : \E k \in 1..Len(events[b]) : Announces(events[b], k)
  BY TakeFacts DEF Announced
<1>3. ASSUME NEW b \in accounts PROVE \E k \in 1..Len(events'[b]) : Announces(events[b], k)'
  <2>0. b \in Account
    BY DEF TypeOK
  <2>1. PICK k \in 1..Len(events[b]) : Announces(events[b], k)
    BY <1>2
  <2>2. CASE b # a
    <3>1. events'[b] = events[b]
      BY <2>0, <2>2, TakeFacts
    <3> QED
      BY <1>1, <2>1, <3>1 DEF Announces, Complete, Exists
  <2>3. CASE b = a
    <3> DEFINE line == events[a]
               rest == Tail(events[a])
    <3>1. events'[b] = rest /\ line[1].type = type /\ Len(line) \in Nat
      BY <2>3, TakeFacts
    <3>2. k # 1
      BY <2>1, <2>3, <3>1 DEF Announces
    <3>3. k - 1 \in 1..Len(rest) /\ rest[k - 1] = line[k]
      BY <2>3, <3>2, TakeFacts
    <3>4. ASSUME NEW j \in 1..k - 1 - 1 PROVE rest[j].type = "GUILD_DELETE"
      <4>0. Len(rest) \in Nat
        BY TakeFacts
      <4>1. j \in 1..Len(rest) /\ j + 1 \in 1..k - 1
        BY <3>1, <3>3, <4>0
      <4>2. rest[j] = line[j + 1]
        BY <4>1, TakeFacts
      <4> QED
        BY <2>1, <2>3, <4>1, <4>2 DEF Announces
    <3>5. \A o \in GuildObject : AboutIn(line, o) => AboutIn(rest, o)
      <4>1. 1 \in 1..k - 1
        BY <2>3, <3>1, <3>2
      <4>2. type = "GUILD_DELETE"
        BY <2>1, <2>3, <3>1, <4>1 DEF Announces
      <4>3. \A o : ~About(Head(events[a]), o)
        BY <4>2, TakeFacts DEF About, Telling, Gone
      <4> QED
        BY <4>3, TailLine, TakeFacts
    <3>6. Announces(rest, k - 1)
      BY <2>1, <2>3, <3>3, <3>4, <3>5 DEF Announces
    <3>7. Announces(events[b], k - 1)'
      BY <1>1, <3>1, <3>6 DEF Announces, Complete, Exists
    <3> QED
      BY <3>1, <3>3, <3>7
  <2> QED
    BY <2>2, <2>3
<1> QED
  BY <1>1, <1>2, <1>3

(* A transaction posted for an event is sound if the event was. *)
LEMMA PostedSound ==
    ASSUME NEW txs \in Seq(Transaction), NEW tx \in Transaction,
           \A k \in 1..Len(txs) :
                /\ WereAll(txs[k].list)
                /\ txs[k].op = "delete" => DOMAIN txs[k].list \subseteq gone
                /\ txs[k].op = "guild" => k = 1 /\ Complete(txs[k].list),
           WereAll(tx.list), tx.op = "delete" => DOMAIN tx.list \subseteq gone,
           tx.op = "guild" => txs = <<>> /\ Complete(tx.list)
    PROVE  \A k \in 1..Len(Append(txs, tx)) :
                /\ WereAll(Append(txs, tx)[k].list)
                /\ Append(txs, tx)[k].op = "delete" => DOMAIN Append(txs, tx)[k].list \subseteq gone
                /\ Append(txs, tx)[k].op = "guild" => k = 1 /\ Complete(Append(txs, tx)[k].list)
<1> DEFINE more == Append(txs, tx)
           n == Len(txs)
<1>1. /\ n \in Nat /\ Len(more) = n + 1 /\ more[n + 1] = tx
      /\ \A k \in 1..n : more[k] = txs[k]
  OBVIOUS
<1>2. txs = <<>> => n = 0
  OBVIOUS
<1> HIDE DEF more
<1>3. \A k \in 1..Len(more) : k \in 1..n \/ k = n + 1
  BY <1>1
<1>4. ASSUME NEW k \in 1..Len(more)
      PROVE  /\ WereAll(more[k].list)
             /\ more[k].op = "delete" => DOMAIN more[k].list \subseteq gone
             /\ more[k].op = "guild" => k = 1 /\ Complete(more[k].list)
  <2>1. CASE k \in 1..n
    BY <1>1, <2>1
  <2>2. CASE k = n + 1
    BY <1>1, <1>2, <2>2
  <2> QED
    BY <1>3, <2>1, <2>2
<1> QED
  BY <1>4 DEF more

(* What was coming comes still if the transaction brings what the event told. *)
LEMMA PostedComing ==
    ASSUME GuildInv, NEW a \in Account, NEW type, Take(a, type), NEW tx \in Transaction,
           NEW o \in Subject,
           Concerns(tx, o) <=> About(Head(events[a]), o),
           About(Head(events[a]), o) /\ Tells(Head(events[a]), o, world[o])
                => Brings(tx, o, world[o])
    PROVE  Coming(o) => Awaited(o)' \/ WillHave(store[o], Append(pending, tx), o, world[o])
<1> SUFFICES ASSUME Coming(o), ~Awaited(o)'
             PROVE  WillHave(store[o], Append(pending, tx), o, world[o])
  OBVIOUS
<1>1. pending \in Seq(Transaction)
  BY DEF GuildInv, TypeOK
<1>2. CASE About(Head(events[a]), o)
  <2>1. Concerns(tx, o) /\ Brings(tx, o, world[o])
    BY <1>2, TakeSays
  <2> QED
    BY <1>1, <2>1, AppendTx
<1>3. CASE ~About(Head(events[a]), o)
  <2>1. ~Awaited(o) /\ ~Concerns(tx, o)
    BY <1>3, TakeSays
  <2>2. WillHave(store[o], pending, o, world[o])
    BY <2>1 DEF Coming
  <2> QED
    BY <1>1, <2>1, <2>2, AppendTx
<1> QED
  BY <1>2, <1>3

(* An event that is only recorded. *)
LEMMA PostedKeeps ==
    ASSUME GuildInv, NEW a \in Account, NEW type \in {"CREATE", "UPDATE", "DELETE", "MEMBER_REMOVE"},
           Take(a, type), NEW tx \in Transaction,
           pending' = Append(pending, tx), UNCHANGED <<guildOf, memberUserIDs>>,
           DoNotSyncMembers, TypeOK',
           DOMAIN tx.list = DOMAIN Head(events[a]).list,
           tx.op = IF type = "DELETE" THEN "delete" ELSE "add",
           type \in {"CREATE", "UPDATE"} => tx.list = Head(events[a]).list,
           type = "MEMBER_REMOVE" => \A m \in DOMAIN tx.list : tx.list[m] = LeftProps
    PROVE  GuildInv'
<1> USE DEF GuildInv
<1>1. UNCHANGED <<world, gone, answering, link, accounts, allReady, store, lost>>
  BY TakeFacts
<1>2. UNCHANGED <<requesting, newcomers, asked, process>> /\ process # "down"
  BY TakeFacts DEF DoNotSyncMembers
<1>3. /\ Connected' /\ EventsSound' /\ StoreSound' /\ LinesTell'
      /\ \A list : WereAll(list)' <=> WereAll(list)
      /\ \A list : Complete(list)' <=> Complete(list)
      /\ \A o : Exists(o)' <=> Exists(o)
  BY <1>2, TakeKeeps
<1>4. /\ Head(events[a]).type = type /\ EventSound(Head(events[a])) /\ Head(events[a]) \in EventOf
      /\ pending \in Seq(Transaction)
  BY TakeFacts DEF TypeOK
<1>5. guildOf # Null
  BY TakeFacts DEF Guilds
<1>6. PendingSound'
  <2>1. WereAll(tx.list) /\ (tx.op = "delete" => DOMAIN tx.list \subseteq gone) /\ tx.op # "guild"
    BY <1>4 DEF EventSound, WereAll
  <2>2. \A k \in 1..Len(Append(pending, tx)) :
            /\ WereAll(Append(pending, tx)[k].list)
            /\ Append(pending, tx)[k].op = "delete" => DOMAIN Append(pending, tx)[k].list \subseteq gone
            /\ Append(pending, tx)[k].op = "guild" => k = 1 /\ Complete(Append(pending, tx)[k].list)
    BY <1>4, <2>1, PostedSound DEF PendingSound
  <2> QED
    BY <1>1, <1>3, <2>2 DEF PendingSound
<1>7. Announced'
  BY <1>5, TakeAnnounced
<1>8. ASSUME NEW o \in Subject
      PROVE  /\ Concerns(tx, o) <=> About(Head(events[a]), o)
             /\ About(Head(events[a]), o) /\ Tells(Head(events[a]), o, world[o])
                    => Brings(tx, o, world[o])
  <2>1. About(Head(events[a]), o) <=> o \in DOMAIN Head(events[a]).list
    BY <1>4 DEF About, Telling, Gone
  <2>2. Concerns(tx, o) <=> o \in DOMAIN tx.list
    BY DEF Concerns
  <2>3. type = "MEMBER_REMOVE" => DOMAIN tx.list \subseteq Member
    BY <1>4 DEF EventSound
  <2>4. ASSUME o \in DOMAIN tx.list, Tells(Head(events[a]), o, world[o])
        PROVE  Brings(tx, o, world[o])
    <3>1. CASE type \in {"CREATE", "UPDATE"}
      BY <1>4, <2>4, <3>1 DEF Brings, Tells, Gone
    <3>2. CASE type = "DELETE"
      BY <1>4, <2>4, <3>2 DEF Brings, Tells, Gone
    <3>3. CASE type = "MEMBER_REMOVE"
      BY <1>4, <2>3, <2>4, <3>3 DEF Brings, Tells, Gone
    <3> QED
      BY <3>1, <3>2, <3>3
  <2> QED
    BY <2>1, <2>2, <2>4
<1>9. ASSUME NEW o \in Subject PROVE Undisturbed(o)
  <2>1. Coming(o) => Coming(o)'
    <3>1. Coming(o) => Awaited(o)' \/ WillHave(store[o], Append(pending, tx), o, world[o])
      BY <1>8, PostedComing
    <3> QED
      BY <1>1, <3>1 DEF Coming
  <2>2. Awaited(o)' => Awaited(o)
    BY TakeSays
  <2>3. InList(o) => InList(o)'
    BY <1>2, TakeLists DEF InList
  <2>4. (BeingListed' => BeingListed) /\ (ListToCome => ListToCome')
    BY <1>2, TakeLists
  <2> QED
    BY <1>1, <1>2, <2>1, <2>2, <2>3, <2>4 DEF Undisturbed
<1>10. GuildComing' /\ MembersComing'
  BY <1>1, <1>2, <1>3, <1>9, AllStillComing
<1> QED
  BY <1>3, <1>6, <1>7, <1>10

LEMMA RecordKeeps ==
    ASSUME GuildInv, NEW a \in Account, TypeOK',
           ObjectCreate(a) \/ ObjectUpdate(a) \/ ObjectDelete(a) \/ MemberRemove(a)
    PROVE  GuildInv'
<1>0. \A realtime \in BOOLEAN : At(realtime) \in Timing /\ Null \in Timing
  BY AtType DEF GuildInv
<1>1. ASSUME NEW type, NEW op \in TxOp, NEW timing, timing \in Timing, Record(a, type, op, timing),
             type \in {"CREATE", "UPDATE", "DELETE"},
             op = IF type = "DELETE" THEN "delete" ELSE "add"
      PROVE  GuildInv'
  <2>1. Take(a, type)
    BY <1>1 DEF Record
  <2>2. Head(events[a]).list \in List
    BY <2>1, TakeFacts DEF EventOf
  <2>3. PICK tx \in Transaction : tx = Tx(op, Head(events[a]).list, timing)
    BY <1>1, <2>2, TxType
  <2>4. tx.op = op /\ tx.list = Head(events[a]).list
    BY <2>3 DEF Tx
  <2>5. pending' = Append(pending, tx) /\ UNCHANGED <<guildOf, memberUserIDs>> /\ DoNotSyncMembers
    BY <1>1, <2>3 DEF Record
  <2> QED
    BY <1>1, <2>1, <2>4, <2>5, PostedKeeps
<1>2. CASE ObjectCreate(a)
  <2>1. PICK o \in Object : Record(a, "CREATE", "add", IF KindOf[o] = "channel" THEN Null ELSE At(Live(a)))
    BY <1>2 DEF ObjectCreate
  <2>2. PICK timing \in Timing : timing = IF KindOf[o] = "channel" THEN Null ELSE At(Live(a))
    BY <1>0 DEF Live
  <2> QED
    BY <1>1, <2>1, <2>2 DEF TxOp
<1>3. CASE ObjectUpdate(a)
  <2>1. PICK timing \in Timing : timing = At(Live(a))
    BY <1>0 DEF Live
  <2> QED
    BY <1>1, <1>3, <2>1 DEF TxOp, ObjectUpdate
<1>4. CASE ObjectDelete(a)
  <2>1. PICK timing \in Timing : timing = At(Live(a))
    BY <1>0 DEF Live
  <2> QED
    BY <1>1, <1>4, <2>1 DEF TxOp, ObjectDelete
<1>5. CASE MemberRemove(a)
  <2>1. Take(a, "MEMBER_REMOVE")
    BY <1>5 DEF MemberRemove
  <2>2. Head(events[a]).list \in List
    BY <2>1, TakeFacts DEF EventOf
  <2>3. [m \in DOMAIN Head(events[a]).list |-> LeftProps] \in List
    BY <2>2, ListParts, MapToList
  <2>4. At(Live(a)) \in Timing
    BY <1>0 DEF Live
  <2>5. PICK tx \in Transaction :
            tx = Tx("add", [m \in DOMAIN Head(events[a]).list |-> LeftProps], At(Live(a)))
    BY <2>3, <2>4, TxType DEF TxOp
  <2>6. /\ tx.op = "add" /\ DOMAIN tx.list = DOMAIN Head(events[a]).list
        /\ \A m \in DOMAIN tx.list : tx.list[m] = LeftProps
    BY <2>5 DEF Tx
  <2>7. pending' = Append(pending, tx) /\ UNCHANGED <<guildOf, memberUserIDs>> /\ DoNotSyncMembers
    BY <1>5, <2>5 DEF MemberRemove
  <2> QED
    BY <2>1, <2>6, <2>7, PostedKeeps
<1> QED
  BY <1>2, <1>3, <1>4, <1>5

(* An event of the guild as a whole that nothing is recorded for. *)
LEMMA UnrecordedComing ==
    ASSUME GuildInv, NEW a \in Account, NEW type \in Guilds, Take(a, type), UNCHANGED pending,
           NEW o \in Subject
    PROVE  /\ ~About(Head(events[a]), o)
           /\ Awaited(o)' <=> Awaited(o)
           /\ Coming(o)' <=> Coming(o)
<1>1. Head(events[a]).type \in Guilds /\ UNCHANGED <<world, store>>
  BY TakeFacts
<1>2. ~About(Head(events[a]), o)
  BY <1>1 DEF Guilds, About, Telling, Gone
<1>3. Awaited(o)' <=> Awaited(o)
  BY <1>2, TakeSays
<1> QED
  BY <1>1, <1>2, <1>3 DEF Coming

LEMMA GuildDeleteKeeps ==
    ASSUME GuildInv, NEW a \in Account, GuildDelete(a), TypeOK'
    PROVE  GuildInv'
<1> USE DEF GuildInv
<1>1. Take(a, "GUILD_DELETE") /\ UNCHANGED <<guildOf, memberUserIDs, pending>> /\ DoNotSyncMembers
  BY DEF GuildDelete
<1>2. UNCHANGED <<world, gone, answering, link, accounts, allReady, store, lost>>
  BY <1>1, TakeFacts
<1>3. UNCHANGED <<requesting, newcomers, asked, process>> /\ process # "down"
  BY <1>1, TakeFacts DEF DoNotSyncMembers
<1>4. /\ Connected' /\ EventsSound' /\ StoreSound' /\ LinesTell'
      /\ \A list : WereAll(list)' <=> WereAll(list)
      /\ \A list : Complete(list)' <=> Complete(list)
      /\ \A o : Exists(o)' <=> Exists(o)
  BY <1>1, <1>3, TakeKeeps
<1>5. PendingSound'
  BY <1>1, <1>2, <1>4 DEF PendingSound
<1>6. Announced'
  BY <1>1, TakeAnnounced
<1>7. ASSUME NEW o \in Subject PROVE Undisturbed(o)
  <2>1. (Awaited(o)' <=> Awaited(o)) /\ (Coming(o)' <=> Coming(o))
    BY <1>1, UnrecordedComing DEF Guilds
  <2>2. InList(o) => InList(o)'
    BY <1>1, <1>3, TakeLists DEF InList
  <2>3. (BeingListed' => BeingListed) /\ (ListToCome => ListToCome')
    BY <1>1, <1>3, TakeLists
  <2> QED
    BY <1>1, <1>2, <1>3, <2>1, <2>2, <2>3 DEF Undisturbed
<1>8. GuildComing' /\ MembersComing'
  BY <1>2, <1>3, <1>4, <1>7, AllStillComing
<1> QED
  BY <1>4, <1>5, <1>6, <1>8

(* The first GUILD_CREATE is the announcing event. *)
LEMMA FirstCreateAnnounces ==
    ASSUME GuildInv, NEW a \in Account, Take(a, "GUILD_CREATE"), guildOf = Null
    PROVE  /\ pending = <<>> /\ Complete(Head(events[a]).list)
           /\ \A o \in GuildObject :
                \/ Awaited(o)'
                \/ IF Exists(o) THEN /\ o \in DOMAIN Head(events[a]).list
                                     /\ Head(events[a]).list[o] = world[o]
                   ELSE o \notin DOMAIN Head(events[a]).list
<1> USE DEF GuildInv
<1>1. /\ events[a] \in Seq(EventOf) /\ a \in accounts /\ process # "down"
      /\ Head(events[a]) = events[a][1] /\ Head(events[a]).type = "GUILD_CREATE"
      /\ Len(events[a]) \in Nat
  BY TakeFacts
<1>2. pending = <<>>
  BY <1>1 DEF Announced
<1>3. PICK k \in 1..Len(events[a]) : Announces(events[a], k)
  BY <1>1 DEF Announced
<1>4. k = 1
  <2>1. CASE k # 1
    <3>1. 1 \in 1..k - 1
      BY <1>1, <2>1
    <3> QED
      BY <1>1, <1>3, <3>1 DEF Announces
  <2> QED
    BY <2>1
<1>5. \A o \in GuildObject : AboutIn(events[a], o) => Awaited(o)'
  <2>1. \A o \in GuildObject : ~About(Head(events[a]), o) /\ o \in Subject
    BY <1>1 DEF About, Telling, Gone, Subject
  <2> QED
    BY <2>1, TakeSays DEF Awaited
<1> QED
  BY <1>1, <1>2, <1>3, <1>4, <1>5 DEF Announces

LEMMA GuildCreateKeeps ==
    ASSUME GuildInv, NEW a \in Account, GuildCreate(a), TypeOK'
    PROVE  GuildInv'
<1> USE DEF GuildInv
<1>1. Take(a, "GUILD_CREATE") /\ (IF allReady THEN SyncAllGuildMembers(guildOf') ELSE DoNotSyncMembers)
  BY DEF GuildCreate
<1>2. /\ UNCHANGED <<world, gone, answering, link, accounts, allReady, store, lost>>
      /\ Head(events[a]).type = "GUILD_CREATE" /\ EventSound(Head(events[a]))
      /\ Head(events[a]) \in EventOf /\ process # "down" /\ a \in accounts
      /\ pending \in Seq(Transaction)
  BY <1>1, TakeFacts DEF TypeOK
<1>3. /\ process' # "down" /\ (process' = "up" => process = "up")
      /\ process' = "up" /\ allReady => asked' > 0
      /\ ~allReady => UNCHANGED <<newcomers, asked>>
      /\ asked >= 0
  BY <1>1, <1>2 DEF DoNotSyncMembers, SyncAllGuildMembers, TypeOK
<1>4. /\ Connected' /\ EventsSound' /\ StoreSound' /\ LinesTell'
      /\ \A list : WereAll(list)' <=> WereAll(list)
      /\ \A list : Complete(list)' <=> Complete(list)
      /\ \A o : Exists(o)' <=> Exists(o)
  BY <1>1, <1>3, TakeKeeps
<1>5. \A o \in Subject : ~About(Head(events[a]), o) /\ (Awaited(o)' <=> Awaited(o))
  <2>1. \A o \in Subject : ~About(Head(events[a]), o)
    BY <1>2 DEF About, Telling, Gone
  <2> QED
    BY <1>1, <2>1, TakeSays
<1>6. process' = "up" /\ allReady => (\A m : WillBeListed(m)') /\ ListToCome'
  BY <1>3 DEF WillBeListed, ListToCome
<1>7. CASE guildOf # Null
  <2>1. UNCHANGED <<guildOf, memberUserIDs, pending>>
    BY <1>7 DEF GuildCreate
  <2>2. PendingSound' /\ Announced'
    BY <1>2, <1>4, <1>7, <2>1 DEF PendingSound, Announced
  <2>3. \A o \in Subject : Coming(o)' <=> Coming(o)
    BY <1>2, <1>5, <2>1 DEF Coming
  <2>4. GuildComing'
    BY <1>2, <1>3, <2>1, <2>3 DEF GuildComing, Subject
  <2>5. ASSUME process' = "up", ~lost', NEW m \in Member
        PROVE  IF Exists(m)' THEN MemberComing(m)' ELSE LeaveComing(m)'
    <3>0. m \in Subject
      BY DEF Subject
    <3>1. IF Exists(m) THEN MemberComing(m) ELSE LeaveComing(m)
      BY <1>2, <1>3, <2>5 DEF MembersComing
    <3>2. CASE Exists(m)
      BY <1>2, <1>4, <1>6, <2>5, <3>2 DEF MemberComing
    <3>3. CASE ~Exists(m)
      <4>1. LeaveComing(m)'
        BY <1>2, <1>5, <1>6, <2>1, <2>3, <2>5, <3>0, <3>1, <3>3 DEF LeaveComing
      <4> QED
        BY <1>4, <3>3, <4>1
    <3> QED
      BY <3>2, <3>3
  <2>6. MembersComing'
    BY <2>5 DEF MembersComing
  <2> QED
    BY <1>4, <2>2, <2>4, <2>6
<1>8. CASE guildOf = Null
  <2>1. At(FALSE) \in Timing /\ Head(events[a]).list \in List
    BY <1>2, AtType DEF EventOf
  <2>2. PICK tx \in Transaction : tx = Tx("guild", Head(events[a]).list, At(FALSE))
    BY <2>1, TxType DEF TxOp
  <2>3. tx.op = "guild" /\ tx.list = Head(events[a]).list
    BY <2>2 DEF Tx
  <2>4. /\ guildOf' = a /\ memberUserIDs' = {} /\ pending' = Append(pending, tx)
        /\ guildOf' # Null
    BY <1>8, <2>2, ConstantFacts DEF GuildCreate
  <2>5. /\ pending = <<>> /\ Complete(tx.list)
        /\ \A o \in GuildObject :
             \/ Awaited(o)'
             \/ IF Exists(o) THEN o \in DOMAIN tx.list /\ tx.list[o] = world[o]
                ELSE o \notin DOMAIN tx.list
    BY <1>1, <1>8, <2>3, FirstCreateAnnounces
  <2>6. PendingSound'
    <3>1. WereAll(tx.list)
      BY <1>2, <2>3 DEF EventSound
    <3>2. \A k \in 1..Len(Append(pending, tx)) :
            /\ WereAll(Append(pending, tx)[k].list)
            /\ Append(pending, tx)[k].op = "delete" => DOMAIN Append(pending, tx)[k].list \subseteq gone
            /\ Append(pending, tx)[k].op = "guild" => k = 1 /\ Complete(Append(pending, tx)[k].list)
      BY <1>2, <2>3, <2>5, <3>1, PostedSound DEF PendingSound
    <3> QED
      BY <1>2, <1>4, <2>4, <3>2 DEF PendingSound
  <2>7. Announced'
    BY <2>4 DEF Announced
  <2>8. GuildComing'
    <3> SUFFICES ASSUME NEW o \in GuildObject PROVE Coming(o)'
      BY DEF GuildComing
    <3>1. CASE Awaited(o)'
      BY <3>1 DEF Coming
    <3>2. CASE ~Awaited(o)'
      <4>1. Concerns(tx, o) /\ Brings(tx, o, world[o])
        BY <2>3, <2>5, <3>2 DEF Concerns, Brings, Exists
      <4>2. WillHave(store[o], Append(pending, tx), o, world[o])
        BY <1>2, <4>1, AppendTx
      <4> QED
        BY <1>2, <2>4, <4>2 DEF Coming
    <3> QED
      BY <3>1, <3>2
  <2>9. ASSUME process' = "up", ~lost', NEW m \in Member
        PROVE  IF Exists(m)' THEN MemberComing(m)' ELSE LeaveComing(m)'
    <3>0. m \in Subject
      BY DEF Subject
    <3>1. IF Exists(m) THEN MemberComing(m) ELSE LeaveComing(m)
      BY <1>2, <1>3, <2>9 DEF MembersComing
    <3>2. CASE Exists(m)
      BY <1>2, <1>4, <1>6, <2>9, <3>2 DEF MemberComing
    <3>3. CASE ~Exists(m)
      <4>1. Coming(m) => Coming(m)'
        <5> SUFFICES ASSUME Coming(m), ~Awaited(m)' PROVE WillHave(store[m], Append(pending, tx), m, world[m])
          BY <1>2, <2>4 DEF Coming
        <5>1. ~Concerns(tx, m)
          BY <2>3, ConstantFacts DEF Concerns
        <5>2. WillHave(store[m], pending, m, world[m])
          BY <1>5, <3>0 DEF Coming
        <5> QED
          BY <1>2, <5>1, <5>2, AppendTx
      <4>2. LeaveComing(m)'
        BY <1>2, <1>5, <1>6, <2>4, <2>9, <3>0, <3>1, <3>3, <4>1 DEF LeaveComing
      <4> QED
        BY <1>4, <3>3, <4>2
    <3> QED
      BY <3>2, <3>3
  <2>10. MembersComing'
    BY <2>9 DEF MembersComing
  <2> QED
    BY <1>4, <2>6, <2>7, <2>8, <2>10
<1> QED
  BY <1>7, <1>8

(* What a chunk lists is stored. *)
LEMMA ListedComing ==
    ASSUME GuildInv, NEW a \in Account, Take(a, "CHUNK"), NEW add \in Transaction,
           add.op = "add", add.list = Head(events[a]).list, NEW o \in Subject
    PROVE  /\ About(Head(events[a]), o) <=> o \in DOMAIN Head(events[a]).list
           /\ Coming(o) => Awaited(o)' \/ WillHave(store[o], Append(pending, add), o, world[o])
<1> DEFINE e == Head(events[a])
<1>1. e.type = "CHUNK"
  BY TakeFacts
<1> HIDE DEF e
<1>2. About(e, o) <=> o \in DOMAIN e.list
  BY <1>1 DEF About, Telling
<1>3. Concerns(add, o) <=> o \in DOMAIN add.list
  BY DEF Concerns
<1>4. o \in DOMAIN e.list /\ Tells(e, o, world[o]) => Brings(add, o, world[o])
  BY <1>1 DEF Tells, Brings, Gone, e
<1> QED
  BY <1>2, <1>3, <1>4, PostedComing DEF e

LEMMA GuildMembersChunkKeeps ==
    ASSUME GuildInv, NEW a \in Account, GuildMembersChunk(a), TypeOK'
    PROVE  GuildInv'
<1> USE DEF GuildInv
<1>1. Take(a, "CHUNK") /\ UNCHANGED <<ready, guildOf, newcomers, asked>>
  BY DEF GuildMembersChunk
<1>2. /\ UNCHANGED <<world, gone, answering, link, accounts, allReady, store, lost>>
      /\ Head(events[a]) \in EventOf /\ Head(events[a]).type = "CHUNK"
      /\ EventSound(Head(events[a])) /\ process # "down" /\ a \in accounts
      /\ pending \in Seq(Transaction)
  BY <1>1, TakeFacts DEF TypeOK
<1>3. guildOf # Null
  BY <1>1, TakeFacts DEF Guilds
<1>4. /\ At(FALSE) \in Timing /\ Head(events[a]).list \in List /\ Head(events[a]).last \in BOOLEAN
      /\ DOMAIN Head(events[a]).list \subseteq Object
  BY <1>2, AtType, ListParts DEF EventOf
<1>5. PICK list \in List : list = Head(events[a]).list
  BY <1>4
<1>6. PICK add \in Transaction : add = Tx("add", list, At(FALSE))
  BY <1>4, TxType DEF TxOp
<1>7. add.op = "add" /\ add.list = list
  BY <1>6 DEF Tx
<1>8. process' # "down" /\ (process' = "up" => process = "up" /\ memberUserIDs # Null)
  BY <1>2 DEF GuildMembersChunk
<1>9. /\ Connected' /\ EventsSound' /\ StoreSound' /\ LinesTell'
      /\ \A x : WereAll(x)' <=> WereAll(x)
      /\ \A x : Complete(x)' <=> Complete(x)
      /\ \A o : Exists(o)' <=> Exists(o)
  BY <1>1, <1>8, TakeKeeps
<1>10. Announced'
  BY <1>1, <1>3 DEF Announced
<1>11. WereAll(list) /\ DOMAIN list \cap GuildObject = {}
  BY <1>2, <1>5 DEF EventSound
<1>12. \A k \in 1..Len(Append(pending, add)) :
            /\ WereAll(Append(pending, add)[k].list)
            /\ Append(pending, add)[k].op = "delete" => DOMAIN Append(pending, add)[k].list \subseteq gone
            /\ Append(pending, add)[k].op = "guild" => k = 1 /\ Complete(Append(pending, add)[k].list)
  BY <1>2, <1>7, <1>11, PostedSound DEF PendingSound
<1>13. \A o \in Subject :
        /\ About(Head(events[a]), o) <=> o \in DOMAIN list
        /\ Coming(o) => Awaited(o)' \/ WillHave(store[o], Append(pending, add), o, world[o])
        /\ Awaited(o)' => Awaited(o)
        /\ o \in DOMAIN list => Awaited(o)
  BY <1>1, <1>5, <1>7, ListedComing, TakeSays
<1>14. CASE memberUserIDs = Null
  <2>1. pending' = Append(pending, add) /\ process' = "dying"
    BY <1>5, <1>6, <1>14 DEF GuildMembersChunk
  <2>2. PendingSound'
    BY <1>2, <1>9, <1>12, <2>1 DEF PendingSound
  <2>3. GuildComing' /\ MembersComing'
    BY <2>1 DEF GuildComing, MembersComing
  <2> QED
    BY <1>9, <1>10, <2>2, <2>3
<1>15. CASE memberUserIDs # Null
  <2> DEFINE last == Head(events[a]).last
             ids == memberUserIDs \cup (DOMAIN list \cap Member)
             syncing == Tx("members", [m \in ids |-> LeftProps], At(FALSE))
  <2>1. ids \subseteq Member
    BY <1>15 DEF TypeOK
  <2>2. PICK sync \in Transaction : sync = syncing
    BY <1>4, <2>1, MapToList, ConstantFacts, TxType DEF TxOp
  <2>3. sync.op = "members" /\ DOMAIN sync.list = ids
    BY <2>2 DEF Tx
  <2>4. /\ memberUserIDs' = ids /\ UNCHANGED process
        /\ pending' = IF last THEN Append(Append(pending, add), sync) ELSE Append(pending, add)
    <3>1. /\ memberUserIDs' = ids /\ UNCHANGED process
          /\ pending' = pending \o (IF last THEN <<add, sync>> ELSE <<add>>)
      BY <1>5, <1>6, <1>15, <2>2 DEF GuildMembersChunk
    <3>2. pending \o <<add, sync>> = Append(Append(pending, add), sync)
      BY <1>2, TxsType
    <3>3. pending \o <<add>> = Append(pending, add)
      BY <1>2, TxsType
    <3> QED
      BY <3>1, <3>2, <3>3
  <2> HIDE DEF ids, syncing, last
  <2>5. Append(pending, add) \in Seq(Transaction)
    BY <1>2, TxsType
  <2>6. PendingSound'
    <3>1. CASE last
      <4>1. WereAll(sync.list)
        BY <2>1, <2>3, ConstantFacts DEF WereAll
      <4>2. \A k \in 1..Len(Append(Append(pending, add), sync)) :
              /\ WereAll(Append(Append(pending, add), sync)[k].list)
              /\ Append(Append(pending, add), sync)[k].op = "delete" =>
                    DOMAIN Append(Append(pending, add), sync)[k].list \subseteq gone
              /\ Append(Append(pending, add), sync)[k].op = "guild" =>
                    k = 1 /\ Complete(Append(Append(pending, add), sync)[k].list)
        BY <1>12, <2>3, <2>5, <4>1, PostedSound
      <4> QED
        BY <1>2, <1>9, <2>4, <3>1, <4>2 DEF PendingSound
    <3>2. CASE ~last
      BY <1>2, <1>9, <1>12, <2>4, <3>2 DEF PendingSound
    <3> QED
      BY <3>1, <3>2
  <2>7. ASSUME NEW o \in Subject, Coming(o), Awaited(o)' \/ o \notin Member \/ o \in ids \/ ~Exists(o)
        PROVE  Coming(o)'
    <3> SUFFICES ASSUME ~Awaited(o)' PROVE WillHave(store[o], pending', o, world[o])
      BY <1>2 DEF Coming
    <3>1. WillHave(store[o], Append(pending, add), o, world[o])
      BY <1>13, <2>7
    <3>2. CASE ~last
      BY <2>4, <3>1, <3>2
    <3>3. CASE last
      <4>1. Concerns(sync, o) <=> o \in Member \ ids
        BY <2>3 DEF Concerns
      <4>2. ~Exists(o) => Brings(sync, o, world[o])
        BY <2>3 DEF Brings, Exists
      <4>3. WillHave(store[o], Append(Append(pending, add), sync), o, world[o])
        BY <2>5, <2>7, <3>1, <4>1, <4>2, AppendTx
      <4> QED
        BY <2>4, <3>3, <4>3
    <3> QED
      BY <3>2, <3>3
  <2>8. GuildComing'
    BY <1>2, <1>1, <1>8, <2>7, ConstantFacts DEF GuildComing
  <2>9. ASSUME process' = "up", ~lost', NEW m \in Member
        PROVE  IF Exists(m)' THEN MemberComing(m)' ELSE LeaveComing(m)'
    <3>0. m \in Subject
      BY DEF Subject
    <3>1. IF Exists(m) THEN MemberComing(m) ELSE LeaveComing(m)
      BY <1>2, <1>8, <2>9 DEF MembersComing
    <3>2. CASE Exists(m)
      <4> SUFFICES ASSUME allReady', guildOf' # Null, m \notin newcomers', ~WillBeListed(m)'
                   PROVE  Coming(m)' /\ InList(m)'
        BY <1>9, <3>2 DEF MemberComing
      <4>1. ~WillBeListed(m)
        BY <1>1, <1>2 DEF WillBeListed
      <4>2. BeingListed
        BY <1>1, TakeLists
      <4>3. Coming(m) /\ InList(m)
        BY <1>1, <1>2, <3>1, <3>2, <4>1, <4>2 DEF MemberComing
      <4>4. CASE m \in ids
        BY <2>4, <2>7, <3>0, <4>3, <4>4 DEF InList
      <4>5. CASE m \notin ids
        <5>1. PICK b \in Account : \E k \in 1..Len(events'[b]) :
                events'[b][k].type = "CHUNK" /\ m \in DOMAIN events'[b][k].list
          <6>1. m \notin memberUserIDs /\ m \notin DOMAIN Head(events[a]).list
            BY <1>5, <4>5 DEF ids
          <6> QED
            BY <1>1, <4>3, <6>1, TakeLists
        <5>2. AboutIn(events'[b], m)
          BY <5>1 DEF AboutIn, About, Telling
        <5>3. Awaited(m)' /\ InList(m)'
          BY <5>1, <5>2 DEF Awaited, InList
        <5> QED
          BY <5>3 DEF Coming
      <4> QED
        BY <4>4, <4>5
    <3>3. CASE ~Exists(m)
      <4>1. LeaveComing(m)
        BY <3>1, <3>3
      <4>2. CASE Coming(m)
        BY <1>9, <2>7, <3>0, <3>3, <4>2 DEF LeaveComing
      <4>3. CASE /\ ~Awaited(m) /\ m \notin memberUserIDs /\ (allReady => ListToCome)
        <5>1. m \notin ids /\ ~Awaited(m)'
          BY <1>13, <3>0, <4>3 DEF ids
        <5>2. CASE last
          <6>1. Concerns(sync, m) /\ Brings(sync, m, world[m])
            BY <2>3, <3>3, <5>1 DEF Concerns, Brings, Exists
          <6>2. WillHave(store[m], Append(Append(pending, add), sync), m, world[m])
            BY <2>5, <6>1, AppendTx
          <6> QED
            BY <1>2, <1>9, <2>4, <3>3, <5>2, <6>2 DEF LeaveComing, Coming
        <5>3. CASE ~last
          <6>1. allReady => ListToCome'
            BY <1>1, <4>3, <5>3, TakeLists DEF last
          <6> QED
            BY <1>2, <1>9, <2>4, <3>3, <5>1, <6>1 DEF LeaveComing
        <5> QED
          BY <5>2, <5>3
      <4> QED
        BY <1>3, <4>1, <4>2, <4>3 DEF LeaveComing
    <3> QED
      BY <3>2, <3>3
  <2>10. MembersComing'
    BY <2>9 DEF MembersComing
  <2> QED
    BY <1>9, <1>10, <2>6, <2>8, <2>10
<1> QED
  BY <1>14, <1>15

LEMMA DispatchKeeps ==
    ASSUME GuildInv, NEW a \in Account, Dispatch(a), TypeOK'
    PROVE  GuildInv'
  BY GuildDeleteKeeps, GuildCreateKeeps, RecordKeeps, GuildMembersChunkKeeps DEF Dispatch

-----------------------------------------------------------------------------
(* The worker.                                                             *)
(* A cell after addSnapshot; it never takes a mark away or puts one. *)
LEMMA AddsFacts ==
    ASSUME TypeOK, Ordered, NEW o \in Object, NEW props \in Props, NEW timing \in Timing,
           NEW new, Adds(o, props, timing, new)
    PROVE  /\ Mark(new) = Mark(store[o])
           /\ ~Throws(store[o], Snap(props, timing)) => Stored(new) /\ new.latest.props = props
<1> DEFINE cell == store[o]
           snap == Snap(props, timing)
<1>1. cell \in Cell /\ StrictlyOrdered(cell) /\ snap \in Snapshot /\ snap.props = props
  BY SnapType DEF TypeOK, Ordered, Snap
<1>2. new = AddSnapshot(cell, snap)
  BY DEF Adds
<1> HIDE DEF cell, snap
<1>3. Mark(new) = Mark(cell)
  <2>1. Stored(cell) => Stored(new) /\ new.latest.deleted = cell.latest.deleted
    BY <1>1, <1>2, AddKeepsOrder
  <2>2. ~Stored(cell) => new.latest.deleted = Null
    BY <1>1, <1>2, AddKeepsOrder
  <2> QED
    BY <2>1, <2>2 DEF Mark
<1>4. ASSUME ~Throws(cell, snap) PROVE Stored(new) /\ new.latest.props = props
  <2>1. CASE AddOutcome(cell, snap) = "ADDED_FIRST_SNAPSHOT"
    <3>1. new = [cell EXCEPT !.latest = [ts |-> snap.ts, deleted |-> Null, props |-> snap.props]]
      BY <1>2, <2>1 DEF AddSnapshot
    <3>2. new.latest = [ts |-> snap.ts, deleted |-> Null, props |-> snap.props]
      BY <1>1, <3>1 DEF Cell
    <3>3. new.latest \in LatestRow
      BY <1>1, <3>2 DEF LatestRow, Deletion, Snapshot
    <3> QED
      BY <1>1, <3>2, <3>3, NullAssumption DEF Stored
  <2>2. CASE AddOutcome(cell, snap) = "SAME_AS_LATEST"
    <3>1. new = cell
      BY <1>2, <2>2 DEF AddSnapshot
    <3>2. Stored(cell) /\ cell.latest.props = snap.props
      BY <1>1, <2>2 DEF AddOutcome, Cell, Snapshot, LatestRow, Stored
    <3> QED
      BY <1>1, <3>1, <3>2
  <2>3. CASE AddOutcome(cell, snap) = "ADDED_ANOTHER_SNAPSHOT"
    <3>1. new.latest = [cell.latest EXCEPT !.ts = snap.ts, !.props = snap.props]
      BY <1>2, <2>3 DEF AddSnapshot
    <3>2. Stored(cell)
      BY <1>1, <2>3, AddOutcomeCases
    <3>3. cell.latest \in LatestRow
      BY <1>1, <3>2 DEF Cell, Stored
    <3>4. new.latest.props = snap.props
      BY <3>1, <3>3 DEF LatestRow
    <3>5. Stored(new)
      BY <1>1, <1>2, <3>2, AddKeepsOrder
    <3> QED
      BY <1>1, <3>4, <3>5
  <2> QED
    BY <1>1, <1>4, <2>1, <2>2, <2>3, AddOutcomeCases DEF Throws, Errors
<1> QED
  BY <1>3, <1>4 DEF cell, snap

LEMMA MarksFacts ==
    ASSUME TypeOK, Ordered, NEW o \in Object, NEW timing \in Timing,
           NEW new, Marks(o, timing, new)
    PROVE  /\ Stored(new) <=> Stored(store[o])
           /\ Stored(new) => Mark(new) # Null
           /\ ~Stored(new) => Mark(new) = Null
<1>1. store[o] \in Cell /\ StrictlyOrdered(store[o]) /\ EncodeTiming(timing) \in Nat
  BY EncodeTimingType DEF TypeOK, Ordered
<1>2. /\ Stored(new) <=> Stored(store[o])
      /\ Stored(store[o]) => new.latest.deleted = EncodeTiming(timing)
  BY <1>1, MarkFacts DEF Marks
<1> QED
  BY <1>1, <1>2, ConstantFacts DEF Mark

(* What a transaction is not about it leaves alone. *)
LEMMA Unconcerned ==
    ASSUME TypeOK, NEW tx \in Transaction, tx.op = "guild" => Complete(tx.list),
           NEW new \in After(tx), NEW o \in Subject, ~Concerns(tx, o)
    PROVE  new[o] = store[o]
<1>1. o \in Object /\ tx.op \in TxOp
  BY ConstantFacts DEF Transaction
<1>2. CASE tx.op = "guild"
  <2>1. o \notin GuildObject
    BY <1>2 DEF Concerns
  <2>2. o \notin DOMAIN tx.list /\ o \notin RoleOrChannel
    BY <1>2, <2>1 DEF Complete, GuildObject
  <2> QED
    BY <1>1, <1>2, <2>2, AfterGuild
<1>3. CASE tx.op = "add"
  BY <1>1, <1>3, AfterAdd DEF Concerns
<1>4. CASE tx.op = "delete"
  BY <1>1, <1>4, AfterDelete DEF Concerns
<1>5. CASE tx.op = "members"
  <2>1. o \notin DOMAIN Leaves(tx)
    BY <1>5, LeavesFacts DEF Concerns
  <2> QED
    BY <1>1, <1>5, <2>1, AfterMembers
<1> QED
  BY <1>1, <1>2, <1>3, <1>4, <1>5 DEF TxOp

(* What it brings is there when it did not throw. *)
LEMMA Brought ==
    ASSUME TypeOK, StoreSound, NEW tx \in Transaction,
           tx.op = "delete" => DOMAIN tx.list \subseteq gone,
           NEW new \in After(tx), ~Fails(tx),
           NEW o \in Subject, Concerns(tx, o), Brings(tx, o, world[o])
    PROVE  Has(new[o], o, world[o])
<1>1. /\ o \in Object /\ tx.op \in TxOp /\ tx.timing \in Timing /\ tx.list \in List /\ Ordered
      /\ \A x \in DOMAIN tx.list : tx.list[x] \in Props
  BY ConstantFacts, ListParts DEF Transaction, StoreSound, Ordered
<1>2. LeftProps \in Props /\ Null \notin Props
  BY ConstantFacts
<1>3. CASE tx.op = "guild"
  <2>1. o \in GuildObject
    BY <1>3 DEF Concerns
  <2>2. CASE world[o] # Null
    <3>1. o \in DOMAIN tx.list /\ tx.list[o] = world[o]
      BY <2>2 DEF Brings
    <3>2. Adds(o, tx.list[o], tx.timing, new[o])
      BY <1>1, <1>3, <3>1, AfterGuild
    <3>3. ~Throws(store[o], Snap(tx.list[o], tx.timing))
      BY <1>3, <3>1 DEF Fails, ThrowingIn
    <3> QED
      BY <1>1, <2>2, <3>1, <3>2, <3>3, AddsFacts DEF Has
  <2>3. CASE world[o] = Null
    <3>1. o \notin DOMAIN tx.list
      BY <1>3, <2>3 DEF Brings
    <3>2. o \in RoleOrChannel /\ o \notin Member
      BY <2>1, <2>3, ConstantFacts DEF GuildObject, StoreSound, Exists
    <3>3. IF Stored(store[o]) /\ Mark(store[o]) = Null
          THEN Marks(o, tx.timing, new[o]) ELSE new[o] = store[o]
      BY <1>1, <1>3, <3>1, <3>2, AfterGuild
    <3> QED
      BY <1>1, <2>3, <3>2, <3>3, MarksFacts DEF Has
  <2> QED
    BY <2>2, <2>3
<1>4. CASE tx.op = "add"
  <2>1. o \in DOMAIN tx.list
    BY <1>4 DEF Concerns
  <2>2. Adds(o, tx.list[o], tx.timing, new[o]) /\ ~Throws(store[o], Snap(tx.list[o], tx.timing))
    BY <1>1, <1>4, <2>1, AfterAdd DEF Fails, ThrowingIn
  <2>3. Stored(new[o]) /\ new[o].latest.props = tx.list[o]
    BY <1>1, <2>1, <2>2, AddsFacts
  <2> QED
    BY <1>4, <2>3 DEF Has, Brings
<1>5. CASE tx.op = "delete"
  <2>1. o \in DOMAIN tx.list /\ world[o] = Null
    BY <1>5 DEF Concerns, Brings
  <2>2. o \notin Member
    BY <1>5, <2>1, ConstantFacts DEF TypeOK
  <2>3. Marks(o, tx.timing, new[o])
    BY <1>1, <1>5, <2>1, AfterDelete
  <2> QED
    BY <1>1, <2>1, <2>2, <2>3, MarksFacts DEF Has
<1>6. CASE tx.op = "members"
  <2>1. o \in Member /\ o \notin DOMAIN tx.list /\ world[o] = Null
    BY <1>6 DEF Concerns, Brings
  <2>2. CASE o \in DOMAIN Leaves(tx)
    <3>1. Adds(o, LeftProps, tx.timing, new[o])
      BY <1>1, <1>6, <2>2, AfterMembers
    <3>2. ~Throws(store[o], Snap(LeftProps, tx.timing))
      BY <1>6, <2>2, LeavesFacts DEF Fails, ThrowingIn
    <3> QED
      BY <1>1, <1>2, <2>1, <3>1, <3>2, AddsFacts DEF Has
  <2>3. CASE o \notin DOMAIN Leaves(tx)
    <3>1. new[o] = store[o]
      BY <1>1, <1>6, <2>3, AfterMembers
    <3>2. Stored(store[o]) => store[o].latest.props = LeftProps
      BY <2>1, <2>3, LeavesFacts
    <3> QED
      BY <2>1, <3>1, <3>2 DEF Has
  <2> QED
    BY <2>2, <2>3
<1> QED
  BY <1>1, <1>3, <1>4, <1>5, <1>6 DEF TxOp

(* No transaction marks what exists, or stores what never was. *)
LEMMA StoreStays ==
    ASSUME TypeOK, StoreSound, NEW tx \in Transaction, WereAll(tx.list),
           tx.op = "delete" => DOMAIN tx.list \subseteq gone,
           tx.op = "guild" => Complete(tx.list),
           NEW new \in After(tx), NEW o \in GuildObject
    PROVE  /\ Mark(new[o]) = Null \/ Mark(new[o]) = Mark(store[o]) \/ o \in gone
           /\ o \in RoleOrChannel /\ Stored(new[o]) => EverWas(o)
<1>1. /\ o \in Object /\ o \notin Member /\ tx.op \in TxOp /\ tx.timing \in Timing /\ Ordered
      /\ tx.list \in List /\ \A x \in DOMAIN tx.list : tx.list[x] \in Props
  BY ConstantFacts, ListParts DEF Transaction, StoreSound, Ordered
<1>2. o \in RoleOrChannel /\ Stored(store[o]) => EverWas(o)
  BY DEF StoreSound
<1>3. o \in RoleOrChannel /\ o \in DOMAIN tx.list => EverWas(o)
  BY DEF WereAll
<1>4. ASSUME o \in DOMAIN tx.list, Adds(o, tx.list[o], tx.timing, new[o])
      PROVE  Mark(new[o]) = Mark(store[o])
  BY <1>1, <1>4, AddsFacts
<1>5. CASE tx.op = "guild"
  <2>1. CASE o \in DOMAIN tx.list
    <3>1. Adds(o, tx.list[o], tx.timing, new[o])
      BY <1>1, <1>5, <2>1, AfterGuild
    <3> QED
      BY <1>3, <1>4, <2>1, <3>1
  <2>2. CASE o \notin DOMAIN tx.list
    <3>1. IF o \in RoleOrChannel /\ Stored(store[o]) /\ Mark(store[o]) = Null
          THEN Marks(o, tx.timing, new[o]) ELSE new[o] = store[o]
      BY <1>1, <1>5, <2>2, AfterGuild
    <3>2. o \in RoleOrChannel /\ Stored(store[o]) => o \in gone
      BY <1>5, <2>2 DEF Complete
    <3> QED
      BY <1>2, <3>1, <3>2 DEF EverWas
  <2> QED
    BY <2>1, <2>2
<1>6. CASE tx.op = "add"
  <2>1. IF o \in DOMAIN tx.list THEN Adds(o, tx.list[o], tx.timing, new[o]) ELSE new[o] = store[o]
    BY <1>1, <1>6, AfterAdd
  <2> QED
    BY <1>2, <1>3, <1>4, <2>1
<1>7. CASE tx.op = "delete"
  <2>1. IF o \in DOMAIN tx.list THEN Marks(o, tx.timing, new[o]) ELSE new[o] = store[o]
    BY <1>1, <1>7, AfterDelete
  <2> QED
    BY <1>2, <1>3, <1>7, <2>1
<1>8. CASE tx.op = "members"
  <2>1. o \notin DOMAIN Leaves(tx)
    BY <1>1, LeavesFacts
  <2>2. new[o] = store[o]
    BY <1>1, <1>8, <2>1, AfterMembers
  <2> QED
    BY <1>2, <2>2
<1> QED
  BY <1>1, <1>5, <1>6, <1>7, <1>8 DEF TxOp

LEMMA WorkKeeps ==
    ASSUME GuildInv, Work, TypeOK'
    PROVE  GuildInv'
<1> USE DEF GuildInv
<1>1. /\ process # "down" /\ pending \in Seq(Transaction) /\ pending # <<>>
      /\ store' \in After(Head(pending)) /\ pending' = Tail(pending)
      /\ process' = IF Fails(Head(pending)) THEN "dying" ELSE process
      /\ UNCHANGED <<world, gone, asked, answering, events, link, accounts, allReady>>
      /\ UNCHANGED <<guildOf, memberUserIDs, lost, newcomers>>
  BY DEF Work, TypeOK, discord, download, main, history
<1>2. PICK tx \in Transaction : tx = Head(pending)
  BY <1>1
<1>3. PICK rest \in Seq(Transaction) : rest = Tail(pending)
  BY <1>1
<1>4. /\ Len(pending) \in Nat \ {0} /\ pending[1] = tx /\ 1 \in 1..Len(pending)
      /\ \A k \in 1..Len(rest) : k + 1 \in 1..Len(pending) /\ rest[k] = pending[k + 1] /\ k + 1 # 1
  <2>1. /\ Len(pending) \in Nat \ {0} /\ pending[1] = tx /\ Len(rest) = Len(pending) - 1
        /\ \A k \in 1..Len(rest) : rest[k] = pending[k + 1]
    BY <1>1, <1>2, <1>3
  <2> QED
    BY <2>1
<1>5. /\ WereAll(tx.list) /\ (tx.op = "delete" => DOMAIN tx.list \subseteq gone)
      /\ tx.op = "guild" => Complete(tx.list)
  BY <1>4 DEF PendingSound
<1>6. \A o \in Subject : ~Concerns(tx, o) => store'[o] = store[o]
  BY <1>1, <1>2, <1>5, Unconcerned
<1>7. ~Fails(tx) => \A o \in Subject :
        Concerns(tx, o) /\ Brings(tx, o, world[o]) => Has(store'[o], o, world[o])
  BY <1>1, <1>2, <1>5, Brought
<1>8. Connected'
  BY <1>1 DEF Connected
<1>9. EventsSound'
  BY <1>1 DEF EventsSound, EventSound, WereAll, EverWas, Exists
<1>10. StoreSound'
  <2>1. \A o \in GuildObject :
            /\ Mark(store'[o]) = Null \/ Mark(store'[o]) = Mark(store[o]) \/ o \in gone
            /\ o \in RoleOrChannel /\ Stored(store'[o]) => EverWas(o)
    BY <1>1, <1>2, <1>5, StoreStays
  <2>2. \A o \in Object : StrictlyOrdered(store'[o])
    BY <1>1, <1>2, AfterType DEF StoreSound
  <2>3. Guild \notin gone /\ Guild \in GuildObject /\ RoleOrChannel \subseteq GuildObject
    BY ConstantFacts DEF GuildObject, TypeOK
  <2> QED
    BY <1>1, <2>1, <2>2, <2>3 DEF StoreSound, EverWas, Exists
<1>11. PendingSound'
  <2> SUFFICES ASSUME NEW k \in 1..Len(pending')
               PROVE  /\ WereAll(pending[k].list)'
                      /\ pending'[k].op = "delete" => DOMAIN pending'[k].list \subseteq gone'
                      /\ pending'[k].op # "guild"
    BY DEF PendingSound
  <2>1. k + 1 \in 1..Len(pending) /\ pending'[k] = pending[k + 1] /\ k + 1 # 1
    BY <1>1, <1>3, <1>4
  <2> QED
    BY <1>1, <2>1 DEF PendingSound, WereAll, EverWas, Exists
<1>12. LinesTell'
  BY <1>1 DEF LinesTell
<1>13. Announced'
  BY <1>1 DEF Announced
<1>14. CASE Fails(tx)
  BY <1>1, <1>2, <1>8, <1>9, <1>10, <1>11, <1>12, <1>13, <1>14 DEF GuildComing, MembersComing
<1>15. CASE ~Fails(tx)
  <2>1. ASSUME NEW o \in Subject PROVE Undisturbed(o)
    <3>1. Awaited(o)' <=> Awaited(o)
      BY <1>1 DEF Awaited
    <3>2. WillHave(store[o], pending, o, world[o]) => WillHave(store'[o], rest, o, world[o])
      BY <1>1, <1>2, <1>3, <1>6, <1>7, <1>15, TailTx
    <3>3. Coming(o) => Coming(o)'
      BY <1>1, <1>3, <3>1, <3>2 DEF Coming
    <3> QED
      BY <1>1, <3>1, <3>3 DEF Undisturbed, InList, BeingListed, ListToCome
  <2>2. GuildComing' /\ MembersComing'
    BY <1>1, <1>2, <1>15, <2>1, AllStillComing DEF Exists
  <2> QED
    BY <1>8, <1>9, <1>10, <1>11, <1>12, <1>13, <2>2
<1> QED
  BY <1>14, <1>15

LEMMA GuildInvStep ==
    ASSUME GuildInv, [Next]_vars
    PROVE  GuildInv'
<1>1. TypeOK'
  BY TypeStep DEF GuildInv, StoreSound, Ordered
<1>2. ASSUME NEW o \in Object, NEW props \in Props, Create(o, props) \/ Update(o, props)
      PROVE  GuildInv'
  BY <1>1, <1>2, DiscordKeeps
<1>3. ASSUME NEW o \in Object, Delete(o) PROVE GuildInv'
  BY <1>1, <1>3, DiscordKeeps, ConstantFacts
<1>4. ASSUME Tick \/ UNCHANGED vars \/ \E a \in Account : LoseConnection(a) \/ Resume(a)
      PROVE  GuildInv'
  <2>1. CASE Tick \/ UNCHANGED vars
    <3>1. Untouched
      BY <2>1 DEF Untouched, Tick, vars, discord, download, main, history
    <3> QED
      BY <1>1, <3>1, UntouchedKeeps
  <2>2. ASSUME NEW a \in Account, LoseConnection(a) \/ Resume(a)
        PROVE  GuildInv'
    <3>1. Untouched
      BY <2>2 DEF Untouched, LoseConnection, Resume, UnchangedByLink, discord, main,
                  GuildInv, TypeOK
    <3> QED
      BY <1>1, <3>1, UntouchedKeeps
  <2> QED
    BY <1>4, <2>1, <2>2
<1>5. ASSUME Dies PROVE GuildInv'
  BY <1>1, <1>5, DiesKeeps
<1>6. ASSUME NEW a \in Account, LoseSession(a) \/ Dispatch(a) PROVE GuildInv'
  BY <1>1, <1>6, LoseSessionKeeps, DispatchKeeps
<1> QED
  BY <1>1, <1>2, <1>3, <1>4, <1>5, <1>6, OutageKeeps, SendChunkKeeps, StartKeeps,
     AllReadyKeeps, WorkKeeps DEF Next, Crash, Die

LEMMA GuildInvInit == Init => GuildInv
<1> SUFFICES ASSUME Init PROVE GuildInv
  OBVIOUS
<1>1. TypeOK
  <2>1. EmptyCell \in Cell /\ <<>> \in Seq(EventOf) /\ <<>> \in Seq(Transaction)
    BY EmptyCellFacts
  <2>2. {0} \subseteq 0..MaxChanges /\ 0 \in 0..MaxTime /\ 0 \in 0..Len(Chunks)
    BY GuildSyncAssumption, ConstantFacts
  <2> QED
    BY <2>1, <2>2 DEF Init, TypeOK
<1>2. Connected /\ GuildComing /\ MembersComing /\ Announced
  BY DEF Init, Connected, GuildComing, MembersComing, Announced
<1>3. EventsSound /\ PendingSound
  BY DEF Init, EventsSound, PendingSound
<1>4. StoreSound
  <2>1. \A o \in Object : store[o] = EmptyCell /\ ~Stored(store[o]) /\ Mark(store[o]) = Null
    BY EmptyCellFacts DEF Init, Mark
  <2>2. \A o \in Object : StrictlyOrdered(store[o])
    BY <2>1, EmptyCellFacts
  <2>3. Exists(Guild)
    BY ConstantFacts DEF Init
  <2> QED
    BY <2>1, <2>2, <2>3, ConstantFacts DEF Init, StoreSound
<1>5. LinesTell
  BY EmptyLine DEF Init, LinesTell
<1> QED
  BY <1>1, <1>2, <1>3, <1>4, <1>5 DEF GuildInv

-----------------------------------------------------------------------------
(* Whatever happens in Discord, to connections, to sessions and to the     *)
(* process, what is recorded, posted or still to be handled of the guild   *)
(* ends with what is.                                                      *)
THEOREM GuildSyncInvariant == Spec => []GuildInv
<1>1. GuildInv /\ [Next]_vars => GuildInv'
  BY GuildInvStep
<1> QED
  BY <1>1, GuildInvInit, PTL DEF Spec

(* The variables keep their types. *)
THEOREM GuildSyncTypeCorrect == Spec => []TypeOK
<1>1. GuildInv => TypeOK
  BY DEF GuildInv
<1> QED
  BY <1>1, GuildSyncInvariant, PTL

(* With no session lost, the database has the guild, its roles and its     *)
(* channels as they are once every event has been handled.                 *)
THEOREM DatabaseCatchesUp == Spec => []CaughtUp
<1>1. GuildInv => CaughtUp
  <2> SUFFICES ASSUME GuildInv, Quiet, ~lost, NEW o \in GuildObject
               PROVE  IF Exists(o)
                      THEN Stored(store[o]) /\ Mark(store[o]) = Null /\ store[o].latest.props = world[o]
                      ELSE Stored(store[o]) => Mark(store[o]) # Null
    BY DEF CaughtUp, GuildObject
  <2> USE DEF GuildInv
  <2>1. Has(store[o], o, world[o])
    <3>1. Coming(o) /\ ~Awaited(o)
      BY EmptyLine DEF Quiet, GuildComing, Awaited
    <3>2. \A k \in 1..Len(pending) : FALSE
      BY DEF Quiet
    <3> QED
      BY <3>1, <3>2 DEF Coming, WillHave
  <2>2. o \notin Member /\ (o \in RoleOrChannel \/ o = Guild)
    BY ConstantFacts DEF GuildObject
  <2>3. Exists(o) => Mark(store[o]) = Null
    BY <2>2 DEF StoreSound
  <2> QED
    BY <2>1, <2>2, <2>3 DEF Has, Exists
<1> QED
  BY <1>1, GuildSyncInvariant, PTL

(* With no session lost, and the members listed, the database has exactly  *)
(* those as members who are, but for some who joined meanwhile.            *)
THEOREM MembersCatchUp == Spec => []MembersCaughtUp
<1>1. GuildInv => MembersCaughtUp
  <2> SUFFICES ASSUME GuildInv, Quiet, ~lost, allReady, NEW m \in Member
               PROVE  IF Exists(m)
                      THEN m \in newcomers \/ (Stored(store[m]) /\ store[m].latest.props = world[m])
                      ELSE m \notin Requests!NotLeft(store, Guild)
    BY DEF MembersCaughtUp
  <2> USE DEF GuildInv
  <2>1. Coming(m) => Has(store[m], m, world[m])
    <3>1. ~Awaited(m)
      BY EmptyLine DEF Quiet, Awaited
    <3>2. \A k \in 1..Len(pending) : FALSE
      BY DEF Quiet
    <3> QED
      BY <3>1, <3>2 DEF Coming, WillHave
  <2>2. ~WillBeListed(m) /\ ~ListToCome
    BY DEF Quiet, WillBeListed, ListToCome
  <2>3. IF Exists(m) THEN MemberComing(m) ELSE LeaveComing(m)
    BY DEF MembersComing, Quiet
  <2>4. CASE Exists(m)
    BY <2>1, <2>2, <2>3, <2>4 DEF MemberComing, Quiet, Has, Exists
  <2>5. CASE ~Exists(m)
    <3>1. Has(store[m], m, Null)
      BY <2>1, <2>2, <2>3, <2>5 DEF LeaveComing, Quiet, Exists
    <3>2. Stored(store[m]) => store[m].latest.props = LeftProps
      BY <3>1 DEF Has
    <3> QED
      BY <2>5, <3>2, SameTables DEF Requests!NotLeft
  <2> QED
    BY <2>4, <2>5
<1> QED
  BY <1>1, GuildSyncInvariant, PTL
=============================================================================
