------------------------ MODULE MessageSync_proofs ------------------------
(* A sync leaves no hole behind it, and the last stored ID suffices when   *)
(* nobody posts meanwhile, for any number of messages, edits, crashes and  *)
(* stops, any page size and any messages with reactions.                   *)
EXTENDS MCMessageSync, SequenceTheorems, FiniteSetTheorems, WellFoundedInduction, TLAPS

-----------------------------------------------------------------------------
(* The inductive invariant of the sync.  Some transaction of q adds m.     *)
AddedBy(q, m) == \E k \in DOMAIN q : q[k].op = "add" /\ m \in DOMAIN q[k].msgs

\* Nothing more has to be done for the message: it is stored, its transaction
\* is on the way, the gateway brings it, or it is gone.
Settled(m) == m \in deleted \/ Table!Stored(store[m]) \/ Adds(m) \/ Creates(m)

\* The gateway brought, or brings, everything from this message on.
Live(m) == \A x \in m..posted : Settled(x)

\* The message was stored, or a transaction with it posted.
Known(m) == Table!Stored(store[m]) \/ Adds(m)

\* The sync did not come across the message, or not post it, yet.
Fresh(x) ==
    \/ sync.state = "reading" /\ sync.answer = "read" /\ x > sync.start
    \/ sync.state \in {"requesting", "answered", "reactions", "flushed"} /\ x > sync.after
    \/ sync.state \in {"answered", "reactions"} /\ x \in DOMAIN sync.rest

Dead == ~alive => events = <<>> /\ pending = <<>> /\ sync = NoSync

\* The messages that the gateway brings are those from some message on.
CreatedLive == \A x \in Id : Creates(x) => Live(x)
StartedLive == alive /\ lastMessageID # 0 => Live(lastMessageID + 1)

\* What a sync has not come across but is known came by the gateway.
FreshLive == \A x \in Id : Fresh(x) /\ Known(x) => Live(x)

\* The one transaction that syncMessages waits for.
OneAwaited ==
    \A k \in DOMAIN pending : pending[k].awaited =>
        /\ sync.state \in {"reading", "flushed"} /\ sync.answer = "none"
        /\ \A j \in DOMAIN pending : pending[j].awaited => j = k

\* Behind the request for the last ID there is only what the gateway brought.
LastAsked ==
    sync.state = "reading" /\ sync.answer = "none" =>
        \E k \in DOMAIN pending :
            /\ pending[k].op = "last" /\ pending[k].awaited
            /\ \A j \in DOMAIN pending : \A x \in DOMAIN pending[j].msgs :
                j > k /\ pending[j].op = "add" => Live(x)

\* The newest message of the transaction awaited at the end of a page is known
\* by then only if the gateway brought it.
FlushAsked ==
    sync.state = "flushed" /\ sync.answer = "none" =>
        \E k \in DOMAIN pending :
            /\ pending[k].op = "add" /\ pending[k].awaited
            /\ \E r \in DOMAIN pending[k].msgs :
                /\ r = Max(DOMAIN pending[k].msgs) /\ r <= sync.after
                /\ Table!Stored(store[r]) => Live(sync.after)
                /\ \A j \in DOMAIN pending :
                    j # k /\ pending[j].op = "add" /\ r \in DOMAIN pending[j].msgs
                    => Live(sync.after)

Answers ==
    /\ sync.state = "reading" => sync.answer \in {"none", "read"}
    /\ sync.state = "flushed" => sync.answer \in {"none", "known", "new"}
    /\ sync.state \notin {"reading", "flushed"} => sync.answer = "none"
    /\ sync.state = "flushed" /\ sync.answer = "known" =>
        sync.after # 0 /\ Live(sync.after)

\* What a page holds, and that it holds all there is.
PageInHand ==
    /\ sync.state = "answered" =>
        /\ \A x \in DOMAIN sync.rest : x > sync.after
        /\ \A x \in DOMAIN sync.rest : \A m \in (sync.after + 1)..x : Covered(m)
        /\ Cardinality(DOMAIN sync.rest) # PageSize =>
            \A m \in (sync.after + 1)..posted : Covered(m)
    /\ sync.state = "reactions" => sync.rest # None /\ \A x \in DOMAIN sync.rest : x <= sync.after
    /\ sync.state \notin {"answered", "reactions"} => sync.rest = None

\* No hole up to the newest message that was downloaded, and after a short
\* page none at all.
NoHole ==
    /\ sync.state \in {"requesting", "answered", "reactions", "flushed"} =>
        \A m \in (sync.start + 1)..sync.after : Covered(m)
    /\ sync.state \in {"reactions", "flushed"} /\ ~sync.full =>
        \A m \in (sync.start + 1)..posted : Covered(m)
    /\ sync.state = "finished" => \A m \in (sync.start + 1)..posted : Covered(m)

SInv ==
    /\ TypeOK /\ Dead /\ CreatedLive /\ StartedLive /\ FreshLive /\ OneAwaited
    /\ LastAsked /\ FlushAsked /\ Answers /\ PageInHand /\ NoHole

-----------------------------------------------------------------------------
(* The inductive invariant of a behaviour in which nobody posts while the  *)
(* archiver runs, together with the one above: the messages become known   *)
(* from the oldest to the newest.                                          *)
There(x) == x \in deleted \/ Table!Stored(store[x])

NoCreates == \A m \in Id : ~Creates(m)

StoredInOrder == \A m \in Id : Table!Stored(store[m]) => \A x \in 1..(m - 1) : There(x)

PostedInOrder ==
    \A k \in DOMAIN pending : \A m \in DOMAIN pending[k].msgs : \A x \in 1..(m - 1) :
        pending[k].op = "add" =>
            There(x) \/ \E j \in 1..k : pending[j].op = "add" /\ x \in DOMAIN pending[j].msgs

\* What is in the database or on its way there.
Coming(x) == There(x) \/ Adds(x)

PagesInOrder ==
    /\ sync.state \in {"requesting", "answered"} => \A x \in 1..sync.after : Coming(x)
    /\ sync.state \in {"answered", "reactions"} =>
        \A m \in DOMAIN sync.rest : \A x \in 1..(m - 1) : Coming(x) \/ x \in DOMAIN sync.rest
    /\ sync.state \in {"reactions", "flushed"} =>
        \A x \in 1..sync.after : Coming(x) \/ x \in DOMAIN sync.rest

StartThere ==
    sync.state \in {"reading", "requesting", "answered", "reactions", "flushed", "finished"}
    => \A x \in 1..sync.start : There(x)

QInv == NoCreates /\ StoredInOrder /\ PostedInOrder /\ PagesInOrder /\ StartThere

QuietInv == quiet => QInv

-----------------------------------------------------------------------------
(* Numbers, pages and queues.                                              *)
(* A set of numbers has a least element.                                   *)
LEMMA LeastNumber ==
    ASSUME NEW S \in SUBSET Nat, S # {}
    PROVE  \E x \in S : \A y \in S : x <= y
<1>1. \E x \in S : \A y \in S : <<y, x>> \notin OpToRel(<, Nat)
  BY NatLessThanWellFounded, WFMin
<1>2. PICK x \in S : \A y \in S : <<y, x>> \notin OpToRel(<, Nat)
  BY <1>1
<1>3. \A y \in S : ~(y < x)
  BY <1>2 DEF OpToRel
<1> QED BY <1>3

(* Min is the least element.                                               *)
LEMMA MinOfIds ==
    ASSUME NEW S \in SUBSET Id, S # {}
    PROVE  Min(S) \in S /\ \A y \in S : Min(S) <= y
<1>1. \E x \in S : \A y \in S : x <= y
  BY LeastNumber, SyncAssumption DEF Id
<1> QED BY <1>1 DEF Min

(* Max is the greatest.                                                    *)
LEMMA MaxOfIds ==
    ASSUME NEW S \in SUBSET ({0} \cup Id), S # {}
    PROVE  Max(S) \in S /\ \A y \in S : y <= Max(S)
<1> DEFINE T == {n \in 0..MaxMessage : MaxMessage - n \in S}
<1>1. S \subseteq 0..MaxMessage /\ MaxMessage \in Nat
  BY SyncAssumption DEF Id
<1>2. \A y \in S : y \in Nat /\ MaxMessage - y \in T
  BY <1>1
<1>3. PICK t \in T : \A u \in T : t <= u
  <2>1. T \subseteq Nat
    BY <1>1
  <2>2. T # {}
    BY <1>2
  <2> QED BY <2>1, <2>2, LeastNumber
<1>5. MaxMessage - t \in S /\ \A y \in S : y <= MaxMessage - t
  BY <1>1, <1>2, <1>3
<1>6. \E z \in S : \A y \in S : z >= y
  BY <1>1, <1>5
<1> QED BY <1>1, <1>6 DEF Max

(* What a queue that grew adds.                                            *)
LEMMA QueueAppended ==
    ASSUME NEW q \in Seq(Transaction), NEW tx \in Transaction
    PROVE  /\ Append(q, tx) \in Seq(Transaction)
           /\ DOMAIN q = 1..Len(q) /\ Len(q) \in Nat
           /\ DOMAIN Append(q, tx) = 1..(Len(q) + 1)
           /\ \A k \in 1..Len(q) : Append(q, tx)[k] = q[k]
           /\ Append(q, tx)[Len(q) + 1] = tx
           /\ \A m : AddedBy(Append(q, tx), m) <=>
                        AddedBy(q, m) \/ (tx.op = "add" /\ m \in DOMAIN tx.msgs)
<1>1. /\ Append(q, tx) \in Seq(Transaction) /\ Len(q) \in Nat
      /\ DOMAIN q = 1..Len(q) /\ DOMAIN Append(q, tx) = 1..(Len(q) + 1)
      /\ \A k \in 1..Len(q) : Append(q, tx)[k] = q[k]
      /\ Append(q, tx)[Len(q) + 1] = tx
  BY AppendProperties, LenProperties
<1>2. \A k \in 1..(Len(q) + 1) : k \in 1..Len(q) \/ k = Len(q) + 1
  BY <1>1
<1> QED BY <1>1, <1>2 DEF AddedBy

(* What a queue adds is added by its head or by the rest.                  *)
LEMMA QueueTaken ==
    ASSUME NEW q \in Seq(Transaction), q # <<>>
    PROVE  /\ Tail(q) \in Seq(Transaction) /\ Head(q) \in Transaction
           /\ Len(q) \in Nat \ {0} /\ DOMAIN q = 1..Len(q)
           /\ DOMAIN Tail(q) = 1..(Len(q) - 1)
           /\ \A k \in 1..(Len(q) - 1) : Tail(q)[k] = q[k + 1]
           /\ Head(q) = q[1]
           /\ \A m : AddedBy(q, m) <=>
                        AddedBy(Tail(q), m) \/ (Head(q).op = "add" /\ m \in DOMAIN Head(q).msgs)
<1>1. /\ Tail(q) \in Seq(Transaction) /\ Head(q) \in Transaction /\ Head(q) = q[1]
      /\ Len(q) \in Nat \ {0} /\ DOMAIN q = 1..Len(q) /\ DOMAIN Tail(q) = 1..(Len(q) - 1)
      /\ \A k \in 1..(Len(q) - 1) : Tail(q)[k] = q[k + 1]
  BY HeadTailProperties, EmptySeq, LenProperties
<1>2. PICK n \in Nat \ {0} : n = Len(q)
  BY <1>1
<1>0. PICK rest, h : rest = Tail(q) /\ h = Head(q)
  OBVIOUS
<1>3. ASSUME NEW m, AddedBy(q, m)
      PROVE  AddedBy(rest, m) \/ (h.op = "add" /\ m \in DOMAIN h.msgs)
  <2>1. PICK k \in 1..n : q[k].op = "add" /\ m \in DOMAIN q[k].msgs
    BY <1>0, <1>1, <1>2, <1>3 DEF AddedBy
  <2>2. CASE k = 1
    BY <1>0, <1>1, <1>2, <2>1, <2>2
  <2>3. CASE k # 1
    <3>1. k - 1 \in 1..(n - 1) /\ k = (k - 1) + 1
      BY <2>3
    <3> QED BY <3>1, <1>0, <1>1, <1>2, <2>1 DEF AddedBy
  <2> QED BY <2>2, <2>3
<1>4. ASSUME NEW m, AddedBy(rest, m) PROVE AddedBy(q, m)
  <2>1. PICK k \in 1..(n - 1) : rest[k].op = "add" /\ m \in DOMAIN rest[k].msgs
    BY <1>0, <1>1, <1>2, <1>4 DEF AddedBy
  <2>2. k + 1 \in 1..n
    OBVIOUS
  <2> QED BY <2>1, <2>2, <1>0, <1>1, <1>2 DEF AddedBy
<1>5. ASSUME NEW m, h.op = "add" /\ m \in DOMAIN h.msgs PROVE AddedBy(q, m)
  <2>1. 1 \in 1..n
    OBVIOUS
  <2> QED BY <2>1, <1>0, <1>1, <1>2, <1>5 DEF AddedBy
<1> QED BY <1>0, <1>1, <1>2, <1>3, <1>4, <1>5

-----------------------------------------------------------------------------
(* Pages and tables.                                                       *)
(* What a partial function of messages is.                                 *)
LEMMA MessagesFacts ==
    ASSUME NEW msgs
    PROVE  /\ msgs \in Messages <=> /\ msgs = [m \in DOMAIN msgs |-> msgs[m]]
                                    /\ DOMAIN msgs \subseteq Id
                                    /\ \A m \in DOMAIN msgs : msgs[m] \in Version
           /\ msgs \in Messages => (msgs = None <=> DOMAIN msgs = {})
           /\ None \in Messages /\ DOMAIN None = {}
<1>1. None \in Messages /\ DOMAIN None = {}
  BY DEF Messages, None
<1>2. ASSUME msgs \in Messages
      PROVE  /\ msgs = [m \in DOMAIN msgs |-> msgs[m]]
             /\ DOMAIN msgs \subseteq Id /\ \A m \in DOMAIN msgs : msgs[m] \in Version
             /\ msgs = None <=> DOMAIN msgs = {}
  <2>1. PICK ids \in SUBSET Id : msgs \in [ids -> Version]
    BY <1>2 DEF Messages
  <2> QED BY <2>1 DEF None
<1>3. ASSUME msgs = [m \in DOMAIN msgs |-> msgs[m]], DOMAIN msgs \subseteq Id,
             \A m \in DOMAIN msgs : msgs[m] \in Version
      PROVE  msgs \in Messages
  <2>1. PICK ids \in SUBSET Id : ids = DOMAIN msgs
    BY <1>3
  <2>2. msgs \in [ids -> Version]
    BY <2>1, <1>3
  <2> QED BY <2>2 DEF Messages
<1> QED BY <1>1, <1>2, <1>3

(* Those of them with some IDs.                                            *)
LEMMA OnlyFacts ==
    ASSUME NEW msgs \in Messages, NEW ids
    PROVE  /\ Only(msgs, ids) \in Messages
           /\ DOMAIN Only(msgs, ids) = DOMAIN msgs \cap ids
           /\ Only(msgs, ids) = None <=> DOMAIN msgs \cap ids = {}
<1>1. PICK part : part = Only(msgs, ids)
  OBVIOUS
<1>2. /\ part = [m \in DOMAIN part |-> part[m]]
      /\ DOMAIN part = DOMAIN msgs \cap ids
      /\ \A m \in DOMAIN part : part[m] = msgs[m]
  BY <1>1 DEF Only
<1>3. DOMAIN msgs \subseteq Id /\ \A m \in DOMAIN msgs : msgs[m] \in Version
  BY MessagesFacts
<1>4. part \in Messages
  BY <1>2, <1>3, MessagesFacts
<1> QED BY <1>1, <1>2, <1>4, MessagesFacts

(* One message alone.                                                      *)
LEMMA OneFacts ==
    ASSUME NEW m \in Id, NEW v \in Version
    PROVE  One(m, v) \in Messages /\ DOMAIN One(m, v) = {m}
<1>1. {m} \in SUBSET Id /\ One(m, v) \in [{m} -> Version]
  BY DEF One
<1> QED BY <1>1 DEF Messages

(* A page holds the messages after the given one, without a hole, and all  *)
(* of them unless it is full.                                              *)
LEMMA PageFacts ==
    ASSUME TypeOK, NEW after \in {0} \cup Id
    PROVE  LET page == DOMAIN PageAfter(after)
           IN /\ PageAfter(after) \in Messages /\ page \subseteq 1..posted
              /\ \A x \in page : x > after
              /\ \A x \in page : \A m \in (after + 1)..x : m \in deleted \/ m \in page
              /\ Cardinality(page) # PageSize =>
                    \A m \in (after + 1)..posted : m \in deleted \/ m \in page
<1> DEFINE later == {m \in (1..posted) \ deleted : m > after}
<1> DEFINE Before(x) == {y \in later : y < x}
<1>1. /\ posted \in Nat /\ after \in Nat /\ PageSize \in Nat \ {0}
      /\ 1..posted \subseteq Id /\ version \in [Id -> Version]
  BY SyncAssumption DEF TypeOK, Id
<1>2. later \subseteq 1..posted /\ IsFiniteSet(later)
  <2>1. IsFiniteSet(1..posted)
    BY <1>1, FS_Interval
  <2> QED BY <2>1, FS_Subset
<1>3. PICK page : page = {x \in later : Cardinality(Before(x)) < PageSize}
  OBVIOUS
<1>4. DOMAIN PageAfter(after) = page /\ PageAfter(after) \in Messages
  <2>1. PageAfter(after) = [m \in page |-> version[m]]
    BY <1>3 DEF PageAfter
  <2>2. page \in SUBSET Id
    BY <1>1, <1>2, <1>3
  <2>3. [m \in page |-> version[m]] \in [page -> Version]
    BY <1>1, <2>2
  <2> QED BY <2>1, <2>2, <2>3 DEF Messages
<1>5. ASSUME NEW x \in later
      PROVE  IsFiniteSet(Before(x)) /\ Cardinality(Before(x)) \in Nat
  BY <1>2, FS_Subset, FS_CardinalityType
<1>6. ASSUME NEW x \in page, NEW m \in later, m <= x PROVE m \in page
  <2>1. Before(m) \subseteq Before(x)
    BY <1>1, <1>2, <1>3, <1>6
  <2>2. Cardinality(Before(m)) <= Cardinality(Before(x))
    BY <2>1, <1>3, <1>5, FS_Subset
  <2>3. Cardinality(Before(x)) < PageSize /\ x \in later
    BY <1>3
  <2>4. Cardinality(Before(x)) \in Nat /\ Cardinality(Before(m)) \in Nat
    BY <2>3, <1>5
  <2>5. Cardinality(Before(m)) < PageSize
    BY <2>2, <2>3, <2>4, <1>1
  <2> QED BY <2>5, <1>3
<1>7. \A x \in page : \A m \in (after + 1)..x : m \in deleted \/ m \in page
  BY <1>1, <1>2, <1>3, <1>6
<1>8. ASSUME NEW out \in later, out \notin page PROVE Cardinality(page) = PageSize
  <2>1. PICK m \in later : m \notin page /\ \A y \in later : y \notin page => m <= y
    <3>1. (later \ page) \in SUBSET Nat /\ later \ page # {}
      BY <1>8, <1>2
    <3> QED BY <3>1, LeastNumber
  <2>2. Before(m) = page
    BY <1>1, <1>2, <1>3, <1>6, <2>1
  <2>3. Cardinality(page) >= PageSize
    <3>1. ~(Cardinality(Before(m)) < PageSize)
      BY <2>1, <1>3
    <3>2. Cardinality(Before(m)) \in Nat
      BY <2>1, <1>5
    <3>3. ~(Cardinality(page) < PageSize) /\ Cardinality(page) \in Nat
      BY <3>1, <3>2, <2>2
    <3> QED BY <3>3, <1>1
  <2>4. page # {}
    <3>1. Cardinality({}) = 0
      BY FS_EmptySet
    <3> QED BY <3>1, <2>3, <1>1
  <2>5. PICK x \in page : \A y \in page : y <= x
    <3>1. page \in SUBSET ({0} \cup Id)
      BY <1>1, <1>2, <1>3
    <3> QED BY <3>1, <2>4, MaxOfIds
  <2>6. Before(x) = page \ {x}
    BY <1>1, <1>2, <1>3, <1>6, <2>5
  <2>7. IsFiniteSet(page) /\ Cardinality(page) \in Nat
    BY <1>5, <2>1, <2>2
  <2>8. Cardinality(page \ {x}) = Cardinality(page) - 1
    BY <2>7, <2>5, FS_RemoveElement
  <2>9. Cardinality(page) - 1 < PageSize
    BY <2>5, <2>6, <2>8, <1>3
  <2> QED BY <2>3, <2>7, <2>9, <1>1
<1>9. Cardinality(page) # PageSize =>
          \A m \in (after + 1)..posted : m \in deleted \/ m \in page
  <2> SUFFICES ASSUME Cardinality(page) # PageSize, NEW m \in (after + 1)..posted,
                      m \notin deleted
               PROVE  m \in page
    OBVIOUS
  <2>1. m \in later
    BY <1>1
  <2> QED BY <2>1, <1>8
<1>10. page \subseteq 1..posted /\ \A x \in page : x > after
  BY <1>2, <1>3
<1> QED BY <1>4, <1>7, <1>9, <1>10

(* A transaction changes what is stored only by what it adds.              *)
LEMMA AfterFacts ==
    ASSUME TypeOK, NEW tx \in Transaction
    PROVE  /\ After(tx) \in [Id -> Table!Cell]
           /\ \A m \in Id : Table!Stored(After(tx)[m]) <=>
                 Table!Stored(store[m]) \/ (tx.op = "add" /\ m \in DOMAIN tx.msgs)
<1>1. tx.op \in {"add", "edit", "delete"} \/ DOMAIN tx.msgs = {}
  BY MessagesFacts DEF Transaction
<1>2. tx.msgs \in Messages
  BY MessagesFacts DEF Transaction
<1>3. ASSUME NEW m \in Id, NEW v \in Version
      PROVE  LET new == Table!AddSnapshot(store[m], Snap(v))
             IN new \in Table!Cell /\ Table!Stored(new)
  <2> DEFINE cell == store[m]
  <2> DEFINE snap == Snap(v)
  <2>1. /\ cell.latest \in Table!LatestRow \cup {Null}
        /\ cell.previous \in SUBSET Table!Snapshot
        /\ cell = [latest |-> cell.latest, previous |-> cell.previous]
    BY DEF TypeOK, Table!Cell
  <2>2. snap \in Table!Snapshot /\ snap.ts \in Nat /\ snap.props \in Version
    BY <1>3, SyncAssumption DEF Snap, Version, Table!Snapshot
  <2>3. CASE Table!AddOutcome(cell, snap) = "ADDED_FIRST_SNAPSHOT"
    <3> DEFINE row == [ts |-> snap.ts, deleted |-> Null, props |-> snap.props]
    <3>1. row \in Table!LatestRow
      BY <2>2 DEF Table!LatestRow, Table!Deletion
    <3>2. Table!AddSnapshot(cell, snap) = [latest |-> row, previous |-> cell.previous]
      BY <2>1, <2>3 DEF Table!AddSnapshot
    <3> QED BY <3>1, <3>2, <2>1, NullAssumption DEF Table!Cell, Table!Stored
  <2>4. CASE Table!AddOutcome(cell, snap) = "ADDED_ANOTHER_SNAPSHOT"
    <3> DEFINE old == cell.latest
    <3> DEFINE row == [old EXCEPT !.ts = snap.ts, !.props = snap.props]
    <3>1. old \in Table!LatestRow
      BY <2>1, <2>4 DEF Table!AddOutcome, Table!Stored
    <3>2. row \in Table!LatestRow /\ Table!SnapshotOf(old) \in Table!Snapshot
      BY <3>1, <2>2 DEF Table!LatestRow, Table!SnapshotOf, Table!Snapshot
    <3>3. Table!AddSnapshot(cell, snap) =
            [latest |-> row, previous |-> cell.previous \cup {Table!SnapshotOf(old)}]
      BY <2>4 DEF Table!AddSnapshot
    <3> QED BY <3>2, <3>3, <2>1, NullAssumption DEF Table!Cell, Table!Stored
  <2>5. CASE Table!AddOutcome(cell, snap) \notin {"ADDED_FIRST_SNAPSHOT", "ADDED_ANOTHER_SNAPSHOT"}
    <3>1. Table!AddSnapshot(cell, snap) = cell
      BY <2>5 DEF Table!AddSnapshot
    <3>2. Table!Stored(cell)
      BY <2>5 DEF Table!AddOutcome
    <3> QED BY <3>1, <3>2 DEF TypeOK
  <2> QED BY <2>3, <2>4, <2>5
<1>4. ASSUME NEW m \in Id
      PROVE  LET new == Table!MarkAsDeleted(store[m], 1)
             IN new \in Table!Cell /\ (Table!Stored(new) <=> Table!Stored(store[m]))
  <2> DEFINE cell == store[m]
  <2> DEFINE old == cell.latest
  <2>1. /\ old \in Table!LatestRow \cup {Null}
        /\ cell.previous \in SUBSET Table!Snapshot
        /\ cell = [latest |-> old, previous |-> cell.previous] /\ cell \in Table!Cell
    BY DEF TypeOK, Table!Cell
  <2>2. CASE Table!Stored(cell)
    <3> DEFINE row == [old EXCEPT !.deleted = 1]
    <3>1. row \in Table!LatestRow
      BY <2>1, <2>2 DEF Table!LatestRow, Table!Deletion, Table!Stored
    <3>2. Table!MarkAsDeleted(cell, 1) = [latest |-> row, previous |-> cell.previous]
      BY <2>1, <2>2 DEF Table!MarkAsDeleted
    <3> QED BY <3>1, <3>2, <2>1, <2>2, NullAssumption DEF Table!Cell, Table!Stored
  <2>3. CASE ~Table!Stored(cell)
    BY <2>1, <2>3 DEF Table!MarkAsDeleted
  <2> QED BY <2>2, <2>3
<1>5. ASSUME NEW m \in Id
      PROVE  /\ After(tx)[m] \in Table!Cell
             /\ Table!Stored(After(tx)[m]) <=>
                   Table!Stored(store[m]) \/ (tx.op = "add" /\ m \in DOMAIN tx.msgs)
  <2>1. store[m] \in Table!Cell
    BY DEF TypeOK
  <2>2. CASE m \notin DOMAIN tx.msgs
    BY <2>1, <2>2 DEF After
  <2>3. CASE m \in DOMAIN tx.msgs
    <3>1. tx.msgs[m] \in Version
      BY <2>3, <1>2, MessagesFacts
    <3>2. PICK added : added = Table!AddSnapshot(store[m], Snap(tx.msgs[m]))
      OBVIOUS
    <3>3. PICK marked : marked = Table!MarkAsDeleted(store[m], 1)
      OBVIOUS
    <3>4. After(tx)[m] = CASE tx.op = "add" -> added
                           [] tx.op = "edit" -> IF Table!Stored(store[m]) THEN added ELSE store[m]
                           [] tx.op = "delete" -> marked
      BY <2>3, <3>2, <3>3 DEF After
    <3>5. added \in Table!Cell /\ Table!Stored(added)
      BY <3>1, <3>2, <1>3
    <3>6. marked \in Table!Cell /\ (Table!Stored(marked) <=> Table!Stored(store[m]))
      BY <3>3, <1>4
    <3>7. tx.op \in {"add", "edit", "delete"}
      BY <2>3, <1>1
    <3> QED BY <2>1, <2>3, <3>4, <3>5, <3>6, <3>7
  <2> QED BY <2>2, <2>3
<1> QED BY <1>5 DEF After

(* The last stored ID is the newest one stored.                            *)
LEMMA LastIDFacts ==
    ASSUME TypeOK
    PROVE  /\ LastID(store) \in {0} \cup Id
           /\ \A m \in Id : Table!Stored(store[m]) => m <= LastID(store)
           /\ LastID(store) # 0 => Table!Stored(store[LastID(store)])
<1>1. StoredIDs(store) \in SUBSET ({0} \cup Id) /\ StoredIDs(store) \subseteq Id
  BY DEF StoredIDs
<1>2. CASE StoredIDs(store) = {}
  BY <1>2 DEF LastID, StoredIDs
<1>3. CASE StoredIDs(store) # {}
  <2>1. /\ Max(StoredIDs(store)) \in StoredIDs(store)
        /\ \A m \in StoredIDs(store) : m <= Max(StoredIDs(store))
    BY <1>1, <1>3, MaxOfIds
  <2> QED BY <2>1, <1>1, <1>3 DEF LastID, StoredIDs
<1> QED BY <1>2, <1>3

(* Only transactions that add something are posted.                        *)
LEMMA Queued ==
    ASSUME NEW q \in Seq(Transaction), NEW msgs \in Messages, NEW awaited \in BOOLEAN
    PROVE  /\ Tx("add", msgs, awaited) \in Transaction
           /\ msgs = None => q \o AddTx(msgs, awaited) = q
           /\ msgs # None => q \o AddTx(msgs, awaited) = Append(q, Tx("add", msgs, awaited))
<1>1. Tx("add", msgs, awaited) \in Transaction
  BY DEF Tx, Transaction
<1>2. CASE msgs = None
  BY <1>1, <1>2, ConcatEmptySeq DEF AddTx
<1>3. CASE msgs # None
  BY <1>1, <1>3, AppendIsConcat DEF AddTx
<1> QED BY <1>1, <1>2, <1>3

\* What Process makes of the sync and the queue.  prior and the messages in
\* front are posted; the first of the transactions posted is the one awaited,
\* at the end of the page.
ProcessedSync(msgs, front, end) ==
    /\ end <=> DOMAIN msgs \subseteq front
    /\ sync'.state = IF end THEN "flushed" ELSE "reactions"
    /\ sync'.start = sync.start /\ sync'.answer = sync.answer
    /\ sync'.rest \in Messages /\ DOMAIN sync'.rest = DOMAIN msgs \ front
    /\ end <=> sync'.rest = None
    /\ sync'.after \in {sync.after} \cup DOMAIN msgs /\ sync'.after >= sync.after
    /\ \A x \in DOMAIN msgs : x <= sync'.after
    /\ sync'.full = IF sync.state = "answered" THEN Cardinality(DOMAIN msgs) = PageSize
                    ELSE sync.full

PostedTx(tx, k, prior, front, end) ==
    /\ k >= Len(pending) + 1 /\ tx.op = "add" /\ tx.msgs \in Messages /\ DOMAIN tx.msgs # {}
    /\ DOMAIN tx.msgs = DOMAIN prior \/ DOMAIN tx.msgs = front
    /\ tx.awaited => end /\ k = Len(pending) + 1
    /\ end /\ k = Len(pending) + 1 => tx.awaited

ProcessedQueue(prior, front, end) ==
    LET n == Len(pending)
    IN /\ DOMAIN pending \subseteq DOMAIN pending'
       /\ \A k \in DOMAIN pending : pending'[k] = pending[k]
       /\ \A m : AddedBy(pending', m) <=>
                    AddedBy(pending, m) \/ m \in DOMAIN prior \/ m \in front
       /\ \A k \in DOMAIN pending' \ DOMAIN pending :
            PostedTx(pending'[k], k, prior, front, end)
       /\ \A k, j \in DOMAIN pending' \ DOMAIN pending :
            j # k => DOMAIN pending'[j].msgs \cap DOMAIN pending'[k].msgs = {}
       /\ end \/ prior # None => n + 1 \in DOMAIN pending' \ DOMAIN pending
       /\ prior # None => DOMAIN pending'[n + 1].msgs = DOMAIN prior

(* The sync after a part of a page was processed.                          *)
LEMMA ProcessSync ==
    ASSUME TypeOK, NEW prior \in Messages, NEW msgs \in Messages, Process(prior, msgs)
    PROVE  LET front == Unreacted(msgs)
               end == Only(msgs, Id \ front) = None
           IN /\ front \subseteq DOMAIN msgs
              /\ \A x \in front : \A y \in DOMAIN msgs : y < x => y \in front
              /\ ProcessedSync(msgs, front, end)
              /\ sync' \in [state: SyncState, start: {0} \cup Id, after: {0} \cup Id,
                            rest: Messages, full: BOOLEAN,
                            answer: {"none", "read", "known", "new"}]
<1> DEFINE front == Unreacted(msgs)
<1> DEFINE rest == Only(msgs, Id \ front)
<1> DEFINE end == rest = None
<1>1. DOMAIN msgs \subseteq Id /\ Id \subseteq Nat
  BY MessagesFacts, SyncAssumption DEF Id
<1>2. front \subseteq DOMAIN msgs /\ \A x \in front : \A y \in DOMAIN msgs : y < x => y \in front
  <2>1. front \subseteq DOMAIN msgs
    BY DEF Unreacted
  <2>2. ASSUME NEW x \in front, NEW y \in DOMAIN msgs, y < x,
               NEW r \in DOMAIN msgs \cap Reacted
        PROVE  y < r
    <3>1. x < r /\ x \in DOMAIN msgs
      BY <2>2 DEF Unreacted
    <3>2. x \in Nat /\ y \in Nat /\ r \in Nat
      BY <3>1, <1>1
    <3> QED BY <3>1, <3>2, <2>2
  <2> QED BY <2>1, <2>2 DEF Unreacted
<1>3. /\ rest \in Messages /\ DOMAIN rest = DOMAIN msgs \ front
      /\ end <=> DOMAIN msgs \subseteq front
  <2>1. DOMAIN msgs \cap (Id \ front) = DOMAIN msgs \ front
    BY <1>1
  <2>2. PICK ids : ids = Id \ front
    OBVIOUS
  <2>3. /\ Only(msgs, ids) \in Messages /\ DOMAIN Only(msgs, ids) = DOMAIN msgs \cap ids
        /\ Only(msgs, ids) = None <=> DOMAIN msgs \cap ids = {}
    BY OnlyFacts
  <2> QED BY <2>1, <2>2, <2>3
<1>4. sync.after \in {0} \cup Id /\ sync.after \in Nat
  <2>1. sync.after = 0 \/ sync.after \in Id
    BY DEF TypeOK
  <2>2. CASE sync.after = 0
    BY <2>2
  <2>3. CASE sync.after \in Id
    BY <2>3, <1>1
  <2> QED BY <2>1, <2>2, <2>3
<1>5. PICK max : max = Max({sync.after} \cup DOMAIN msgs)
  OBVIOUS
<1>6. /\ max \in {sync.after} \cup DOMAIN msgs /\ max >= sync.after
      /\ \A x \in DOMAIN msgs : x <= max
  <2>1. {sync.after} \cup DOMAIN msgs \in SUBSET ({0} \cup Id)
    BY <1>1, <1>4
  <2>2. {sync.after} \cup DOMAIN msgs # {}
    OBVIOUS
  <2>3. max \in {sync.after} \cup DOMAIN msgs /\ \A y \in {sync.after} \cup DOMAIN msgs : y <= max
    BY <2>1, <2>2, <1>5, MaxOfIds
  <2>4. max \in Nat
    BY <2>1, <2>3, <1>1, <1>4
  <2> QED BY <2>3, <2>4, <1>1, <1>4
<1>7. PICK after : after = IF msgs = None THEN sync.after ELSE max
  OBVIOUS
<1>8. PICK full \in BOOLEAN : full = IF sync.state = "answered"
                                     THEN Cardinality(DOMAIN msgs) = PageSize ELSE sync.full
  BY DEF TypeOK
<1>9. /\ after \in {sync.after} \cup DOMAIN msgs /\ after >= sync.after
      /\ \A x \in DOMAIN msgs : x <= after /\ after \in {0} \cup Id
  BY <1>1, <1>4, <1>6, <1>7, MessagesFacts
<1>10. sync' = [sync EXCEPT !.state = IF end THEN "flushed" ELSE "reactions", !.rest = rest,
                            !.after = after, !.full = full]
  BY <1>5, <1>7, <1>8 DEF Process
<1>11. PICK state \in SyncState : state = IF end THEN "flushed" ELSE "reactions"
  BY DEF SyncState
<1>12. sync' = [sync EXCEPT !.state = state, !.rest = rest, !.after = after, !.full = full]
  BY <1>10, <1>11
<1>13. /\ sync'.state = state /\ sync'.rest = rest /\ sync'.after = after /\ sync'.full = full
       /\ sync'.start = sync.start /\ sync'.answer = sync.answer
       /\ after \in {0} \cup Id
       /\ sync' \in [state: SyncState, start: {0} \cup Id, after: {0} \cup Id,
                     rest: Messages, full: BOOLEAN, answer: {"none", "read", "known", "new"}]
  BY <1>1, <1>3, <1>4, <1>9, <1>12 DEF TypeOK
<1>14. ProcessedSync(msgs, front, end)
  BY <1>3, <1>8, <1>9, <1>11, <1>13 DEF ProcessedSync
<1> QED BY <1>2, <1>13, <1>14

(* The queue after it.                                                     *)
LEMMA ProcessQueue ==
    ASSUME TypeOK, NEW prior \in Messages, NEW msgs \in Messages, Process(prior, msgs),
           prior # None \/ msgs # None, DOMAIN prior \cap DOMAIN msgs = {}
    PROVE  LET front == Unreacted(msgs)
               end == Only(msgs, Id \ front) = None
           IN pending' \in Seq(Transaction) /\ ProcessedQueue(prior, front, end)
<1> DEFINE n == Len(pending)
<1>1. PICK front \in SUBSET DOMAIN msgs : front = Unreacted(msgs)
  BY DEF Unreacted
<1>2. PICK end \in BOOLEAN : end = (Only(msgs, Id \ front) = None)
  OBVIOUS
<1>3. end <=> front = DOMAIN msgs
  <2>1. DOMAIN msgs \subseteq Id
    BY MessagesFacts
  <2>2. DOMAIN msgs \cap (Id \ front) = DOMAIN msgs \ front
    BY <2>1
  <2>3. PICK ids : ids = Id \ front
    OBVIOUS
  <2>4. Only(msgs, ids) = None <=> DOMAIN msgs \cap ids = {}
    BY OnlyFacts
  <2> QED BY <2>2, <2>3, <2>4, <1>1, <1>2
<1>4. PICK some \in Messages : some = Only(msgs, front) /\ DOMAIN some = front
                               /\ (some = None <=> front = {})
  <2>1. DOMAIN msgs \cap front = front
    BY <1>1
  <2> QED BY <2>1, OnlyFacts
<1>5. prior = None <=> DOMAIN prior = {}
  BY MessagesFacts
<1>6. PICK alone \in BOOLEAN : alone = (end /\ prior = None)
  OBVIOUS
<1>7. pending' = (pending \o AddTx(prior, end)) \o AddTx(some, alone)
  BY <1>1, <1>2, <1>4, <1>6 DEF Process
<1>8. pending \in Seq(Transaction) /\ n \in Nat /\ DOMAIN pending = 1..n
  BY LenProperties DEF TypeOK
<1>9. CASE prior = None
  <2>1. pending' = pending \o AddTx(some, end)
    BY <1>6, <1>7, <1>8, <1>9, Queued
  <2>2. CASE front = {}
    <3>1. pending' = pending /\ ~end
      BY <2>1, <2>2, <1>3, <1>4, <1>8, <1>9, Queued, MessagesFacts
    <3> QED BY <3>1, <2>2, <1>1, <1>2, <1>5, <1>8, <1>9 DEF ProcessedQueue
  <2>3. CASE front # {}
    <3>1. PICK tx \in Transaction : tx = Tx("add", some, end)
      BY <1>8, Queued
    <3>2. tx.op = "add" /\ tx.msgs = some /\ (tx.awaited => end) /\ (end => tx.awaited)
      BY <3>1 DEF Tx
    <3>3. pending' = Append(pending, tx)
      BY <2>1, <2>3, <3>1, <1>4, <1>8, Queued
    <3>4. /\ pending' \in Seq(Transaction) /\ DOMAIN pending' = 1..(n + 1)
          /\ \A k \in 1..n : pending'[k] = pending[k]
          /\ pending'[n + 1] = tx
          /\ \A m : AddedBy(pending', m) <=> AddedBy(pending, m) \/ m \in front
      BY <3>2, <3>3, <1>4, <1>8, QueueAppended
    <3>5. DOMAIN pending' \ DOMAIN pending = {n + 1}
      BY <3>4, <1>8
    <3>6. PostedTx(tx, n + 1, prior, front, end)
      BY <3>2, <2>3, <1>4, <1>8 DEF PostedTx
    <3>7. ProcessedQueue(prior, front, end)
      BY <3>4, <3>5, <3>6, <1>5, <1>8, <1>9 DEF ProcessedQueue
    <3> QED BY <3>4, <3>7, <1>1, <1>2
  <2> QED BY <2>2, <2>3
<1>10. CASE prior # None
  <2>1. PICK tx \in Transaction : tx = Tx("add", prior, end)
    BY <1>8, Queued
  <2>2. tx.op = "add" /\ tx.msgs = prior /\ (tx.awaited => end) /\ (end => tx.awaited)
    BY <2>1 DEF Tx
  <2>3. PICK q \in Seq(Transaction) : q = Append(pending, tx)
    BY <1>8, QueueAppended
  <2>4. pending' = q \o AddTx(some, FALSE)
    <3>1. pending \o AddTx(prior, end) = Append(pending, Tx("add", prior, end))
      BY <1>8, <1>10, Queued
    <3>2. alone = FALSE
      BY <1>6, <1>10
    <3> QED BY <3>1, <3>2, <2>1, <2>3, <1>7
  <2>5. /\ DOMAIN q = 1..(n + 1) /\ \A k \in 1..n : q[k] = pending[k]
        /\ q[n + 1] = tx
        /\ \A m : AddedBy(q, m) <=> AddedBy(pending, m) \/ m \in DOMAIN prior
    BY <2>2, <2>3, <1>8, QueueAppended
  <2>6. CASE front = {}
    <3>1. pending' = q
      BY <2>4, <2>6, <1>4, Queued
    <3>2. DOMAIN pending' \ DOMAIN pending = {n + 1}
      BY <2>5, <3>1, <1>8
    <3>3. PostedTx(tx, n + 1, prior, front, end)
      <4>1. /\ tx.op = "add" /\ tx.msgs = prior /\ DOMAIN prior # {}
            /\ tx.awaited => end
            /\ end => tx.awaited
        BY <2>2, <1>5, <1>10
      <4>0. n + 1 >= n + 1
        BY <1>8
      <4> QED BY <4>0, <4>1 DEF PostedTx
    <3>4. ProcessedQueue(prior, front, end)
      BY <3>1, <3>2, <3>3, <2>2, <2>5, <2>6, <1>8, <1>10 DEF ProcessedQueue
    <3> QED BY <3>1, <3>4, <1>1, <1>2
  <2>7. CASE front # {}
    <3>1. PICK more \in Transaction : more = Tx("add", some, FALSE)
      BY Queued
    <3>2. more.op = "add" /\ more.msgs = some /\ ~more.awaited
      BY <3>1 DEF Tx
    <3>3. pending' = Append(q, more)
      <4>1. some # None /\ FALSE \in BOOLEAN
        BY <2>7, <1>4
      <4>2. q \o AddTx(some, FALSE) = Append(q, Tx("add", some, FALSE))
        BY <4>1, Queued
      <4> QED BY <4>2, <2>4, <3>1
    <3>4. Len(q) = n + 1
      <4>1. Len(q) = Len(pending) + 1
        BY <2>3, <1>8, AppendProperties
      <4> QED BY <4>1
    <3>5. /\ pending' \in Seq(Transaction) /\ DOMAIN pending' = 1..(n + 2)
          /\ \A k \in 1..(n + 1) : pending'[k] = q[k]
          /\ pending'[n + 2] = more
          /\ \A m : AddedBy(pending', m) <=>
                        AddedBy(pending, m) \/ m \in DOMAIN prior \/ m \in front
      BY <3>2, <3>3, <3>4, <2>5, <1>4, <1>8, QueueAppended
    <3>6. /\ DOMAIN pending' \ DOMAIN pending = {n + 1, n + 2} /\ n + 1 # n + 2
          /\ DOMAIN pending \subseteq DOMAIN pending'
          /\ \A k \in DOMAIN pending : pending'[k] = pending[k]
          /\ pending'[n + 1] = tx /\ pending'[n + 2] = more
      BY <3>5, <2>5, <1>8
    <3>7. DOMAIN prior \cap front = {}
      OBVIOUS
    <3>8. /\ PostedTx(tx, n + 1, prior, front, end)
          /\ PostedTx(more, n + 2, prior, front, end)
      <4>1. /\ tx.op = "add" /\ tx.msgs = prior /\ DOMAIN prior # {}
            /\ tx.awaited => end
            /\ end => tx.awaited
        BY <2>2, <1>5, <1>10
      <4>0. n + 1 >= n + 1
        BY <1>8
      <4>2. PostedTx(tx, n + 1, prior, front, end)
        BY <4>0, <4>1 DEF PostedTx
      <4>3. n + 2 >= n + 1 /\ n + 2 # n + 1
        BY <1>8
      <4>4. PostedTx(more, n + 2, prior, front, end)
        BY <4>3, <3>2, <2>7, <1>4 DEF PostedTx
      <4> QED BY <4>2, <4>4
    <3>9. prior # None => DOMAIN pending'[n + 1].msgs = DOMAIN prior
      BY <3>6, <2>2
    <3>10. ProcessedQueue(prior, front, end)
      BY <3>2, <3>5, <3>6, <3>7, <3>8, <3>9, <2>2, <1>4 DEF ProcessedQueue
    <3> QED BY <3>5, <3>10, <1>1, <1>2
  <2> QED BY <2>6, <2>7
<1> QED BY <1>9, <1>10

-----------------------------------------------------------------------------
(* Types.                                                                  *)
\* The values of sync.
SyncRecord == [state: SyncState, start: {0} \cup Id, after: {0} \cup Id, rest: Messages,
               full: BOOLEAN, answer: {"none", "read", "known", "new"}]

(* A sync that does nothing is one.                                        *)
LEMMA NoSyncFacts ==
    ASSUME NEW state \in SyncState
    PROVE  /\ NoSync \in SyncRecord /\ [NoSync EXCEPT !.state = state] \in SyncRecord
           /\ NoSync.state = "waiting" /\ NoSync.rest = None /\ NoSync.answer = "none"
           /\ LET s == [NoSync EXCEPT !.state = state]
              IN s.state = state /\ s.rest = None /\ s.start = 0 /\ s.after = 0 /\ s.answer = "none"
<1>1. None \in Messages
  BY MessagesFacts
<1> QED BY <1>1 DEF NoSync, SyncRecord, SyncState

(* What Discord does is typed.                                             *)
LEMMA DiscordType ==
    ASSUME TypeOK, Post \/ \E m \in Id : Edit(m) \/ Delete(m)
    PROVE  TypeOK'
<1>1. Id \subseteq Nat /\ MaxMessage \in Nat /\ MaxVersion \in Nat
  BY SyncAssumption DEF Id
<1>2. ASSUME NEW type \in {"create", "edit", "delete"}, NEW m \in Id, NEW v \in Version,
             Emit(type, m, v)
      PROVE  events' \in Seq(Event)
  <2>1. [type |-> type, id |-> m, version |-> v] \in Event
    BY DEF Event
  <2>2. events \in Seq(Event)
    BY DEF TypeOK
  <2> QED BY <2>1, <2>2, <1>2, AppendProperties DEF Emit
<1>3. CASE Post
  <2>1. posted + 1 \in Id /\ 1..posted \subseteq 1..(posted + 1) /\ 0 \in Version
    BY <1>1, <1>3 DEF Post, TypeOK, Id, Version
  <2>2. events' \in Seq(Event)
    BY <2>1, <1>2, <1>3 DEF Post
  <2>3. posted' = posted + 1 /\ UNCHANGED <<version, deleted>> /\ UnchangedArchiver
    BY <1>3 DEF Post
  <2> QED BY <2>1, <2>2, <2>3 DEF TypeOK, UnchangedArchiver
<1>4. ASSUME NEW m \in Id, Edit(m) PROVE TypeOK'
  <2>1. version[m] + 1 \in Version /\ version' = [version EXCEPT ![m] = version[m] + 1]
    BY <1>1, <1>4 DEF Edit, TypeOK, Version
  <2>2. version' \in [Id -> Version]
    BY <2>1 DEF TypeOK
  <2>3. events' \in Seq(Event)
    BY <2>1, <1>2, <1>4 DEF Edit
  <2>4. UNCHANGED <<posted, deleted>> /\ UnchangedArchiver
    BY <1>4 DEF Edit
  <2> QED BY <2>2, <2>3, <2>4 DEF TypeOK, UnchangedArchiver
<1>5. ASSUME NEW m \in Id, Delete(m) PROVE TypeOK'
  <2>1. version[m] \in Version
    BY DEF TypeOK
  <2>2. events' \in Seq(Event)
    BY <2>1, <1>2, <1>5 DEF Delete
  <2>3. deleted' = deleted \cup {m} /\ m \in 1..posted /\ UNCHANGED <<posted, version>>
        /\ UnchangedArchiver
    BY <1>5 DEF Delete
  <2> QED BY <2>2, <2>3 DEF TypeOK, UnchangedArchiver
<1> QED BY <1>3, <1>4, <1>5

(* What happens to the process and in it is, too.                          *)
LEMMA ProcessType ==
    ASSUME TypeOK, Start \/ Crash \/ HandleEvent \/ StartSync \/ ResumeSync \/ Work \/ FatalError
    PROVE  TypeOK'
<1>1. /\ <<>> \in Seq(Event) /\ <<>> \in Seq(Transaction)
      /\ NoSync \in SyncRecord /\ NoSync.rest = None /\ DOMAIN None = {}
  BY EmptySeq, NoSyncFacts, MessagesFacts DEF SyncState
<1>2. CASE Start
  BY <1>1, <1>2 DEF Start, TypeOK, discord, SyncRecord
<1>3. CASE Crash
  <2>1. crashes + 1 \in 0..MaxCrashes
    BY <1>3, SyncAssumption DEF Crash, TypeOK
  <2> QED BY <2>1, <1>1, <1>3 DEF Crash, Dies, TypeOK, discord, SyncRecord
<1>4. CASE HandleEvent
  <2>1. events \in Seq(Event) /\ events # <<>> /\ pending \in Seq(Transaction)
    BY <1>4 DEF HandleEvent, TypeOK
  <2>2. PICK e \in Event : e = Head(events)
    BY <2>1, HeadTailProperties
  <2>3. PICK op \in {"add", "edit", "delete"} : op = IF e.type = "create" THEN "add" ELSE e.type
    BY DEF Event
  <2>4. One(e.id, e.version) \in Messages
    BY OneFacts DEF Event
  <2>5. Tx(op, One(e.id, e.version), FALSE) \in Transaction
    BY <2>4 DEF Tx, Transaction
  <2>6. pending' = Append(pending, Tx(op, One(e.id, e.version), FALSE))
    BY <2>2, <2>3, <1>4 DEF HandleEvent
  <2>7. pending' \in Seq(Transaction) /\ events' \in Seq(Event)
    <3>1. pending' \in Seq(Transaction)
      BY <2>1, <2>5, <2>6, AppendProperties
    <3>2. events' = Tail(events)
      BY <1>4 DEF HandleEvent
    <3> QED BY <3>1, <3>2, <2>1, HeadTailProperties
  <2> QED BY <2>7, <1>4 DEF HandleEvent, TypeOK, discord
<1>5. ASSUME CallSync, lastMessageID' \in {0, lastMessageID} PROVE TypeOK'
  <2>1. sync' \in SyncRecord /\ sync'.rest = None
    BY <1>5, NoSyncFacts DEF CallSync, SyncState
  <2>2. Tx("last", None, TRUE) \in Transaction
    BY DEF Tx, Transaction
  <2>3. pending' \in Seq(Transaction)
    BY <2>2, <1>5, AppendProperties DEF CallSync, TypeOK
  <2> QED BY <2>1, <2>3, <1>1, <1>5 DEF CallSync, TypeOK, discord, SyncRecord
<1>6. CASE Work \/ FatalError
  <2>1. pending \in Seq(Transaction) /\ pending # <<>>
    BY <1>6 DEF Work, FatalError, TypeOK
  <2>2. PICK tx \in Transaction : tx = Head(pending)
    BY <2>1, HeadTailProperties
  <2>3. After(tx) \in [Id -> Table!Cell] /\ store \in [Id -> Table!Cell]
    BY AfterFacts DEF TypeOK
  <2>4. Tail(pending) \in Seq(Transaction)
    BY <2>1, HeadTailProperties
  <2>5. Answered(tx) \in SyncRecord /\ Answered(tx).rest = sync.rest
    BY LastIDFacts DEF Answered, TypeOK, SyncRecord
  <2>6. CASE Work
    <3>1. sync' \in SyncRecord /\ sync'.rest = sync.rest
      BY <2>2, <2>5, <2>6 DEF Work, TypeOK, SyncRecord
    <3>2. store' \in [Id -> Table!Cell] /\ pending' \in Seq(Transaction)
      BY <2>2, <2>3, <2>4, <2>6 DEF Work
    <3> QED BY <3>1, <3>2, <2>6 DEF Work, TypeOK, discord, SyncRecord
  <2>7. CASE FatalError
    <3>1. store' \in [Id -> Table!Cell]
      BY <2>2, <2>3, <2>7 DEF FatalError
    <3> QED BY <3>1, <1>1, <2>7 DEF FatalError, Dies, TypeOK, discord, SyncRecord
  <2> QED BY <1>6, <2>6, <2>7
<1> QED BY <1>2, <1>3, <1>4, <1>5, <1>6 DEF StartSync, ResumeSync

-----------------------------------------------------------------------------
(* An event that is sent brings its message.                               *)
LEMMA EventQueued ==
    ASSUME TypeOK, NEW e \in Event, events' = Append(events, e)
    PROVE  \A m : Creates(m)' <=> Creates(m) \/ (e.type = "create" /\ e.id = m)
<1>1. PICK n \in Nat : n = Len(events) /\ DOMAIN events = 1..n
  BY LenProperties DEF TypeOK
<1>2. /\ DOMAIN events' = 1..(n + 1) /\ events'[n + 1] = e
      /\ \A k \in 1..n : events'[k] = events[k]
  <2>1. events \in Seq(Event)
    BY DEF TypeOK
  <2>2. Append(events, e) \in Seq(Event) /\ Len(Append(events, e)) = n + 1
    BY <2>1, <1>1, AppendProperties
  <2> QED BY <2>1, <2>2, <1>1, AppendProperties, LenProperties
<1>3. \A k \in 1..(n + 1) : k \in 1..n \/ k = n + 1
  OBVIOUS
<1>4. \A k \in 1..n : k \in 1..(n + 1)
  OBVIOUS
<1>5. n + 1 \in 1..(n + 1)
  OBVIOUS
<1> QED BY <1>1, <1>2, <1>3, <1>4, <1>5 DEF Creates

(* What the events bring is brought by the first or by the rest.           *)
LEMMA EventTaken ==
    ASSUME TypeOK, events # <<>>, events' = Tail(events)
    PROVE  /\ Head(events) \in Event
           /\ \A m : Creates(m) <=>
                    Creates(m)' \/ (Head(events).type = "create" /\ Head(events).id = m)
<1>1. PICK n \in Nat \ {0} : n = Len(events) /\ DOMAIN events = 1..n
  BY LenProperties, EmptySeq DEF TypeOK
<1>2. /\ DOMAIN events' = 1..(n - 1) /\ \A k \in 1..(n - 1) : events'[k] = events[k + 1]
      /\ Head(events) = events[1] /\ Head(events) \in Event
  <2>1. events \in Seq(Event)
    BY DEF TypeOK
  <2>2. Tail(events) \in Seq(Event) /\ Len(Tail(events)) = n - 1
    BY <2>1, <1>1, HeadTailProperties
  <2> QED BY <2>1, <2>2, <1>1, HeadTailProperties, LenProperties
<1>3. ASSUME NEW m, Creates(m)
      PROVE  Creates(m)' \/ (Head(events).type = "create" /\ Head(events).id = m)
  <2>1. PICK k \in 1..n : events[k].type = "create" /\ events[k].id = m
    BY <1>1, <1>3 DEF Creates
  <2>2. CASE k = 1
    BY <1>2, <2>1, <2>2
  <2>3. CASE k # 1
    <3>1. k - 1 \in 1..(n - 1) /\ k = (k - 1) + 1
      BY <2>3
    <3> QED BY <3>1, <1>2, <2>1 DEF Creates
  <2> QED BY <2>2, <2>3
<1>4. ASSUME NEW m, Creates(m)' PROVE Creates(m)
  <2>1. PICK k \in 1..(n - 1) : events'[k].type = "create" /\ events'[k].id = m
    BY <1>2, <1>4 DEF Creates
  <2>2. k + 1 \in 1..n
    OBVIOUS
  <2> QED BY <2>1, <2>2, <1>1, <1>2 DEF Creates
<1>5. ASSUME NEW m, Head(events).type = "create" /\ Head(events).id = m PROVE Creates(m)
  <2>1. 1 \in 1..n
    OBVIOUS
  <2> QED BY <2>1, <1>1, <1>2, <1>5 DEF Creates
<1> QED BY <1>2, <1>3, <1>4, <1>5

(* As long as nothing settled comes undone, everything from a message on   *)
(* stays settled.                                                          *)
LEMMA LiveStays ==
    ASSUME TypeOK, posted' \in {posted, posted + 1}, posted' \in {0} \cup Id,
           \A x \in Id : Settled(x) => Settled(x)',
           \A x \in Id : posted < x /\ x <= posted' => Settled(x)'
    PROVE  \A m \in Nat \ {0} : Live(m) => Live(m)'
<1> SUFFICES ASSUME NEW m \in Nat \ {0}, Live(m), NEW x \in m..posted'
             PROVE  Settled(x)'
  BY DEF Live
<1>1. x \in Id /\ posted \in Nat
  BY SyncAssumption DEF TypeOK, Id
<1>2. CASE x <= posted
  <2>1. Settled(x)
    BY <1>1, <1>2 DEF Live
  <2> QED BY <2>1, <1>1
<1>3. CASE ~(x <= posted)
  BY <1>1, <1>3
<1> QED BY <1>2, <1>3

(* It is settled from a later message on, too.                             *)
LEMMA LiveLater ==
    ASSUME NEW m \in Nat, NEW n \in Nat, m <= n, Live(m), posted \in Nat
    PROVE  Live(n)
BY DEF Live

(* A step that brings the sync on: what remains to be shown of it.         *)
LEMMA SyncMoves ==
    ASSUME SInv, TypeOK', alive', UNCHANGED <<posted, events>>,
           alive /\ lastMessageID' \in {0, lastMessageID},
           \A x \in Id : Settled(x) => Settled(x)',
           FreshLive', OneAwaited', LastAsked', FlushAsked', Answers', PageInHand', NoHole'
    PROVE  SInv'
<1>1. /\ TypeOK /\ posted \in Nat /\ posted' \in {0} \cup Id /\ Id \subseteq Nat \ {0}
      /\ lastMessageID \in {0} \cup Id
  BY SyncAssumption DEF SInv, TypeOK, Id
<1>2. \A m \in Nat \ {0} : Live(m) => Live(m)'
  <2>1. \A x \in Id : ~(posted < x /\ x <= posted')
    BY <1>1
  <2> QED BY <2>1, <1>1, LiveStays
<1>3. CreatedLive'
  BY <1>1, <1>2 DEF SInv, CreatedLive, Creates
<1>4. StartedLive'
  <2>1. lastMessageID + 1 \in Nat \ {0}
    BY <1>1
  <2> QED BY <2>1, <1>2 DEF SInv, StartedLive
<1> QED BY <1>3, <1>4 DEF SInv, Dead

(* With nothing on its way, the invariant says little.                     *)
LEMMA IdleInv ==
    ASSUME TypeOK', events' = <<>>, pending' = <<>>, sync' = NoSync,
           alive' /\ lastMessageID' # 0 => lastMessageID' = posted'
    PROVE  SInv'
<1>1. DOMAIN events' = {} /\ DOMAIN pending' = {}
  BY EmptySeq
<1>2. sync'.state = "waiting" /\ sync'.rest = None /\ sync'.answer = "none"
  BY NoSyncFacts DEF SyncState
<1>3. Dead' /\ CreatedLive' /\ FreshLive' /\ OneAwaited' /\ LastAsked' /\ FlushAsked'
      /\ Answers' /\ PageInHand' /\ NoHole'
  BY <1>1, <1>2 DEF Dead, CreatedLive, Creates, FreshLive, Fresh, OneAwaited, LastAsked,
     FlushAsked, Answers, PageInHand, NoHole
<1>4. StartedLive'
  <2>1. PICK n \in Nat : n = posted'
    BY SyncAssumption DEF TypeOK, Id
  <2>2. \A x \in (n + 1)..n : FALSE
    OBVIOUS
  <2> QED BY <2>1, <2>2 DEF StartedLive, Live
<1> QED BY <1>3, <1>4 DEF SInv

(* A step that lets the sync alone.                                        *)
LEMMA SyncStands ==
    ASSUME SInv, TypeOK', alive, UNCHANGED <<sync, alive, lastMessageID>>,
           posted' \in {posted, posted + 1},
           \A x \in Id : Settled(x) => Settled(x)',
           \A x \in Id : posted < x /\ x <= posted' => Settled(x)',
           \A x \in Id : Creates(x)' => Creates(x) \/ (posted < x /\ x = posted'),
           \A x \in Id : Known(x)' => Known(x) \/ Creates(x),
           OneAwaited', LastAsked', FlushAsked'
    PROVE  SInv'
<1>1. /\ posted \in Nat /\ posted' \in Nat /\ posted' \in {0} \cup Id /\ Id \subseteq Nat \ {0}
      /\ sync.start \in {0} \cup Id /\ sync.after \in {0} \cup Id
      /\ lastMessageID \in {0} \cup Id /\ TypeOK
  BY SyncAssumption DEF SInv, TypeOK, Id
<1>2. \A m \in Nat \ {0} : Live(m) => Live(m)'
  BY <1>1, LiveStays
<1>3. CreatedLive'
  <2> SUFFICES ASSUME NEW x \in Id, Creates(x)' PROVE Live(x)'
    BY DEF CreatedLive
  <2>1. CASE Creates(x)
    BY <2>1, <1>1, <1>2 DEF SInv, CreatedLive
  <2>2. CASE posted < x /\ x = posted'
    <3>1. \A y \in x..posted' : y = x
      BY <2>2, <1>1
    <3> QED BY <3>1, <2>2, <1>1 DEF Live
  <2> QED BY <2>1, <2>2
<1>4. StartedLive'
  <2>1. lastMessageID + 1 \in Nat \ {0}
    BY <1>1
  <2> QED BY <2>1, <1>2 DEF SInv, StartedLive
<1>5. FreshLive'
  <2> SUFFICES ASSUME NEW x \in Id, Fresh(x)', Known(x)' PROVE Live(x)'
    BY DEF FreshLive
  <2>1. Fresh(x)
    BY DEF Fresh
  <2>2. Live(x)
    BY <2>1 DEF SInv, FreshLive, CreatedLive
  <2> QED BY <2>2, <1>1, <1>2
<1>6. Answers'
  <2>1. sync.after # 0 => sync.after \in Nat \ {0}
    BY <1>1
  <2> QED BY <2>1, <1>2 DEF SInv, Answers
<1>7. \A m \in Id : Covered(m) => Covered(m)'
  BY DEF Covered, Settled
<1>8. \A m \in Id : posted < m /\ m <= posted' => Covered(m)'
  BY DEF Covered, Settled
<1>9. ASSUME NEW a \in {0} \cup Id, \A m \in (a + 1)..posted : Covered(m)
      PROVE  \A m \in (a + 1)..posted' : Covered(m)'
  <2> SUFFICES ASSUME NEW m \in (a + 1)..posted' PROVE Covered(m)'
    OBVIOUS
  <2>1. a \in Nat /\ m \in Id
    <3>1. a \in Nat /\ posted' \in 0..MaxMessage /\ MaxMessage \in Nat
      BY <1>1, SyncAssumption DEF Id
    <3> QED BY <3>1 DEF Id
  <2>2. CASE m <= posted
    <3>1. m \in (a + 1)..posted
      BY <2>1, <2>2, <1>1
    <3> QED BY <3>1, <2>1, <1>7, <1>9
  <2>3. CASE ~(m <= posted)
    BY <2>1, <2>3, <1>1, <1>8
  <2> QED BY <2>2, <2>3
<1>10. ASSUME NEW a \in {0} \cup Id, NEW b \in {0} \cup Id, \A m \in (a + 1)..b : Covered(m)
       PROVE  \A m \in (a + 1)..b : Covered(m)'
  <2> SUFFICES ASSUME NEW m \in (a + 1)..b PROVE Covered(m)'
    OBVIOUS
  <2>1. m \in Id
    BY SyncAssumption DEF Id
  <2> QED BY <2>1, <1>7, <1>10
<1>11. PageInHand'
  <2>1. DOMAIN sync.rest \subseteq {0} \cup Id
    BY MessagesFacts DEF SInv, TypeOK
  <2> QED BY <2>1, <1>1, <1>9, <1>10 DEF SInv, PageInHand
<1>12. NoHole'
  BY <1>1, <1>9, <1>10 DEF SInv, NoHole
<1>13. Dead'
  BY DEF Dead
<1> QED BY <1>3, <1>4, <1>5, <1>6, <1>11, <1>12, <1>13 DEF SInv

-----------------------------------------------------------------------------
(* The steps of Discord, of the listener and of the worker.  The numbers.  *)
LEMMA Bounds ==
    ASSUME TypeOK
    PROVE  /\ Id \subseteq Nat \ {0} /\ posted \in Nat /\ {sync.start, sync.after} \subseteq Nat
           /\ {sync.start, sync.after, lastMessageID} \subseteq {0} \cup Id
           /\ pending \in Seq(Transaction) /\ events \in Seq(Event)
           /\ DOMAIN pending = 1..Len(pending) /\ Len(pending) \in Nat
           /\ \A k \in DOMAIN pending : pending[k].msgs \in Messages
                                        /\ DOMAIN pending[k].msgs \subseteq Id
<1>1. /\ Id \subseteq Nat \ {0} /\ posted \in Nat
      /\ {sync.start, sync.after, lastMessageID} \subseteq {0} \cup Id
  BY SyncAssumption DEF TypeOK, Id
<1>2. pending \in Seq(Transaction) /\ events \in Seq(Event)
  BY DEF TypeOK
<1>3. DOMAIN pending = 1..Len(pending) /\ Len(pending) \in Nat
      /\ \A k \in DOMAIN pending : pending[k] \in Transaction
  BY <1>2, LenProperties
<1>4. \A k \in DOMAIN pending : pending[k].msgs \in Messages
  BY <1>3, MessagesFacts DEF Transaction
<1>5. {sync.start, sync.after} \subseteq Nat
  <2>1. \A x \in {0} \cup Id : x \in Nat
    BY <1>1
  <2> QED BY <2>1, <1>1
<1> QED BY <1>1, <1>2, <1>3, <1>4, <1>5, MessagesFacts

(* What Discord does: a message that is posted while the process runs is   *)
(* settled, as its event is sent.                                          *)
LEMMA DiscordInv ==
    ASSUME SInv, Post \/ \E m \in Id : Edit(m) \/ Delete(m)
    PROVE  SInv'
<1>1. TypeOK' /\ TypeOK /\ Dead
  BY DiscordType DEF SInv
<1>2. UnchangedArchiver
  BY DEF Post, Edit, Delete
<1>3. CASE ~alive
  <2>1. events' = events
    BY <1>3 DEF Post, Edit, Delete, Emit
  <2> QED BY <2>1, <1>1, <1>2, <1>3, IdleInv DEF Dead, UnchangedArchiver
<1>4. ASSUME alive, NEW e \in Event, events' = Append(events, e),
             \/ posted' = posted /\ e.type # "create"
             \/ posted' = posted + 1 /\ e.type = "create" /\ e.id = posted + 1,
             deleted \subseteq deleted'
      PROVE  SInv'
  <2>1. \A m : Creates(m)' <=> Creates(m) \/ (e.type = "create" /\ e.id = m)
    BY <1>1, <1>4, EventQueued
  <2>2. \A m : /\ Adds(m)' <=> Adds(m)
               /\ Table!Stored(store[m])' <=> Table!Stored(store[m])
    BY <1>2 DEF UnchangedArchiver, Adds
  <2>3. posted \in Nat
    BY <1>1, Bounds
  <2>4. /\ posted' \in {posted, posted + 1}
        /\ \A x \in Id : Settled(x) => Settled(x)'
    BY <2>1, <2>2, <1>4 DEF Settled
  <2>5. \A x \in Id : posted < x /\ x <= posted' => x = posted' /\ posted' = posted + 1
    BY <2>3, <1>4, <1>1, Bounds
  <2>6. \A x \in Id : posted < x /\ x <= posted' => Settled(x)'
    BY <2>1, <2>3, <2>5, <1>4 DEF Settled
  <2>7. \A x \in Id : Creates(x)' => Creates(x) \/ (posted < x /\ x = posted')
    BY <2>1, <2>3, <1>4
  <2>8. \A x \in Id : Known(x)' => Known(x)
    BY <2>2 DEF Known
  <2>9. posted' \in {0} \cup Id
    BY <1>1 DEF TypeOK
  <2>10. \A m \in Nat \ {0} : Live(m) => Live(m)'
    BY <2>4, <2>6, <2>9, <1>1, LiveStays
  <2>11. OneAwaited' /\ LastAsked'
    <3>1. \A k \in DOMAIN pending : DOMAIN pending[k].msgs \subseteq Nat \ {0}
      BY <1>1, Bounds
    <3> QED BY <3>1, <2>10, <1>2 DEF SInv, OneAwaited, LastAsked, UnchangedArchiver
  <2>12. FlushAsked'
    <3> SUFFICES ASSUME sync.state = "flushed", sync.answer = "none" PROVE FlushAsked'
      BY <1>2 DEF FlushAsked, UnchangedArchiver
    <3>1. \A r \in Id : r <= sync.after => sync.after \in Nat \ {0}
      BY <1>1, Bounds
    <3>2. \A k \in DOMAIN pending : DOMAIN pending[k].msgs \subseteq Id
      BY <1>1, Bounds
    <3>3. pending' = pending /\ sync' = sync /\ store' = store
      BY <1>2 DEF UnchangedArchiver
    <3> QED BY <3>1, <3>2, <3>3, <2>10 DEF SInv, FlushAsked
  <2> QED BY <2>4, <2>6, <2>7, <2>8, <2>11, <2>12, <1>1, <1>2, <1>4, SyncStands
          DEF UnchangedArchiver
<1>5. ASSUME alive, Post PROVE SInv'
  <2>1. [type |-> "create", id |-> posted + 1, version |-> 0] \in Event
    <3>1. posted + 1 \in Id /\ 0 \in Version
      BY <1>1, <1>5, SyncAssumption DEF Post, TypeOK, Id, Version
    <3> QED BY <3>1 DEF Event
  <2>2. PICK e \in Event : e = [type |-> "create", id |-> posted + 1, version |-> 0]
    BY <2>1
  <2>3. e.type = "create" /\ e.id = posted + 1 /\ events' = Append(events, e)
    BY <2>2, <1>5 DEF Post, Emit
  <2> QED BY <2>3, <1>4, <1>5 DEF Post
<1>6. ASSUME alive, NEW m \in Id, Edit(m) PROVE SInv'
  <2>1. version[m] + 1 \in Version
    BY <1>1, <1>6, SyncAssumption DEF Edit, TypeOK, Version
  <2>2. PICK e \in Event : e = [type |-> "edit", id |-> m, version |-> version[m] + 1]
    BY <2>1 DEF Event
  <2>3. e.type # "create" /\ events' = Append(events, e)
    BY <2>2, <1>6 DEF Edit, Emit
  <2> QED BY <2>3, <1>4, <1>6 DEF Edit
<1>7. ASSUME alive, NEW m \in Id, Delete(m) PROVE SInv'
  <2>1. version[m] \in Version
    BY <1>1 DEF TypeOK
  <2>2. PICK e \in Event : e = [type |-> "delete", id |-> m, version |-> version[m]]
    BY <2>1 DEF Event
  <2>3. e.type # "create" /\ events' = Append(events, e)
    BY <2>2, <1>7 DEF Delete, Emit
  <2> QED BY <2>3, <1>4, <1>7 DEF Delete
<1> QED BY <1>3, <1>5, <1>6, <1>7

(* The listener turns an event into a transaction, which settles the same. *)
LEMMA HandleEventInv ==
    ASSUME SInv, HandleEvent
    PROVE  SInv'
<1>1. TypeOK' /\ TypeOK
  BY ProcessType DEF SInv
<1>2. /\ alive /\ events # <<>> /\ events' = Tail(events)
      /\ UNCHANGED <<posted, deleted, alive, lastMessageID, store, sync>>
  BY DEF HandleEvent, discord
<1>3. PICK e \in Event : e = Head(events)
  BY <1>1, <1>2, EventTaken
<1>4. \A m : Creates(m) <=> Creates(m)' \/ (e.type = "create" /\ e.id = m)
  BY <1>1, <1>2, <1>3, EventTaken
<1>5. PICK tx \in Transaction : /\ pending' = Append(pending, tx) /\ ~tx.awaited
                                /\ tx.op = "add" <=> e.type = "create"
                                /\ DOMAIN tx.msgs = {e.id}
  <2>1. PICK op \in {"add", "edit", "delete"} : op = IF e.type = "create" THEN "add" ELSE e.type
    BY DEF Event
  <2>2. One(e.id, e.version) \in Messages /\ DOMAIN One(e.id, e.version) = {e.id}
    BY OneFacts DEF Event
  <2>3. PICK msgs \in Messages : msgs = One(e.id, e.version)
    BY <2>2
  <2>4. pending' = Append(pending, Tx(op, msgs, FALSE))
    BY <2>1, <2>3, <1>3 DEF HandleEvent
  <2>5. op = "add" <=> e.type = "create"
    BY <2>1 DEF Event
  <2>6. Tx(op, msgs, FALSE) \in Transaction
    BY DEF Tx, Transaction
  <2>7. /\ Tx(op, msgs, FALSE).op = op /\ Tx(op, msgs, FALSE).msgs = msgs
        /\ Tx(op, msgs, FALSE).awaited = FALSE
    BY DEF Tx
  <2>8. PICK tx \in Transaction : tx = Tx(op, msgs, FALSE)
    BY <2>6
  <2>9. tx.op = op /\ tx.msgs = msgs /\ ~tx.awaited /\ pending' = Append(pending, tx)
    BY <2>4, <2>7, <2>8
  <2> QED BY <2>2, <2>3, <2>5, <2>9
<1>6. PICK n \in Nat : n = Len(pending) /\ DOMAIN pending = 1..n
  BY <1>1, Bounds
<1>7. /\ DOMAIN pending' = 1..(n + 1) /\ pending'[n + 1] = tx
      /\ \A k \in 1..n : pending'[k] = pending[k]
      /\ \A m : Adds(m)' <=> Adds(m) \/ (e.type = "create" /\ e.id = m)
  <2>1. pending \in Seq(Transaction)
    BY <1>1, Bounds
  <2> QED BY <2>1, <1>5, <1>6, QueueAppended DEF AddedBy, Adds
<1>8. \A k \in 1..(n + 1) : k \in 1..n \/ k = n + 1
  OBVIOUS
<1>9. /\ \A x \in Id : Settled(x) => Settled(x)'
      /\ \A x \in Id : Known(x)' => Known(x) \/ Creates(x)
  BY <1>2, <1>4, <1>7 DEF Settled, Known
<1>10. \A x \in Id : ~(posted < x /\ x <= posted')
  BY <1>1, <1>2, Bounds
<1>11. \A m \in Nat \ {0} : Live(m) => Live(m)'
  <2>1. posted' \in {0} \cup Id
    BY <1>1 DEF TypeOK
  <2> QED BY <2>1, <1>1, <1>2, <1>9, <1>10, LiveStays
<1>12. e.type = "create" => e.id \in Id /\ Live(e.id)
  BY <1>4 DEF SInv, CreatedLive, Event
<1>13. OneAwaited'
  BY <1>2, <1>5, <1>6, <1>7, <1>8 DEF SInv, OneAwaited
<1>14. LastAsked'
  <2> SUFFICES ASSUME sync.state = "reading", sync.answer = "none" PROVE LastAsked'
    BY <1>2 DEF LastAsked
  <2>1. PICK k \in 1..n :
            /\ pending[k].op = "last" /\ pending[k].awaited
            /\ \A j \in 1..n : \A x \in DOMAIN pending[j].msgs :
                j > k /\ pending[j].op = "add" => Live(x)
    BY <1>6 DEF SInv, LastAsked
  <2>2. \A j \in 1..n : DOMAIN pending[j].msgs \subseteq Nat \ {0}
    BY <1>1, <1>6, Bounds
  <2>3. ASSUME NEW j \in 1..(n + 1), NEW x \in DOMAIN pending'[j].msgs,
               j > k, pending'[j].op = "add"
        PROVE  Live(x)'
    <3>1. CASE j \in 1..n
      BY <3>1, <2>1, <2>2, <2>3, <1>7, <1>11
    <3>2. CASE j = n + 1
      <4>1. e.id \in Nat \ {0}
        BY <1>1, Bounds DEF Event
      <4> QED BY <4>1, <3>2, <2>3, <1>5, <1>7, <1>11, <1>12
    <3> QED BY <3>1, <3>2, <1>8
  <2>4. k \in 1..(n + 1) /\ pending'[k].op = "last" /\ pending'[k].awaited
    BY <2>1, <1>7
  <2> QED BY <2>3, <2>4, <1>7 DEF LastAsked
<1>15. FlushAsked'
  <2> SUFFICES ASSUME sync.state = "flushed", sync.answer = "none" PROVE FlushAsked'
    BY <1>2 DEF FlushAsked
  <2>1. PICK k \in 1..n : /\ pending[k].op = "add" /\ pending[k].awaited
            /\ \E r \in DOMAIN pending[k].msgs :
                /\ r = Max(DOMAIN pending[k].msgs) /\ r <= sync.after
                /\ Table!Stored(store[r]) => Live(sync.after)
                /\ \A j \in 1..n : j # k /\ pending[j].op = "add" /\ r \in DOMAIN pending[j].msgs
                    => Live(sync.after)
    BY <1>6 DEF SInv, FlushAsked
  <2>2. PICK r \in DOMAIN pending[k].msgs :
                /\ r = Max(DOMAIN pending[k].msgs) /\ r <= sync.after
                /\ Table!Stored(store[r]) => Live(sync.after)
                /\ \A j \in 1..n : j # k /\ pending[j].op = "add" /\ r \in DOMAIN pending[j].msgs
                    => Live(sync.after)
    BY <2>1
  <2>3. r \in Nat \ {0} /\ sync.after \in Nat \ {0} /\ posted \in Nat
    BY <2>2, <1>1, <1>6, Bounds
  <2>4. ASSUME NEW j \in 1..(n + 1), j # k, pending'[j].op = "add", r \in DOMAIN pending'[j].msgs
        PROVE  Live(sync.after)'
    <3>1. CASE j \in 1..n
      BY <3>1, <2>2, <2>3, <2>4, <1>2, <1>7, <1>11
    <3>2. CASE j = n + 1
      <4>1. e.type = "create" /\ r = e.id
        BY <3>2, <2>4, <1>5, <1>7
      <4>2. Live(sync.after)
        BY <4>1, <2>2, <2>3, <1>12, LiveLater
      <4> QED BY <4>2, <2>3, <1>2, <1>11
    <3> QED BY <3>1, <3>2, <1>8
  <2>5. /\ k \in 1..(n + 1) /\ pending'[k] = pending[k]
        /\ Table!Stored(store[r]) => Live(sync.after)'
    BY <2>2, <2>3, <1>2, <1>7, <1>11
  <2> QED BY <2>1, <2>2, <2>4, <2>5, <1>2, <1>7 DEF FlushAsked
<1> QED BY <1>1, <1>2, <1>4, <1>9, <1>10, <1>13, <1>14, <1>15, SyncStands


(* What the worker does with a transaction: what it took from the queue is *)
(* in the database.                                                        *)
LEMMA WorkDone ==
    ASSUME TypeOK, Work
    PROVE  /\ Head(pending) \in Transaction
           /\ \A m \in Id : /\ Settled(m) => Settled(m)'
                            /\ Known(m)' => Known(m)
                            /\ Table!Stored(store'[m]) =>
                                 \/ Table!Stored(store[m])
                                 \/ Head(pending).op = "add" /\ m \in DOMAIN Head(pending).msgs
           /\ \A m \in Nat \ {0} : Live(m) => Live(m)'
<1>1. pending \in Seq(Transaction) /\ pending # <<>> /\ pending' = Tail(pending)
  BY DEF TypeOK, Work
<1>2. PICK tx \in Transaction : tx = Head(pending)
  BY <1>1, QueueTaken
<1>3. \A m : Adds(m) <=> Adds(m)' \/ (tx.op = "add" /\ m \in DOMAIN tx.msgs)
  BY <1>1, <1>2, QueueTaken DEF Adds, AddedBy
<1>4. \A m \in Id : Table!Stored(store'[m]) <=>
                        Table!Stored(store[m]) \/ (tx.op = "add" /\ m \in DOMAIN tx.msgs)
  <2>1. store' = After(tx)
    BY <1>2 DEF Work
  <2> QED BY <2>1, AfterFacts
<1>5. UNCHANGED <<posted, deleted, events>>
  BY DEF Work, discord
<1>6. \A m \in Id : (Settled(m) => Settled(m)') /\ (Known(m)' => Known(m))
  BY <1>3, <1>4, <1>5 DEF Settled, Known, Creates
<1>7. \A m \in Nat \ {0} : Live(m) => Live(m)'
  <2>1. /\ posted' \in {posted, posted + 1} /\ posted' \in {0} \cup Id
        /\ \A x \in Id : ~(posted < x /\ x <= posted')
    BY <1>5, Bounds DEF TypeOK
  <2> QED BY <2>1, <1>6, LiveStays
<1> QED BY <1>2, <1>4, <1>6, <1>7

(* The worker's steps.                                                     *)
LEMMA WorkInv ==
    ASSUME SInv, Work
    PROVE  SInv'
<1>1. TypeOK' /\ TypeOK
  BY ProcessType DEF SInv
<1>2. /\ alive /\ pending # <<>> /\ pending' = Tail(pending)
      /\ UNCHANGED <<posted, deleted, events, alive, lastMessageID>>
  BY DEF Work, discord
<1>3. PICK tx \in Transaction : tx = Head(pending)
  BY <1>1, WorkDone
<1>4. PICK n \in Nat \ {0} : n = Len(pending)
  BY <1>1, <1>2, Bounds, QueueTaken
<1>5. /\ DOMAIN pending = 1..n /\ DOMAIN pending' = 1..(n - 1) /\ tx = pending[1]
      /\ \A k \in 1..(n - 1) : pending'[k] = pending[k + 1]
  <2>1. pending \in Seq(Transaction)
    BY <1>1, Bounds
  <2> QED BY <2>1, <1>2, <1>3, <1>4, QueueTaken
<1>6. /\ \A m \in Id : (Settled(m) => Settled(m)') /\ (Known(m)' => Known(m))
      /\ \A m \in Nat \ {0} : Live(m) => Live(m)'
      /\ \A m \in Id : Table!Stored(store'[m]) =>
            Table!Stored(store[m]) \/ (tx.op = "add" /\ m \in DOMAIN tx.msgs)
  BY <1>1, <1>3, WorkDone
<1>7. /\ \A k \in 1..(n - 1) : k + 1 \in 1..n /\ k + 1 # 1
      /\ \A k \in 1..n : k # 1 => k - 1 \in 1..(n - 1) /\ (k - 1) + 1 = k
      /\ 1 \in 1..n
  OBVIOUS
<1>8. \A k \in 1..n : pending[k].msgs \in Messages /\ DOMAIN pending[k].msgs \subseteq Id
  BY <1>1, <1>5, Bounds
<1>9. CASE ~tx.awaited
  <2>1. sync' = sync
    BY <1>3, <1>9 DEF Work
  <2>2. OneAwaited'
    <3> SUFFICES ASSUME NEW k \in 1..(n - 1), pending[k + 1].awaited
                 PROVE  /\ sync.state \in {"reading", "flushed"} /\ sync.answer = "none"
                        /\ \A j \in 1..(n - 1) : pending[j + 1].awaited => j = k
      BY <2>1, <1>5 DEF OneAwaited
    <3>1. /\ sync.state \in {"reading", "flushed"} /\ sync.answer = "none"
          /\ \A j \in 1..n : pending[j].awaited => j = k + 1
      BY <1>5, <1>7 DEF SInv, OneAwaited
    <3>2. \A j \in 1..(n - 1) : pending[j + 1].awaited => j + 1 = k + 1
      BY <3>1, <1>7
    <3> QED BY <3>1, <3>2
  <2>3. LastAsked'
    <3> SUFFICES ASSUME sync.state = "reading", sync.answer = "none" PROVE LastAsked'
      BY <2>1 DEF LastAsked
    <3>1. PICK k \in 1..n :
              /\ pending[k].op = "last" /\ pending[k].awaited
              /\ \A j \in 1..n : \A x \in DOMAIN pending[j].msgs :
                  j > k /\ pending[j].op = "add" => Live(x)
      BY <1>5 DEF SInv, LastAsked
    <3>2. k - 1 \in 1..(n - 1) /\ pending'[k - 1] = pending[k]
      BY <3>1, <1>5, <1>7, <1>9
    <3>3. ASSUME NEW j \in 1..(n - 1), NEW x \in DOMAIN pending'[j].msgs,
                 j > k - 1, pending'[j].op = "add"
          PROVE  Live(x)'
      <4>1. /\ j + 1 \in 1..n /\ pending'[j] = pending[j + 1] /\ j + 1 > k
        BY <3>3, <1>5, <1>7
      <4>2. Live(x)
        BY <4>1, <3>1, <3>3
      <4>3. x \in Nat \ {0}
        BY <4>1, <3>3, <1>1, <1>8, Bounds
      <4> QED BY <4>2, <4>3, <1>6
    <3> QED BY <3>1, <3>2, <3>3, <1>5 DEF LastAsked
  <2>4. FlushAsked'
    <3> SUFFICES ASSUME sync.state = "flushed", sync.answer = "none" PROVE FlushAsked'
      BY <2>1 DEF FlushAsked
    <3>1. PICK k \in 1..n : /\ pending[k].op = "add" /\ pending[k].awaited
              /\ \E r \in DOMAIN pending[k].msgs :
                  /\ r = Max(DOMAIN pending[k].msgs) /\ r <= sync.after
                  /\ Table!Stored(store[r]) => Live(sync.after)
                  /\ \A j \in 1..n : j # k /\ pending[j].op = "add" /\ r \in DOMAIN pending[j].msgs
                      => Live(sync.after)
      BY <1>5 DEF SInv, FlushAsked
    <3>2. PICK r \in DOMAIN pending[k].msgs :
                  /\ r = Max(DOMAIN pending[k].msgs) /\ r <= sync.after
                  /\ Table!Stored(store[r]) => Live(sync.after)
                  /\ \A j \in 1..n : j # k /\ pending[j].op = "add" /\ r \in DOMAIN pending[j].msgs
                      => Live(sync.after)
      BY <3>1
    <3>3. k - 1 \in 1..(n - 1) /\ pending'[k - 1] = pending[k] /\ k # 1
      BY <3>1, <1>5, <1>7, <1>9
    <3>4. r \in Id /\ sync.after \in Nat \ {0}
      BY <3>2, <1>1, <1>8, Bounds
    <3>5. Table!Stored(store'[r]) => Live(sync.after)'
      BY <2>1, <3>2, <3>3, <3>4, <1>5, <1>6, <1>7
    <3>6. ASSUME NEW j \in 1..(n - 1), j # k - 1, pending'[j].op = "add",
                 r \in DOMAIN pending'[j].msgs
          PROVE  Live(sync.after)'
      <4>1. j + 1 \in 1..n /\ pending'[j] = pending[j + 1] /\ j + 1 # k
        <5>1. j + 1 \in 1..n /\ pending'[j] = pending[j + 1]
          BY <1>5, <1>7
        <5>2. j + 1 # k
          BY <3>6, <3>3
        <5> QED BY <5>1, <5>2
      <4> QED BY <4>1, <3>2, <3>4, <3>6, <1>6, <2>1
    <3> QED BY <2>1, <3>1, <3>2, <3>3, <3>5, <3>6, <1>5 DEF FlushAsked
  <2>5. \A x \in Id : ~(posted < x /\ x <= posted')
    BY <1>1, <1>2, Bounds
  <2>6. \A x \in Id : Creates(x)' => Creates(x)
    BY <1>2 DEF Creates
  <2> QED BY <2>1, <2>2, <2>3, <2>4, <2>5, <2>6, <1>1, <1>2, <1>6, SyncStands
<1>10. CASE tx.awaited
  <2>1. /\ sync.state \in {"reading", "flushed"} /\ sync.answer = "none"
        /\ \A j \in 1..n : pending[j].awaited => j = 1
    BY <1>5, <1>7, <1>10 DEF SInv, OneAwaited
  <2>2. sync' = Answered(tx)
    BY <1>3, <1>10 DEF Work
  <2>3. OneAwaited'
    BY <2>1, <1>5, <1>7 DEF OneAwaited
  <2>4. sync.rest = None /\ sync.start \in Nat /\ sync.after \in Nat
    BY <2>1, <1>1, Bounds DEF SInv, PageInHand
  <2>5. CASE sync.state = "reading"
    <3>1. /\ tx.op = "last"
          /\ \A j \in 1..n : \A x \in DOMAIN pending[j].msgs :
                j > 1 /\ pending[j].op = "add" => Live(x)
      BY <2>1, <2>5, <1>5 DEF SInv, LastAsked
    <3>2. PICK last \in {0} \cup Id : /\ last = LastID(store)
                                      /\ \A m \in Id : Table!Stored(store[m]) => m <= last
      BY <1>1, LastIDFacts
    <3>3. sync' = [sync EXCEPT !.answer = "read", !.start = last]
      BY <2>2, <3>1, <3>2 DEF Answered
    <3>4. sync \in SyncRecord
      BY <1>1 DEF TypeOK, SyncRecord
    <3>5. /\ sync'.state = "reading" /\ sync'.answer = "read" /\ sync'.start = last
          /\ sync'.rest = None
      BY <3>3, <3>4, <2>4, <2>5 DEF SyncRecord
    <3>6. FreshLive'
      <4> SUFFICES ASSUME NEW x \in Id, x > last, Known(x)' PROVE Live(x)'
        BY <3>5 DEF FreshLive, Fresh
      <4>1. x \in Nat \ {0} /\ last \in Nat
        BY <1>1, Bounds
      <4>2. ~Table!Stored(store[x])
        BY <3>2, <4>1
      <4>3. Adds(x)
        BY <4>2, <1>6 DEF Known
      <4>4. PICK j \in 1..n : pending[j].op = "add" /\ x \in DOMAIN pending[j].msgs
        BY <4>3, <1>5 DEF Adds
      <4>5. j > 1
        BY <4>4, <3>1, <1>5
      <4>6. Live(x)
        BY <4>4, <4>5, <3>1
      <4> QED BY <4>1, <4>6, <1>6
    <3>7. LastAsked' /\ FlushAsked' /\ Answers' /\ PageInHand' /\ NoHole'
      BY <3>5 DEF LastAsked, FlushAsked, Answers, PageInHand, NoHole
    <3> QED BY <3>6, <3>7, <2>3, <1>1, <1>2, <1>6, SyncMoves
  <2>6. CASE sync.state = "flushed"
    <3>1. PICK r \in DOMAIN tx.msgs :
              /\ tx.op = "add" /\ r = Max(DOMAIN tx.msgs) /\ r <= sync.after
              /\ Table!Stored(store[r]) => Live(sync.after)
      BY <2>1, <2>6, <1>5 DEF SInv, FlushAsked
    <3>2. r \in Id /\ sync.after \in Nat \ {0}
      BY <3>1, <1>1, <1>5, <1>7, <1>8, Bounds
    <3>3. PICK answer \in {"known", "new"} :
              answer = IF Table!Stored(store[r]) THEN "known" ELSE "new"
      OBVIOUS
    <3>4. sync' = [sync EXCEPT !.answer = answer]
      BY <2>2, <3>1, <3>3 DEF Answered
    <3>5. sync \in SyncRecord
      BY <1>1 DEF TypeOK, SyncRecord
    <3>6. /\ sync'.state = "flushed" /\ sync'.answer = answer /\ sync'.rest = None
          /\ sync'.start = sync.start /\ sync'.after = sync.after /\ sync'.full = sync.full
      BY <3>4, <3>5, <2>4, <2>6 DEF SyncRecord
    <3>7. FreshLive'
      <4> SUFFICES ASSUME NEW x \in Id, x > sync.after, Known(x)' PROVE Live(x)'
        BY <3>6 DEF FreshLive, Fresh
      <4>1. Live(x)
        BY <2>6, <1>6 DEF SInv, FreshLive, Fresh
      <4> QED BY <4>1, <1>1, <1>6, Bounds
    <3>8. Answers'
      BY <3>1, <3>2, <3>3, <3>6, <1>6 DEF Answers
    <3>9. LastAsked' /\ FlushAsked' /\ PageInHand'
      BY <3>3, <3>6 DEF LastAsked, FlushAsked, PageInHand
    <3>10. NoHole'
      <4>1. \A m \in Id : Covered(m) => Covered(m)'
        BY <3>6, <2>4, <1>6 DEF Covered, Settled
      <4>2. \A m \in (sync.start + 1)..sync.after : m \in Id
        <5>1. sync.after \in {0} \cup (1..MaxMessage) /\ MaxMessage \in Nat
          BY <1>1, SyncAssumption DEF TypeOK, Id
        <5> QED BY <5>1, <2>4 DEF Id
      <4>3. \A m \in (sync.start + 1)..posted : m \in Id
        BY <2>4, <1>1, SyncAssumption DEF TypeOK, Id
      <4> QED BY <4>1, <4>2, <4>3, <3>6, <2>6, <1>2 DEF SInv, NoHole
    <3> QED BY <3>7, <3>8, <3>9, <3>10, <2>3, <1>1, <1>2, <1>6, SyncMoves
  <2> QED BY <2>1, <2>5, <2>6
<1> QED BY <1>9, <1>10

(* The process starts and dies with nothing on its way.                    *)
LEMMA LifeInv ==
    ASSUME SInv, Start \/ Crash \/ FatalError
    PROVE  SInv'
<1>1. TypeOK'
  BY ProcessType DEF SInv
<1>2. CASE Start
  <2>1. events' = <<>> /\ pending' = <<>> /\ sync' = NoSync /\ lastMessageID' = posted'
    BY <1>2 DEF SInv, Dead, Start, discord
  <2> QED BY <2>1, <1>1, IdleInv
<1>3. CASE Crash \/ FatalError
  <2>1. events' = <<>> /\ pending' = <<>> /\ sync' = NoSync /\ ~alive'
    BY <1>3 DEF Crash, FatalError, Dies
  <2> QED BY <2>1, <1>1, IdleInv
<1> QED BY <1>2, <1>3

-----------------------------------------------------------------------------
(* The steps of syncMessages.  Those that leave the queue alone change only *)
(* the sync, and are typed if it is.                                       *)
LEMMA SyncAlone ==
    ASSUME TypeOK, sync' \in SyncRecord, DOMAIN sync'.rest \subseteq 1..posted,
           UNCHANGED <<discord, events, alive, lastMessageID, pending, store, failure, crashes>>,
           stops' \in 0..MaxStops
    PROVE  /\ TypeOK'
           /\ \A x \in Id : (Settled(x) => Settled(x)') /\ (Known(x)' => Known(x))
           /\ \A m \in Nat \ {0} : Live(m) => Live(m)'
<1>1. TypeOK'
  BY DEF TypeOK, discord, SyncRecord
<1>2. UNCHANGED <<posted, deleted, events, pending, store>>
  BY DEF discord
<1>3. \A x : (Settled(x) => Settled(x)') /\ (Known(x)' => Known(x)) /\ (Creates(x)' => Creates(x))
  BY <1>2 DEF Settled, Known, Adds, Creates
<1>4. \A m : Live(m) => Live(m)'
  BY <1>2, <1>3 DEF Live
<1> QED BY <1>1, <1>3, <1>4

(* The sync is registered and asks for the last stored ID.                 *)
LEMMA CallSyncInv ==
    ASSUME SInv, StartSync \/ ResumeSync
    PROVE  SInv'
<1>1. TypeOK' /\ TypeOK
  BY ProcessType DEF SInv
<1>2. /\ alive /\ alive' /\ UNCHANGED <<posted, deleted, events, store>>
      /\ sync' = [NoSync EXCEPT !.state = "reading"]
      /\ pending' = Append(pending, Tx("last", None, TRUE))
      /\ sync.state \in {"waiting", "stopped"}
      /\ lastMessageID' \in {0, lastMessageID}
  <2>1. CallSync /\ alive /\ sync.state \in {"waiting", "stopped"}
    BY DEF StartSync, ResumeSync
  <2>2. lastMessageID' \in {0, lastMessageID}
    BY DEF StartSync, ResumeSync
  <2> QED BY <2>1, <2>2 DEF CallSync, discord
<1>3. PICK tx \in Transaction : tx = Tx("last", None, TRUE)
  BY DEF Tx, Transaction
<1>4. tx.op = "last" /\ tx.awaited /\ DOMAIN tx.msgs = {}
  BY <1>3, MessagesFacts DEF Tx
<1>5. /\ sync'.state = "reading" /\ sync'.answer = "none" /\ sync'.rest = None
  BY <1>2, NoSyncFacts DEF SyncState
<1>6. PICK n \in Nat : n = Len(pending) /\ DOMAIN pending = 1..n
  BY <1>1, Bounds
<1>7. /\ DOMAIN pending' = 1..(n + 1) /\ pending'[n + 1] = tx
      /\ \A k \in 1..n : pending'[k] = pending[k]
      /\ \A m : Adds(m)' <=> Adds(m)
  <2>1. pending \in Seq(Transaction)
    BY <1>1, Bounds
  <2>2. pending' = Append(pending, tx)
    BY <1>2, <1>3
  <2>3. /\ DOMAIN pending' = 1..(n + 1) /\ pending'[n + 1] = tx
        /\ \A k \in 1..n : pending'[k] = pending[k]
    BY <2>1, <2>2, <1>6, QueueAppended
  <2>4. \A m : AddedBy(pending', m) <=> AddedBy(pending, m)
    BY <2>1, <2>2, <1>4, QueueAppended
  <2> QED BY <2>3, <2>4 DEF AddedBy, Adds
<1>8. \A k \in 1..(n + 1) : k \in 1..n \/ k = n + 1
  OBVIOUS
<1>9. \A x \in Id : Settled(x) => Settled(x)'
  BY <1>2, <1>7 DEF Settled, Creates
<1>10. \A k \in 1..n : ~pending[k].awaited
  BY <1>2, <1>6 DEF SInv, OneAwaited
<1>11. OneAwaited'
  BY <1>4, <1>5, <1>7, <1>8, <1>10 DEF OneAwaited
<1>12. LastAsked'
  <2>1. n + 1 \in 1..(n + 1) /\ \A j \in 1..(n + 1) : ~(j > n + 1)
    OBVIOUS
  <2> QED BY <2>1, <1>4, <1>7 DEF LastAsked
<1>13. FreshLive' /\ FlushAsked' /\ Answers' /\ PageInHand' /\ NoHole'
  BY <1>5 DEF FreshLive, Fresh, FlushAsked, Answers, PageInHand, NoHole
<1> QED BY <1>1, <1>2, <1>9, <1>11, <1>12, <1>13, SyncMoves

(* The check whether there is anything to download.                        *)
LEMMA ReadLastInv ==
    ASSUME SInv, ReadLast
    PROVE  SInv'
<1>1. TypeOK /\ sync \in SyncRecord
  BY DEF SInv, TypeOK, SyncRecord
<1>2. /\ alive /\ alive' /\ sync.state = "reading" /\ sync.answer = "read" /\ sync.rest = None
      /\ UNCHANGED <<posted, events, lastMessageID, pending>>
  BY DEF ReadLast, discord, SInv, PageInHand
<1>3. PICK state \in {"requesting", "finished"} :
          /\ sync' = [sync EXCEPT !.state = state, !.after = sync.start, !.answer = "none"]
          /\ state = "finished" => lastMessageID # 0 /\ ~(sync.start < lastMessageID)
  BY DEF ReadLast
<1>4. /\ sync'.state = state /\ sync'.answer = "none" /\ sync'.rest = None
      /\ sync'.start = sync.start /\ sync'.after = sync.start /\ sync' \in SyncRecord
  BY <1>1, <1>2, <1>3 DEF SyncRecord, SyncState
<1>5. /\ TypeOK'
      /\ \A x \in Id : (Settled(x) => Settled(x)') /\ (Known(x)' => Known(x))
      /\ \A m \in Nat \ {0} : Live(m) => Live(m)'
  <2>1. DOMAIN sync'.rest \subseteq 1..posted /\ stops' \in 0..MaxStops
    BY <1>1, <1>4, MessagesFacts DEF ReadLast, TypeOK
  <2> QED BY <2>1, <1>1, <1>4, SyncAlone DEF ReadLast
<1>6. \A k \in DOMAIN pending' : ~pending'[k].awaited
  BY <1>2 DEF SInv, OneAwaited
<1>7. FreshLive'
  <2> SUFFICES ASSUME NEW x \in Id, x > sync.start, Known(x)' PROVE Live(x)'
    BY <1>3, <1>4 DEF FreshLive, Fresh
  <2>1. Live(x)
    BY <1>2, <1>5 DEF SInv, FreshLive, Fresh
  <2> QED BY <2>1, <1>1, <1>5, Bounds
<1>8. NoHole'
  <2>1. sync.start \in Nat /\ lastMessageID \in {0} \cup Id /\ Id \subseteq Nat \ {0}
    BY <1>1, Bounds
  <2>2. \A m \in (sync.start + 1)..sync.start : FALSE
    BY <2>1
  <2>3. ASSUME state = "finished", NEW m \in (sync.start + 1)..posted' PROVE Covered(m)'
    <3>1. Live(lastMessageID + 1) /\ lastMessageID \in Nat
      BY <2>1, <2>3, <1>2, <1>3 DEF SInv, StartedLive
    <3>2. m \in (lastMessageID + 1)..posted' /\ lastMessageID + 1 \in Nat \ {0}
      BY <2>1, <2>3, <3>1, <1>3
    <3> QED BY <3>1, <3>2, <1>5 DEF Live, Settled, Covered
  <2> QED BY <2>2, <2>3, <1>3, <1>4 DEF NoHole
<1>9. OneAwaited' /\ LastAsked' /\ FlushAsked' /\ Answers' /\ PageInHand'
  BY <1>3, <1>4, <1>6 DEF OneAwaited, LastAsked, FlushAsked, Answers, PageInHand
<1> QED BY <1>2, <1>5, <1>7, <1>8, <1>9, SyncMoves

(* A page arrives.                                                         *)
LEMMA AnswerInv ==
    ASSUME SInv, Answer
    PROVE  SInv'
<1>1. TypeOK /\ sync \in SyncRecord
  BY DEF SInv, TypeOK, SyncRecord
<1>2. /\ alive /\ alive' /\ sync.state = "requesting" /\ sync.rest = None /\ sync.answer = "none"
      /\ UNCHANGED <<posted, deleted, events, lastMessageID, pending>>
  BY DEF Answer, discord, SInv, PageInHand, Answers
<1>3. PICK page \in Messages :
          /\ page = PageAfter(sync.after) /\ DOMAIN page \subseteq 1..posted
          /\ \A x \in DOMAIN page : x > sync.after
          /\ \A x \in DOMAIN page : \A m \in (sync.after + 1)..x : m \in deleted \/ m \in DOMAIN page
          /\ Cardinality(DOMAIN page) # PageSize =>
                \A m \in (sync.after + 1)..posted : m \in deleted \/ m \in DOMAIN page
  BY <1>1, PageFacts DEF SyncRecord
<1>4. sync' = [sync EXCEPT !.state = "answered", !.rest = page]
  BY <1>3 DEF Answer
<1>5. /\ sync'.state = "answered" /\ sync'.answer = "none" /\ sync'.rest = page
      /\ sync'.start = sync.start /\ sync'.after = sync.after /\ sync' \in SyncRecord
  BY <1>1, <1>2, <1>4 DEF SyncRecord, SyncState
<1>6. /\ TypeOK'
      /\ \A x \in Id : (Settled(x) => Settled(x)') /\ (Known(x)' => Known(x))
      /\ \A m \in Nat \ {0} : Live(m) => Live(m)'
  <2>1. DOMAIN sync'.rest \subseteq 1..posted /\ stops' \in 0..MaxStops
    BY <1>1, <1>3, <1>5 DEF Answer, TypeOK
  <2> QED BY <2>1, <1>1, <1>5, SyncAlone DEF Answer
<1>7. \A k \in DOMAIN pending' : ~pending'[k].awaited
  BY <1>2 DEF SInv, OneAwaited
<1>8. FreshLive'
  <2> SUFFICES ASSUME NEW x \in Id, x > sync.after, Known(x)' PROVE Live(x)'
    BY <1>3, <1>5 DEF FreshLive, Fresh
  <2>1. Live(x)
    BY <1>2, <1>6 DEF SInv, FreshLive, Fresh
  <2> QED BY <2>1, <1>1, <1>6, Bounds
<1>9. PageInHand'
  BY <1>2, <1>3, <1>5 DEF PageInHand, Covered
<1>10. NoHole'
  <2>1. \A m \in Id : Covered(m) => Covered(m)'
    BY <1>2, <1>6, MessagesFacts DEF Covered, Settled
  <2>2. \A m \in (sync.start + 1)..sync.after : m \in Id
    BY <1>1, Bounds, SyncAssumption DEF Id
  <2> QED BY <2>1, <2>2, <1>2, <1>5 DEF SInv, NoHole
<1>11. OneAwaited' /\ LastAsked' /\ FlushAsked' /\ Answers'
  BY <1>5, <1>7 DEF OneAwaited, LastAsked, FlushAsked, Answers
<1> QED BY <1>2, <1>6, <1>8, <1>9, <1>10, <1>11, SyncMoves

(* The sync goes on to the next page, or has finished.                     *)
LEMMA EndPageInv ==
    ASSUME SInv, EndPage
    PROVE  SInv'
<1>1. TypeOK /\ sync \in SyncRecord
  BY DEF SInv, TypeOK, SyncRecord
<1>2. /\ alive /\ alive' /\ sync.state = "flushed" /\ sync.answer \in {"known", "new"}
      /\ sync.rest = None
      /\ UNCHANGED <<posted, events, lastMessageID, pending>>
  BY DEF EndPage, discord, SInv, PageInHand, Answers
<1>3. PICK state \in {"requesting", "finished"} :
          /\ sync' = [sync EXCEPT !.state = state, !.answer = "none"]
          /\ state = "finished" => sync.answer = "known" \/ ~sync.full
  BY <1>2 DEF EndPage
<1>4. /\ sync'.state = state /\ sync'.answer = "none" /\ sync'.rest = None
      /\ sync'.start = sync.start /\ sync'.after = sync.after /\ sync' \in SyncRecord
  BY <1>1, <1>2, <1>3 DEF SyncRecord, SyncState
<1>5. /\ TypeOK'
      /\ \A x \in Id : (Settled(x) => Settled(x)') /\ (Known(x)' => Known(x))
      /\ \A m \in Nat \ {0} : Live(m) => Live(m)'
  <2>1. DOMAIN sync'.rest \subseteq 1..posted /\ stops' \in 0..MaxStops
    BY <1>1, <1>4, MessagesFacts DEF EndPage, TypeOK
  <2> QED BY <2>1, <1>1, <1>4, SyncAlone DEF EndPage
<1>6. \A k \in DOMAIN pending' : ~pending'[k].awaited
  BY <1>2 DEF SInv, OneAwaited
<1>7. FreshLive'
  <2> SUFFICES ASSUME NEW x \in Id, x > sync.after, Known(x)' PROVE Live(x)'
    BY <1>3, <1>4 DEF FreshLive, Fresh
  <2>1. Live(x)
    BY <1>2, <1>5 DEF SInv, FreshLive, Fresh
  <2> QED BY <2>1, <1>1, <1>5, Bounds
<1>8. NoHole'
  <2>1. \A m \in Id : Covered(m) => Covered(m)'
    BY <1>2, <1>4, <1>5 DEF Covered, Settled
  <2>2. sync.start \in Nat /\ sync.after \in Nat /\ sync.after \in {0} \cup Id
    BY <1>1, Bounds
  <2>3. \A m \in (sync.start + 1)..sync.after : m \in Id
    BY <2>2, SyncAssumption DEF Id
  <2>4. \A m \in (sync.start + 1)..posted : m \in Id
    BY <2>2, <1>1, SyncAssumption DEF TypeOK, Id
  <2>5. \A m \in (sync.start + 1)..sync.after : Covered(m)
    BY <1>2 DEF SInv, NoHole
  <2>6. ASSUME state = "finished", NEW m \in (sync.start + 1)..posted PROVE Covered(m)
    <3>1. CASE ~sync.full
      BY <3>1, <1>2 DEF SInv, NoHole
    <3>2. CASE sync.answer = "known"
      <4>1. Live(sync.after) /\ m \in Nat
        BY <3>2, <1>2, <2>2 DEF SInv, Answers
      <4>2. CASE m <= sync.after
        <5>1. m \in (sync.start + 1)..sync.after
          BY <4>2, <2>2
        <5> QED BY <5>1, <2>5
      <4>3. CASE ~(m <= sync.after)
        <5>1. m \in sync.after..posted
          BY <4>3, <2>2
        <5> QED BY <4>1, <5>1 DEF Live, Settled, Covered
      <4> QED BY <4>2, <4>3
    <3> QED BY <2>6, <3>1, <3>2, <1>3
  <2> QED BY <2>1, <2>3, <2>4, <2>5, <2>6, <1>2, <1>3, <1>4 DEF NoHole
<1>9. OneAwaited' /\ LastAsked' /\ FlushAsked' /\ Answers' /\ PageInHand'
  BY <1>3, <1>4, <1>6 DEF OneAwaited, LastAsked, FlushAsked, Answers, PageInHand
<1> QED BY <1>2, <1>5, <1>7, <1>8, <1>9, SyncMoves

(* The sync is aborted, a request fails for good or makes the sync hang.   *)
LEMMA StopSyncInv ==
    ASSUME SInv, StopSync \/ HangSync \/ AbortHungSync
    PROVE  SInv'
<1>1. TypeOK /\ sync \in SyncRecord
  BY DEF SInv, TypeOK, SyncRecord
<1>2. /\ alive /\ alive' /\ sync.state \in {"requesting", "answered", "reactions", "hung"}
      /\ UNCHANGED <<posted, events, lastMessageID, pending>>
      /\ \E state \in {"stopped", "hung"} : sync' = [NoSync EXCEPT !.state = state]
  BY DEF StopSync, HangSync, AbortHungSync, discord
<1>3. /\ sync'.state \in {"stopped", "hung"} /\ sync'.answer = "none" /\ sync'.rest = None
      /\ sync' \in SyncRecord
  BY <1>2, NoSyncFacts DEF SyncState
<1>4. TypeOK' /\ \A x \in Id : (Settled(x) => Settled(x)')
  <2>1. DOMAIN sync'.rest \subseteq 1..posted
    BY <1>3, MessagesFacts
  <2>2. stops' \in 0..MaxStops
    BY <1>1, SyncAssumption DEF StopSync, HangSync, AbortHungSync, TypeOK
  <2> QED BY <2>1, <2>2, <1>1, <1>3, SyncAlone DEF StopSync, HangSync, AbortHungSync
<1>5. \A k \in DOMAIN pending' : ~pending'[k].awaited
  BY <1>2 DEF SInv, OneAwaited
<1>6. /\ FreshLive' /\ OneAwaited' /\ LastAsked' /\ FlushAsked' /\ Answers' /\ PageInHand'
      /\ NoHole'
  BY <1>3, <1>5 DEF FreshLive, Fresh, OneAwaited, LastAsked, FlushAsked, Answers, PageInHand,
     NoHole
<1> QED BY <1>2, <1>4, <1>6, SyncMoves

(* The part of a page up to the next await is posted.  The messages of     *)
(* prior and msgs are those in hand.                                       *)
LEMMA ProcessInv ==
    ASSUME SInv, alive, sync.state \in {"answered", "reactions"},
           NEW prior \in Messages, NEW msgs \in Messages, Process(prior, msgs),
           DOMAIN prior \cup DOMAIN msgs = DOMAIN sync.rest,
           DOMAIN prior \cap DOMAIN msgs = {},
           prior # None \/ msgs # None,
           prior # None => sync.state = "reactions",
           prior = None => sync.state = "answered",
           UNCHANGED <<discord, events, alive, lastMessageID, store, failure, crashes, stops>>
    PROVE  SInv'
<1> DEFINE n == Len(pending)
<1>1. TypeOK /\ sync \in SyncRecord
  BY DEF SInv, TypeOK, SyncRecord
<1>2. /\ alive' /\ sync.answer = "none"
      /\ UNCHANGED <<posted, deleted, events, store>>
  BY DEF discord, SInv, Answers
<1>3. PICK front \in SUBSET DOMAIN msgs : front = Unreacted(msgs)
  BY DEF Unreacted
<1>4. PICK end \in BOOLEAN : end = (Only(msgs, Id \ front) = None)
  OBVIOUS
<1>5. ProcessedSync(msgs, front, end) /\ sync' \in SyncRecord
  BY <1>1, <1>3, <1>4, ProcessSync DEF SyncRecord
<1>6. pending' \in Seq(Transaction) /\ ProcessedQueue(prior, front, end)
  BY <1>1, <1>3, <1>4, ProcessQueue
<1>7. /\ end => sync'.state = "flushed"
      /\ ~end => sync'.state = "reactions"
      /\ sync'.start = sync.start /\ sync'.answer = "none"
      /\ DOMAIN sync'.rest = DOMAIN msgs \ front
      /\ end => sync'.rest = None
      /\ ~end => sync'.rest # None
      /\ sync'.after \in {sync.after} \cup DOMAIN msgs
      /\ \A x \in DOMAIN msgs : x <= sync'.after
  BY <1>2, <1>5 DEF ProcessedSync
<1>8. /\ Id \subseteq Nat \ {0} /\ DOMAIN sync.rest \subseteq Id
      /\ sync.after \in Nat /\ sync.start \in Nat /\ sync'.after \in Nat /\ sync'.after \in {0} \cup Id
      /\ sync'.after >= sync.after /\ posted \in Nat
      /\ DOMAIN prior \subseteq Id /\ DOMAIN msgs \subseteq Id /\ front \subseteq Id
  <2>1. Id \subseteq Nat \ {0} /\ DOMAIN sync.rest \subseteq Id /\ sync.after \in Nat
        /\ sync.start \in Nat /\ posted \in Nat /\ sync.after \in {0} \cup Id
    BY <1>1, Bounds, MessagesFacts DEF SyncRecord
  <2>2. DOMAIN prior \subseteq Id /\ DOMAIN msgs \subseteq Id
    BY MessagesFacts
  <2> QED BY <2>1, <2>2, <1>5, <1>7 DEF ProcessedSync
<1>9. TypeOK'
  <2>1. DOMAIN sync'.rest \subseteq 1..posted
    BY <1>1, <1>7 DEF TypeOK
  <2> QED BY <2>1, <1>1, <1>5, <1>6 DEF TypeOK, discord, SyncRecord
<1>10. \A m : Adds(m)' <=> Adds(m) \/ m \in DOMAIN prior \/ m \in front
  BY <1>6 DEF ProcessedQueue, Adds, AddedBy
<1>11. /\ \A x \in Id : Settled(x) => Settled(x)'
       /\ \A x \in Id : Covered(x) => Covered(x)'
  BY <1>2, <1>7, <1>10 DEF Settled, Covered, Creates
<1>12. \A m \in Nat \ {0} : Live(m) => Live(m)'
  <2>1. \A x \in Id : ~(posted < x /\ x <= posted')
    BY <1>2, <1>8
  <2>2. posted' \in {0} \cup Id
    BY <1>9 DEF TypeOK
  <2> QED BY <2>1, <2>2, <1>1, <1>2, <1>11, LiveStays
<1>13. \A x \in DOMAIN prior \cup DOMAIN msgs : Fresh(x) /\ x <= sync'.after
  <2>1. \A x \in DOMAIN prior : x <= sync'.after
    <3> SUFFICES ASSUME NEW x \in DOMAIN prior PROVE x <= sync'.after
      OBVIOUS
    <3>1. sync.state = "reactions" /\ x \in DOMAIN sync.rest
      BY MessagesFacts
    <3>2. x <= sync.after
      BY <3>1 DEF SInv, PageInHand
    <3>3. x \in Nat
      BY <1>8
    <3> QED BY <3>2, <3>3, <1>8
  <2> QED BY <2>1, <1>7 DEF Fresh
<1>14. FreshLive'
  <2> SUFFICES ASSUME NEW x \in Id, Fresh(x)', Known(x)' PROVE Live(x)'
    BY DEF FreshLive
  <2>1. x > sync'.after \/ x \in DOMAIN msgs \ front
    BY <1>4, <1>7 DEF Fresh
  <2>2. x \notin DOMAIN prior /\ x \notin front
    BY <2>1, <1>8, <1>13
  <2>3. Known(x)
    BY <2>2, <1>2, <1>10 DEF Known
  <2>4. Fresh(x)
    BY <2>1, <1>8, <1>13 DEF Fresh
  <2>5. Live(x)
    BY <2>3, <2>4 DEF SInv, FreshLive
  <2> QED BY <2>5, <1>8, <1>12
<1>15. \A k \in DOMAIN pending : ~pending[k].awaited
  BY DEF SInv, OneAwaited
<1>16. /\ \A k \in DOMAIN pending' \ DOMAIN pending : PostedTx(pending'[k], k, prior, front, end)
       /\ \A k \in DOMAIN pending : pending'[k] = pending[k]
  BY <1>6 DEF ProcessedQueue
<1>17. OneAwaited'
  <2>1. \A k \in DOMAIN pending' : pending'[k].awaited => end /\ k = n + 1
    BY <1>15, <1>16 DEF PostedTx
  <2> QED BY <2>1, <1>7 DEF OneAwaited
<1>18. FlushAsked'
  <2> SUFFICES ASSUME end PROVE FlushAsked'
    BY <1>4, <1>7 DEF FlushAsked
  <2>1. n + 1 \in DOMAIN pending' \ DOMAIN pending
    BY <1>6 DEF ProcessedQueue
  <2>2. PICK tx : tx = pending'[n + 1]
    OBVIOUS
  <2>3. /\ tx.op = "add" /\ tx.msgs \in Messages /\ DOMAIN tx.msgs # {} /\ tx.awaited
        /\ DOMAIN tx.msgs = DOMAIN prior \/ DOMAIN tx.msgs = front
    BY <2>1, <2>2, <1>16 DEF PostedTx
  <2>4. DOMAIN tx.msgs \subseteq DOMAIN prior \cup DOMAIN msgs
    BY <2>3
  <2>5. PICK r \in DOMAIN tx.msgs : r = Max(DOMAIN tx.msgs)
    <3>1. DOMAIN tx.msgs \in SUBSET ({0} \cup Id)
      BY <2>4, <1>8
    <3> QED BY <3>1, <2>3, MaxOfIds
  <2>6. r \in Id /\ Fresh(r) /\ r <= sync'.after
    BY <2>4, <1>8, <1>13
  <2>7. ASSUME Known(r) PROVE Live(sync.after)'
    <3>1. Live(r)
      BY <2>6, <2>7 DEF SInv, FreshLive
    <3>2. Live(sync'.after)
      BY <3>1, <2>6, <1>8, LiveLater
    <3>3. PICK a \in Nat \ {0} : a = sync'.after
      BY <2>6, <1>8
    <3>4. Live(a)'
      BY <3>2, <3>3, <1>12
    <3> QED BY <3>3, <3>4
  <2>8. ASSUME NEW j \in DOMAIN pending', j # n + 1, pending'[j].op = "add",
               r \in DOMAIN pending'[j].msgs
        PROVE  Known(r)
    <3>1. CASE j \in DOMAIN pending
      BY <3>1, <2>8, <1>16 DEF Known, Adds
    <3>2. CASE j \notin DOMAIN pending
      BY <3>2, <2>1, <2>2, <2>5, <2>8, <1>6 DEF ProcessedQueue
    <3> QED BY <3>1, <3>2
  <2>9. /\ n + 1 \in DOMAIN pending' /\ pending'[n + 1].op = "add" /\ pending'[n + 1].awaited
        /\ r \in DOMAIN pending'[n + 1].msgs /\ r = Max(DOMAIN pending'[n + 1].msgs)
    BY <2>1, <2>2, <2>3, <2>5
  <2>10. Table!Stored(store'[r]) => Live(sync.after)'
    BY <2>7, <1>2 DEF Known
  <2> QED BY <2>6, <2>7, <2>8, <2>9, <2>10 DEF FlushAsked
<1>19. PageInHand'
  <2>1. end \/ ~end
    OBVIOUS
  <2> QED BY <2>1, <1>7 DEF PageInHand
<1>20. \A m : m \in (sync.start + 1)..posted => m \in Id
  BY <1>1, <1>8, SyncAssumption DEF TypeOK, Id
<1>21. \A m : m \in (sync.start + 1)..sync'.after => m \in Id
  BY <1>8, SyncAssumption DEF Id
<1>22. \A m \in (sync.start + 1)..sync.after : Covered(m)
  BY DEF SInv, NoHole
<1>23. ASSUME NEW m \in (sync.start + 1)..sync'.after PROVE Covered(m)
  <2>1. CASE m <= sync.after
    <3>1. m \in (sync.start + 1)..sync.after
      BY <2>1, <1>8
    <3> QED BY <3>1, <1>22
  <2>2. CASE ~(m <= sync.after)
    <3>1. m \in (sync.after + 1)..sync'.after /\ sync'.after # sync.after
      BY <2>2, <1>8
    <3>2. sync'.after \in DOMAIN msgs
      BY <3>1, <1>7
    <3>3. sync.state = "answered"
      <4>1. sync'.after \in DOMAIN sync.rest /\ sync'.after > sync.after
        BY <3>1, <3>2, <1>8
      <4> QED BY <4>1, <1>8 DEF SInv, PageInHand
    <3> QED BY <3>1, <3>2, <3>3 DEF SInv, PageInHand
  <2> QED BY <2>1, <2>2
<1>24. ASSUME ~sync'.full, NEW m \in (sync.start + 1)..posted PROVE Covered(m)
  <2>1. CASE sync.state = "reactions"
    <3>1. ~sync.full
      BY <2>1, <1>5, <1>24 DEF ProcessedSync
    <3> QED BY <3>1, <2>1 DEF SInv, NoHole
  <2>2. CASE sync.state = "answered"
    <3>1. Cardinality(DOMAIN msgs) # PageSize /\ DOMAIN msgs = DOMAIN sync.rest
      BY <2>2, <1>5, <1>24, MessagesFacts DEF ProcessedSync
    <3>2. CASE m <= sync.after
      <4>1. m \in (sync.start + 1)..sync.after
        BY <3>2, <1>8
      <4> QED BY <4>1, <1>22
    <3>3. CASE ~(m <= sync.after)
      <4>1. m \in (sync.after + 1)..posted
        BY <3>3, <1>8
      <4> QED BY <4>1, <3>1, <2>2 DEF SInv, PageInHand
    <3> QED BY <3>2, <3>3
  <2> QED BY <2>1, <2>2
<1>25. NoHole'
  <2>1. \A m \in (sync.start + 1)..sync'.after : Covered(m)'
    BY <1>11, <1>21, <1>23
  <2>2. ~sync'.full => \A m \in (sync.start + 1)..posted : Covered(m)'
    BY <1>11, <1>20, <1>24
  <2>3. sync'.state # "finished" /\ sync'.start = sync.start /\ posted' = posted
    BY <1>2, <1>7
  <2> QED BY <2>1, <2>2, <2>3 DEF NoHole
<1>26. LastAsked' /\ Answers'
  BY <1>4, <1>7 DEF LastAsked, Answers
<1> QED BY <1>2, <1>9, <1>11, <1>14, <1>17, <1>18, <1>19, <1>25, <1>26, SyncMoves

(* The page is gone through, unless it is empty.                           *)
LEMMA ReceivePageInv ==
    ASSUME SInv, ReceivePage
    PROVE  SInv'
<1>1. TypeOK /\ sync \in SyncRecord
  BY DEF SInv, TypeOK, SyncRecord
<1>2. CASE sync.rest # None
  <2>1. /\ None \in Messages /\ sync.rest \in Messages /\ Process(None, sync.rest)
        /\ DOMAIN None = {}
    BY <1>1, <1>2, MessagesFacts DEF ReceivePage, SyncRecord
  <2> QED BY <2>1, <1>2, ProcessInv DEF ReceivePage
<1>3. CASE sync.rest = None
  <2>1. /\ alive /\ alive' /\ sync.state = "answered" /\ sync.answer = "none"
        /\ UNCHANGED <<posted, events, lastMessageID, pending>>
        /\ sync' = [sync EXCEPT !.state = "finished"]
    BY <1>3 DEF ReceivePage, discord, SInv, Answers
  <2>2. /\ sync'.state = "finished" /\ sync'.answer = "none" /\ sync'.rest = None
        /\ sync'.start = sync.start /\ sync' \in SyncRecord
    BY <1>1, <1>3, <2>1 DEF SyncRecord, SyncState
  <2>3. /\ TypeOK'
        /\ \A x \in Id : (Settled(x) => Settled(x)') /\ (Known(x)' => Known(x))
        /\ \A m \in Nat \ {0} : Live(m) => Live(m)'
    <3>1. DOMAIN sync'.rest \subseteq 1..posted /\ stops' \in 0..MaxStops
      BY <1>1, <2>2, MessagesFacts DEF ReceivePage, TypeOK
    <3> QED BY <3>1, <1>1, <1>3, <2>2, SyncAlone DEF ReceivePage
  <2>4. \A k \in DOMAIN pending' : ~pending'[k].awaited
    BY <2>1 DEF SInv, OneAwaited
  <2>5. NoHole'
    <3>1. \A m \in Id : Covered(m) => Covered(m)'
      BY <1>3, <2>2, <2>3 DEF Covered, Settled
    <3>2. sync.start \in Nat /\ sync.after \in Nat /\ posted \in Nat
      BY <1>1, Bounds
    <3>3. \A m \in (sync.start + 1)..posted : m \in Id
      BY <3>2, <1>1, SyncAssumption DEF TypeOK, Id
    <3>4. DOMAIN sync.rest = {} /\ Cardinality({}) = 0 /\ PageSize # 0
      BY <1>3, MessagesFacts, FS_EmptySet, SyncAssumption
    <3>5. \A m \in (sync.after + 1)..posted : Covered(m)
      BY <3>4, <2>1 DEF SInv, PageInHand
    <3>6. \A m \in (sync.start + 1)..sync.after : Covered(m)
      BY <2>1 DEF SInv, NoHole
    <3>7. ASSUME NEW m \in (sync.start + 1)..posted PROVE Covered(m)
      <4>1. m \in (sync.after + 1)..posted \/ m \in (sync.start + 1)..sync.after
        BY <3>2
      <4> QED BY <4>1, <3>5, <3>6
    <3> QED BY <3>1, <3>3, <3>7, <2>1, <2>2 DEF NoHole
  <2>6. FreshLive' /\ OneAwaited' /\ LastAsked' /\ FlushAsked' /\ Answers' /\ PageInHand'
    BY <2>2, <2>4 DEF FreshLive, Fresh, OneAwaited, LastAsked, FlushAsked, Answers, PageInHand
  <2> QED BY <2>1, <2>3, <2>5, <2>6, SyncMoves
<1> QED BY <1>2, <1>3

(* The reacted message in front is posted, and what follows it.            *)
LEMMA ReceiveReactionsInv ==
    ASSUME SInv, ReceiveReactions
    PROVE  SInv'
<1>1. /\ TypeOK /\ sync.rest \in Messages /\ sync.state = "reactions" /\ sync.rest # None
      /\ alive
  BY DEF SInv, TypeOK, PageInHand, ReceiveReactions
<1>2. DOMAIN sync.rest \subseteq Id /\ DOMAIN sync.rest # {}
  BY <1>1, MessagesFacts
<1>3. PICK r \in DOMAIN sync.rest : r = Min(DOMAIN sync.rest)
  BY <1>2, MinOfIds
<1>4. PICK prior \in Messages : /\ prior = Only(sync.rest, {r}) /\ DOMAIN prior = {r}
                                /\ prior # None
  <2>1. DOMAIN sync.rest \cap {r} = {r}
    OBVIOUS
  <2>2. PICK ids : ids = {r}
    OBVIOUS
  <2>3. /\ Only(sync.rest, ids) \in Messages /\ DOMAIN Only(sync.rest, ids) = {r}
        /\ Only(sync.rest, ids) # None
    BY <2>1, <2>2, <1>1, OnlyFacts
  <2> QED BY <2>2, <2>3
<1>5. PICK msgs \in Messages : /\ msgs = Only(sync.rest, Id \ {r})
                               /\ DOMAIN msgs = DOMAIN sync.rest \ {r}
  <2>1. PICK ids : ids = Id \ {r}
    OBVIOUS
  <2>2. DOMAIN sync.rest \cap ids = DOMAIN sync.rest \ {r}
    BY <2>1, <1>2
  <2>3. /\ Only(sync.rest, ids) \in Messages
        /\ DOMAIN Only(sync.rest, ids) = DOMAIN sync.rest \ {r}
    BY <2>1, <2>2, <1>1, OnlyFacts
  <2> QED BY <2>1, <2>3
<1>6. Process(prior, msgs)
  BY <1>3, <1>4, <1>5 DEF ReceiveReactions
<1> QED BY <1>1, <1>4, <1>5, <1>6, ProcessInv DEF ReceiveReactions

-----------------------------------------------------------------------------
(* The invariant holds at first.                                           *)
LEMMA InitInv ==
    ASSUME Init
    PROVE  SInv
<1>1. /\ <<>> \in Seq(Event) /\ <<>> \in Seq(Transaction) /\ DOMAIN None = {}
      /\ NoSync \in SyncRecord /\ NoSync.rest = None
      /\ NoSync.state = "waiting" /\ NoSync.answer = "none"
  BY EmptySeq, NoSyncFacts, MessagesFacts DEF SyncState
<1>2. store \in [Id -> Table!Cell]
  BY DEF Init, Table!EmptyCell, Table!Cell
<1>3. version \in [Id -> Version] /\ crashes \in 0..MaxCrashes /\ stops \in 0..MaxStops
  BY SyncAssumption DEF Init, Version
<1>4. TypeOK
  BY <1>1, <1>2, <1>3 DEF Init, TypeOK, SyncRecord
<1>5. DOMAIN events = {} /\ DOMAIN pending = {}
  BY EmptySeq DEF Init
<1>6. ~alive /\ sync = NoSync /\ events = <<>> /\ pending = <<>>
  BY DEF Init
<1>7. /\ Dead /\ CreatedLive /\ StartedLive /\ FreshLive /\ OneAwaited /\ LastAsked /\ FlushAsked
      /\ Answers /\ PageInHand /\ NoHole
  BY <1>1, <1>5, <1>6 DEF Dead, CreatedLive, Creates, StartedLive, FreshLive, Fresh, OneAwaited,
     LastAsked, FlushAsked, Answers, PageInHand, NoHole
<1> QED BY <1>4, <1>7 DEF SInv

(* Every step keeps it.                                                    *)
LEMMA NextInv ==
    ASSUME SInv, [Next]_vars
    PROVE  SInv'
<1>1. CASE Post
  BY <1>1, DiscordInv
<1>2. CASE \E m \in Id : Edit(m) \/ Delete(m)
  BY <1>2, DiscordInv
<1>3. CASE Start \/ Crash \/ FatalError
  BY <1>3, LifeInv
<1>4. CASE HandleEvent
  BY <1>4, HandleEventInv
<1>5. CASE StartSync \/ ResumeSync
  BY <1>5, CallSyncInv
<1>6. CASE ReadLast
  BY <1>6, ReadLastInv
<1>7. CASE Answer
  BY <1>7, AnswerInv
<1>8. CASE ReceivePage
  BY <1>8, ReceivePageInv
<1>9. CASE ReceiveReactions
  BY <1>9, ReceiveReactionsInv
<1>10. CASE EndPage
  BY <1>10, EndPageInv
<1>11. CASE StopSync \/ HangSync \/ AbortHungSync
  BY <1>11, StopSyncInv
<1>12. CASE Work
  BY <1>12, WorkInv
<1>13. CASE UNCHANGED vars
  <2>1. UNCHANGED <<posted, version, deleted, events, alive, lastMessageID, pending, store, sync,
                    failure, crashes, stops>>
    BY <1>13 DEF vars
  <2>2. TypeOK' /\ Dead' /\ OneAwaited'
        /\ \A x : (Creates(x)' <=> Creates(x)) /\ (Adds(x)' <=> Adds(x)) /\ (Fresh(x)' <=> Fresh(x))
    BY <2>1 DEF SInv, TypeOK, Dead, OneAwaited, Creates, Adds, Fresh
  <2>3. \A x : (Settled(x)' <=> Settled(x)) /\ (Known(x)' <=> Known(x)) /\ (Covered(x)' <=> Covered(x))
    BY <2>1, <2>2 DEF Settled, Known, Covered
  <2>4. \A x : Live(x)' <=> Live(x)
    BY <2>1, <2>3 DEF Live
  <2>5. CreatedLive' /\ StartedLive' /\ FreshLive'
    BY <2>1, <2>2, <2>3, <2>4 DEF SInv, CreatedLive, StartedLive, FreshLive
  <2>6. LastAsked' /\ FlushAsked'
    BY <2>1, <2>4 DEF SInv, LastAsked, FlushAsked
  <2>7. PageInHand' /\ NoHole' /\ Answers'
    BY <2>1, <2>3, <2>4 DEF SInv, PageInHand, NoHole, Answers
  <2> QED BY <2>2, <2>5, <2>6, <2>7 DEF SInv
<1> QED BY <1>1, <1>2, <1>3, <1>4, <1>5, <1>6, <1>7, <1>8, <1>9, <1>10, <1>11, <1>12, <1>13 DEF Next

(* The inductive invariant of the download of a channel and of its live    *)
(* events: what the gateway brought it brought without a hole, the answer  *)
(* that syncMessages waits for is the one to its own request, and what is  *)
(* missing below the newest message of a page is in hand or on its way.    *)
THEOREM MessageSyncInvariant == Spec => []SInv
<1>1. Init => SInv
  BY InitInv
<1>2. SInv /\ [Next]_vars => SInv'
  BY NextInv
<1> QED BY <1>1, <1>2, PTL DEF Spec

(* The state of the sync and of the tables is typed, whatever arrives.     *)
THEOREM SyncTypeCorrect == Spec => []TypeOK
<1>1. SInv => TypeOK
  BY DEF SInv
<1> QED BY <1>1, MessageSyncInvariant, PTL

(* A sync leaves no hole behind it: while it runs, no message between the  *)
(* one it resumed after and the newest it downloaded is missing, and once  *)
(* it has finished none is missing up to the present.                      *)
THEOREM SyncLeavesNoGap == Spec => []NoGap
<1>1. SInv => NoGap
  <2> SUFFICES ASSUME SInv, alive,
                      sync.state \in {"requesting", "answered", "reactions", "flushed", "finished"},
                      NEW m \in (sync.start + 1)..(IF sync.state = "finished" THEN posted ELSE sync.after)
               PROVE  Covered(m)
    BY DEF NoGap
  <2> QED BY DEF SInv, NoHole
<1> QED BY <1>1, MessageSyncInvariant, PTL

-----------------------------------------------------------------------------
(* The quiet behaviour.  What is there, or coming, stays so.               *)
LEMMA QuietStands ==
    ASSUME SInv, SInv', QInv, NoCreates', StoredInOrder', PostedInOrder',
           \A x \in Id : (There(x) => There(x)') /\ (Coming(x) => Coming(x)'),
           UNCHANGED <<sync.state, sync.after, sync.rest>>,
           sync'.start = sync.start \/ \A x \in 1..sync'.start : There(x)
    PROVE  QInv'
<1>1. TypeOK /\ TypeOK' /\ Id \subseteq Nat
  BY SyncAssumption DEF SInv, Id
<1>2. \A a \in {0} \cup Id : \A x \in 1..a : x \in Id
  BY SyncAssumption DEF Id
<1>3. sync.after \in {0} \cup Id /\ sync.start \in {0} \cup Id /\ sync'.start \in {0} \cup Id
  BY <1>1 DEF TypeOK
<1>4. \A m \in DOMAIN sync.rest : m \in Id /\ \A x \in 1..(m - 1) : x \in Id
  <2>1. \A m \in DOMAIN sync.rest : m \in Id
    BY <1>1, MessagesFacts DEF TypeOK
  <2>2. \A m \in Id : \A x \in 1..(m - 1) : x \in Id
    BY SyncAssumption DEF Id
  <2> QED BY <2>1, <2>2
<1>5. PagesInOrder'
  BY <1>2, <1>3, <1>4 DEF QInv, PagesInOrder
<1>6. StartThere'
  BY <1>2, <1>3 DEF QInv, StartThere
<1> QED BY <1>5, <1>6 DEF QInv

(* With nothing on its way, only what is stored counts.                    *)
LEMMA QuietIdle ==
    ASSUME events' = <<>>, pending' = <<>>, sync' = NoSync, StoredInOrder'
    PROVE  QInv'
<1>1. DOMAIN events' = {} /\ DOMAIN pending' = {}
  BY EmptySeq
<1>2. sync'.state = "waiting"
  BY NoSyncFacts DEF SyncState
<1> QED BY <1>1, <1>2 DEF QInv, NoCreates, Creates, PostedInOrder, PagesInOrder, StartThere

(* The transaction at the head of the queue keeps the tables in order.     *)
LEMMA HeadInOrder ==
    ASSUME TypeOK, QInv, pending # <<>>, store' \in {store, After(Head(pending))},
           deleted' = deleted
    PROVE  /\ StoredInOrder'
           /\ \A x \in Id : There(x) => There(x)'
<1>1. PICK tx \in Transaction : tx = Head(pending) /\ tx = pending[1]
  <2>1. pending \in Seq(Transaction)
    BY Bounds
  <2> QED BY <2>1, QueueTaken
<1>2. 1 \in DOMAIN pending
  <2>1. pending \in Seq(Transaction)
    BY Bounds
  <2>2. DOMAIN pending = 1..Len(pending) /\ Len(pending) \in Nat \ {0}
    BY <2>1, QueueTaken
  <2> QED BY <2>2
<1>3. \A m \in Id : /\ Table!Stored(store[m]) => Table!Stored(store'[m])
                    /\ Table!Stored(store'[m]) =>
                         Table!Stored(store[m]) \/ (tx.op = "add" /\ m \in DOMAIN tx.msgs)
  BY <1>1, AfterFacts
<1>4. \A m \in Id : There(m) => There(m)'
  BY <1>3 DEF There
<1>5. \A m \in Id : \A x \in 1..(m - 1) : x \in Id
  BY SyncAssumption DEF Id
<1>6. StoredInOrder'
  <2> SUFFICES ASSUME NEW m \in Id, Table!Stored(store'[m]), NEW x \in 1..(m - 1)
               PROVE  There(x)'
    BY DEF StoredInOrder
  <2>1. CASE Table!Stored(store[m])
    BY <2>1, <1>4, <1>5 DEF QInv, StoredInOrder
  <2>2. CASE ~Table!Stored(store[m])
    <3>1. tx.op = "add" /\ m \in DOMAIN tx.msgs /\ store' = After(tx)
      BY <2>2, <1>1, <1>3
    <3>2. There(x) \/ \E j \in 1..1 : pending[j].op = "add" /\ x \in DOMAIN pending[j].msgs
      BY <3>1, <1>1, <1>2 DEF QInv, PostedInOrder
    <3>3. There(x) \/ (tx.op = "add" /\ x \in DOMAIN tx.msgs)
      BY <3>2, <1>1
    <3>4. Table!Stored(After(tx)[x]) <=>
              Table!Stored(store[x]) \/ (tx.op = "add" /\ x \in DOMAIN tx.msgs)
      BY <1>5, AfterFacts
    <3> QED BY <3>1, <3>3, <3>4, <1>4, <1>5 DEF There
  <2> QED BY <2>1, <2>2
<1> QED BY <1>4, <1>6

(* A step that leaves the queue and the tables alone, or only appends to   *)
(* the queue something that adds nothing.                                  *)
LEMMA QueueStands ==
    ASSUME TypeOK, QInv, store' = store, deleted \subseteq deleted',
           \/ pending' = pending
           \/ \E tx \in Transaction : pending' = Append(pending, tx) /\ tx.op # "add"
    PROVE  /\ StoredInOrder' /\ PostedInOrder'
           /\ \A x : (There(x) => There(x)') /\ (Coming(x) => Coming(x)')
<1>1. \A x : There(x) => There(x)'
  BY DEF There
<1>2. StoredInOrder'
  BY <1>1 DEF QInv, StoredInOrder
<1>3. CASE pending' = pending
  BY <1>1, <1>2, <1>3 DEF QInv, PostedInOrder, Coming, Adds
<1>4. ASSUME NEW tx \in Transaction, pending' = Append(pending, tx), tx.op # "add"
      PROVE  PostedInOrder' /\ \A x : Adds(x) => Adds(x)'
  <2>1. PICK n \in Nat : /\ DOMAIN pending = 1..n /\ DOMAIN pending' = 1..(n + 1)
                         /\ \A k \in 1..n : pending'[k] = pending[k]
                         /\ pending'[n + 1] = tx
                         /\ \A x : AddedBy(pending, x) => AddedBy(pending', x)
    <3>1. pending \in Seq(Transaction)
      BY Bounds
    <3> QED BY <3>1, <1>4, QueueAppended
  <2>2. PostedInOrder'
    <3> SUFFICES ASSUME NEW k \in 1..(n + 1), NEW m \in DOMAIN pending'[k].msgs, NEW x \in 1..(m - 1),
                        pending'[k].op = "add"
                 PROVE  There(x)' \/ \E j \in 1..k : pending'[j].op = "add" /\ x \in DOMAIN pending'[j].msgs
      BY <2>1 DEF PostedInOrder
    <3>1. k \in 1..n
      BY <2>1, <1>4
    <3>2. There(x) \/ \E j \in 1..k : pending[j].op = "add" /\ x \in DOMAIN pending[j].msgs
      BY <2>1, <3>1 DEF QInv, PostedInOrder
    <3>3. \A j \in 1..k : j \in 1..n
      BY <3>1
    <3> QED BY <3>2, <3>3, <2>1, <1>1
  <2> QED BY <2>1, <2>2 DEF AddedBy, Adds
<1> QED BY <1>1, <1>2, <1>3, <1>4 DEF Coming

(* Discord and the gateway's listener.                                     *)
LEMMA QuietDiscord ==
    ASSUME SInv, SInv', QInv, alive => posted' = posted,
           Post \/ HandleEvent \/ \E m \in Id : Edit(m) \/ Delete(m)
    PROVE  QInv'
<1>1. TypeOK
  BY DEF SInv
<1>2. store' = store /\ deleted \subseteq deleted' /\ sync' = sync
  BY DEF Post, HandleEvent, Edit, Delete, discord, UnchangedArchiver
<1>3. CASE ~alive
  <2>1. /\ events' = events /\ pending' = pending
        /\ events = <<>> /\ pending = <<>> /\ sync = NoSync
    BY <1>3 DEF SInv, Dead, Post, HandleEvent, Edit, Delete, Emit, UnchangedArchiver
  <2> QED BY <2>1, <1>1, <1>2, QueueStands, QuietIdle
<1>4. ASSUME alive, NEW m \in Id, Edit(m) \/ Delete(m) PROVE QInv'
  <2>1. PICK type \in {"edit", "delete"}, v \in Version :
            events' = Append(events, [type |-> type, id |-> m, version |-> v])
    <3>1. version[m] \in Version /\ (Edit(m) => version[m] + 1 \in Version)
      BY <1>1, SyncAssumption DEF TypeOK, Edit, Version
    <3> QED BY <3>1, <1>4 DEF Edit, Delete, Emit
  <2>2. PICK e \in Event : e = [type |-> type, id |-> m, version |-> v]
    BY DEF Event
  <2>3. events' = Append(events, e) /\ e.type # "create"
    BY <2>1, <2>2
  <2>4. NoCreates'
    BY <2>3, <1>1, EventQueued DEF QInv, NoCreates
  <2>5. pending' = pending
    BY <1>4 DEF Edit, Delete, UnchangedArchiver
  <2>6. /\ StoredInOrder' /\ PostedInOrder'
        /\ \A x : (There(x) => There(x)') /\ (Coming(x) => Coming(x)')
    BY <2>5, <1>1, <1>2, QueueStands
  <2> QED BY <2>4, <2>6, <1>2, QuietStands
<1>5. ASSUME alive, HandleEvent PROVE QInv'
  <2>1. PICK e \in Event : e = Head(events)
    BY <1>1, <1>5, EventTaken DEF HandleEvent
  <2>2. \A m : Creates(m) <=> Creates(m)' \/ (e.type = "create" /\ e.id = m)
    BY <2>1, <1>1, <1>5, EventTaken DEF HandleEvent
  <2>3. NoCreates' /\ e.type # "create"
    BY <2>2 DEF QInv, NoCreates, Event
  <2>4. PICK msgs \in Messages : msgs = One(e.id, e.version)
    BY OneFacts DEF Event
  <2>5. pending' = Append(pending, Tx(e.type, msgs, FALSE)) /\ e.type \in {"edit", "delete"}
    BY <2>1, <2>3, <2>4, <1>5 DEF HandleEvent, Event
  <2>6. Tx(e.type, msgs, FALSE) \in Transaction /\ Tx(e.type, msgs, FALSE).op = e.type
    BY <2>5 DEF Tx, Transaction
  <2>7. \E tx \in Transaction : pending' = Append(pending, tx) /\ tx.op # "add"
    BY <2>5, <2>6
  <2>8. /\ StoredInOrder' /\ PostedInOrder'
        /\ \A x : (There(x) => There(x)') /\ (Coming(x) => Coming(x)')
    BY <2>7, <1>1, <1>2, QueueStands
  <2> QED BY <2>3, <2>8, <1>2, QuietStands
<1>6. CASE alive /\ Post
  <2>1. posted' = posted + 1 /\ posted \in Nat
    BY <1>1, <1>6, Bounds DEF Post
  <2> QED BY <2>1, <1>6
<1> QED BY <1>3, <1>4, <1>5, <1>6

(* The process starts or dies.                                             *)
LEMMA QuietLife ==
    ASSUME SInv, QInv, Start \/ Crash \/ FatalError
    PROVE  QInv'
<1>1. TypeOK
  BY DEF SInv
<1>2. events' = <<>> /\ pending' = <<>> /\ sync' = NoSync /\ deleted' = deleted
  BY DEF SInv, Dead, Start, Crash, FatalError, Dies, discord
<1>3. CASE Start \/ Crash
  <2>1. store' = store
    BY <1>3 DEF Start, Crash
  <2> QED BY <2>1, <1>2, QuietIdle DEF QInv, StoredInOrder, There
<1>4. CASE FatalError
  BY <1>1, <1>2, <1>4, HeadInOrder, QuietIdle DEF FatalError
<1> QED BY <1>3, <1>4

(* The worker.                                                             *)
LEMMA QuietWork ==
    ASSUME SInv, SInv', QInv, Work
    PROVE  QInv'
<1>1. TypeOK /\ pending \in Seq(Transaction) /\ sync \in SyncRecord
  BY Bounds DEF SInv, TypeOK, SyncRecord
<1>2. /\ pending # <<>> /\ pending' = Tail(pending) /\ store' = After(Head(pending))
      /\ UNCHANGED <<deleted, events>>
  BY DEF Work, discord
<1>3. PICK tx \in Transaction : tx = Head(pending)
  BY <1>1, <1>2, QueueTaken
<1>4. PICK n \in Nat \ {0} : n = Len(pending)
  BY <1>1, <1>2, QueueTaken
<1>5. /\ DOMAIN pending = 1..n /\ DOMAIN pending' = 1..(n - 1) /\ tx = pending[1]
      /\ \A k \in 1..(n - 1) : pending'[k] = pending[k + 1]
      /\ \A m : Adds(m) <=> Adds(m)' \/ (tx.op = "add" /\ m \in DOMAIN tx.msgs)
  BY <1>1, <1>2, <1>3, <1>4, QueueTaken DEF Adds, AddedBy
<1>6. StoredInOrder' /\ \A x \in Id : There(x) => There(x)'
  BY <1>1, <1>2, HeadInOrder
<1>7. \A x \in Id : tx.op = "add" /\ x \in DOMAIN tx.msgs => There(x)'
  <2>1. store' = After(tx)
    BY <1>2, <1>3
  <2> QED BY <2>1, <1>1, AfterFacts DEF There
<1>8. \A x \in Id : Coming(x) => Coming(x)'
  BY <1>5, <1>6, <1>7 DEF Coming
<1>9. PostedInOrder'
  <2> SUFFICES ASSUME NEW k \in 1..(n - 1), NEW m \in DOMAIN pending'[k].msgs, NEW x \in 1..(m - 1),
                      pending'[k].op = "add"
               PROVE  There(x)' \/ \E j \in 1..k : pending'[j].op = "add" /\ x \in DOMAIN pending'[j].msgs
    BY <1>5 DEF PostedInOrder
  <2>1. k + 1 \in 1..n /\ pending'[k] = pending[k + 1]
    BY <1>5
  <2>2. x \in Id
    <3>1. m \in Id
      BY <2>1, <1>1, <1>5, Bounds
    <3> QED BY <3>1, SyncAssumption DEF Id
  <2>3. There(x) \/ \E j \in 1..(k + 1) : pending[j].op = "add" /\ x \in DOMAIN pending[j].msgs
    BY <2>1, <1>5 DEF QInv, PostedInOrder
  <2>4. CASE There(x)
    BY <2>2, <2>4, <1>6
  <2>5. ASSUME NEW j \in 1..(k + 1), pending[j].op = "add", x \in DOMAIN pending[j].msgs
        PROVE  There(x)' \/ \E i \in 1..k : pending'[i].op = "add" /\ x \in DOMAIN pending'[i].msgs
    <3>1. CASE j = 1
      BY <3>1, <2>2, <2>5, <1>5, <1>7
    <3>2. CASE j # 1
      <4>1. j - 1 \in 1..k /\ j - 1 \in 1..(n - 1) /\ (j - 1) + 1 = j
        BY <3>2
      <4>2. pending'[j - 1] = pending[j]
        BY <4>1, <1>5
      <4> QED BY <4>1, <4>2, <2>5
    <3> QED BY <3>1, <3>2
  <2> QED BY <2>3, <2>4, <2>5
<1>10. NoCreates'
  BY <1>2 DEF QInv, NoCreates, Creates
<1>11. /\ UNCHANGED <<sync.state, sync.after, sync.rest>>
       /\ sync'.start = sync.start \/ \A x \in 1..sync'.start : There(x)
  <2>1. PICK last \in {0} \cup Id :
            /\ last = LastID(store)
            /\ last # 0 => Table!Stored(store[last])
    BY <1>1, LastIDFacts
  <2>2. \A x \in 1..last : There(x)
    <3> SUFFICES ASSUME NEW x \in 1..last PROVE There(x)
      OBVIOUS
    <3>1. last \in Id /\ last \in Nat /\ last # 0
      BY <2>1, SyncAssumption DEF Id
    <3>2. x = last \/ x \in 1..(last - 1)
      BY <3>1
    <3> QED BY <3>1, <3>2, <2>1 DEF QInv, StoredInOrder, There
  <2>3. CASE ~tx.awaited
    BY <2>3, <1>3 DEF Work
  <2>4. CASE tx.awaited /\ tx.op = "last"
    <3>1. sync' = [sync EXCEPT !.answer = "read", !.start = last]
      BY <2>1, <2>4, <1>3 DEF Work, Answered
    <3>2. /\ sync'.start = last
          /\ sync'.state = sync.state /\ sync'.after = sync.after /\ sync'.rest = sync.rest
      BY <3>1, <1>1 DEF SyncRecord
    <3> QED BY <3>2, <2>2
  <2>5. CASE tx.awaited /\ tx.op # "last"
    <3>1. PICK answer \in {"known", "new"} :
              answer = IF Table!Stored(store[Max(DOMAIN tx.msgs)]) THEN "known" ELSE "new"
      OBVIOUS
    <3>2. sync' = [sync EXCEPT !.answer = answer]
      BY <3>1, <2>5, <1>3 DEF Work, Answered
    <3>3. /\ sync'.start = sync.start
          /\ sync'.state = sync.state /\ sync'.after = sync.after /\ sync'.rest = sync.rest
      BY <3>2, <1>1 DEF SyncRecord
    <3> QED BY <3>3
  <2> QED BY <2>3, <2>4, <2>5
<1> QED BY <1>6, <1>8, <1>9, <1>10, <1>11, QuietStands

(* Sync steps that leave the queue, the tables and the events alone.       *)
LEMMA QuietSync ==
    ASSUME SInv, SInv', QInv, alive, UNCHANGED <<discord, events, store>>,
           \/ ReadLast \/ Answer \/ EndPage \/ StartSync \/ ResumeSync
           \/ StopSync \/ HangSync \/ AbortHungSync
    PROVE  QInv'
<1>1. TypeOK /\ sync \in SyncRecord
  BY DEF SInv, TypeOK, SyncRecord
<1>2. /\ pending' = pending \/ \E tx \in Transaction : pending' = Append(pending, tx) /\ tx.op # "add"
      /\ UNCHANGED <<posted, deleted, events, store>>
  <2>1. Tx("last", None, TRUE) \in Transaction /\ Tx("last", None, TRUE).op = "last"
    BY DEF Tx, Transaction
  <2> QED BY <2>1 DEF ReadLast, Answer, EndPage, StopSync, HangSync, AbortHungSync, StartSync,
                      ResumeSync, CallSync, discord
<1>3. /\ StoredInOrder' /\ PostedInOrder' /\ NoCreates'
      /\ \A x : (There(x) => There(x)') /\ (Coming(x) => Coming(x)')
  <2>1. NoCreates'
    BY <1>2 DEF QInv, NoCreates, Creates
  <2> QED BY <2>1, <1>1, <1>2, QueueStands
<1>4. sync.rest = None \/ StopSync \/ HangSync \/ AbortHungSync
  BY DEF SInv, PageInHand, ReadLast, Answer, EndPage, StartSync, ResumeSync
<1>5. CASE StartSync \/ ResumeSync
  <2>1. sync' = [NoSync EXCEPT !.state = "reading"]
    BY <1>5 DEF StartSync, ResumeSync, CallSync
  <2>2. sync'.state = "reading" /\ sync'.start = 0
    BY <2>1, NoSyncFacts DEF SyncState
  <2> QED BY <2>2, <1>3 DEF QInv, PagesInOrder, StartThere
<1>6. CASE StopSync \/ HangSync \/ AbortHungSync
  <2>1. \E state \in {"stopped", "hung"} : sync' = [NoSync EXCEPT !.state = state]
    BY <1>6 DEF StopSync, HangSync, AbortHungSync
  <2>2. sync'.state \in {"stopped", "hung"}
    BY <2>1, NoSyncFacts DEF SyncState
  <2> QED BY <2>2, <1>3 DEF QInv, PagesInOrder, StartThere
<1>7. CASE ReadLast
  <2>1. PICK state \in {"requesting", "finished"} :
            sync' = [sync EXCEPT !.state = state, !.after = sync.start, !.answer = "none"]
    BY <1>7 DEF ReadLast
  <2>2. sync'.state = state /\ sync'.start = sync.start /\ sync'.after = sync.start
    BY <1>1, <2>1 DEF SyncRecord
  <2>3. sync.state = "reading"
    BY <1>7 DEF ReadLast
  <2>4. \A x \in 1..sync.start : There(x)' /\ Coming(x)'
    BY <2>3, <1>3 DEF QInv, StartThere, Coming
  <2> QED BY <2>1, <2>2, <2>4, <1>3 DEF QInv, PagesInOrder, StartThere
<1>8. CASE Answer
  <2>1. PICK page \in Messages :
            /\ page = PageAfter(sync.after) /\ DOMAIN page \subseteq Id
            /\ \A x \in DOMAIN page : \A m \in (sync.after + 1)..x : m \in deleted \/ m \in DOMAIN page
    BY <1>1, PageFacts, MessagesFacts DEF SyncRecord
  <2>2. sync' = [sync EXCEPT !.state = "answered", !.rest = page]
    BY <2>1, <1>8 DEF Answer
  <2>3. /\ sync'.state = "answered" /\ sync'.rest = page
        /\ sync'.start = sync.start /\ sync'.after = sync.after
    BY <1>1, <2>2 DEF SyncRecord
  <2>4. sync.state = "requesting"
    BY <1>8 DEF Answer
  <2>5. \A x \in 1..sync.after : Coming(x)
    BY <2>4 DEF QInv, PagesInOrder
  <2>6. ASSUME NEW m \in DOMAIN page, NEW x \in 1..(m - 1)
        PROVE  Coming(x)' \/ x \in DOMAIN page
    <3>1. sync.after \in Nat /\ m \in Nat
      BY <1>1, <2>1, Bounds
    <3>2. CASE x <= sync.after
      <4>1. x \in 1..sync.after
        BY <3>1, <3>2
      <4> QED BY <4>1, <2>5, <1>3
    <3>3. CASE ~(x <= sync.after)
      <4>1. x \in (sync.after + 1)..m
        BY <3>1, <3>3
      <4>2. x \in deleted \/ x \in DOMAIN page
        BY <4>1, <2>1
      <4>3. x \in deleted => Coming(x)
        BY DEF Coming, There
      <4> QED BY <4>2, <4>3, <1>3
    <3> QED BY <3>2, <3>3
  <2>7. \A x \in 1..sync.start : There(x)'
    BY <2>4, <1>3 DEF QInv, StartThere
  <2>8. \A x \in 1..sync.after : Coming(x)'
    BY <2>5, <1>3
  <2> QED BY <2>3, <2>6, <2>7, <2>8, <1>3 DEF QInv, PagesInOrder, StartThere
<1>9. CASE EndPage
  <2>1. PICK state \in {"requesting", "finished"} :
            sync' = [sync EXCEPT !.state = state, !.answer = "none"]
    BY <1>9 DEF EndPage
  <2>2. sync'.state = state /\ sync'.start = sync.start /\ sync'.after = sync.after
    BY <1>1, <2>1 DEF SyncRecord
  <2>3. sync.state = "flushed" /\ sync.rest = None /\ DOMAIN None = {}
    BY <1>4, <1>9, MessagesFacts DEF EndPage, SInv, PageInHand
  <2>4. \A x \in 1..sync.after : Coming(x)'
    BY <2>3, <1>3 DEF QInv, PagesInOrder
  <2>5. \A x \in 1..sync.start : There(x)'
    BY <2>3, <1>3 DEF QInv, StartThere
  <2> QED BY <2>1, <2>2, <2>4, <2>5, <1>3 DEF QInv, PagesInOrder, StartThere
<1> QED BY <1>5, <1>6, <1>7, <1>8, <1>9

(* A part of a page is posted: prior comes first in it.                    *)
LEMMA QuietProcess ==
    ASSUME SInv, SInv', QInv, sync.state \in {"answered", "reactions"},
           NEW prior \in Messages, NEW msgs \in Messages, Process(prior, msgs),
           DOMAIN prior \cup DOMAIN msgs = DOMAIN sync.rest,
           DOMAIN prior \cap DOMAIN msgs = {},
           \A p \in DOMAIN prior : \A x \in DOMAIN msgs : p < x,
           prior # None \/ msgs # None,
           UNCHANGED <<discord, events, store>>
    PROVE  QInv'
<1> DEFINE n == Len(pending)
<1>1. TypeOK /\ UNCHANGED <<deleted, events, store>>
  BY DEF SInv, discord
<1>2. PICK front \in SUBSET DOMAIN msgs : front = Unreacted(msgs)
  BY DEF Unreacted
<1>3. PICK end \in BOOLEAN : end = (Only(msgs, Id \ front) = None)
  OBVIOUS
<1>4. /\ ProcessedSync(msgs, front, end)
      /\ \A x \in front : \A y \in DOMAIN msgs : y < x => y \in front
  BY <1>1, <1>2, <1>3, ProcessSync
<1>5. ProcessedQueue(prior, front, end)
  BY <1>1, <1>2, <1>3, ProcessQueue
<1>6. /\ sync'.state \in {"flushed", "reactions"} /\ sync'.start = sync.start
      /\ DOMAIN sync'.rest = DOMAIN msgs \ front
      /\ sync'.after \in {sync.after} \cup DOMAIN msgs
  BY <1>3, <1>4 DEF ProcessedSync
<1>7. \A m : Adds(m)' <=> Adds(m) \/ m \in DOMAIN prior \/ m \in front
  BY <1>5 DEF ProcessedQueue, Adds, AddedBy
<1>8. \A x : (There(x) => There(x)') /\ (Coming(x) => Coming(x)')
  BY <1>1, <1>7 DEF There, Coming
<1>9. \A x \in DOMAIN sync.rest : Coming(x)' \/ x \in DOMAIN sync'.rest
  BY <1>6, <1>7 DEF Coming
<1>10. \A m \in DOMAIN sync.rest : \A x \in 1..(m - 1) : Coming(x) \/ x \in DOMAIN sync.rest
  BY DEF QInv, PagesInOrder
<1>11. DOMAIN sync.rest \subseteq Id /\ Id \subseteq Nat \ {0}
  BY <1>1, Bounds, MessagesFacts DEF TypeOK
<1>12. \A m \in DOMAIN sync'.rest : \A x \in 1..(m - 1) : Coming(x)' \/ x \in DOMAIN sync'.rest
  BY <1>6, <1>8, <1>9, <1>10
<1>13. ASSUME NEW x \in 1..sync'.after PROVE Coming(x)' \/ x \in DOMAIN sync'.rest
  <2>1. CASE sync'.after \in DOMAIN msgs
    <3>1. PICK a \in Nat : a = sync'.after
      BY <2>1, <1>11
    <3>2. x = a \/ x \in 1..(a - 1)
      BY <3>1
    <3> QED BY <3>1, <3>2, <2>1, <1>8, <1>9, <1>10
  <2>2. CASE sync'.after = sync.after
    <3>1. Coming(x) \/ x \in DOMAIN sync.rest
      BY <2>2 DEF QInv, PagesInOrder
    <3> QED BY <3>1, <1>8, <1>9
  <2> QED BY <2>1, <2>2, <1>6
<1>14. PagesInOrder'
  BY <1>6, <1>12, <1>13 DEF PagesInOrder
<1>15. StartThere'
  BY <1>6, <1>8 DEF QInv, StartThere
<1>16. StoredInOrder' /\ NoCreates'
  BY <1>1 DEF QInv, StoredInOrder, There, NoCreates, Creates
<1>17. DOMAIN pending = 1..n /\ n \in Nat
  BY <1>1, Bounds
<1>18. PostedInOrder'
  <2> SUFFICES ASSUME NEW k \in DOMAIN pending', NEW m \in DOMAIN pending'[k].msgs, NEW x \in 1..(m - 1),
                      pending'[k].op = "add"
               PROVE  There(x)' \/ \E j \in 1..k : pending'[j].op = "add" /\ x \in DOMAIN pending'[j].msgs
    BY DEF PostedInOrder
  <2>1. \A j \in 1..n : pending'[j] = pending[j]
    BY <1>5, <1>17 DEF ProcessedQueue
  <2>2. CASE k \in 1..n
    <3>1. There(x) \/ \E j \in 1..k : pending[j].op = "add" /\ x \in DOMAIN pending[j].msgs
      BY <2>1, <2>2, <1>17 DEF QInv, PostedInOrder
    <3>2. \A j \in 1..k : j \in 1..n
      BY <2>2
    <3> QED BY <3>1, <3>2, <2>1, <1>8
  <2>3. CASE k \notin 1..n
    <3>1. PostedTx(pending'[k], k, prior, front, end)
      BY <2>3, <1>5, <1>17 DEF ProcessedQueue
    <3>2. k >= n + 1 /\ (DOMAIN pending'[k].msgs = DOMAIN prior \/ DOMAIN pending'[k].msgs = front)
      BY <3>1 DEF PostedTx
    <3>3. m \in DOMAIN sync.rest /\ m \in Nat
      BY <3>2, <1>11
    <3>4. Coming(x) \/ x \in DOMAIN sync.rest
      BY <3>3, <1>10
    <3>5. k \in Nat /\ k \in 1..k /\ n + 1 \in 1..k
      <4>1. DOMAIN pending' = 1..Len(pending') /\ Len(pending') \in Nat
        <5>1. pending' \in Seq(Transaction)
          BY DEF SInv, TypeOK
        <5> QED BY <5>1, LenProperties
      <4> QED BY <4>1, <3>2, <1>17
    <3>6. CASE There(x)
      BY <3>6, <1>8
    <3>7. CASE Adds(x)
      <4>1. PICK j \in 1..n : pending[j].op = "add" /\ x \in DOMAIN pending[j].msgs
        BY <3>7, <1>17 DEF Adds
      <4>2. j \in 1..k
        BY <3>2, <3>5, <1>17
      <4> QED BY <4>1, <4>2, <2>1
    <3>8. CASE x \in DOMAIN sync.rest
      <4>1. x < m
        BY <3>3
      <4>2. CASE m \in DOMAIN prior /\ DOMAIN pending'[k].msgs = DOMAIN prior
        <5>1. x \notin DOMAIN msgs
          BY <4>1, <4>2, <3>3
        <5> QED BY <5>1, <4>2, <3>5, <3>8
      <4>3. CASE m \in front /\ DOMAIN pending'[k].msgs = front
        <5>1. CASE x \in DOMAIN msgs
          BY <5>1, <4>1, <4>3, <3>5, <1>4
        <5>2. CASE x \in DOMAIN prior
          <6>1. prior # None
            BY <5>2, MessagesFacts
          <6>2. /\ n + 1 \in DOMAIN pending' \ DOMAIN pending
                /\ DOMAIN pending'[n + 1].msgs = DOMAIN prior
            BY <6>1, <1>5 DEF ProcessedQueue
          <6>3. pending'[n + 1].op = "add"
            BY <6>2, <1>5 DEF ProcessedQueue, PostedTx
          <6> QED BY <6>2, <6>3, <5>2, <3>5
        <5> QED BY <5>1, <5>2, <3>8
      <4> QED BY <4>2, <4>3, <3>2
    <3> QED BY <3>4, <3>6, <3>7, <3>8 DEF Coming
  <2> QED BY <2>2, <2>3
<1> QED BY <1>14, <1>15, <1>16, <1>18 DEF QInv

(* The steps that go through a page.                                       *)
LEMMA QuietPages ==
    ASSUME SInv, SInv', QInv, ReceivePage \/ ReceiveReactions
    PROVE  QInv'
<1>1. TypeOK /\ sync \in SyncRecord /\ sync.rest \in Messages
      /\ None \in Messages /\ DOMAIN None = {}
  BY MessagesFacts DEF SInv, TypeOK, SyncRecord
<1>2. UNCHANGED <<discord, events, store>> /\ sync.state \in {"answered", "reactions"}
  BY DEF ReceivePage, ReceiveReactions
<1>3. CASE ReceivePage /\ sync.rest # None
  <2>1. Process(None, sync.rest)
    BY <1>3 DEF ReceivePage
  <2> QED BY <2>1, <1>1, <1>2, <1>3, QuietProcess
<1>4. CASE ReceivePage /\ sync.rest = None
  <2>1. sync' = [sync EXCEPT !.state = "finished"] /\ pending' = pending
        /\ sync.state = "answered"
    BY <1>4 DEF ReceivePage
  <2>2. sync'.state = "finished" /\ sync'.start = sync.start
    BY <2>1, <1>1 DEF SyncRecord
  <2>3. UNCHANGED <<deleted, events, store>>
    BY <1>2 DEF discord
  <2>4. /\ StoredInOrder' /\ PostedInOrder'
        /\ \A x : There(x) => There(x)'
    BY <2>1, <2>3, <1>1, QueueStands
  <2>5. NoCreates'
    BY <2>3 DEF QInv, NoCreates, Creates
  <2> QED BY <2>1, <2>2, <2>4, <2>5 DEF QInv, PagesInOrder, StartThere
<1>5. CASE ReceiveReactions
  <2>1. DOMAIN sync.rest \subseteq Id /\ DOMAIN sync.rest # {} /\ Id \subseteq Nat
    BY <1>1, <1>5, MessagesFacts, Bounds DEF ReceiveReactions, SInv, PageInHand
  <2>2. PICK r \in DOMAIN sync.rest : /\ r = Min(DOMAIN sync.rest)
                                      /\ \A x \in DOMAIN sync.rest : r <= x
    BY <2>1, MinOfIds
  <2>3. PICK prior \in Messages : /\ prior = Only(sync.rest, {r}) /\ DOMAIN prior = {r}
                                  /\ prior # None
    <3>1. PICK ids : ids = {r}
      OBVIOUS
    <3>2. DOMAIN sync.rest \cap ids = {r}
      BY <3>1
    <3>3. /\ Only(sync.rest, ids) \in Messages /\ DOMAIN Only(sync.rest, ids) = {r}
          /\ Only(sync.rest, ids) # None
      BY <3>2, <1>1, OnlyFacts
    <3> QED BY <3>1, <3>3
  <2>4. PICK msgs \in Messages : /\ msgs = Only(sync.rest, Id \ {r})
                                 /\ DOMAIN msgs = DOMAIN sync.rest \ {r}
    <3>1. PICK ids : ids = Id \ {r}
      OBVIOUS
    <3>2. DOMAIN sync.rest \cap ids = DOMAIN sync.rest \ {r}
      BY <3>1, <2>1
    <3>3. /\ Only(sync.rest, ids) \in Messages
          /\ DOMAIN Only(sync.rest, ids) = DOMAIN sync.rest \ {r}
      BY <3>2, <1>1, OnlyFacts
    <3> QED BY <3>1, <3>3
  <2>5. Process(prior, msgs)
    BY <2>2, <2>3, <2>4, <1>5 DEF ReceiveReactions
  <2>6. \A p \in DOMAIN prior : \A x \in DOMAIN msgs : p < x
    <3> SUFFICES ASSUME NEW x \in DOMAIN msgs PROVE r < x
      BY <2>3
    <3>1. x \in DOMAIN sync.rest /\ x # r
      BY <2>4
    <3>2. r <= x /\ r \in Nat /\ x \in Nat
      BY <3>1, <2>1, <2>2
    <3> QED BY <3>1, <3>2
  <2>7. /\ DOMAIN prior \cup DOMAIN msgs = DOMAIN sync.rest
        /\ DOMAIN prior \cap DOMAIN msgs = {}
    BY <2>3, <2>4
  <2> QED BY <2>3, <2>5, <2>6, <2>7, <1>2, QuietProcess
<1> QED BY <1>3, <1>4, <1>5

(* Both invariants hold at first and are kept by every quiet step.         *)
LEMMA QuietInit ==
    ASSUME Init
    PROVE  QInv
<1>1. DOMAIN events = {} /\ DOMAIN pending = {} /\ sync.state = "waiting"
  BY EmptySeq, NoSyncFacts DEF Init, SyncState
<1>2. \A m \in Id : ~Table!Stored(store[m])
  BY DEF Init, Table!EmptyCell, Table!Stored
<1> QED BY <1>1, <1>2 DEF QInv, NoCreates, Creates, StoredInOrder, PostedInOrder, PagesInOrder,
           StartThere

(* A quiet step keeps the order.                                           *)
LEMMA QuietNext ==
    ASSUME SInv, SInv', QInv, [Next]_vars, alive => posted' = posted
    PROVE  QInv'
<1>1. CASE Post \/ HandleEvent \/ \E m \in Id : Edit(m) \/ Delete(m)
  BY <1>1, QuietDiscord
<1>2. CASE Start \/ Crash \/ FatalError
  BY <1>2, QuietLife
<1>3. CASE \/ ReadLast \/ Answer \/ EndPage \/ StartSync \/ ResumeSync
           \/ StopSync \/ HangSync \/ AbortHungSync
  <2>1. alive /\ UNCHANGED <<discord, events, store>>
    BY <1>3 DEF ReadLast, Answer, EndPage, StopSync, HangSync, AbortHungSync, StartSync,
                ResumeSync, CallSync
  <2> QED BY <2>1, <1>3, QuietSync
<1>4. CASE ReceivePage \/ ReceiveReactions
  BY <1>4, QuietPages
<1>5. CASE Work
  BY <1>5, QuietWork
<1>6. CASE UNCHANGED vars
  BY <1>6 DEF vars, QInv, NoCreates, StoredInOrder, PostedInOrder, PagesInOrder, StartThere,
     Creates, There, Coming, Adds
<1> QED BY <1>1, <1>2, <1>3, <1>4, <1>5, <1>6 DEF Next

(* As long as nobody posts while the archiver runs, and whatever is edited,*)
(* deleted, aborted or killed meanwhile, the last stored ID hides no       *)
(* missing message, as index.ts says of adding them from oldest to newest. *)
THEOREM QuietOrderSuffices == MCSpec => []QuietLastIDSuffices
<1>1. MCInit => SInv /\ QuietInv
  BY InitInv, QuietInit DEF MCInit, QuietInv
<1>2. SInv /\ QuietInv /\ [MCNext]_<<vars, quiet>> => SInv' /\ QuietInv'
  <2> SUFFICES ASSUME SInv, QuietInv, [MCNext]_<<vars, quiet>> PROVE SInv' /\ QuietInv'
    OBVIOUS
  <2>1. /\ [Next]_vars /\ quiet' = quiet
        /\ quiet /\ alive => posted' = posted
    BY DEF MCNext, vars
  <2>2. SInv'
    BY <2>1, NextInv
  <2>3. QuietInv'
    <3> SUFFICES ASSUME quiet PROVE QInv'
      BY <2>1 DEF QuietInv
    <3> QED BY <2>1, <2>2, QuietNext DEF QuietInv
  <2> QED BY <2>2, <2>3
<1>3. QuietInv => QuietLastIDSuffices
  BY DEF QuietInv, QInv, StartThere, There, QuietLastIDSuffices, LastIDSuffices
<1> QED BY <1>1, <1>2, <1>3, PTL DEF MCSpec
=============================================================================
