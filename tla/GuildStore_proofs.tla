-------------------------- MODULE GuildStore_proofs --------------------------
(* What the operators return and preserve that objects and rows go through *)
(* on their way into the database: for every cell and every snapshot, the  *)
(* statements of SnapshotTable; for every schema, object, partial object   *)
(* and array, the conversions of Encoding, where what comes back from the  *)
(* columns is what was sent, up to the listed differences.  Then, from     *)
(* these: GuildStore keeps every object's history ordered and implements   *)
(* SnapshotHistory, for every set of objects, columns and timings.         *)
EXTENDS GuildStore, Encoding, TLAPS

(* encodeTiming and decodeTiming are inverse on every timing but the one   *)
(* at the UNIX epoch without the realtime flag, which encodes as null's 0. *)
THEOREM TimingRoundTrip ==
    ASSUME NEW timing \in Timing, timing # [timestamp |-> 0, realtime |-> FALSE]
    PROVE  EncodeTiming(timing) \in Nat /\ DecodeTiming(EncodeTiming(timing)) = timing
<1>1. CASE timing = Null
  BY <1>1 DEF EncodeTiming, DecodeTiming
<1>2. CASE timing # Null
  <2>1. timing \in [timestamp: Nat, realtime: BOOLEAN]
    BY <1>2 DEF Timing
  <2>2. PICK t \in Nat, r \in BOOLEAN : timing = [timestamp |-> t, realtime |-> r]
    BY <2>1
  <2>3. CASE r = TRUE
    <3>1. EncodeTiming(timing) = 2 * t + 1
      BY <1>2, <2>2, <2>3 DEF EncodeTiming
    <3>2. (2 * t + 1) \div 2 = t /\ (2 * t + 1) % 2 = 1 /\ 2 * t + 1 # 0
      OBVIOUS
    <3>3. 2 * t + 1 # Null /\ 2 * t + 1 \in Nat
      BY NullAssumption
    <3> QED
      BY <2>2, <2>3, <3>1, <3>2, <3>3 DEF DecodeTiming
  <2>4. CASE r = FALSE
    <3>1. EncodeTiming(timing) = 2 * t
      BY <1>2, <2>2, <2>4 DEF EncodeTiming
    <3>2. t # 0
      BY <2>2, <2>4
    <3>3. (2 * t) \div 2 = t /\ (2 * t) % 2 = 0 /\ 2 * t # 0 /\ 0 # 1
      BY <3>2
    <3>4. 2 * t # Null /\ 2 * t \in Nat
      BY NullAssumption
    <3> QED
      BY <2>2, <2>4, <3>1, <3>3, <3>4 DEF DecodeTiming
  <2> QED
    BY <2>3, <2>4
<1> QED
  BY <1>1, <1>2

(* Of two snapshots, the one taken at a later time, or at the same time but *)
(* from a gateway event, has the greater encoded timing.                    *)
LEMMA TimingOrder ==
    ASSUME NEW a \in Timing, NEW b \in Timing, a # Null, b # Null,
           a.timestamp < b.timestamp
    PROVE  EncodeTiming(a) < EncodeTiming(b)
  BY DEF EncodeTiming, Timing

(* The encoding of a timing is a number of the _timestamp columns. *)
LEMMA EncodeTimingType ==
    ASSUME NEW timing \in Timing
    PROVE  EncodeTiming(timing) \in Nat
  BY DEF EncodeTiming, Timing

(* An empty cell is a cell, in order and without history. *)
LEMMA EmptyCellFacts ==
    /\ EmptyCell \in Cell
    /\ StrictlyOrdered(EmptyCell)
    /\ History(EmptyCell) = {}
    /\ ~Stored(EmptyCell)
  BY NullAssumption DEF EmptyCell, Cell, StrictlyOrdered, Stored, History

(* What addSnapshot answers, case by case. *)
LEMMA AddOutcomeCases ==
    ASSUME NEW cell \in Cell, NEW snap \in Snapshot, StrictlyOrdered(cell)
    PROVE  \/ AddOutcome(cell, snap) = "ADDED_FIRST_SNAPSHOT" /\ ~Stored(cell)
           \/ AddOutcome(cell, snap) = "SAME_AS_LATEST" /\ Stored(cell)
           \/ AddOutcome(cell, snap) = "RangeError" /\ Stored(cell)
           \/ /\ AddOutcome(cell, snap) = "ADDED_ANOTHER_SNAPSHOT"
              /\ Stored(cell)
              /\ cell.latest.props # snap.props
              /\ snap.ts > cell.latest.ts
<1>1. CASE ~Stored(cell)
  BY <1>1 DEF AddOutcome
<1>2. CASE Stored(cell)
  <2>1. cell.latest.ts \in Nat /\ snap.ts \in Nat
    BY <1>2 DEF Cell, Stored, LatestRow, Snapshot
  <2>2. ~PrimaryKeyTaken(cell)
    BY <1>2, <2>1 DEF PrimaryKeyTaken, StrictlyOrdered, Cell, Snapshot
  <2> QED
    BY <1>2, <2>1, <2>2 DEF AddOutcome
<1> QED
  BY <1>1, <1>2

(* addSnapshot leaves a cell whose snapshots are in strictly increasing    *)
(* order, without a second previous row at one time, and the row's mark as *)
(* it was.                                                                 *)
LEMMA AddKeepsOrder ==
    ASSUME NEW cell \in Cell, NEW snap \in Snapshot, StrictlyOrdered(cell)
    PROVE  /\ AddSnapshot(cell, snap) \in Cell
           /\ StrictlyOrdered(AddSnapshot(cell, snap))
           /\ Stored(cell) =>
                /\ Stored(AddSnapshot(cell, snap))
                /\ AddSnapshot(cell, snap).latest.deleted = cell.latest.deleted
           /\ ~Stored(cell) => AddSnapshot(cell, snap).latest.deleted = Null
<1> DEFINE new == AddSnapshot(cell, snap)
<1>1. CASE AddOutcome(cell, snap) = "ADDED_FIRST_SNAPSHOT" /\ ~Stored(cell)
  <2>1. new = [latest |-> [ts |-> snap.ts, deleted |-> Null, props |-> snap.props],
               previous |-> {}]
    BY <1>1 DEF AddSnapshot, StrictlyOrdered, Cell
  <2> HIDE DEF new
  <2>2. new.latest \in LatestRow /\ new.latest.deleted = Null /\ new.previous = {}
    BY <2>1 DEF LatestRow, Deletion, Snapshot
  <2>3. new \in Cell
    BY <2>1, <2>2 DEF Cell
  <2>4. Stored(new)
    BY <2>2, NullAssumption DEF Stored
  <2> QED
    BY <1>1, <2>2, <2>3, <2>4 DEF StrictlyOrdered, new
<1>2. CASE /\ AddOutcome(cell, snap) = "ADDED_ANOTHER_SNAPSHOT"
           /\ Stored(cell)
           /\ snap.ts > cell.latest.ts
  <2>1. new = [latest |-> [cell.latest EXCEPT !.ts = snap.ts, !.props = snap.props],
               previous |-> cell.previous \cup {SnapshotOf(cell.latest)}]
    BY <1>2 DEF AddSnapshot
  <2> HIDE DEF new
  <2>2. cell.latest \in LatestRow /\ cell.previous \subseteq Snapshot
    BY <1>2 DEF Cell, Stored
  <2>3. /\ new.latest \in LatestRow
        /\ new.latest.ts = snap.ts
        /\ new.latest.deleted = cell.latest.deleted
        /\ new.previous = cell.previous \cup {SnapshotOf(cell.latest)}
    BY <2>1, <2>2 DEF LatestRow, Snapshot
  <2>4. SnapshotOf(cell.latest) \in Snapshot /\ SnapshotOf(cell.latest).ts = cell.latest.ts
    BY <2>2 DEF SnapshotOf, LatestRow, Snapshot
  <2>5. new \in Cell
    BY <2>1, <2>2, <2>3, <2>4 DEF Cell
  <2>6. Stored(new)
    BY <2>3, NullAssumption DEF Stored
  <2>7. \A p \in cell.previous : p.ts \in Nat /\ p.ts < cell.latest.ts
    BY <1>2, <2>2 DEF StrictlyOrdered, Snapshot
  <2>8. cell.latest.ts \in Nat /\ snap.ts \in Nat
    BY <2>2 DEF LatestRow, Snapshot
  <2>9. \A p \in new.previous : p.ts < new.latest.ts
    BY <1>2, <2>3, <2>4, <2>7, <2>8
  <2>10. \A p, q \in new.previous : p.ts = q.ts => p = q
    BY <2>3, <2>4, <2>7, <2>8 DEF StrictlyOrdered
  <2> QED
    BY <1>2, <2>3, <2>5, <2>6, <2>9, <2>10 DEF StrictlyOrdered, new
<1>3. CASE AddOutcome(cell, snap) \in {"SAME_AS_LATEST", "RangeError"} /\ Stored(cell)
  BY <1>3 DEF AddSnapshot
<1> QED
  BY <1>1, <1>2, <1>3, AddOutcomeCases

(* addSnapshot only ever appends: the history stays as it was or gains one  *)
(* snapshot that is newer than all the others and differs from the newest.  *)
LEMMA AddGrowsHistory ==
    ASSUME NEW cell \in Cell, NEW snap \in Snapshot, StrictlyOrdered(cell)
    PROVE  \/ History(AddSnapshot(cell, snap)) = History(cell)
           \/ /\ History(AddSnapshot(cell, snap)) = History(cell) \cup {snap}
              /\ \A t \in History(cell) :
                    /\ t.ts < snap.ts
                    /\ (\A u \in History(cell) : u.ts <= t.ts) => t.props # snap.props
<1> DEFINE new == AddSnapshot(cell, snap)
<1>0. snap = [ts |-> snap.ts, props |-> snap.props]
  BY DEF Snapshot
<1>1. CASE AddOutcome(cell, snap) = "ADDED_FIRST_SNAPSHOT" /\ ~Stored(cell)
  <2>1. new = [latest |-> [ts |-> snap.ts, deleted |-> Null, props |-> snap.props],
               previous |-> {}]
    BY <1>1 DEF AddSnapshot, StrictlyOrdered, Cell
  <2>2. new.latest \in LatestRow
    BY <2>1 DEF LatestRow, Deletion, Snapshot
  <2>3. new.latest # Null
    BY <2>2, NullAssumption
  <2>4. SnapshotOf(new.latest) = snap
    BY <1>0, <2>1 DEF SnapshotOf
  <2>5. History(new) = {snap}
    BY <2>1, <2>3, <2>4 DEF History, Stored
  <2>6. History(cell) = {}
    BY <1>1 DEF History, StrictlyOrdered
  <2> QED
    BY <2>5, <2>6
<1>2. CASE /\ AddOutcome(cell, snap) = "ADDED_ANOTHER_SNAPSHOT"
           /\ Stored(cell)
           /\ cell.latest.props # snap.props
           /\ snap.ts > cell.latest.ts
  <2>1. new = [latest |-> [cell.latest EXCEPT !.ts = snap.ts, !.props = snap.props],
               previous |-> cell.previous \cup {SnapshotOf(cell.latest)}]
    BY <1>2 DEF AddSnapshot
  <2> HIDE DEF new
  <2>2. cell.latest \in LatestRow /\ cell.previous \subseteq Snapshot
    BY <1>2 DEF Cell, Stored
  <2>3. new.latest \in LatestRow /\ new.latest.ts = snap.ts /\ new.latest.props = snap.props
    BY <2>1, <2>2 DEF LatestRow, Snapshot
  <2>4. new.latest # Null
    BY <2>3, NullAssumption
  <2>5. SnapshotOf(new.latest) = snap
    BY <1>0, <2>3 DEF SnapshotOf
  <2>6. History(new) = History(cell) \cup {snap}
    BY <1>2, <2>1, <2>4, <2>5 DEF History, Stored
  <2>7. /\ SnapshotOf(cell.latest).ts = cell.latest.ts
        /\ SnapshotOf(cell.latest).props = cell.latest.props
        /\ SnapshotOf(cell.latest) \in History(cell)
    BY <1>2 DEF SnapshotOf, History
  <2>8. cell.latest.ts \in Nat /\ snap.ts \in Nat
    BY <2>2 DEF LatestRow, Snapshot
  <2>9. \A t \in cell.previous : t.ts \in Nat /\ t.ts < cell.latest.ts
    BY <1>2, <2>2 DEF StrictlyOrdered, Snapshot
  <2>10. ASSUME NEW t \in History(cell)
         PROVE  /\ t.ts < snap.ts
                /\ (\A u \in History(cell) : u.ts <= t.ts) => t.props # snap.props
    <3>1. CASE t \in cell.previous
      <4>1. t.ts < snap.ts
        BY <1>2, <2>8, <2>9, <3>1
      <4>2. ~(cell.latest.ts <= t.ts)
        BY <2>8, <2>9, <3>1
      <4> QED
        BY <2>7, <4>1, <4>2
    <3>2. CASE t = SnapshotOf(cell.latest)
      BY <1>2, <2>7, <2>8, <3>2
    <3> QED
      BY <3>1, <3>2, <1>2 DEF History
  <2> QED
    BY <2>6, <2>10 DEF new
<1>3. CASE AddOutcome(cell, snap) \in {"SAME_AS_LATEST", "RangeError"}
  BY <1>3 DEF AddSnapshot
<1> QED
  BY <1>1, <1>2, <1>3, AddOutcomeCases

(* markAsDeleted changes nothing but the mark, and only of a stored row. *)
LEMMA MarkFacts ==
    ASSUME NEW cell \in Cell, NEW ts \in Nat, StrictlyOrdered(cell)
    PROVE  /\ MarkAsDeleted(cell, ts) \in Cell
           /\ StrictlyOrdered(MarkAsDeleted(cell, ts))
           /\ History(MarkAsDeleted(cell, ts)) = History(cell)
           /\ Stored(MarkAsDeleted(cell, ts)) <=> Stored(cell)
           /\ Stored(cell) => MarkAsDeleted(cell, ts).latest.deleted = ts
<1>1. CASE ~Stored(cell)
  BY <1>1 DEF MarkAsDeleted
<1>2. CASE Stored(cell)
  <2> DEFINE new == MarkAsDeleted(cell, ts)
  <2>1. cell.latest \in LatestRow
    BY <1>2 DEF Cell, Stored
  <2>2. /\ new.previous = cell.previous
        /\ new.latest = [cell.latest EXCEPT !.deleted = ts]
        /\ new = [latest |-> new.latest, previous |-> new.previous]
    BY <1>2, <2>1 DEF MarkAsDeleted, Cell
  <2> HIDE DEF new
  <2>3. /\ new.latest \in LatestRow
        /\ new.latest.ts = cell.latest.ts
        /\ new.latest.props = cell.latest.props
        /\ new.latest.deleted = ts
    BY <2>1, <2>2 DEF LatestRow, Deletion
  <2>4. new.latest # Null
    BY <2>3, NullAssumption
  <2>5. new \in Cell
    BY <2>2, <2>3 DEF Cell
  <2>6. SnapshotOf(new.latest) = SnapshotOf(cell.latest)
    BY <2>3 DEF SnapshotOf
  <2> QED
    BY <1>2, <2>2, <2>3, <2>4, <2>5, <2>6 DEF Stored, History, StrictlyOrdered, new
<1> QED
  BY <1>1, <1>2

-----------------------------------------------------------------------------
(* Encoding. *)
(* The k-th byte of blocks of one size is in block 1 + (k - 1) \div size.  *)
LEMMA BlockIndex ==
    ASSUME NEW size \in {8, 25}, NEW i \in Nat \ {0}, NEW j \in 1..size
    PROVE  LET k == size * (i - 1) + j
           IN /\ k \in Nat \ {0}
              /\ (k - 1) \div size = i - 1
              /\ (k - 1) % size = j - 1
<1>1. CASE size = 8
    BY <1>1
<1>2. CASE size = 25
    BY <1>2
<1>3. QED
    BY <1>1, <1>2

(* Blocks of one size fill a multiple of it.                               *)
LEMMA BlockRange ==
    ASSUME NEW size \in {8, 25}, NEW n \in Nat
    PROVE  /\ (size * n) % size = 0 /\ (size * n) \div size = n /\ size * n \in Nat
           /\ \A i \in 1..n : \A j \in 1..size : size * (i - 1) + j \in 1..(size * n)
<1>1. CASE size = 8
    BY <1>1
<1>2. CASE size = 25
    BY <1>2
<1>3. QED
    BY <1>1, <1>2

(* Blocks that were put one after the other come apart again.              *)
LEMMA UnpackPack ==
    ASSUME NEW size \in {8, 25}, NEW blocks \in Seq([1..size -> Byte])
    PROVE  /\ Len(Pack(size, blocks)) = size * Len(blocks)
           /\ Unpack(size, Pack(size, blocks)) = blocks
<1> DEFINE n == Len(blocks)
           buf == Pack(size, blocks)
<1>1. n \in Nat
    OBVIOUS
<1>2. Len(buf) = size * n
    BY <1>1, BlockRange DEF Pack
<1>3. Len(buf) \div size = n
    BY <1>1, <1>2, BlockRange
<1>4. ASSUME NEW i \in 1..n, NEW j \in 1..size
      PROVE  buf[size * (i - 1) + j] = blocks[i][j]
    <2> DEFINE k == size * (i - 1) + j
    <2>1. k \in 1..(size * n)
        BY <1>1, BlockRange
    <2>2. (k - 1) \div size = i - 1 /\ (k - 1) % size = j - 1
        BY BlockIndex
    <2>3. buf[k] = blocks[1 + (i - 1)][1 + (j - 1)]
        BY <2>1, <2>2 DEF Pack
    <2>4. QED
        BY <2>3
<1>5. ASSUME NEW i \in 1..n
      PROVE  [j \in 1..size |-> buf[size * (i - 1) + j]] = blocks[i]
    <2>1. blocks[i] \in [1..size -> Byte]
        OBVIOUS
    <2>2. QED
        BY <1>4, <2>1
<1>6. Unpack(size, buf) = [i \in 1..n |-> blocks[i]]
    BY <1>3, <1>5, Zenon DEF Unpack
<1>7. [i \in 1..n |-> blocks[i]] = blocks
    OBVIOUS
<1>8. QED
    BY <1>2, <1>6, <1>7

(* Arrays of IDs of any length come back as they were.                     *)
THEOREM SnowflakeArrayRoundTrip ==
    ASSUME NEW array \in Seq(Word)
    PROVE  decodeSnowflakeArray(encodeSnowflakeArray(array)) = Js("array", array)
<1>1. /\ Len(Pack(8, array)) = 8 * Len(array)
      /\ Unpack(8, Pack(8, array)) = array
    BY UnpackPack DEF Word
<1>2. Len(Pack(8, array)) % 8 = 0
    BY <1>1, BlockRange
<1>3. QED
    BY <1>1, <1>2 DEF decodeSnowflakeArray, encodeSnowflakeArray, Column

(* The four parts of a block.                                              *)
LEMMA BlockParts ==
    ASSUME NEW type \in Byte, NEW id \in Word, NEW allow \in Word, NEW deny \in Word
    PROVE  BlockOverwrite(Block(type, id, allow, deny))
             = [type |-> type, id |-> id, allow |-> allow, deny |-> deny]
<1> DEFINE b == Block(type, id, allow, deny)
<1>1. b[1] = type
    BY DEF Block
<1>2. [j \in 1..8 |-> b[j + 1]] = id
    BY DEF Block, Word
<1>3. [j \in 1..8 |-> b[j + 9]] = allow
    BY DEF Block, Word
<1>4. [j \in 1..8 |-> b[j + 17]] = deny
    BY DEF Block, Word
<1>5. QED
    BY <1>1, <1>2, <1>3, <1>4, Zenon DEF BlockOverwrite

(* A block is 25 bytes.                                                    *)
LEMMA BlockBytes ==
    ASSUME NEW type \in Byte, NEW id \in Word, NEW allow \in Word, NEW deny \in Word
    PROVE  Block(type, id, allow, deny) \in [1..25 -> Byte]
BY DEF Block, Word

(* The blob of an image hash.                                              *)
LEMMA HashParts ==
    ASSUME NEW animated \in BOOLEAN, NEW bytes \in [1..16 -> Byte], NEW b,
           b = [k \in 1..17 |-> IF k = 1 THEN IF animated THEN 1 ELSE 0 ELSE bytes[k - 1]]
    PROVE  Len(b) = 17 /\ (b[1] % 2 = 1) = animated /\ [k \in 1..16 |-> b[k + 1]] = bytes
<1>1. Len(b) = 17 /\ [k \in 1..16 |-> b[k + 1]] = bytes
    OBVIOUS
<1>2. (b[1] % 2 = 1) = animated
    OBVIOUS
<1>3. QED
    BY <1>1, <1>2

(* A list of overwrites comes back as it was, unless one of its sets of    *)
(* flags needs more than 64 bits, in which case nothing is stored.         *)
THEOREM OverwritesRoundTrip ==
    ASSUME NEW overwrites \in Seq(Overwrite), Fits(overwrites)
    PROVE  decodePermissionOverwrites(encodePermissionOverwrites(overwrites))
             = Js("array", overwrites)
<1> DEFINE blocks == [i \in DOMAIN overwrites |-> OverwriteBlock(overwrites[i])]
           buf == Pack(25, blocks)
<1>1. ASSUME NEW i \in DOMAIN overwrites
      PROVE  /\ OverwriteBlock(overwrites[i]) \in [1..25 -> Byte]
             /\ BlockOverwrite(OverwriteBlock(overwrites[i])) = overwrites[i]
    <2> DEFINE o == overwrites[i]
               b == OverwriteBlock(o)
    <2>1. o \in [type: Byte, id: Word, allow: Word, deny: Word]
        <3>1. o \in Overwrite /\ o.allow # TooWide /\ o.deny # TooWide
            BY DEF Fits
        <3>2. QED
            BY <3>1 DEF Overwrite
    <2>2. o.type \in Byte /\ o.id \in Word /\ o.allow \in Word /\ o.deny \in Word
        BY <2>1
    <2>3. b \in [1..25 -> Byte]
        BY <2>2, BlockBytes DEF OverwriteBlock
    <2>4. o = [type |-> o.type, id |-> o.id, allow |-> o.allow, deny |-> o.deny]
        BY <2>1
    <2>5. BlockOverwrite(b) = [type |-> o.type, id |-> o.id, allow |-> o.allow, deny |-> o.deny]
        BY <2>2, BlockParts, Zenon DEF OverwriteBlock
    <2>6. QED
        BY <2>3, <2>4, <2>5, Zenon
<1>2. blocks \in Seq([1..25 -> Byte]) /\ Len(blocks) = Len(overwrites)
    <2>1. DOMAIN overwrites = 1..Len(overwrites) /\ Len(overwrites) \in Nat
        OBVIOUS
    <2>2. blocks \in [1..Len(overwrites) -> [1..25 -> Byte]]
        BY <1>1, <2>1
    <2>3. QED
        BY <2>1, <2>2
<1>3. Len(buf) % 25 = 0 /\ Unpack(25, buf) = blocks
    <2>1. 25 \in {8, 25} /\ Len(blocks) \in Nat
        BY <1>2
    <2>2. Len(buf) = 25 * Len(blocks) /\ Unpack(25, buf) = blocks
        BY <1>2, <2>1, UnpackPack, Zenon
    <2>3. (25 * Len(blocks)) % 25 = 0
        BY <2>1, BlockRange
    <2>4. QED
        BY <2>2, <2>3, Zenon
<1>4. decodePermissionOverwrites(Column("BLOB", buf))
        = Js("array", [i \in DOMAIN blocks |-> BlockOverwrite(blocks[i])])
    BY <1>3 DEF decodePermissionOverwrites, Column
<1>5. [i \in DOMAIN blocks |-> BlockOverwrite(blocks[i])] = overwrites
    BY <1>1
<1>6. QED
    BY <1>4, <1>5 DEF encodePermissionOverwrites

-----------------------------------------------------------------------------
\* A value as the API sends it for a property of a type.
OfType(type, v) ==
    CASE type \in {"STRING", "BIG_INTEGER", "BASE64"} -> v = Js("string", v.value)
      [] type \in {"INTEGER", "FLOAT"}              -> v = Js("number", v.value)
      [] type \in {"BOOLEAN", "STRICT_BOOLEAN"} ->
            v \in {Js("boolean", TRUE), Js("boolean", FALSE)}
      [] type = "IMAGE_HASH" -> v \in Hash \/ v = Js("string", v.value)
      [] type = "BIG_INTEGER_ARRAY" -> v.value \in Seq(Word) /\ v = Js("array", v.value)
      [] type = "TIMESTAMP" ->
            v = [is |-> "instant", milliseconds |-> v.milliseconds, rest |-> v.rest]
      [] type = "EMOJI" ->
            /\ v = [is |-> "emoji", id |-> v.id, name |-> v.name]
            /\ \/ v.id = Js("string", v.id.value)
               \/ v.id = null /\ v.name = Js("string", v.name.value)
      [] type = "JSON" -> v \notin {undefined, null}
      [] type = "NULL" -> v = null

\* What the database gives back for it: no more than the milliseconds of an
\* instant, and the ID alone of an emoji that has both.
Lossy(type, v) ==
    CASE type = "TIMESTAMP" -> [v EXCEPT !.rest = 0]
      [] type = "EMOJI" /\ v.id # null -> [v EXCEPT !.name = null]
      [] OTHER -> v

(* A value that is not stored as NULL has a column that is not NULL, and   *)
(* comes back.                                                             *)
LEMMA StoredValue ==
    ASSUME NEW p \in PropertyInfo, NEW v, OfType(p.type, v), ~StoredAsNull(p, v)
    PROVE  /\ encodeValue(p, v) # NULL
           /\ decodeValue(p, encodeValue(p, v)) = Lossy(p.type, v)
<1> USE DEF encodeValue, decodeValue, OfType, Lossy, Column, NULL, Js
<1>1. CASE p.type \in {"STRING", "BIG_INTEGER", "BASE64", "INTEGER", "FLOAT"}
    BY <1>1
<1>2. CASE p.type \in {"BOOLEAN", "STRICT_BOOLEAN"}
    <2>1. CASE v = Js("boolean", TRUE)
        <3>1. Bit(v) = 1
            BY <2>1 DEF Bit, undefined, null
        <3>2. encodeValue(p, v) = Column("INTEGER", 1)
            BY <1>2, <3>1
        <3>3. decodeValue(p, Column("INTEGER", 1)) = Js("boolean", TRUE)
            <4>1. ASSUME NEW c, c # NULL
                  PROVE  decodeValue(p, c) = Js("boolean", c.value # 0)
                BY <1>2, <4>1
            <4>2. Column("INTEGER", 1).value = 1 /\ Column("INTEGER", 1) # NULL
                OBVIOUS
            <4>3. (1 # 0) = TRUE
                OBVIOUS
            <4>4. QED
                BY <4>1, <4>2, <4>3, Zenon
        <3>4. Lossy(p.type, v) = v /\ Column("INTEGER", 1) # NULL
            BY <1>2
        <3>5. QED
            BY <2>1, <3>2, <3>3, <3>4, Zenon
    <2>2. CASE v = Js("boolean", FALSE)
        <3>1. Bit(v) = 0
            BY <2>2 DEF Bit
        <3>2. encodeValue(p, v) = Column("INTEGER", 0)
            BY <1>2, <3>1
        <3>3. decodeValue(p, Column("INTEGER", 0)) = Js("boolean", FALSE)
            BY <1>2
        <3>4. Lossy(p.type, v) = v /\ Column("INTEGER", 0) # NULL
            BY <1>2
        <3>5. QED
            BY <2>2, <3>2, <3>3, <3>4, Zenon
    <2>3. QED
        BY <1>2, <2>1, <2>2
<1>3. CASE p.type = "IMAGE_HASH"
    <2>1. CASE v \in Hash
        <3> DEFINE buf == [k \in 1..17 |->
                IF k = 1 THEN IF v.animated THEN 1 ELSE 0 ELSE v.bytes[k - 1]]
        <3>1. encodeImageHash(v) = Column("BLOB", buf)
            BY <2>1, Zenon DEF encodeImageHash, Hash
        <3>2. v.bytes \in [1..16 -> Byte] /\ v.animated \in BOOLEAN
            BY <2>1 DEF Hash
        <3>3. /\ Len(buf) = 17
              /\ (buf[1] % 2 = 1) = v.animated
              /\ [k \in 1..16 |-> buf[k + 1]] = v.bytes
            BY <3>2, HashParts
        <3> HIDE DEF buf
        <3>4. decodeImageHash(Column("BLOB", buf))
                = [is |-> "hash", animated |-> v.animated, bytes |-> v.bytes]
            BY <3>3 DEF decodeImageHash
        <3>5. v = [is |-> "hash", animated |-> v.animated, bytes |-> v.bytes]
            BY <2>1 DEF Hash
        <3>6. QED
            BY <1>3, <3>1, <3>4, <3>5
    <2>2. CASE v = Js("string", v.value)
        BY <1>3, <2>2 DEF encodeImageHash, decodeImageHash
    <2>3. QED
        BY <1>3, <2>1, <2>2
<1>4. CASE p.type = "BIG_INTEGER_ARRAY"
    <2>1. v.value \in Seq(Word) /\ v = Js("array", v.value)
        BY <1>4
    <2>2. decodeSnowflakeArray(encodeSnowflakeArray(v.value)) = v
        BY <2>1, SnowflakeArrayRoundTrip
    <2>3. encodeSnowflakeArray(v.value).storage = "BLOB"
        BY DEF encodeSnowflakeArray
    <2>4. QED
        BY <1>4, <2>2, <2>3
<1>5. CASE p.type = "TIMESTAMP"
    BY <1>5
<1>6. CASE p.type = "EMOJI"
    BY <1>6 DEF encodeEmojiProps, decodeEmojiProps, null
<1>7. CASE p.type = "JSON"
    BY <1>7
<1>8. CASE p.type = "NULL"
    BY <1>8
<1>9. QED
    BY <1>1, <1>2, <1>3, <1>4, <1>5, <1>6, <1>7, <1>8 DEF PropertyInfo, ValueType

\* What the API may send for a property: a value of its type, or one that is
\* stored as NULL if the property says what NULL means.
Sent(p, v) ==
    \/ StoredAsNull(p, v) /\ p.nullValue # Required
    \/ ~StoredAsNull(p, v) /\ OfType(p.type, v)
    \/ ~StoredAsNull(p, v) /\ p.type = "STRICT_BOOLEAN" /\ v \in {undefined, null}

Shown(p, v) ==
    IF StoredAsNull(p, v) THEN getNullValue(p.nullValue)
    ELSE IF p.type = "STRICT_BOOLEAN" /\ v \in {undefined, null} THEN Js("boolean", FALSE)
    ELSE Lossy(p.type, v)

(* encodeValue never throws for what the API may send, decodeValue gives   *)
(* it back, and only what the property's null value stands for is NULL.    *)
THEOREM ValueRoundTrip ==
    ASSUME NEW p \in PropertyInfo, NEW v, Sent(p, v)
    PROVE  /\ decodeValue(p, encodeValue(p, v)) = Shown(p, v)
           /\ encodeValue(p, v) = NULL <=> StoredAsNull(p, v)
<1>1. CASE StoredAsNull(p, v)
    <2>1. p.nullValue # Required
        BY <1>1 DEF Sent
    <2>2. encodeValue(p, v) = NULL
        BY <1>1, <2>1, Zenon DEF encodeValue
    <2>3. decodeValue(p, NULL) = getNullValue(p.nullValue)
        BY DEF decodeValue
    <2>4. QED
        BY <1>1, <2>2, <2>3, Zenon DEF Shown
<1>2. CASE ~StoredAsNull(p, v) /\ p.type = "STRICT_BOOLEAN" /\ v \in {undefined, null}
    <2>1. Bit(v) = 0
        BY <1>2 DEF Bit
    <2>2. encodeValue(p, v) = Column("INTEGER", 0)
        BY <1>2, <2>1 DEF encodeValue
    <2>3. Column("INTEGER", 0) # NULL
        BY DEF Column, NULL
    <2>4. decodeValue(p, Column("INTEGER", 0)) = Js("boolean", FALSE)
        BY <1>2, <2>3 DEF decodeValue, Column
    <2>5. QED
        BY <1>2, <2>2, <2>3, <2>4, Zenon DEF Shown
<1>3. CASE /\ ~StoredAsNull(p, v) /\ OfType(p.type, v)
           /\ ~(p.type = "STRICT_BOOLEAN" /\ v \in {undefined, null})
    BY <1>3, StoredValue, Zenon DEF Shown
<1>4. QED
    BY <1>1, <1>2, <1>3 DEF Sent

-----------------------------------------------------------------------------
IsSchema(schema) ==
    /\ \A k \in DOMAIN schema.properties : schema.properties[k] \in PropertyInfo
    /\ \A k \in DOMAIN schema.subObjects :
        \A s \in DOMAIN schema.subObjects[k].properties :
            schema.subObjects[k].properties[s] \in PropertyInfo

IsObject(schema, object) ==
    /\ \A k \in DOMAIN schema.properties : Sent(schema.properties[k], object[k])
    /\ \A k \in DOMAIN schema.subObjects :
        \/ object[k] \in {undefined, null}
        \/ \A s \in DOMAIN schema.subObjects[k].properties :
                Sent(schema.subObjects[k].properties[s], object[k].value[s])

\* A sub-object that is absent reads back as its null value if one of its
\* properties is required, and otherwise as an object without properties.
ShownSub(sub, v) ==
    IF v \in {undefined, null}
    THEN IF \E s \in DOMAIN sub.properties : sub.properties[s].nullValue = Required
         THEN getNullValue(sub.nullValue)
         ELSE Js("object", [s \in DOMAIN sub.properties |->
                               getNullValue(sub.properties[s].nullValue)])
    ELSE Js("object", [s \in DOMAIN sub.properties |-> Shown(sub.properties[s], v.value[s])])

ReadBack(schema, object) ==
    [k \in DOMAIN schema.properties \cup DOMAIN schema.subObjects |->
        IF k \in DOMAIN schema.properties
        THEN Shown(schema.properties[k], object[k])
        ELSE ShownSub(schema.subObjects[k], object[k])]

(* The columns of a complete object.                                       *)
LEMMA CompleteRow ==
    ASSUME NEW schema, NEW object
    PROVE  encodeObject(schema, object, FALSE)
             = [c \in Columns(schema) |-> EncodedColumn(schema, object, c)]
<1>1. Given(schema, object, FALSE) = Columns(schema)
    BY Zenon DEF Given
<1>2. QED
    BY <1>1, Zenon DEF encodeObject

(* The column of an object's own property.                                 *)
LEMMA PropertyColumn ==
    ASSUME NEW schema, NEW object, NEW k \in DOMAIN schema.properties
    PROVE  encodeObject(schema, object, FALSE)[<<k>>]
             = encodeValue(schema.properties[k], object[k])
<1>1. <<k>> \in Columns(schema)
    BY DEF Columns
<1>2. Len(<<k>>) = 1 /\ <<k>>[1] = k
    OBVIOUS
<1>3. EncodedColumn(schema, object, <<k>>) = encodeValue(schema.properties[k], object[k])
    BY <1>2, Zenon DEF EncodedColumn
<1>4. QED
    BY <1>1, <1>3, CompleteRow, Zenon

\* What is stored of a sub-object's property.
SubStored(sub, v, s) ==
    IF v \in {undefined, null} THEN NULL ELSE encodeValue(sub.properties[s], v.value[s])

(* The column of a sub-object's property.                                  *)
LEMMA SubColumn ==
    ASSUME NEW schema, NEW object, NEW k \in DOMAIN schema.subObjects,
           NEW s \in DOMAIN schema.subObjects[k].properties
    PROVE  encodeObject(schema, object, FALSE)[<<k, s>>]
             = SubStored(schema.subObjects[k], object[k], s)
<1>1. <<k, s>> \in Columns(schema)
    <2> DEFINE SubOf(key) == {<<key, t>> : t \in DOMAIN schema.subObjects[key].properties}
    <2>1. <<k, s>> \in SubOf(k)
        OBVIOUS
    <2>2. SubOf(k) \in {SubOf(key) : key \in DOMAIN schema.subObjects}
        OBVIOUS
    <2>3. <<k, s>> \in UNION {SubOf(key) : key \in DOMAIN schema.subObjects}
        BY <2>1, <2>2, Zenon
    <2>4. QED
        BY <2>3, Zenon DEF Columns
<1>2. Len(<<k, s>>) # 1 /\ <<k, s>>[1] = k /\ <<k, s>>[2] = s
    OBVIOUS
<1>3. EncodedColumn(schema, object, <<k, s>>) = SubStored(schema.subObjects[k], object[k], s)
    BY <1>2, Zenon DEF EncodedColumn, SubStored
<1>4. QED
    BY <1>1, <1>3, CompleteRow, Zenon

(* What comes back of an object is the object, up to what Shown and        *)
(* ShownSub say: a sub-object whose properties may all be absent, as the   *)
(* tags of a role, comes back as an object although there was none.        *)
THEOREM ObjectRoundTrip ==
    ASSUME NEW schema, IsSchema(schema), NEW object, IsObject(schema, object)
    PROVE  decodeObject(schema, encodeObject(schema, object, FALSE)) = ReadBack(schema, object)
<1> DEFINE row == encodeObject(schema, object, FALSE)
<1>0. row = encodeObject(schema, object, FALSE)
    OBVIOUS
<1> HIDE DEF row
<1>1. ASSUME NEW k \in DOMAIN schema.properties
      PROVE  decodeValue(schema.properties[k], row[<<k>>])
                = Shown(schema.properties[k], object[k])
    <2>1. schema.properties[k] \in PropertyInfo /\ Sent(schema.properties[k], object[k])
        BY Zenon DEF IsSchema, IsObject
    <2>2. row[<<k>>] = encodeValue(schema.properties[k], object[k])
        BY <1>0, PropertyColumn, Zenon
    <2>3. QED
        BY <2>1, <2>2, ValueRoundTrip, Zenon
<1>2. ASSUME NEW k \in DOMAIN schema.subObjects
      PROVE  decodeSubObject(k, schema.subObjects[k], row)
                = ShownSub(schema.subObjects[k], object[k])
    <2> DEFINE sub == schema.subObjects[k]
               Missing == \E s \in DOMAIN sub.properties :
                            row[<<k, s>>] = NULL /\ sub.properties[s].nullValue = Required
               Decoded == [s \in DOMAIN sub.properties |->
                            decodeValue(sub.properties[s], row[<<k, s>>])]
    <2>1. decodeSubObject(k, sub, row)
            = IF Missing THEN getNullValue(sub.nullValue) ELSE Js("object", Decoded)
        BY Zenon DEF decodeSubObject
    <2>2. \A s \in DOMAIN sub.properties : row[<<k, s>>] = SubStored(sub, object[k], s)
        BY <1>0, SubColumn, Zenon
    <2>3. CASE object[k] \in {undefined, null}
        <3>1. \A s \in DOMAIN sub.properties : row[<<k, s>>] = NULL
            BY <2>2, <2>3, Zenon DEF SubStored
        <3>2. Missing <=> \E s \in DOMAIN sub.properties : sub.properties[s].nullValue = Required
            BY <3>1, Zenon
        <3>3. \A s \in DOMAIN sub.properties :
                decodeValue(sub.properties[s], NULL) = getNullValue(sub.properties[s].nullValue)
            BY Zenon DEF decodeValue
        <3>4. Decoded = [s \in DOMAIN sub.properties |-> getNullValue(sub.properties[s].nullValue)]
            BY <3>1, <3>3, Zenon
        <3>5. QED
            BY <2>1, <2>3, <3>2, <3>4, Zenon DEF ShownSub
    <2>4. CASE object[k] \notin {undefined, null}
        <3>1. ASSUME NEW s \in DOMAIN sub.properties
              PROVE  /\ sub.properties[s] \in PropertyInfo
                     /\ Sent(sub.properties[s], object[k].value[s])
                     /\ row[<<k, s>>] = encodeValue(sub.properties[s], object[k].value[s])
            BY <2>2, <2>4, Zenon DEF IsSchema, IsObject, SubStored
        <3>2. ASSUME NEW s \in DOMAIN sub.properties
              PROVE  /\ decodeValue(sub.properties[s], row[<<k, s>>])
                            = Shown(sub.properties[s], object[k].value[s])
                     /\ row[<<k, s>>] = NULL => sub.properties[s].nullValue # Required
            <4>1. row[<<k, s>>] = NULL => StoredAsNull(sub.properties[s], object[k].value[s])
                BY <3>1, ValueRoundTrip, Zenon
            <4>2. StoredAsNull(sub.properties[s], object[k].value[s])
                    => sub.properties[s].nullValue # Required
                BY <3>1, Zenon DEF Sent
            <4>3. decodeValue(sub.properties[s], row[<<k, s>>])
                    = Shown(sub.properties[s], object[k].value[s])
                BY <3>1, ValueRoundTrip, Zenon
            <4>4. QED
                BY <4>1, <4>2, <4>3, Zenon
        <3>3. ~Missing
            BY <3>2, Zenon
        <3>4. Decoded = [s \in DOMAIN sub.properties |->
                            Shown(sub.properties[s], object[k].value[s])]
            BY <3>2, Zenon
        <3>5. QED
            BY <2>1, <2>4, <3>3, <3>4, Zenon DEF ShownSub
    <2>5. QED
        BY <2>3, <2>4, Zenon
<1>3. decodeObject(schema, row) = ReadBack(schema, object)
    <2> DEFINE Keys == DOMAIN schema.properties \cup DOMAIN schema.subObjects
               Left(k) == IF k \in DOMAIN schema.properties
                          THEN decodeValue(schema.properties[k], row[<<k>>])
                          ELSE decodeSubObject(k, schema.subObjects[k], row)
               Right(k) == IF k \in DOMAIN schema.properties
                           THEN Shown(schema.properties[k], object[k])
                           ELSE ShownSub(schema.subObjects[k], object[k])
    <2>1. ASSUME NEW k \in Keys
          PROVE  Left(k) = Right(k)
        BY <1>1, <1>2, Zenon
    <2>2. [k \in Keys |-> Left(k)] = [k \in Keys |-> Right(k)]
        BY <2>1, Zenon
    <2>3. QED
        BY <2>2, Zenon DEF decodeObject, ReadBack
<1>4. QED
    BY <1>0, <1>3, Zenon

\* An object with the properties that a partial one gives in place of its own.
Updated(object, part) ==
    [k \in DOMAIN object |-> IF part[k] = undefined THEN object[k] ELSE part[k]]

(* A row over which the columns of a partial object are laid is that of    *)
(* the whole object with the given properties: an edit neither loses nor   *)
(* resets what it does not mention.                                        *)
THEOREM PartialUpdates ==
    ASSUME NEW schema, NEW object, NEW part,
           DOMAIN schema.properties \cup DOMAIN schema.subObjects \subseteq DOMAIN object
    PROVE  Assigned(encodeObject(schema, object, FALSE), encodeObject(schema, part, TRUE))
             = encodeObject(schema, Updated(object, part), FALSE)
<1> DEFINE whole == Updated(object, part)
<1>1. /\ Given(schema, object, FALSE) = Columns(schema)
      /\ Given(schema, part, TRUE) = {c \in Columns(schema) : part[c[1]] # undefined}
    BY Zenon DEF Given
<1>2. ASSUME NEW c \in Columns(schema)
      PROVE  /\ c[1] \in DOMAIN object
             /\ part[c[1]] # undefined =>
                    EncodedColumn(schema, whole, c) = EncodedColumn(schema, part, c)
             /\ part[c[1]] = undefined =>
                    EncodedColumn(schema, whole, c) = EncodedColumn(schema, object, c)
    <2>1. c[1] \in DOMAIN object
        BY DEF Columns
    <2>2. /\ part[c[1]] # undefined => whole[c[1]] = part[c[1]]
          /\ part[c[1]] = undefined => whole[c[1]] = object[c[1]]
        BY <2>1, Zenon DEF Updated
    <2>3. QED
        BY <2>1, <2>2, Zenon DEF EncodedColumn
<1>3. [c \in Columns(schema) |->
            IF part[c[1]] # undefined THEN EncodedColumn(schema, part, c)
            ELSE EncodedColumn(schema, object, c)]
        = [c \in Columns(schema) |-> EncodedColumn(schema, whole, c)]
    BY <1>2, Zenon
<1>4. Assigned(encodeObject(schema, object, FALSE), encodeObject(schema, part, TRUE))
        = [c \in Columns(schema) |->
              IF part[c[1]] # undefined THEN EncodedColumn(schema, part, c)
              ELSE EncodedColumn(schema, object, c)]
    BY <1>1 DEF Assigned, encodeObject
<1>5. encodeObject(schema, whole, FALSE)
        = [c \in Columns(schema) |-> EncodedColumn(schema, whole, c)]
    BY CompleteRow, Zenon
<1>6. QED
    BY <1>3, <1>4, <1>5, Zenon

-----------------------------------------------------------------------------
(* GuildStore. *)
\* What one request may do to one object.
CellStep(old, new) ==
    /\ new \in Cell
    /\ StrictlyOrdered(new)
    /\ ObjectArchive!Grows(History(old), History(new))
    /\ Mark(new) = Mark(old) \/ (Mark(new) \in Nat /\ History(old) # {})

\* The inductive invariant.
IInv == ObjectsTypeOK /\ ObjectsOrdered /\ NeverBreaksPrimaryKey

(* Doing nothing, adding a snapshot and marking as deleted are cell steps. *)
LEMMA CellSteps ==
    ASSUME NEW cell \in Cell, StrictlyOrdered(cell)
    PROVE  /\ CellStep(cell, cell)
           /\ \A snap \in Snapshot : CellStep(cell, AddSnapshot(cell, snap))
           /\ \A ts \in Nat : CellStep(cell, MarkAsDeleted(cell, ts))
<1>1. CellStep(cell, cell)
  BY DEF CellStep, ObjectArchive!Grows
<1>2. ASSUME NEW snap \in Snapshot
      PROVE  CellStep(cell, AddSnapshot(cell, snap))
  <2> DEFINE new == AddSnapshot(cell, snap)
  <2>1. new \in Cell /\ StrictlyOrdered(new) /\ Mark(new) = Mark(cell)
    BY AddKeepsOrder DEF Mark
  <2>2. ObjectArchive!Grows(History(cell), History(new))
    <3>1. CASE History(new) = History(cell)
      BY <3>1 DEF ObjectArchive!Grows
    <3>2. CASE /\ History(new) = History(cell) \cup {snap}
               /\ \A t \in History(cell) :
                    /\ t.ts < snap.ts
                    /\ (\A u \in History(cell) : u.ts <= t.ts) => t.props # snap.props
      <4>1. snap \in ObjectArchive!Snapshot
        BY DEF ObjectArchive!Snapshot, Snapshot
      <4>2. snap \in History(new) /\ \A t \in History(cell) : t.ts < snap.ts
        BY <3>2
      <4>3. \A t \in ObjectArchive!Newest(History(cell)) : t.props # snap.props
        BY <3>2 DEF ObjectArchive!Newest
      <4> QED
        BY <3>2, <4>1, <4>2, <4>3 DEF ObjectArchive!Grows
    <3> QED
      BY <3>1, <3>2, AddGrowsHistory
  <2> QED
    BY <2>1, <2>2 DEF CellStep
<1>3. ASSUME NEW ts \in Nat
      PROVE  CellStep(cell, MarkAsDeleted(cell, ts))
  <2> DEFINE new == MarkAsDeleted(cell, ts)
  <2>1. new \in Cell /\ StrictlyOrdered(new) /\ History(new) = History(cell)
    BY MarkFacts
  <2>2. Mark(new) = Mark(cell) \/ (Mark(new) \in Nat /\ History(cell) # {})
    BY MarkFacts DEF Mark, History
  <2> QED
    BY <2>1, <2>2 DEF CellStep, ObjectArchive!Grows
<1> QED
  BY <1>1, <1>2, <1>3

\* What one request may do to the whole state.
StoreStep ==
    /\ objects' \in [Object -> Cell]
    /\ answered' \in ObjectResponses \ {"SqliteError"}
    /\ \A o \in Object : CellStep(objects[o], objects'[o])

(* What addSnapshot answers is never the primary key error. *)
LEMMA OutcomeType ==
    ASSUME IInv, NEW o \in Object, NEW snap \in Snapshot
    PROVE  AddOutcome(objects[o], snap) \in ObjectResponses \ {"SqliteError"}
  BY AddOutcomeCases DEF IInv, ObjectsTypeOK, ObjectsOrdered, ObjectResponses, Errors

(* Every request about a single object is a step of the store. *)
LEMMA AddIsStep ==
    ASSUME IInv, NEW o \in Object, NEW props \in Props, NEW timing \in Timing,
           AddObject(o, Snap(props, timing))
    PROVE  StoreStep
<1>1. Snap(props, timing) \in Snapshot
  BY EncodeTimingType DEF Snap, Snapshot
<1>2. objects \in [Object -> Cell] /\ \A x \in Object : StrictlyOrdered(objects[x])
  BY DEF IInv, ObjectsTypeOK, ObjectsOrdered
<1>3. \A x \in Object : objects'[x] = IF x = o THEN AddSnapshot(objects[o], Snap(props, timing))
                                    ELSE objects[x]
  BY <1>2 DEF AddObject
<1>4. \A x \in Object : CellStep(objects[x], objects'[x])
  BY <1>1, <1>2, <1>3, CellSteps
<1>5. objects' \in [Object -> Cell]
  BY <1>2, <1>4 DEF AddObject, CellStep
<1> QED
  BY <1>1, <1>4, <1>5, OutcomeType DEF StoreStep, AddObject

(* A mark is a step of the store. *)
LEMMA MarkIsStep ==
    ASSUME IInv, NEW o \in Object, NEW timing \in Timing,
           MarkObjectAsDeleted(o, timing)
    PROVE  StoreStep
<1>1. EncodeTiming(timing) \in Nat
  BY EncodeTimingType
<1>2. objects \in [Object -> Cell] /\ \A x \in Object : StrictlyOrdered(objects[x])
  BY DEF IInv, ObjectsTypeOK, ObjectsOrdered
<1>3. \A x \in Object : objects'[x] = IF x = o THEN MarkAsDeleted(objects[o], EncodeTiming(timing))
                                    ELSE objects[x]
  BY <1>2 DEF MarkObjectAsDeleted
<1>4. \A x \in Object : CellStep(objects[x], objects'[x])
  BY <1>1, <1>2, <1>3, CellSteps
<1>5. objects' \in [Object -> Cell]
  BY <1>2, <1>4 DEF MarkObjectAsDeleted, CellStep
<1>6. answered' \in ObjectResponses \ {"SqliteError"}
  BY DEF MarkObjectAsDeleted, ObjectResponses, Errors
<1> QED
  BY <1>4, <1>5, <1>6 DEF StoreStep

(* Whatever part of a batch a failing loop reaches, each object took a step. *)
LEMMA BatchIsStep ==
    ASSUME IInv, NEW batch, NEW done, NEW timing \in Timing,
           DOMAIN batch \subseteq Object, done \in HandledIn(batch, timing),
           \A o \in DOMAIN batch : batch[o] \in Props
    PROVE  /\ AfterAdding(batch, done, timing) \in [Object -> Cell]
           /\ \A o \in Object : CellStep(objects[o], AfterAdding(batch, done, timing)[o])
           /\ done \subseteq DOMAIN batch
<1>1. done \subseteq DOMAIN batch
  BY DEF HandledIn
<1>2. \A o \in done : Snap(batch[o], timing) \in Snapshot
  BY <1>1, EncodeTimingType DEF Snap, Snapshot
<1>3. objects \in [Object -> Cell] /\ \A x \in Object : StrictlyOrdered(objects[x])
  BY DEF IInv, ObjectsTypeOK, ObjectsOrdered
<1>4. \A o \in Object : AfterAdding(batch, done, timing)[o] =
                            IF o \in done THEN AddSnapshot(objects[o], Snap(batch[o], timing))
                            ELSE objects[o]
  BY DEF AfterAdding
<1>5. \A o \in Object : CellStep(objects[o], AfterAdding(batch, done, timing)[o])
  BY <1>2, <1>3, <1>4, CellSteps
<1> QED
  BY <1>1, <1>5 DEF AfterAdding, CellStep

(* An error that ends a loop is one that addSnapshot threw. *)
LEMMA BatchErrorType ==
    ASSUME IInv, NEW batch, NEW timing \in Timing, DOMAIN batch \subseteq Object,
           \A o \in DOMAIN batch : batch[o] \in Props
    PROVE  ErrorIn(batch, timing) \subseteq ObjectResponses \ {"SqliteError"}
<1>1. \A o \in DOMAIN batch : Snap(batch[o], timing) \in Snapshot
  BY EncodeTimingType DEF Snap, Snapshot
<1> QED
  BY <1>1, OutcomeType DEF ErrorIn, ThrowingIn
(* Synchronizing the children of one parent after a step of the others is  *)
(* still one step: an object whose cell changed before is not touched.     *)
LEMMA SyncIsStep ==
    ASSUME IInv, NEW s, NEW parent, NEW kind, NEW ids, NEW timing \in Timing,
           s \in [Object -> Cell],
           \A o \in Object : CellStep(objects[o], s[o]),
           \A o \in ChildrenOf(parent, kind) \ ids : s[o] = objects[o]
    PROVE  /\ AfterSyncing(s, parent, kind, ids, timing) \in [Object -> Cell]
           /\ \A o \in Object :
                CellStep(objects[o], AfterSyncing(s, parent, kind, ids, timing)[o])
           /\ \A o \in Object : o \notin ChildrenOf(parent, kind) \ ids
                => AfterSyncing(s, parent, kind, ids, timing)[o] = s[o]
<1>1. EncodeTiming(timing) \in Nat
  BY EncodeTimingType
<1>2. objects \in [Object -> Cell] /\ \A x \in Object : StrictlyOrdered(objects[x])
  BY DEF IInv, ObjectsTypeOK, ObjectsOrdered
<1>3. ASSUME NEW o \in Object
      PROVE  \/ AfterSyncing(s, parent, kind, ids, timing)[o] = s[o]
             \/ /\ o \in ChildrenOf(parent, kind) \ ids
                /\ AfterSyncing(s, parent, kind, ids, timing)[o]
                        = MarkAsDeleted(objects[o], EncodeTiming(timing))
  BY DEF AfterSyncing
<1>4. \A o \in Object : CellStep(objects[o], AfterSyncing(s, parent, kind, ids, timing)[o])
  BY <1>1, <1>2, <1>3, CellSteps
<1>5. \A o \in Object : o \notin ChildrenOf(parent, kind) \ ids
                => AfterSyncing(s, parent, kind, ids, timing)[o] = s[o]
  BY <1>3
<1> QED
  BY <1>4, <1>5 DEF AfterSyncing, CellStep

(* SYNC_GUILD_CHANNELS_AND_ROLES is a step of the store. *)
LEMMA GuildSyncIsStep ==
    ASSUME IInv, NEW g \in Object, NEW cs, NEW rs, NEW timing \in Timing,
           SyncGuildChannelsAndRoles(g, cs, rs, timing)
    PROVE  StoreStep
<1> DEFINE synced == AfterSyncing(objects, g, "channel", cs, timing)
<1>1. objects \in [Object -> Cell] /\ \A x \in Object : StrictlyOrdered(objects[x])
  BY DEF IInv, ObjectsTypeOK, ObjectsOrdered
<1>2. \A o \in Object : CellStep(objects[o], objects[o])
  BY <1>1, CellSteps
<1>3. /\ synced \in [Object -> Cell]
      /\ \A o \in Object : CellStep(objects[o], synced[o])
      /\ \A o \in Object : o \notin ChildrenOf(g, "channel") \ cs => synced[o] = objects[o]
  BY <1>1, <1>2, SyncIsStep
<1>4. \A o \in ChildrenOf(g, "role") \ rs : synced[o] = objects[o]
  BY <1>3 DEF ChildrenOf, Of
<1>5. objects' = AfterSyncing(synced, g, "role", rs, timing)
  BY DEF SyncGuildChannelsAndRoles
<1> HIDE DEF synced
<1>6. /\ objects' \in [Object -> Cell]
      /\ \A o \in Object : CellStep(objects[o], objects'[o])
  BY <1>3, <1>4, <1>5, SyncIsStep
<1>7. answered' \in ObjectResponses \ {"SqliteError"}
  BY DEF SyncGuildChannelsAndRoles, ObjectResponses, Errors
<1> QED
  BY <1>6, <1>7 DEF StoreStep

(* SYNC_GUILD_MEMBERS is a step of the store. *)
LEMMA MembersSyncIsStep ==
    ASSUME IInv, NEW g \in Object, NEW ids, NEW timing \in Timing,
           SyncGuildMembers(g, ids, timing)
    PROVE  StoreStep
<1> DEFINE leaves == [m \in Leaving(objects, g, ids) |-> LeftProps]
<1>1. DOMAIN leaves \subseteq Object /\ \A o \in DOMAIN leaves : leaves[o] \in Props
  BY ObjectAssumption DEF Leaving, NotLeft, ChildrenOf, Of
<1>2. PICK done \in HandledIn(leaves, timing) : objects' = AfterAdding(leaves, done, timing)
  BY DEF SyncGuildMembers
<1>3. answered' = "undefined" \/ answered' \in ErrorIn(leaves, timing)
  BY DEF SyncGuildMembers
<1> HIDE DEF leaves
<1>4. answered' \in ObjectResponses \ {"SqliteError"}
  BY <1>1, <1>3, BatchErrorType DEF ObjectResponses, Errors
<1>5. /\ objects' \in [Object -> Cell]
      /\ \A o \in Object : CellStep(objects[o], objects'[o])
  BY <1>1, <1>2, BatchIsStep
<1> QED
  BY <1>4, <1>5 DEF StoreStep

(* ADD_CHANNEL_SNAPSHOT is a step of the store, an error in a tag or not. *)
LEMMA ChannelIsStep ==
    ASSUME IInv, NEW c \in Object, NEW props \in Props, NEW timing \in Timing,
           NEW ids \in SUBSET ChildrenOf(c, "forum_tag"), NEW tags \in [ids -> Props],
           AddChannelSnapshot(c, props, tags, timing)
    PROVE  StoreStep
<1>1. PICK done \in HandledIn(tags, timing) :
        LET tagged == AfterAdding(tags, done, timing)
            synced == AfterSyncing(tagged, c, "forum_tag", DOMAIN tags, timing)
        IN IF ErrorIn(tags, timing) # {}
           THEN answered' \in ErrorIn(tags, timing) /\ objects' = tagged
           ELSE /\ objects' = [synced EXCEPT ![c] = AddSnapshot(objects[c], Snap(props, timing))]
                /\ answered' = AddOutcome(objects[c], Snap(props, timing))
  BY DEF AddChannelSnapshot
<1> DEFINE tagged == AfterAdding(tags, done, timing)
           synced == AfterSyncing(tagged, c, "forum_tag", ids, timing)
<1>2. DOMAIN tags = ids /\ ids \subseteq Object /\ \A o \in ids : tags[o] \in Props
  BY DEF ChildrenOf, Of
<1>3. /\ tagged \in [Object -> Cell]
      /\ \A o \in Object : CellStep(objects[o], tagged[o])
      /\ done \subseteq ids
  BY <1>2, BatchIsStep
<1>4. CASE ErrorIn(tags, timing) # {}
  <2>1. objects' = tagged /\ answered' \in ErrorIn(tags, timing)
    BY <1>1, <1>4
  <2>2. answered' \in ObjectResponses \ {"SqliteError"}
    BY <1>2, <2>1, BatchErrorType
  <2> QED
    BY <1>3, <2>1, <2>2 DEF StoreStep
<1>5. CASE ErrorIn(tags, timing) = {}
  <2>1. /\ objects' = [synced EXCEPT ![c] = AddSnapshot(objects[c], Snap(props, timing))]
        /\ answered' = AddOutcome(objects[c], Snap(props, timing))
    BY <1>1, <1>2, <1>5
  <2>2. \A o \in ChildrenOf(c, "forum_tag") \ ids : tagged[o] = objects[o]
    BY <1>3 DEF AfterAdding, ChildrenOf, Of
  <2> HIDE DEF tagged
  <2>3. /\ synced \in [Object -> Cell]
        /\ \A o \in Object : CellStep(objects[o], synced[o])
    BY <1>3, <2>2, SyncIsStep
  <2> HIDE DEF synced
  <2>4. Snap(props, timing) \in Snapshot
    BY EncodeTimingType DEF Snap, Snapshot
  <2>5. CellStep(objects[c], AddSnapshot(objects[c], Snap(props, timing)))
    BY <2>4, CellSteps DEF IInv, ObjectsTypeOK, ObjectsOrdered
  <2>6. \A o \in Object : CellStep(objects[o], objects'[o])
    BY <2>1, <2>3, <2>5
  <2>7. objects' \in [Object -> Cell]
    BY <2>1, <2>3, <2>5 DEF CellStep
  <2>8. answered' \in ObjectResponses \ {"SqliteError"}
    BY <2>1, <2>4, OutcomeType
  <2> QED
    BY <2>6, <2>7, <2>8 DEF StoreStep
<1> QED
  BY <1>4, <1>5

(* Every step of the specification is a step of the store. *)
LEMMA NextIsStep ==
    ASSUME IInv, [ObjectNext]_objectVars
    PROVE  StoreStep \/ UNCHANGED objectVars
<1>1. CASE ObjectNext
  <2>1. PICK timing \in Timings :
        \/ \E o \in Object, props \in Props :
            \/ AddUserSnapshot(o, props, timing)
            \/ AddGuildSnapshot(o, props, timing)
            \/ AddRoleSnapshot(o, props, timing)
            \/ AddMemberSnapshot(o, props, timing)
            \/ \E present \in SUBSET ChildrenOf(o, "forum_tag") :
                \E tags \in [present -> Props] : AddChannelSnapshot(o, props, tags, timing)
        \/ \E o \in Object :
            \/ AddMemberLeave(o, timing)
            \/ MarkRoleAsDeleted(o, timing)
            \/ MarkChannelAsDeleted(o, timing)
        \/ \E g \in Of("guild") :
            \/ \E cs \in SUBSET ChildrenOf(g, "channel"), rs \in SUBSET ChildrenOf(g, "role") :
                SyncGuildChannelsAndRoles(g, cs, rs, timing)
            \/ \E ids \in SUBSET ChildrenOf(g, "member") : SyncGuildMembers(g, ids, timing)
    BY <1>1 DEF ObjectNext
  <2>2. timing \in Timing
    BY ObjectAssumption
  <2>3. ASSUME NEW o \in Object, NEW props \in Props,
               \/ AddUserSnapshot(o, props, timing)
               \/ AddGuildSnapshot(o, props, timing)
               \/ AddRoleSnapshot(o, props, timing)
               \/ AddMemberSnapshot(o, props, timing)
        PROVE  StoreStep
    BY <2>2, <2>3, AddIsStep
    DEF AddUserSnapshot, AddGuildSnapshot, AddRoleSnapshot, AddMemberSnapshot
  <2>4. ASSUME NEW o \in Object, NEW props \in Props,
               NEW present \in SUBSET ChildrenOf(o, "forum_tag"),
               NEW tags \in [present -> Props],
               AddChannelSnapshot(o, props, tags, timing)
        PROVE  StoreStep
    BY <2>2, <2>4, ChannelIsStep
  <2>5. ASSUME NEW o \in Object, AddMemberLeave(o, timing)
        PROVE  StoreStep
    BY <2>2, <2>5, AddIsStep, ObjectAssumption DEF AddMemberLeave
  <2>6. ASSUME NEW o \in Object,
               MarkRoleAsDeleted(o, timing) \/ MarkChannelAsDeleted(o, timing)
        PROVE  StoreStep
    BY <2>2, <2>6, MarkIsStep DEF MarkRoleAsDeleted, MarkChannelAsDeleted
  <2>7. ASSUME NEW g \in Of("guild"), NEW cs, NEW rs,
               SyncGuildChannelsAndRoles(g, cs, rs, timing)
        PROVE  StoreStep
    BY <2>2, <2>7, GuildSyncIsStep DEF Of
  <2>8. ASSUME NEW g \in Of("guild"), NEW ids, SyncGuildMembers(g, ids, timing)
        PROVE  StoreStep
    BY <2>2, <2>8, MembersSyncIsStep DEF Of
  <2> QED
    BY <2>1, <2>3, <2>4, <2>5, <2>6, <2>7, <2>8
<1>2. CASE UNCHANGED objectVars
  BY <1>2
<1> QED
  BY <1>1, <1>2

(* The inductive invariant holds initially ... *)
LEMMA InitIInv == ObjectInit => IInv
  BY EmptyCellFacts
  DEF ObjectInit, IInv, ObjectsTypeOK, ObjectsOrdered, NeverBreaksPrimaryKey, ObjectResponses

(* ... and every step preserves it. *)
LEMMA NextIInv == IInv /\ [ObjectNext]_objectVars => IInv'
<1> SUFFICES ASSUME IInv, [ObjectNext]_objectVars
             PROVE  IInv'
  OBVIOUS
<1>1. CASE StoreStep
  BY <1>1 DEF StoreStep, CellStep, IInv, ObjectsTypeOK, ObjectsOrdered, NeverBreaksPrimaryKey
<1>2. CASE UNCHANGED objectVars
  BY <1>2 DEF objectVars, IInv, ObjectsTypeOK, ObjectsOrdered, NeverBreaksPrimaryKey
<1> QED
  BY <1>1, <1>2, NextIsStep

(* Whatever requests arrive in whatever order, the tables hold cells and   *)
(* the answers are those of the protocol.                                  *)
THEOREM TypeCorrect == ObjectSpec => []ObjectsTypeOK
<1>1. IInv => ObjectsTypeOK
  BY DEF IInv
<1> QED
  BY <1>1, InitIInv, NextIInv, PTL DEF ObjectSpec

(* The "not more recent" check of addSnapshot is enough to keep every      *)
(* object's snapshots strictly ordered in time, for any timings.           *)
THEOREM OrderedAlways == ObjectSpec => []ObjectsOrdered
<1>1. IInv => ObjectsOrdered
  BY DEF IInv
<1> QED
  BY <1>1, InitIInv, NextIInv, PTL DEF ObjectSpec

(* copyLatestSnapshot never violates a previous table's primary key. *)
THEOREM PrimaryKeySafe == ObjectSpec => []NeverBreaksPrimaryKey
<1>1. IInv => NeverBreaksPrimaryKey
  BY DEF IInv
<1> QED
  BY <1>1, InitIInv, NextIInv, PTL DEF ObjectSpec

(* The empty tables are the empty archive. *)
LEMMA InitRefines == ObjectInit => ObjectArchive!Init
  BY EmptyCellFacts DEF ObjectInit, ObjectArchive!Init, Mark

(* Every request appends to the archive, marks objects of it, or nothing. *)
LEMMA StepRefines ==
    IInv /\ [ObjectNext]_objectVars => [ObjectArchive!Record]_(ObjectArchive!vars)
<1> SUFFICES ASSUME IInv, [ObjectNext]_objectVars
             PROVE  [ObjectArchive!Record]_(ObjectArchive!vars)
  OBVIOUS
<1>1. CASE StoreStep
  <2>1. \A o \in Object : CellStep(objects[o], objects'[o])
    BY <1>1 DEF StoreStep
  <2>2. \A o \in Object : ObjectArchive!Grows(History(objects[o]), History(objects'[o]))
    BY <2>1 DEF CellStep
  <2>3. \A o \in Object :
            Mark(objects'[o]) = Mark(objects[o]) \/ (Mark(objects'[o]) \in Nat /\ History(objects[o]) # {})
    BY <2>1 DEF CellStep
  <2> QED
    BY <2>2, <2>3 DEF ObjectArchive!Record, ObjectArchive!MarkStep
<1>2. CASE UNCHANGED objectVars
  BY <1>2 DEF objectVars, ObjectArchive!vars
<1> QED
  BY <1>1, <1>2, NextIsStep

(* The two tables and the request handler implement the append-only        *)
(* archive: no request, failing or not, loses or rewrites a snapshot.      *)
THEOREM Refinement == ObjectSpec => ObjectsImplementArchive
<1>1. ObjectSpec => ObjectArchive!Init /\ [][ObjectArchive!Record]_(ObjectArchive!vars)
  BY InitIInv, NextIInv, InitRefines, StepRefines, PTL DEF ObjectSpec
<1> QED
  BY <1>1 DEF ObjectsImplementArchive, ObjectArchive!Spec
=============================================================================
