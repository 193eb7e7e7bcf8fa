-------------------------- MODULE ChannelSyncs_proofs --------------------------
(* ChannelSyncs keeps its lists of operations in step with the permissions *)
(* it caches: for every set of channels, threads, roles and overwrites and *)
(* however many changes there are.                                         *)
EXTENDS ChannelSyncs, FiniteSetTheorems, SequenceTheorems, WellFoundedInduction, TLAPS

-----------------------------------------------------------------------------
(* The inductive invariant. *)
\* The operations and their maps, by their shape.
Map == UNION {[items -> Nat] : items \in SUBSET Item}
Syncs == [ops: Seq(Operation), maps: Seq(Map), ongoing: [Kind -> [Channel -> Nat \cup {Null}]]]

Going(s, n, k, c) ==
    /\ n \in 1..Len(s.ops)
    /\ s.ops[n].kind = k /\ s.ops[n].channel = c /\ s.ops[n].state # "ended"

\* What the operations and the maps know of each other.
OpSound(s, n) ==
    /\ s.ops[n].map \in 1..Len(s.ops) \cup {Null}
    /\ s.ops[n].kind \in Messages /\ s.ops[n].state # "ended" => s.ops[n].map # Null
    /\ s.ops[n].item \in Channel => s.ops[n].item = s.ops[n].channel
    /\ \A i \in DOMAIN s.maps[n] :
        s.maps[n][i] \in 1..Len(s.ops) /\ s.ops[s.maps[n][i]].item = i

\* An entry of the account's maps: an enumeration that goes on, or a map that
\* was made for this channel, with downloads that go on and know it.
EntrySound(s, k, c, m) ==
    /\ k \in Lists => Going(s, m, k, c)
    /\ k \in Messages =>
        /\ m \in 1..Len(s.ops) /\ s.ops[m].kind = k /\ s.ops[m].channel = c
        /\ \A i \in DOMAIN s.maps[m] :
            Going(s, s.maps[m][i], k, c) /\ s.ops[s.maps[m][i]].map = m

SyncsSound(s) ==
    /\ s \in Syncs /\ Len(s.maps) = Len(s.ops)
    /\ \A n \in 1..Len(s.ops) : OpSound(s, n)
    /\ \A k \in Kind, c \in Channel :
        s.ongoing[k][c] # Null => EntrySound(s, k, c, s.ongoing[k][c])

\* The downloads found under the channel are aborted; one that is not was
\* started when the permission was gained for this time.
AllAborted(s, c) == \A n \in Registered(s, "messages", c) : s.ops[n].aborted

SyncedSince(s, c, gain) ==
    \E n \in 1..Len(s.ops) :
        /\ s.ops[n].item = c /\ s.ops[n].kind = "messages"
        /\ ~s.ops[n].aborted /\ s.ops[n].gain = gain

\* What may happen to the operations of these channels only, and what lets
\* the download of every channel go on.
Outside(s, r, channels) ==
    /\ \A d \in Channel \ channels :
        /\ AllAborted(s, d) => AllAborted(r, d)
        /\ \A gain \in Nat : SyncedSince(s, d, gain) => SyncedSince(r, d, gain)
    /\ \A n \in 1..Len(r.ops) :
        \/ r.ops[n].channel \in channels
        \/ n \in 1..Len(s.ops) /\ r.ops[n].channel = s.ops[n].channel

StillSynced(s, r) ==
    \A d \in Channel, gain \in Nat : SyncedSince(s, d, gain) => SyncedSince(r, d, gain)

-----------------------------------------------------------------------------
WorldSound(w) == w \in World /\ \A r \in w.roles \cup {Everyone} : w.permissions[r] # Null

EventSound(e) ==
    /\ e \in EventOf /\ WorldSound(e.world)
    /\ e.type \in {"CHANNEL_CREATE", "CHANNEL_UPDATE"} =>
        e.subject \in Channel /\ e.world.overwrites[e.subject] # Null
    /\ e.type \in {"CHANNEL_DELETE", "THREAD_LIST_SYNC"} => e.subject \in Channel
    /\ e.type \in {"GUILD_ROLE_CREATE", "GUILD_ROLE_UPDATE", "GUILD_ROLE_DELETE"} =>
        e.subject \in Role \cup {Everyone}

WorldInv ==
    /\ WorldSound(world) /\ gone \subseteq Channel \cup Role /\ changes \in 0..MaxChanges
    /\ events \in Seq(EventOf)
    /\ \A k \in 1..Len(events) : EventSound(events[k])

CacheInv ==
    /\ cache \in [Channel -> CachedChannel \cup {Null}]
    /\ account \in CachedAccount \cup {Null}
    /\ allReady \in BOOLEAN
    /\ process \in {"up", "stopped", "dead"}
    /\ gained \in [Channel -> Nat]
    /\ account = Null =>
        /\ \A c \in Channel : cache[c] = Null
        /\ events # <<>> /\ Head(events).type = "GUILD_CREATE"

\* A channel that there never was is not known of, and one is not known of
\* before it is said to have been created.
NewsOf(k, c) == events[k].type = "CHANNEL_CREATE" /\ events[k].subject = c

CreatedOnce ==
    \A c \in Channel :
        /\ world.overwrites[c] = Null /\ c \notin gone =>
            cache[c] = Null /\ \A k \in 1..Len(events) : events[k].world.overwrites[c] = Null
        /\ \A k \in 1..Len(events) : NewsOf(k, c) =>
            /\ cache[c] = Null
            /\ \A j \in 1..k - 1 :
                /\ ~NewsOf(j, c)
                /\ account = Null /\ events[j].type = "GUILD_CREATE" =>
                    events[j].world.overwrites[c] = Null

SyncsInv ==
    /\ SyncsSound(syncs) /\ Len(syncs.ops) <= MaxOps
    /\ \A n \in 1..Len(syncs.ops) : cache[syncs.ops[n].channel] # Null

ReadInv ==
    process = "up" => \A c \in Known :
        /\ cache[c].read \/ AllAborted(syncs, c)
        /\ allReady /\ cache[c].read => SyncedSince(syncs, c, gained[c])

CInv == WorldInv /\ CacheInv /\ CreatedOnce /\ SyncsInv /\ ReadInv

-----------------------------------------------------------------------------
(* Numbers and finite sets. *)
(* A set of numbers that is not empty has a least element.                 *)
LEMMA LeastNumber ==
    ASSUME NEW S \in SUBSET Nat, S # {}
    PROVE  \E x \in S : \A y \in S : x <= y
<1>1. PICK x \in S : \A y \in S : <<y, x>> \notin OpToRel(<, Nat)
  BY NatLessThanWellFounded, WFMin
<1>2. \A y \in S : ~(y < x)
  BY <1>1 DEF OpToRel
<1> QED BY <1>2

(* A family of subsets that has the empty one, and has a set once it has   *)
(* the set less any one element, has every finite set: the least           *)
(* counterexample would be of one that is less.                            *)
LEMMA SetInduction ==
    ASSUME NEW S, IsFiniteSet(S), NEW Good, {} \in Good,
           \A T \in SUBSET S : T # {} /\ (\A x \in T : T \ {x} \in Good) => T \in Good
    PROVE  S \in Good
<1> SUFFICES ASSUME S \notin Good PROVE FALSE
  OBVIOUS
<1> DEFINE Bad == {T \in SUBSET S : T \notin Good}
           sizes == {n \in Nat : \E T \in Bad : Cardinality(T) = n}
<1>1. \A T \in SUBSET S : IsFiniteSet(T) /\ Cardinality(T) \in Nat
  BY FS_Subset, FS_CardinalityType
<1>2. Cardinality(S) \in sizes
  BY <1>1
<1>3. PICK n \in sizes : \A m \in sizes : n <= m
  <2> HIDE DEF sizes
  <2>1. sizes \in SUBSET Nat /\ sizes # {}
    BY <1>2 DEF sizes
  <2> QED BY <2>1, LeastNumber
<1>4. PICK T \in Bad : Cardinality(T) = n
  BY <1>3
<1>5. ASSUME NEW x \in T PROVE T \ {x} \in Good
  <2>1. T \ {x} \in SUBSET S /\ Cardinality(T \ {x}) = n - 1
    BY <1>1, <1>4, FS_RemoveElement
  <2>2. Cardinality(T \ {x}) \in Nat
    BY <1>1, <2>1
  <2>3. n \in Nat
    BY <1>3
  <2>4. Cardinality(T \ {x}) \notin sizes
    <3> HIDE DEF sizes
    <3>1. ~(n <= n - 1)
      BY <2>3
    <3> QED BY <1>3, <2>1, <3>1
  <2> QED BY <2>1, <2>2, <2>4
<1> QED BY <1>4, <1>5

(* Step is a fold's: its function of the subsets exists.                   *)
Folding(g, S, base, Step) ==
    \A T \in SUBSET S :
        g[T] = IF T = {} THEN base
               ELSE LET x == CHOOSE x \in T : TRUE IN Step[x][g[T \ {x}]]

LEMMA FoldingExists ==
    ASSUME NEW S, IsFiniteSet(S), NEW V, NEW base \in V, NEW Step \in [S -> [V -> V]]
    PROVE  \E g \in [SUBSET S -> V] : Folding(g, S, base, Step)
<1> DEFINE Sub(n) == {T \in SUBSET S : Cardinality(T) <= n}
           Chosen(T) == CHOOSE x \in T : TRUE
           Good(n) == \E g \in [Sub(n) -> V] : \A T \in Sub(n) :
                          g[T] = IF T = {} THEN base ELSE Step[Chosen(T)][g[T \ {Chosen(T)}]]
           bad == {n \in Nat : ~Good(n)}
<1>1. \A T \in SUBSET S : IsFiniteSet(T) /\ Cardinality(T) \in Nat
  BY FS_Subset, FS_CardinalityType
<1>2. \A T \in SUBSET S : T # {} =>
        /\ Chosen(T) \in T /\ Chosen(T) \in S /\ T \ {Chosen(T)} \in SUBSET S
        /\ Cardinality(T \ {Chosen(T)}) = Cardinality(T) - 1
  BY <1>1, FS_RemoveElement
<1>3. Good(0)
  <2> DEFINE g == [T \in Sub(0) |-> base]
  <2>1. \A T \in Sub(0) : T = {}
    BY <1>1, FS_EmptySet
  <2>2. g \in [Sub(0) -> V]
    OBVIOUS
  <2>3. \A T \in Sub(0) :
            g[T] = IF T = {} THEN base ELSE Step[Chosen(T)][g[T \ {Chosen(T)}]]
    <3> HIDE DEF Sub
    <3> QED BY <2>1
  <2> HIDE DEF g
  <2> QED BY <2>2, <2>3
<1>4. ASSUME NEW n \in Nat, Good(n) PROVE Good(n + 1)
  <2>1. PICK g \in [Sub(n) -> V] : \A T \in Sub(n) :
            g[T] = IF T = {} THEN base ELSE Step[Chosen(T)][g[T \ {Chosen(T)}]]
    BY <1>4
  <2> DEFINE h == [T \in Sub(n + 1) |->
                    IF T = {} THEN base ELSE Step[Chosen(T)][g[T \ {Chosen(T)}]]]
  <2>2. \A T \in Sub(n + 1) : T # {} =>
            /\ T \ {Chosen(T)} \in Sub(n) /\ T \ {Chosen(T)} \in Sub(n + 1)
            /\ Chosen(T) \in S
    BY <1>1, <1>2
  <2>3. \A T \in Sub(n) : h[T] = g[T]
    BY <1>1, <2>1
  <2>4. h \in [Sub(n + 1) -> V]
    <3>1. \A T \in Sub(n + 1) : T # {} => Step[Chosen(T)][g[T \ {Chosen(T)}]] \in V
      <4> HIDE DEF Sub, Chosen
      <4> QED BY <2>2
    <3> QED BY <3>1
  <2>5. \A T \in Sub(n + 1) :
            h[T] = IF T = {} THEN base ELSE Step[Chosen(T)][h[T \ {Chosen(T)}]]
    <3> HIDE DEF Sub, Chosen
    <3> QED BY <2>2, <2>3
  <2> QED
    <3> HIDE DEF h
    <3> QED BY <2>4, <2>5
<1>5. Good(Cardinality(S))
  <2> SUFFICES ASSUME ~Good(Cardinality(S)) PROVE FALSE
    OBVIOUS
  <2> HIDE DEF Good
  <2>1. bad \in SUBSET Nat /\ bad # {}
    BY <1>1
  <2>2. PICK n \in bad : \A m \in bad : n <= m
    <3> HIDE DEF bad
    <3> QED BY <2>1, LeastNumber
  <2>3. n \in Nat /\ ~Good(n)
    BY <2>2
  <2>4. n # 0
    BY <1>3, <2>3
  <2>5. n - 1 \in Nat /\ n - 1 \notin bad
    BY <2>2, <2>3, <2>4
  <2>6. Good(n - 1)
    BY <2>5
  <2>7. Good(n - 1 + 1)
    BY <1>4, <2>5, <2>6
  <2>8. n - 1 + 1 = n
    BY <2>3
  <2> QED BY <2>3, <2>7, <2>8
<1>6. \A T \in SUBSET S : Cardinality(T) <= Cardinality(S)
  BY FS_Subset
<1>7. Sub(Cardinality(S)) = SUBSET S
  BY <1>6
<1>8. \E g \in [SUBSET S -> V] : \A T \in SUBSET S :
        g[T] = IF T = {} THEN base ELSE Step[Chosen(T)][g[T \ {Chosen(T)}]]
  BY <1>5, <1>7
<1> QED BY <1>8 DEF Folding

-----------------------------------------------------------------------------
(* The operations and their maps. *)
LEMMA MayReadIsBoolean ==
    ASSUME NEW w, NEW c
    PROVE  MayRead(w, c) \in BOOLEAN
BY DEF MayRead

(* What is registered under a channel belongs to it.                       *)
LEMMA RegisteredBelongs ==
    ASSUME NEW s, SyncsSound(s), NEW k \in Kind, NEW c \in Channel,
           NEW n \in Registered(s, k, c)
    PROVE  Going(s, n, k, c)
<1>1. s.ongoing[k][c] # Null
  BY DEF Registered
<1>2. EntrySound(s, k, c, s.ongoing[k][c])
  BY <1>1 DEF SyncsSound
<1>3. CASE k \in Lists
  BY <1>1, <1>2, <1>3 DEF Registered, EntrySound
<1>4. CASE k \notin Lists
  <2>1. k \in Messages
    BY <1>4 DEF Kind
  <2>2. PICK i \in DOMAIN s.maps[s.ongoing[k][c]] : n = s.maps[s.ongoing[k][c]][i]
    BY <1>1, <1>4 DEF Registered
  <2> QED BY <1>2, <2>1, <2>2 DEF EntrySound
<1> QED BY <1>3, <1>4

(* The map found under a channel was made for it.                          *)
LEMMA MapIsOfChannel ==
    ASSUME NEW s, SyncsSound(s), NEW k \in Messages, NEW c \in Channel, NEW m,
           m = s.ongoing[k][c], m # Null
    PROVE  m \in 1..Len(s.ops) /\ s.ops[m].kind = k /\ s.ops[m].channel = c
<1>1. k \in Kind
  BY DEF Kind
<1>2. EntrySound(s, k, c, m)
  BY <1>1 DEF SyncsSound
<1> QED BY <1>2 DEF EntrySound

(* A channel none of whose operations were started has nothing registered. *)
LEMMA NothingRegistered ==
    ASSUME NEW s, SyncsSound(s), NEW c \in Channel,
           \A n \in 1..Len(s.ops) : s.ops[n].channel # c
    PROVE  AllAborted(s, c)
BY RegisteredBelongs DEF AllAborted, Going, Kind, Messages

(* Operations that change otherwise than in kind, channel, item or map, and *)
(* do not end, leave what the maps know of them sound.                     *)
LEMMA ChangedOps ==
    ASSUME NEW s, SyncsSound(s), NEW ops \in Seq(Operation), Len(ops) = Len(s.ops),
           \A n \in 1..Len(s.ops) :
               /\ ops[n].kind = s.ops[n].kind /\ ops[n].channel = s.ops[n].channel
               /\ ops[n].item = s.ops[n].item /\ ops[n].map = s.ops[n].map
               /\ ops[n].state = "ended" <=> s.ops[n].state = "ended"
    PROVE  /\ SyncsSound([s EXCEPT !.ops = ops])
           /\ \A k \in Kind, c \in Channel :
               Registered([s EXCEPT !.ops = ops], k, c) = Registered(s, k, c)
<1> DEFINE r == [s EXCEPT !.ops = ops]
<1>1. r \in Syncs /\ r.ops = ops /\ r.maps = s.maps /\ r.ongoing = s.ongoing
  BY DEF SyncsSound, Syncs
<1> HIDE DEF r
<1>2. \A n, k, c : Going(s, n, k, c) => Going(r, n, k, c)
  BY <1>1 DEF Going
<1>3. \A n \in 1..Len(r.ops) : OpSound(r, n)
  BY <1>1 DEF SyncsSound, OpSound
<1>4. ASSUME NEW k \in Kind, NEW c \in Channel, r.ongoing[k][c] # Null
      PROVE  EntrySound(r, k, c, r.ongoing[k][c])
  <2>1. EntrySound(s, k, c, s.ongoing[k][c])
    BY <1>1, <1>4 DEF SyncsSound
  <2>2. CASE k \in Lists
    BY <1>1, <1>2, <2>1, <2>2 DEF EntrySound, Lists, Messages
  <2>3. CASE k \in Messages
    <3> DEFINE m == s.ongoing[k][c]
    <3>1. /\ m \in 1..Len(s.ops) /\ s.ops[m].kind = k /\ s.ops[m].channel = c
          /\ \A i \in DOMAIN s.maps[m] :
              Going(s, s.maps[m][i], k, c) /\ s.ops[s.maps[m][i]].map = m
      BY <2>1, <2>3 DEF EntrySound
    <3>2. \A i \in DOMAIN s.maps[m] : s.maps[m][i] \in 1..Len(s.ops)
      BY <3>1 DEF Going
    <3>3. k \notin Lists
      BY <2>3 DEF Lists, Messages
    <3>4. r.ongoing[k][c] = m /\ m \in 1..Len(r.ops)
      BY <1>1, <3>1
    <3>5. r.ops[m].kind = k /\ r.ops[m].channel = c
      BY <1>1, <3>1
    <3>6. \A i \in DOMAIN r.maps[m] :
            Going(r, r.maps[m][i], k, c) /\ r.ops[r.maps[m][i]].map = m
      <4> SUFFICES ASSUME NEW i \in DOMAIN s.maps[m]
                   PROVE  Going(r, s.maps[m][i], k, c) /\ r.ops[s.maps[m][i]].map = m
        BY <1>1
      <4> HIDE DEF m
      <4>1. s.maps[m][i] \in 1..Len(s.ops)
        BY <3>2
      <4>2. Going(s, s.maps[m][i], k, c) /\ s.ops[s.maps[m][i]].map = m
        BY <3>1
      <4> QED BY <1>1, <1>2, <4>1, <4>2
    <3> HIDE DEF m
    <3> QED BY <3>3, <3>4, <3>5, <3>6 DEF EntrySound
  <2> QED BY <2>2, <2>3 DEF Kind
<1>5. SyncsSound(r)
  BY <1>1, <1>3, <1>4 DEF SyncsSound
<1>6. \A k \in Kind, c \in Channel : Registered(r, k, c) = Registered(s, k, c)
  BY <1>1 DEF Registered
<1> QED BY <1>5, <1>6 DEF r

(* A new operation leaves what there is to be known of the others.         *)
LEMMA NewOperation ==
    ASSUME NEW s, SyncsSound(s), NEW op \in Operation, NEW r \in Syncs,
           r.ops = Append(s.ops, op)
    PROVE  /\ Len(r.ops) = Len(s.ops) + 1 /\ Len(s.ops) \in Nat
           /\ r.ops[Len(s.ops) + 1] = op
           /\ \A n \in 1..Len(s.ops) : r.ops[n] = s.ops[n] /\ n \in 1..Len(r.ops)
           /\ \A n, k, c : Going(s, n, k, c) => Going(r, n, k, c)
           /\ StillSynced(s, r)
           /\ \A n \in 1..Len(r.ops) : n \notin 1..Len(s.ops) => n = Len(s.ops) + 1
<1>1. s.ops \in Seq(Operation)
  BY DEF SyncsSound, Syncs
<1>2. /\ Len(r.ops) = Len(s.ops) + 1 /\ Len(s.ops) \in Nat
      /\ r.ops[Len(s.ops) + 1] = op
      /\ \A n \in 1..Len(s.ops) : r.ops[n] = s.ops[n] /\ n \in 1..Len(r.ops)
      /\ \A n \in 1..Len(r.ops) : n \notin 1..Len(s.ops) => n = Len(s.ops) + 1
  BY <1>1
<1>3. \A n, k, c : Going(s, n, k, c) => Going(r, n, k, c)
  BY <1>2 DEF Going
<1>4. StillSynced(s, r)
  <2> SUFFICES ASSUME NEW d \in Channel, NEW gain \in Nat, SyncedSince(s, d, gain)
               PROVE  SyncedSince(r, d, gain)
    BY DEF StillSynced
  <2>1. PICK n \in 1..Len(s.ops) :
            /\ s.ops[n].item = d /\ s.ops[n].kind = "messages"
            /\ ~s.ops[n].aborted /\ s.ops[n].gain = gain
    BY DEF SyncedSince
  <2>2. r.ops[n] = s.ops[n] /\ n \in 1..Len(r.ops)
    BY <1>2
  <2> QED BY <2>1, <2>2 DEF SyncedSince
<1> QED BY <1>2, <1>3, <1>4

(* An enumeration is found as the account's map says, and the downloads    *)
(* are as they were.                                                       *)
LEMMA StartListSound ==
    ASSUME NEW s, SyncsSound(s), NEW kind \in Lists, NEW c \in Channel, world \in World
    PROVE  LET r == StartList(s, kind, c)
           IN /\ SyncsSound(r) /\ StillSynced(s, r) /\ Outside(s, r, {c})
              /\ AllAborted(s, c) => AllAborted(r, c)
<1> DEFINE r == StartList(s, kind, c)
           n == Len(s.ops) + 1
           op == Op(kind, c, c, Null, Listed(kind, c), 0)
<1>1. /\ op \in Operation
      /\ op.kind = kind /\ op.channel = c /\ op.item = c /\ op.map = Null
      /\ op.state = "running" /\ ~op.aborted /\ op.gain = 0
  <2>1. Listed(kind, c) \in SUBSET Thread
    BY DEF Listed, World
  <2>2. kind \in Kind /\ c \in Item
    BY DEF Kind, Item
  <2>3. op = Op(kind, c, c, Null, Listed(kind, c), 0)
    OBVIOUS
  <2> HIDE DEF op
  <2>4. MayRead(world, c) \in BOOLEAN
    BY MayReadIsBoolean
  <2> QED BY <2>1, <2>2, <2>3, <2>4 DEF Op, Operation
<1>2. /\ s.ops \in Seq(Operation) /\ s.maps \in Seq(Map) /\ Len(s.maps) = Len(s.ops)
      /\ s.ongoing \in [Kind -> [Channel -> Nat \cup {Null}]] /\ Len(s.ops) \in Nat
  BY DEF SyncsSound, Syncs
<1>3. EmptyMap \in Map /\ DOMAIN EmptyMap = {}
  BY DEF EmptyMap, Map
<1>4. /\ r.ops = Append(s.ops, op) /\ r.maps = Append(s.maps, EmptyMap)
      /\ r.ongoing = [s.ongoing EXCEPT ![kind][c] = n]
  BY DEF StartList
<1>5. r \in Syncs
  <2>1. r.ops \in Seq(Operation) /\ r.maps \in Seq(Map)
    BY <1>1, <1>2, <1>3, <1>4
  <2>2. r.ongoing \in [Kind -> [Channel -> Nat \cup {Null}]]
    <3>1. n \in Nat \cup {Null} /\ kind \in Kind
      BY <1>2 DEF Kind
    <3> QED BY <1>2, <1>4, <3>1
  <2>3. r = [ops |-> r.ops, maps |-> r.maps, ongoing |-> r.ongoing]
    BY DEF StartList
  <2> HIDE DEF r
  <2> QED BY <2>1, <2>2, <2>3 DEF Syncs
<1> HIDE DEF r, op
<1>6. /\ Len(r.ops) = n /\ r.ops[n] = op
      /\ \A m \in 1..Len(s.ops) : r.ops[m] = s.ops[m] /\ m \in 1..Len(r.ops)
      /\ \A m, k, d : Going(s, m, k, d) => Going(r, m, k, d)
      /\ StillSynced(s, r)
      /\ \A m \in 1..Len(r.ops) : m \notin 1..Len(s.ops) => m = n
  BY <1>1, <1>4, <1>5, NewOperation
<1>7. /\ Len(r.maps) = n /\ r.maps[n] = EmptyMap
      /\ \A m \in 1..Len(s.ops) : r.maps[m] = s.maps[m]
  BY <1>2, <1>4
<1>8. \A m \in 1..Len(r.ops) : OpSound(r, m)
  <2> SUFFICES ASSUME NEW m \in 1..Len(r.ops) PROVE OpSound(r, m)
    OBVIOUS
  <2>1. CASE m = n
    <3>1. r.ops[m] = op /\ DOMAIN r.maps[m] = {}
      BY <1>3, <1>6, <1>7, <2>1
    <3>2. op.kind \notin Messages
      BY <1>1 DEF Lists, Messages
    <3> QED BY <1>1, <3>1, <3>2 DEF OpSound
  <2>2. CASE m # n
    <3>1. m \in 1..Len(s.ops) /\ r.ops[m] = s.ops[m] /\ r.maps[m] = s.maps[m]
      BY <1>6, <1>7, <2>2
    <3>2. OpSound(s, m)
      BY <3>1 DEF SyncsSound
    <3>3. \A i \in DOMAIN r.maps[m] :
            r.maps[m][i] \in 1..Len(r.ops) /\ r.ops[r.maps[m][i]].item = i
      BY <1>6, <3>1, <3>2 DEF OpSound
    <3>4. r.ops[m].map \in 1..Len(r.ops) \cup {Null}
      BY <1>6, <3>1, <3>2 DEF OpSound
    <3> QED BY <3>1, <3>2, <3>3, <3>4 DEF OpSound
  <2> QED BY <2>1, <2>2
<1>9. ASSUME NEW k \in Kind, NEW d \in Channel, r.ongoing[k][d] # Null
      PROVE  EntrySound(r, k, d, r.ongoing[k][d])
  <2>1. CASE k = kind /\ d = c
    <3>1. r.ongoing[k][d] = n
      BY <1>2, <1>4, <2>1
    <3>2. Going(r, n, k, d)
      BY <1>1, <1>2, <1>6, <2>1 DEF Going
    <3>3. k \notin Messages
      BY <2>1 DEF Lists, Messages
    <3> QED BY <3>1, <3>2, <3>3 DEF EntrySound
  <2>2. CASE ~(k = kind /\ d = c)
    <3>1. r.ongoing[k][d] = s.ongoing[k][d]
      BY <1>2, <1>4, <2>2
    <3>2. EntrySound(s, k, d, s.ongoing[k][d])
      BY <1>9, <3>1 DEF SyncsSound
    <3>3. CASE k \in Lists
      <4>1. k \notin Messages
        BY <3>3 DEF Lists, Messages
      <4> QED BY <1>6, <3>1, <3>2, <3>3, <4>1 DEF EntrySound
    <3>4. CASE k \in Messages
      <4> DEFINE e == s.ongoing[k][d]
      <4>1. /\ e \in 1..Len(s.ops) /\ s.ops[e].kind = k /\ s.ops[e].channel = d
            /\ \A i \in DOMAIN s.maps[e] :
                Going(s, s.maps[e][i], k, d) /\ s.ops[s.maps[e][i]].map = e
        BY <3>2, <3>4 DEF EntrySound
      <4> HIDE DEF e
      <4>2. r.maps[e] = s.maps[e] /\ r.ops[e] = s.ops[e] /\ e \in 1..Len(r.ops)
        BY <1>6, <1>7, <4>1
      <4>3. \A i \in DOMAIN s.maps[e] : s.maps[e][i] \in 1..Len(s.ops)
        BY <4>1 DEF Going
      <4>4. \A i \in DOMAIN r.maps[e] :
                Going(r, r.maps[e][i], k, d) /\ r.ops[r.maps[e][i]].map = e
        BY <1>6, <4>1, <4>2, <4>3
      <4>5. k \notin Lists
        BY <3>4 DEF Lists, Messages
      <4>6. r.ongoing[k][d] = e
        BY <3>1 DEF e
      <4> QED BY <4>1, <4>2, <4>4, <4>5, <4>6 DEF EntrySound
    <3> QED BY <3>3, <3>4 DEF Kind
  <2> QED BY <2>1, <2>2
<1>10. SyncsSound(r)
  BY <1>2, <1>5, <1>6, <1>7, <1>8, <1>9 DEF SyncsSound
<1>11. ASSUME NEW d \in Channel PROVE AllAborted(s, d) => AllAborted(r, d)
  <2>1. "messages" # kind /\ "messages" \in Kind /\ "messages" \notin Lists
    BY DEF Lists, Kind, Messages
  <2>2. r.ongoing["messages"][d] = s.ongoing["messages"][d]
    BY <1>2, <1>4, <2>1
  <2>3. CASE s.ongoing["messages"][d] = Null
    BY <2>2, <2>3 DEF AllAborted, Registered
  <2>4. CASE s.ongoing["messages"][d] # Null
    <3>1. s.ongoing["messages"][d] \in 1..Len(s.ops)
      BY <2>4 DEF SyncsSound, EntrySound, Kind, Messages
    <3>2. Registered(r, "messages", d) = Registered(s, "messages", d)
      <4> DEFINE e == s.ongoing["messages"][d]
      <4>1. r.maps[e] = s.maps[e] /\ r.ongoing["messages"][d] = e /\ e # Null
        BY <1>7, <2>2, <2>4, <3>1
      <4> HIDE DEF e
      <4> QED BY <2>1, <4>1 DEF Registered, e
    <3>3. \A m \in Registered(s, "messages", d) : m \in 1..Len(s.ops)
      BY <2>1, RegisteredBelongs DEF Going
    <3> QED BY <1>6, <3>2, <3>3 DEF AllAborted
  <2> QED BY <2>3, <2>4
<1>12. Outside(s, r, {c})
  <2>1. \A m \in 1..Len(r.ops) :
            \/ r.ops[m].channel \in {c}
            \/ m \in 1..Len(s.ops) /\ r.ops[m].channel = s.ops[m].channel
    BY <1>1, <1>6
  <2> QED BY <1>6, <1>11, <2>1 DEF Outside, StillSynced
<1> QED BY <1>6, <1>10, <1>11, <1>12 DEF r

(* A download is found in a map of its channel, which is the account's.    *)
LEMMA StartMessagesSound ==
    ASSUME NEW s, SyncsSound(s), NEW c \in Channel, NEW item \in Thread \cup {c},
           NEW gain \in Nat
    PROVE  LET r == StartMessages(s, c, item, gain)
           IN /\ SyncsSound(r) /\ StillSynced(s, r) /\ Outside(s, r, {c})
              /\ item = c => SyncedSince(r, c, gain)
<1> DEFINE r == StartMessages(s, c, item, gain)
           n == Len(s.ops) + 1
           kind == IF item \in Private THEN "privateMessages" ELSE "messages"
           k == IF s.ongoing[kind][c] = Null THEN n ELSE s.ongoing[kind][c]
           op == Op(kind, c, item, k, {}, gain)
           With(map) == [i \in DOMAIN map \cup {item} |-> IF i = item THEN n ELSE map[i]]
           old == Append(s.maps, EmptyMap)
<1>1. /\ s.ops \in Seq(Operation) /\ s.maps \in Seq(Map) /\ Len(s.maps) = Len(s.ops)
      /\ s.ongoing \in [Kind -> [Channel -> Nat \cup {Null}]] /\ Len(s.ops) \in Nat
  BY DEF SyncsSound, Syncs
<1>2. kind \in Messages /\ kind \in Kind /\ kind \notin Lists /\ item \in Item
  BY DEF Messages, Kind, Lists, Item
<1>3. k \in 1..n
  <2>1. CASE s.ongoing[kind][c] # Null
    <3>1. k = s.ongoing[kind][c]
      BY <2>1
    <3> HIDE DEF k, kind
    <3>2. k \in 1..Len(s.ops)
      BY <1>2, <2>1, <3>1, MapIsOfChannel
    <3> QED BY <1>1, <3>2
  <2> QED BY <1>1, <2>1
<1>4. /\ op \in Operation
      /\ op.kind = kind /\ op.channel = c /\ op.item = item /\ op.map = k
      /\ op.state = "running" /\ ~op.aborted /\ op.gain = gain
  <2>1. op = Op(kind, c, item, k, {}, gain)
    OBVIOUS
  <2>2. k \in Nat /\ MayRead(world, c) \in BOOLEAN
    BY <1>1, <1>3, MayReadIsBoolean
  <2> HIDE DEF op, k, kind
  <2> QED BY <1>2, <2>1, <2>2 DEF Op, Operation
<1>5. /\ r.ops = Append(s.ops, op) /\ r.maps = [old EXCEPT ![k] = With(@)]
      /\ r.ongoing = [s.ongoing EXCEPT ![kind][c] = k]
      /\ r = [ops |-> r.ops, maps |-> r.maps, ongoing |-> r.ongoing]
  BY DEF StartMessages
<1> HIDE DEF r, op, k, kind
<1>6. EmptyMap \in Map /\ DOMAIN EmptyMap = {}
  BY DEF EmptyMap, Map
<1>7. /\ old \in Seq(Map) /\ Len(old) = n /\ old[n] = EmptyMap
      /\ \A m \in 1..Len(s.ops) : old[m] = s.maps[m]
  BY <1>1, <1>6
<1>8. With(old[k]) \in Map
  <2>1. old[k] \in Map
    BY <1>3, <1>7
  <2>2. PICK items \in SUBSET Item : old[k] \in [items -> Nat]
    BY <2>1 DEF Map
  <2>3. With(old[k]) \in [items \cup {item} -> Nat]
    <3> HIDE DEF old
    <3>1. DOMAIN old[k] = items /\ n \in Nat
      BY <1>1, <2>2
    <3>2. \A i \in items \cup {item} : (IF i = item THEN n ELSE old[k][i]) \in Nat
      BY <2>2, <3>1
    <3> QED BY <3>1, <3>2
  <2>4. items \cup {item} \in SUBSET Item
    BY <1>2
  <2> HIDE DEF With
  <2> QED BY <2>3, <2>4 DEF Map
<1>9. /\ Len(r.maps) = n /\ r.maps \in Seq(Map) /\ r.maps[k] = With(old[k])
      /\ \A m \in 1..n : m # k => r.maps[m] = old[m]
  <2> HIDE DEF old, With
  <2> QED BY <1>1, <1>3, <1>5, <1>7, <1>8
<1>10. r \in Syncs
  <2>1. r.ops \in Seq(Operation)
    BY <1>1, <1>4, <1>5
  <2>2. k \in Nat
    BY <1>1, <1>3
  <2>3. r.ongoing \in [Kind -> [Channel -> Nat \cup {Null}]]
    BY <1>1, <1>2, <1>5, <2>2
  <2> QED BY <1>5, <1>9, <2>1, <2>3 DEF Syncs
<1>11. /\ Len(r.ops) = n /\ r.ops[n] = op
       /\ \A m \in 1..Len(s.ops) : r.ops[m] = s.ops[m] /\ m \in 1..Len(r.ops)
       /\ \A m, j, d : Going(s, m, j, d) => Going(r, m, j, d)
       /\ StillSynced(s, r)
       /\ \A m \in 1..Len(r.ops) : m \notin 1..Len(s.ops) => m = n
  <2>1. op \in Operation /\ r.ops = Append(s.ops, op)
    BY <1>4, <1>5
  <2> QED BY <1>10, <2>1, NewOperation
<1>12. /\ DOMAIN r.maps[k] = DOMAIN old[k] \cup {item} /\ r.maps[k][item] = n
       /\ \A i \in DOMAIN old[k] : i # item => r.maps[k][i] = old[k][i]
  BY <1>9
<1> HIDE DEF old, With
<1>13. \A m \in 1..Len(r.ops) : \A i \in DOMAIN r.maps[m] :
            /\ r.maps[m][i] \in 1..Len(r.ops) /\ r.ops[r.maps[m][i]].item = i
  <2> SUFFICES ASSUME NEW m \in 1..Len(r.ops), NEW i \in DOMAIN r.maps[m]
               PROVE  r.maps[m][i] \in 1..Len(r.ops) /\ r.ops[r.maps[m][i]].item = i
    OBVIOUS
  <2>1. CASE m = k /\ i = item
    <3>1. r.maps[m][i] = n /\ n \in 1..Len(r.ops)
      BY <1>1, <1>11, <1>12, <2>1
    <3> QED BY <1>4, <1>11, <2>1, <3>1
  <2>2. CASE ~(m = k /\ i = item)
    <3>1. i \in DOMAIN old[m] /\ r.maps[m][i] = old[m][i]
      BY <1>9, <1>11, <1>12, <2>2
    <3>2. m \in 1..Len(s.ops)
      BY <1>6, <1>7, <1>11, <3>1
    <3>3. s.maps[m][i] \in 1..Len(s.ops) /\ s.ops[s.maps[m][i]].item = i
      <4>1. OpSound(s, m) /\ i \in DOMAIN s.maps[m]
        BY <1>7, <3>1, <3>2 DEF SyncsSound
      <4> QED BY <4>1 DEF OpSound
    <3>4. r.maps[m][i] = s.maps[m][i]
      BY <1>7, <3>1, <3>2
    <3> QED BY <1>11, <3>3, <3>4
  <2> QED BY <2>1, <2>2
<1>14. \A m \in 1..Len(r.ops) : OpSound(r, m)
  <2> SUFFICES ASSUME NEW m \in 1..Len(r.ops) PROVE OpSound(r, m)
    OBVIOUS
  <2>1. CASE m = n
    <3>1. r.ops[m] = op /\ k \in 1..Len(r.ops) /\ k # Null
      BY <1>1, <1>3, <1>11, <2>1, SyncsAssumption
    <3>2. item \in Channel => item = c
      BY SyncsAssumption
    <3> QED BY <1>4, <1>13, <3>1, <3>2 DEF OpSound
  <2>2. CASE m # n
    <3>1. m \in 1..Len(s.ops) /\ r.ops[m] = s.ops[m]
      BY <1>11, <2>2
    <3>2. OpSound(s, m)
      BY <3>1 DEF SyncsSound
    <3> QED BY <1>11, <1>13, <3>1, <3>2 DEF OpSound
  <2> QED BY <2>1, <2>2
<1>15. ASSUME NEW j \in Kind, NEW d \in Channel, r.ongoing[j][d] # Null
       PROVE  EntrySound(r, j, d, r.ongoing[j][d])
  <2>1. CASE j = kind /\ d = c
    <3>1. r.ongoing[j][d] = k
      BY <1>1, <1>2, <1>5, <2>1
    <3>2. k \in 1..Len(r.ops)
      BY <1>3, <1>11
    <3>3. CASE s.ongoing[kind][c] = Null
      <4>1. k = n /\ r.ops[k] = op
        BY <1>11, <3>3 DEF k
      <4>2. DOMAIN old[k] = {}
        BY <1>6, <1>7, <4>1
      <4>3. \A i \in DOMAIN r.maps[k] : r.maps[k][i] = n
        BY <1>12, <4>2
      <4>4. Going(r, n, j, d) /\ r.ops[n].map = k
        BY <1>4, <1>11, <2>1, <3>2, <4>1 DEF Going
      <4> QED BY <1>2, <1>4, <2>1, <3>1, <3>2, <4>1, <4>3, <4>4 DEF EntrySound
    <3>4. CASE s.ongoing[kind][c] # Null
      <4>1. k = s.ongoing[kind][c]
        BY <3>4 DEF k
      <4>2. /\ k \in 1..Len(s.ops) /\ s.ops[k].kind = kind /\ s.ops[k].channel = c
            /\ \A i \in DOMAIN s.maps[k] :
                Going(s, s.maps[k][i], kind, c) /\ s.ops[s.maps[k][i]].map = k
        <5>1. EntrySound(s, kind, c, k)
          BY <1>2, <3>4, <4>1 DEF SyncsSound
        <5> QED BY <1>2, <5>1 DEF EntrySound
      <4>3. old[k] = s.maps[k] /\ r.ops[k] = s.ops[k]
        BY <1>7, <1>11, <4>2
      <4>4. Going(r, n, kind, c) /\ r.ops[n].map = k
        BY <1>1, <1>4, <1>11 DEF Going
      <4>5. \A i \in DOMAIN s.maps[k] : s.maps[k][i] \in 1..Len(s.ops)
        BY <4>2 DEF Going
      <4>6. \A i \in DOMAIN r.maps[k] :
                Going(r, r.maps[k][i], kind, c) /\ r.ops[r.maps[k][i]].map = k
        <5> SUFFICES ASSUME NEW i \in DOMAIN r.maps[k]
                     PROVE  Going(r, r.maps[k][i], kind, c) /\ r.ops[r.maps[k][i]].map = k
          OBVIOUS
        <5>1. CASE i = item
          BY <1>12, <4>4, <5>1
        <5>2. CASE i # item
          <6>1. i \in DOMAIN s.maps[k] /\ r.maps[k][i] = s.maps[k][i]
            BY <1>12, <4>3, <5>2
          <6>2. s.maps[k][i] \in 1..Len(s.ops)
            BY <4>5, <6>1
          <6> QED BY <1>11, <4>2, <6>1, <6>2
        <5> QED BY <5>1, <5>2
      <4> QED BY <1>2, <2>1, <3>1, <3>2, <4>2, <4>3, <4>6 DEF EntrySound
    <3> QED BY <3>3, <3>4
  <2>2. CASE ~(j = kind /\ d = c)
    <3> DEFINE e == s.ongoing[j][d]
    <3>1. r.ongoing[j][d] = e
      BY <1>1, <1>2, <1>5, <2>2
    <3>2. EntrySound(s, j, d, e) /\ e # Null
      BY <1>15, <3>1 DEF SyncsSound
    <3> HIDE DEF e
    <3>3. CASE j \in Lists
      <4>1. j \notin Messages
        BY <3>3 DEF Lists, Messages
      <4> QED BY <1>11, <3>1, <3>2, <3>3, <4>1 DEF EntrySound
    <3>4. CASE j \in Messages
      <4>1. /\ e \in 1..Len(s.ops) /\ s.ops[e].kind = j /\ s.ops[e].channel = d
            /\ \A i \in DOMAIN s.maps[e] :
                Going(s, s.maps[e][i], j, d) /\ s.ops[s.maps[e][i]].map = e
        BY <3>2, <3>4 DEF EntrySound
      <4>2. e # k
        <5>1. CASE s.ongoing[kind][c] = Null
          BY <1>1, <4>1, <5>1 DEF k
        <5>2. CASE s.ongoing[kind][c] # Null
          <6>1. k = s.ongoing[kind][c]
            BY <5>2 DEF k
          <6>2. s.ops[k].kind = kind /\ s.ops[k].channel = c
            BY <1>2, <5>2, <6>1, MapIsOfChannel
          <6> QED BY <2>2, <4>1, <6>2
        <5> QED BY <5>1, <5>2
      <4>3. r.maps[e] = s.maps[e] /\ r.ops[e] = s.ops[e] /\ e \in 1..Len(r.ops)
        BY <1>1, <1>7, <1>9, <1>11, <4>1, <4>2
      <4>4. \A i \in DOMAIN s.maps[e] : s.maps[e][i] \in 1..Len(s.ops)
        BY <4>1 DEF Going
      <4>5. \A i \in DOMAIN r.maps[e] :
                Going(r, r.maps[e][i], j, d) /\ r.ops[r.maps[e][i]].map = e
        BY <1>11, <4>1, <4>3, <4>4
      <4>6. j \notin Lists
        BY <3>4 DEF Lists, Messages
      <4> QED BY <3>1, <4>1, <4>3, <4>5, <4>6 DEF EntrySound
    <3> QED BY <3>3, <3>4 DEF Kind
  <2> QED BY <2>1, <2>2
<1>16. SyncsSound(r)
  BY <1>9, <1>10, <1>11, <1>14, <1>15 DEF SyncsSound
<1>17. ASSUME NEW d \in Channel, d # c, AllAborted(s, d) PROVE AllAborted(r, d)
  <2> SUFFICES ASSUME NEW m \in Registered(r, "messages", d) PROVE r.ops[m].aborted
    BY DEF AllAborted
  <2>1. "messages" \in Kind /\ "messages" \in Messages /\ "messages" \notin Lists
    BY DEF Lists, Kind, Messages
  <2> DEFINE e == s.ongoing["messages"][d]
  <2>2. r.ongoing["messages"][d] = e
    BY <1>1, <1>2, <1>5, <1>17, <2>1
  <2>3. e # Null
    BY <2>2 DEF Registered
  <2>4. /\ e \in 1..Len(s.ops) /\ s.ops[e].channel = d
    BY <2>1, <2>3, MapIsOfChannel
  <2>5. e # k
    <3>1. CASE s.ongoing[kind][c] = Null
      BY <1>1, <2>4, <3>1 DEF k
    <3>2. CASE s.ongoing[kind][c] # Null
      <4>1. k = s.ongoing[kind][c]
        BY <3>2 DEF k
      <4>2. s.ops[k].channel = c
        BY <1>2, <3>2, <4>1, MapIsOfChannel
      <4> QED BY <1>17, <2>4, <4>2
    <3> QED BY <3>1, <3>2
  <2>6. r.maps[e] = s.maps[e]
    <3> HIDE DEF e
    <3>1. e \in 1..n
      BY <1>1, <2>4
    <3> QED BY <1>7, <1>9, <2>4, <2>5, <3>1
  <2>7. m \in Registered(s, "messages", d)
    <3> HIDE DEF e
    <3> QED BY <2>1, <2>2, <2>3, <2>6 DEF Registered, e
  <2>8. m \in 1..Len(s.ops)
    BY <2>1, <2>7, RegisteredBelongs DEF Going
  <2> QED BY <1>11, <1>17, <2>7, <2>8 DEF AllAborted
<1>18. Outside(s, r, {c})
  <2>1. \A m \in 1..Len(r.ops) :
            \/ r.ops[m].channel \in {c}
            \/ m \in 1..Len(s.ops) /\ r.ops[m].channel = s.ops[m].channel
    BY <1>4, <1>11
  <2> QED BY <1>11, <1>17, <2>1 DEF Outside, StillSynced
<1>19. ASSUME item = c PROVE SyncedSince(r, c, gain)
  <2>1. kind = "messages"
    BY <1>19, SyncsAssumption DEF kind
  <2>2. n \in 1..Len(r.ops)
    BY <1>1, <1>11
  <2> QED BY <1>4, <1>11, <1>19, <2>1, <2>2 DEF SyncedSince
<1> QED BY <1>11, <1>16, <1>18, <1>19 DEF r

(* Operations that are neither aborted nor ended are where they were.      *)
LEMMA QuietOps ==
    ASSUME NEW s, SyncsSound(s), NEW ops \in Seq(Operation), Len(ops) = Len(s.ops),
           \A n \in 1..Len(s.ops) :
               /\ ops[n].kind = s.ops[n].kind /\ ops[n].channel = s.ops[n].channel
               /\ ops[n].item = s.ops[n].item /\ ops[n].map = s.ops[n].map
               /\ ops[n].state = "ended" <=> s.ops[n].state = "ended"
               /\ ops[n].aborted = s.ops[n].aborted /\ ops[n].gain = s.ops[n].gain
    PROVE  LET r == [s EXCEPT !.ops = ops]
           IN SyncsSound(r) /\ Outside(s, r, {}) /\ StillSynced(s, r)
<1> DEFINE r == [s EXCEPT !.ops = ops]
<1>1. r.ops = ops
  BY DEF SyncsSound, Syncs
<1>2. /\ SyncsSound(r)
      /\ \A k \in Kind, c \in Channel : Registered(r, k, c) = Registered(s, k, c)
  BY ChangedOps
<1> HIDE DEF r
<1>3. "messages" \in Kind
  BY DEF Kind, Messages
<1>4. ASSUME NEW d \in Channel, AllAborted(s, d) PROVE AllAborted(r, d)
  <2> SUFFICES ASSUME NEW n \in Registered(r, "messages", d) PROVE r.ops[n].aborted
    BY DEF AllAborted
  <2>1. n \in Registered(s, "messages", d)
    BY <1>2, <1>3
  <2>2. n \in 1..Len(s.ops)
    BY <1>3, <2>1, RegisteredBelongs DEF Going
  <2> QED BY <1>1, <1>4, <2>1, <2>2 DEF AllAborted
<1>5. StillSynced(s, r)
  BY <1>1 DEF StillSynced, SyncedSince
<1>6. Outside(s, r, {})
  BY <1>1, <1>4, <1>5 DEF Outside, StillSynced
<1> QED BY <1>2, <1>5, <1>6 DEF r

(* What an abort does.                                                     *)
LEMMA AbortSound ==
    ASSUME NEW s, SyncsSound(s), NEW ns
    PROVE  LET r == Abort(s, ns)
           IN /\ SyncsSound(r) /\ Len(r.ops) = Len(s.ops)
              /\ \A n \in 1..Len(s.ops) : r.ops[n].channel = s.ops[n].channel
              /\ \A n \in 1..Len(s.ops) : r.ops[n].state = s.ops[n].state
              /\ \A c \in Channel :
                  /\ AllAborted(s, c) => AllAborted(r, c)
                  /\ Registered(s, "messages", c) \subseteq ns => AllAborted(r, c)
                  /\ (\A n \in ns : s.ops[n].kind # "messages" \/ s.ops[n].channel # c) =>
                      \A gain \in Nat : SyncedSince(s, c, gain) => SyncedSince(r, c, gain)
<1> DEFINE ops == [n \in DOMAIN s.ops |->
                    IF n \in ns THEN [s.ops[n] EXCEPT !.aborted = TRUE] ELSE s.ops[n]]
           r == [s EXCEPT !.ops = ops]
<1>1. s.ops \in Seq(Operation) /\ DOMAIN s.ops = 1..Len(s.ops) /\ Len(s.ops) \in Nat
  BY DEF SyncsSound, Syncs
<1>2. \A n \in 1..Len(s.ops) :
        /\ ops[n] \in Operation
        /\ ops[n].kind = s.ops[n].kind /\ ops[n].channel = s.ops[n].channel
        /\ ops[n].item = s.ops[n].item /\ ops[n].map = s.ops[n].map
        /\ ops[n].state = s.ops[n].state /\ ops[n].gain = s.ops[n].gain
        /\ ops[n].aborted = (s.ops[n].aborted \/ n \in ns)
  <2> SUFFICES ASSUME NEW n \in 1..Len(s.ops)
               PROVE  /\ ops[n] \in Operation
                      /\ ops[n].kind = s.ops[n].kind /\ ops[n].channel = s.ops[n].channel
                      /\ ops[n].item = s.ops[n].item /\ ops[n].map = s.ops[n].map
                      /\ ops[n].state = s.ops[n].state /\ ops[n].gain = s.ops[n].gain
                      /\ ops[n].aborted = (s.ops[n].aborted \/ n \in ns)
    OBVIOUS
  <2>1. s.ops[n] \in Operation
    BY <1>1
  <2>2. CASE n \in ns
    BY <1>1, <2>1, <2>2 DEF Operation
  <2>3. CASE n \notin ns
    <3>1. ops[n] = s.ops[n]
      BY <1>1, <2>3
    <3>2. s.ops[n].aborted \in BOOLEAN
      BY <2>1 DEF Operation
    <3> HIDE DEF ops
    <3> QED BY <2>1, <2>3, <3>1, <3>2
  <2> QED BY <2>2, <2>3
<1>3. ops \in Seq(Operation) /\ Len(ops) = Len(s.ops)
  <2>1. ops \in [1..Len(s.ops) -> Operation]
    BY <1>1, <1>2
  <2> HIDE DEF ops
  <2> QED BY <1>1, <2>1
<1> HIDE DEF ops
<1>4. r.ops = ops
  BY DEF SyncsSound, Syncs
<1>5. /\ SyncsSound(r)
      /\ \A k \in Kind, c \in Channel : Registered(r, k, c) = Registered(s, k, c)
  BY <1>2, <1>3, ChangedOps
<1> HIDE DEF r
<1>6. r = Abort(s, ns)
  BY DEF Abort, r, ops
<1>7. "messages" \in Kind
  BY DEF Kind, Messages
<1>8. ASSUME NEW c \in Channel, AllAborted(s, c) \/ Registered(s, "messages", c) \subseteq ns
      PROVE  AllAborted(r, c)
  <2> SUFFICES ASSUME NEW n \in Registered(r, "messages", c) PROVE r.ops[n].aborted
    BY DEF AllAborted
  <2>1. n \in Registered(s, "messages", c)
    BY <1>5, <1>7
  <2>2. n \in 1..Len(s.ops)
    BY <1>7, <2>1, RegisteredBelongs DEF Going
  <2> QED BY <1>2, <1>4, <1>8, <2>1, <2>2 DEF AllAborted
<1>9. ASSUME NEW c \in Channel, NEW gain \in Nat, SyncedSince(s, c, gain),
             \A n \in ns : s.ops[n].kind # "messages" \/ s.ops[n].channel # c
      PROVE  SyncedSince(r, c, gain)
  <2>1. PICK n \in 1..Len(s.ops) :
            /\ s.ops[n].item = c /\ s.ops[n].kind = "messages"
            /\ ~s.ops[n].aborted /\ s.ops[n].gain = gain
    BY <1>9 DEF SyncedSince
  <2>2. s.ops[n].channel = c
    BY <2>1 DEF SyncsSound, OpSound
  <2>3. n \notin ns
    BY <1>9, <2>1, <2>2
  <2> QED BY <1>2, <1>3, <1>4, <2>1, <2>3 DEF SyncedSince
<1>10. /\ Len(r.ops) = Len(s.ops)
       /\ \A n \in 1..Len(s.ops) : r.ops[n].channel = s.ops[n].channel
       /\ \A n \in 1..Len(s.ops) : r.ops[n].state = s.ops[n].state
  BY <1>2, <1>3, <1>4
<1> QED BY <1>5, <1>6, <1>8, <1>9, <1>10

(* An operation that ends is in none of the account's maps any more, and   *)
(* no other is lost but with the whole entry of its channel.               *)
LEMMA EndSound ==
    ASSUME NEW s, SyncsSound(s), NEW n \in 1..Len(s.ops), s.ops[n].state # "ended"
    PROVE  LET r == End(s, n)
           IN /\ SyncsSound(r) /\ Outside(s, r, {}) /\ StillSynced(s, r)
              /\ Len(r.ops) = Len(s.ops)
<1> DEFINE r == End(s, n)
           op == s.ops[n]
           ops == [s.ops EXCEPT ![n] = Ended(op)]
           several == op.kind \in Messages /\ Cardinality(DOMAIN s.maps[op.map]) > 1
           less == [i \in DOMAIN s.maps[op.map] \ {op.item} |-> s.maps[op.map][i]]
<1>1. /\ s.ops \in Seq(Operation) /\ s.maps \in Seq(Map) /\ Len(s.maps) = Len(s.ops)
      /\ s.ongoing \in [Kind -> [Channel -> Nat \cup {Null}]] /\ Len(s.ops) \in Nat
      /\ s = [ops |-> s.ops, maps |-> s.maps, ongoing |-> s.ongoing]
  BY DEF SyncsSound, Syncs
<1>2. /\ op \in Operation /\ Ended(op) \in Operation
      /\ Ended(op).kind = op.kind /\ Ended(op).channel = op.channel
      /\ Ended(op).item = op.item /\ Ended(op).map = Null /\ Ended(op).state = "ended"
      /\ Ended(op).aborted = op.aborted /\ Ended(op).gain = op.gain
  <2>1. op \in Operation
    BY <1>1
  <2> HIDE DEF op
  <2> QED BY <2>1 DEF Ended, Operation
<1>3. /\ r.ops = ops
      /\ r.maps = IF several THEN [s.maps EXCEPT ![op.map] = less] ELSE s.maps
      /\ r.ongoing = IF several THEN s.ongoing
                     ELSE [s.ongoing EXCEPT ![op.kind][op.channel] = Null]
      /\ r = [ops |-> r.ops, maps |-> r.maps, ongoing |-> r.ongoing]
  <2> HIDE DEF op
  <2>1. CASE several
    BY <1>1, <2>1 DEF End, op
  <2>2. CASE ~several
    BY <1>1, <2>2 DEF End, op
  <2> QED BY <2>1, <2>2
<1> HIDE DEF r, op, several, less
<1>4. OpSound(s, n) /\ op.kind \in Kind /\ op.channel \in Channel
  BY <1>2 DEF SyncsSound, Operation
<1>5. several => op.kind \in Messages /\ op.map \in 1..Len(s.ops)
  BY <1>1, <1>4 DEF OpSound, several, op
<1>6. less \in Map \/ ~several
  <2> SUFFICES ASSUME several PROVE less \in Map
    OBVIOUS
  <2>1. s.maps[op.map] \in Map
    BY <1>1, <1>5
  <2>2. PICK items \in SUBSET Item : s.maps[op.map] \in [items -> Nat]
    BY <2>1 DEF Map
  <2>3. less \in [items \ {op.item} -> Nat]
    BY <2>2 DEF less
  <2>4. items \ {op.item} \in SUBSET Item
    OBVIOUS
  <2> QED BY <2>3, <2>4 DEF Map
<1>7. /\ ops \in Seq(Operation) /\ Len(ops) = Len(s.ops) /\ ops[n] = Ended(op)
      /\ \A m \in 1..Len(s.ops) : m # n => ops[m] = s.ops[m]
  BY <1>1, <1>2
<1> HIDE DEF ops
<1>8. /\ r.maps \in Seq(Map) /\ Len(r.maps) = Len(s.ops)
      /\ \A m \in 1..Len(s.ops) : several /\ m = op.map => r.maps[m] = less
      /\ \A m \in 1..Len(s.ops) : ~(several /\ m = op.map) => r.maps[m] = s.maps[m]
  <2>1. CASE several
    BY <1>1, <1>3, <1>5, <1>6, <2>1
  <2>2. CASE ~several
    BY <1>1, <1>3, <2>2
  <2> QED BY <2>1, <2>2
<1>9. r.ongoing \in [Kind -> [Channel -> Nat \cup {Null}]]
  BY <1>1, <1>3, <1>4
<1>10. r \in Syncs
  BY <1>3, <1>7, <1>8, <1>9 DEF Syncs
<1>11. \A m \in 1..Len(s.ops) : \A i \in DOMAIN r.maps[m] :
            i \in DOMAIN s.maps[m] /\ r.maps[m][i] = s.maps[m][i]
  <2> SUFFICES ASSUME NEW m \in 1..Len(s.ops), NEW i \in DOMAIN r.maps[m]
               PROVE  i \in DOMAIN s.maps[m] /\ r.maps[m][i] = s.maps[m][i]
    OBVIOUS
  <2>1. CASE several /\ m = op.map
    <3>1. r.maps[m] = less
      BY <1>8, <2>1
    <3>2. less = [j \in DOMAIN s.maps[m] \ {op.item} |-> s.maps[m][j]]
      BY <2>1 DEF less
    <3> QED BY <3>1, <3>2
  <2>2. CASE ~(several /\ m = op.map)
    <3>1. r.maps[m] = s.maps[m]
      BY <1>8, <2>2
    <3> QED BY <3>1
  <2> QED BY <2>1, <2>2
<1>12. \A m \in 1..Len(s.ops) :
            /\ r.ops[m].kind = s.ops[m].kind /\ r.ops[m].channel = s.ops[m].channel
            /\ r.ops[m].item = s.ops[m].item /\ r.ops[m].gain = s.ops[m].gain
            /\ r.ops[m].aborted = s.ops[m].aborted
            /\ m # n => r.ops[m] = s.ops[m]
  BY <1>2, <1>3, <1>7 DEF op
<1>13. \A m, k, c : m # n /\ Going(s, m, k, c) => Going(r, m, k, c)
  BY <1>3, <1>7, <1>12 DEF Going
<1>14. \A m \in 1..Len(r.ops) : OpSound(r, m)
  <2> SUFFICES ASSUME NEW m \in 1..Len(r.ops) PROVE OpSound(r, m)
    OBVIOUS
  <2>1. m \in 1..Len(s.ops) /\ OpSound(s, m) /\ Len(r.ops) = Len(s.ops)
    BY <1>3, <1>7 DEF SyncsSound
  <2>2. \A i \in DOMAIN r.maps[m] :
            r.maps[m][i] \in 1..Len(r.ops) /\ r.ops[r.maps[m][i]].item = i
    <3> SUFFICES ASSUME NEW i \in DOMAIN r.maps[m]
                 PROVE  r.maps[m][i] \in 1..Len(r.ops) /\ r.ops[r.maps[m][i]].item = i
      OBVIOUS
    <3>1. i \in DOMAIN s.maps[m] /\ r.maps[m][i] = s.maps[m][i]
      BY <1>11, <2>1
    <3>2. s.maps[m][i] \in 1..Len(s.ops) /\ s.ops[s.maps[m][i]].item = i
      BY <2>1, <3>1 DEF OpSound
    <3> QED BY <1>12, <2>1, <3>1, <3>2
  <2>3. CASE m = n
    <3>1. r.ops[m].state = "ended" /\ r.ops[m].map = Null
      BY <1>2, <1>3, <1>7, <2>3
    <3> QED BY <1>12, <2>1, <2>2, <3>1 DEF OpSound
  <2>4. CASE m # n
    <3>1. r.ops[m] = s.ops[m]
      BY <1>12, <2>1, <2>4
    <3> QED BY <2>1, <2>2, <3>1 DEF OpSound
  <2> QED BY <2>3, <2>4
<1>15. ASSUME NEW k \in Kind, NEW c \in Channel, r.ongoing[k][c] # Null
       PROVE  EntrySound(r, k, c, r.ongoing[k][c]) /\ r.ongoing[k][c] = s.ongoing[k][c]
  <2> DEFINE e == s.ongoing[k][c]
  <2>1. r.ongoing[k][c] = e /\ (several \/ ~(k = op.kind /\ c = op.channel))
    BY <1>1, <1>3, <1>4, <1>15
  <2>2. EntrySound(s, k, c, e)
    BY <1>15, <2>1 DEF SyncsSound
  <2> HIDE DEF e
  <2>3. Len(r.ops) = Len(s.ops)
    BY <1>3, <1>7
  <2>4. CASE k \in Lists
    <3>1. k \notin Messages
      BY <2>4 DEF Lists, Messages
    <3>2. e # n
      <4>1. Going(s, e, k, c)
        BY <2>2, <2>4 DEF EntrySound
      <4>2. e = n => k = op.kind /\ c = op.channel
        BY <4>1 DEF Going, op
      <4> QED BY <1>5, <2>1, <3>1, <4>2
    <3> QED BY <1>13, <2>1, <2>2, <2>4, <3>1, <3>2 DEF EntrySound, e
  <2>5. CASE k \in Messages
    <3>1. /\ e \in 1..Len(s.ops) /\ s.ops[e].kind = k /\ s.ops[e].channel = c
          /\ \A i \in DOMAIN s.maps[e] :
              Going(s, s.maps[e][i], k, c) /\ s.ops[s.maps[e][i]].map = e
      BY <2>2, <2>5 DEF EntrySound
    <3>2. ASSUME NEW i \in DOMAIN r.maps[e]
          PROVE  Going(r, r.maps[e][i], k, c) /\ r.ops[r.maps[e][i]].map = e
      <4>1. i \in DOMAIN s.maps[e] /\ r.maps[e][i] = s.maps[e][i]
        BY <1>11, <3>1, <3>2
      <4>2. Going(s, s.maps[e][i], k, c) /\ s.ops[s.maps[e][i]].map = e
        BY <3>1, <4>1
      <4>3. ASSUME s.maps[e][i] = n PROVE FALSE
        <5>1. k = op.kind /\ c = op.channel /\ op.map = e
          BY <4>2, <4>3 DEF Going, op
        <5>2. several /\ r.maps[e] = less
          BY <1>8, <2>1, <3>1, <5>1
        <5>3. i # op.item
          BY <3>2, <5>2 DEF less
        <5>4. s.ops[s.maps[e][i]].item = i
          BY <3>1, <4>1 DEF SyncsSound, OpSound
        <5> QED BY <4>3, <5>3, <5>4 DEF op
      <4>4. s.maps[e][i] \in 1..Len(s.ops)
        BY <4>2 DEF Going
      <4> QED BY <1>12, <1>13, <4>1, <4>2, <4>3, <4>4
    <3>3. k \notin Lists
      BY <2>5 DEF Lists, Messages
    <3>4. r.ops[e].kind = k /\ r.ops[e].channel = c
      BY <1>12, <3>1
    <3> QED BY <2>1, <2>3, <3>1, <3>2, <3>3, <3>4 DEF EntrySound, e
  <2> QED BY <2>4, <2>5 DEF Kind
<1>16. SyncsSound(r)
  BY <1>3, <1>7, <1>8, <1>10, <1>14, <1>15 DEF SyncsSound
<1>17. ASSUME NEW d \in Channel, AllAborted(s, d) PROVE AllAborted(r, d)
  <2> SUFFICES ASSUME NEW m \in Registered(r, "messages", d) PROVE r.ops[m].aborted
    BY DEF AllAborted
  <2>1. "messages" \in Kind /\ "messages" \in Messages /\ "messages" \notin Lists
    BY DEF Lists, Kind, Messages
  <2> DEFINE e == s.ongoing["messages"][d]
  <2>2. r.ongoing["messages"][d] # Null
    BY DEF Registered
  <2>3. r.ongoing["messages"][d] = e /\ e # Null
    BY <1>15, <2>1, <2>2
  <2>4. e \in 1..Len(s.ops)
    BY <2>1, <2>3 DEF SyncsSound, EntrySound
  <2> HIDE DEF e
  <2>5. PICK i \in DOMAIN r.maps[e] : m = r.maps[e][i]
    BY <2>1, <2>2, <2>3 DEF Registered
  <2>6. m \in Registered(s, "messages", d)
    BY <1>11, <2>1, <2>3, <2>4, <2>5 DEF Registered, e
  <2>7. m \in 1..Len(s.ops)
    BY <2>1, <2>6, RegisteredBelongs DEF Going
  <2> QED BY <1>12, <1>17, <2>6, <2>7 DEF AllAborted
<1>18. StillSynced(s, r)
  BY <1>3, <1>7, <1>12 DEF StillSynced, SyncedSince
<1>19. Outside(s, r, {})
  BY <1>3, <1>7, <1>12, <1>17, <1>18 DEF Outside, StillSynced
<1> QED BY <1>3, <1>7, <1>16, <1>18, <1>19 DEF r

-----------------------------------------------------------------------------
(* The operations after the update of a channel, and of several.           *)
LEMMA OutsideTwice ==
    ASSUME NEW s, NEW r, NEW q, NEW A, NEW B, Outside(s, r, A), Outside(r, q, B)
    PROVE  Outside(s, q, A \cup B)
BY DEF Outside

LEMMA OutsideMore ==
    ASSUME NEW s, NEW r, NEW A, NEW B, Outside(s, r, A), A \subseteq B
    PROVE  Outside(s, r, B)
BY DEF Outside

(* The downloads of a channel that cannot be read any more are aborted;    *)
(* those of one that can still be read go on, and one that can be read     *)
(* again is downloaded.                                                    *)
Settled(s, r, c, was, is) ==
    /\ ~is.read /\ (was.read \/ AllAborted(s, c)) => AllAborted(r, c)
    /\ is.read /\ was.read =>
        \A gain \in Nat : SyncedSince(s, c, gain) => SyncedSince(r, c, gain)
    /\ allReady /\ is.read /\ ~was.read => SyncedSince(r, c, gained[c] + 1)

LEMMA AfterUpdateSound ==
    ASSUME NEW s, SyncsSound(s), NEW c \in Channel, NEW was \in CachedChannel,
           NEW is \in CachedChannel, world \in World, gained \in [Channel -> Nat]
    PROVE  LET r == AfterUpdate(s, c, was, is)
           IN SyncsSound(r) /\ Outside(s, r, {c}) /\ Settled(s, r, c, was, is)
<1> DEFINE ns == Lost(s, c, was, is)
           a == Abort(s, ns)
           b == GainedRead(a, c, was, is)
           r == AfterUpdate(s, c, was, is)
<1>1. /\ "messages" \in Kind /\ "privateMessages" \in Kind /\ "privateThreads" \in Kind
      /\ "publicThreads" \in Lists /\ "privateThreads" \in Lists
  BY DEF Kind, Messages, Lists
<1>2. \A n \in ns :
        /\ n \in 1..Len(s.ops) /\ s.ops[n].channel = c
        /\ s.ops[n].kind = "messages" => was.read /\ ~is.read
  <2> SUFFICES ASSUME NEW n \in ns
               PROVE  /\ n \in 1..Len(s.ops) /\ s.ops[n].channel = c
                      /\ s.ops[n].kind = "messages" => was.read /\ ~is.read
    OBVIOUS
  <2>1. CASE was.read /\ ~is.read /\ n \in Registered(s, "messages", c)
    BY <1>1, <2>1, RegisteredBelongs DEF Going
  <2>2. CASE n \in Registered(s, "privateThreads", c)
    BY <1>1, <2>2, RegisteredBelongs DEF Going
  <2>3. CASE n \in Registered(s, "privateMessages", c)
    BY <1>1, <2>3, RegisteredBelongs DEF Going
  <2> QED BY <2>1, <2>2, <2>3 DEF Lost
<1>3. was.read /\ ~is.read => Registered(s, "messages", c) \subseteq ns
  BY DEF Lost
<1> HIDE DEF ns
<1>4. /\ SyncsSound(a) /\ Len(a.ops) = Len(s.ops)
      /\ \A n \in 1..Len(s.ops) : a.ops[n].channel = s.ops[n].channel
      /\ \A d \in Channel :
          /\ AllAborted(s, d) => AllAborted(a, d)
          /\ Registered(s, "messages", d) \subseteq ns => AllAborted(a, d)
          /\ (\A n \in ns : s.ops[n].kind # "messages" \/ s.ops[n].channel # d) =>
              \A gain \in Nat : SyncedSince(s, d, gain) => SyncedSince(a, d, gain)
  BY AbortSound
<1> HIDE DEF a
<1>5. Outside(s, a, {c})
  BY <1>2, <1>4 DEF Outside
<1>6. ~is.read /\ (was.read \/ AllAborted(s, c)) => AllAborted(a, c)
  BY <1>3, <1>4
<1>7. is.read => \A gain \in Nat : SyncedSince(s, c, gain) => SyncedSince(a, c, gain)
  BY <1>2, <1>4
<1>8. /\ SyncsSound(b) /\ Outside(a, b, {c}) /\ StillSynced(a, b)
      /\ allReady /\ is.read /\ ~was.read => SyncedSince(b, c, gained[c] + 1)
      /\ ~is.read => b = a
  <2>1. CASE allReady /\ ~was.read /\ is.read
    <3> DEFINE m == StartMessages(a, c, c, gained[c] + 1)
    <3>1. /\ SyncsSound(m) /\ StillSynced(a, m) /\ Outside(a, m, {c})
          /\ SyncedSince(m, c, gained[c] + 1)
      <4>1. gained[c] + 1 \in Nat
        OBVIOUS
      <4> QED BY <1>4, <4>1, StartMessagesSound
    <3> HIDE DEF m
    <3>2. b = StartList(m, "publicThreads", c)
      BY <2>1 DEF GainedRead, m
    <3>3. SyncsSound(b) /\ StillSynced(m, b) /\ Outside(m, b, {c})
      BY <1>1, <3>1, <3>2, StartListSound
    <3> HIDE DEF b
    <3>4. Outside(a, b, {c} \cup {c})
      BY <3>1, <3>3, OutsideTwice
    <3>5. {c} \cup {c} = {c} /\ gained[c] + 1 \in Nat
      OBVIOUS
    <3>6. StillSynced(a, b) /\ SyncedSince(b, c, gained[c] + 1)
      BY <3>1, <3>3, <3>5 DEF StillSynced
    <3> QED BY <2>1, <3>3, <3>4, <3>5, <3>6
  <2>2. CASE ~(allReady /\ ~was.read /\ is.read)
    <3>1. b = a
      BY <2>2 DEF GainedRead
    <3>2. Outside(a, a, {c}) /\ StillSynced(a, a)
      BY DEF Outside, StillSynced
    <3> QED BY <1>4, <2>2, <3>1, <3>2
  <2> QED BY <2>1, <2>2
<1> HIDE DEF b
<1>9. /\ SyncsSound(r) /\ Outside(b, r, {c}) /\ StillSynced(b, r)
      /\ AllAborted(b, c) => AllAborted(r, c)
  <2>1. CASE allReady /\ ~was.manage /\ is.manage
    <3>1. r = StartList(b, "privateThreads", c)
      BY <2>1 DEF AfterUpdate, b, a, ns
    <3> QED BY <1>1, <1>8, <3>1, StartListSound
  <2>2. CASE ~(allReady /\ ~was.manage /\ is.manage)
    <3>1. r = b
      BY <2>2 DEF AfterUpdate, b, a, ns
    <3>2. Outside(b, b, {c}) /\ StillSynced(b, b)
      BY DEF Outside, StillSynced
    <3> QED BY <1>8, <3>1, <3>2
  <2> QED BY <2>1, <2>2
<1> HIDE DEF r
<1>10. Outside(s, r, {c})
  <2>1. Outside(s, b, {c} \cup {c})
    BY <1>5, <1>8, OutsideTwice
  <2>2. {c} \cup {c} = {c}
    OBVIOUS
  <2>3. Outside(s, r, {c} \cup {c})
    BY <1>9, <2>1, <2>2, OutsideTwice
  <2> QED BY <2>2, <2>3
<1>11. Settled(s, r, c, was, is)
  <2>1. ~is.read /\ (was.read \/ AllAborted(s, c)) => AllAborted(r, c)
    BY <1>6, <1>8, <1>9
  <2>2. is.read => \A gain \in Nat : SyncedSince(s, c, gain) => SyncedSince(r, c, gain)
    BY <1>7, <1>8, <1>9 DEF StillSynced
  <2>3. allReady /\ is.read /\ ~was.read => SyncedSince(r, c, gained[c] + 1)
    <3>1. gained[c] + 1 \in Nat
      OBVIOUS
    <3> QED BY <1>8, <1>9, <3>1 DEF StillSynced
  <2> QED BY <2>1, <2>2, <2>3 DEF Settled
<1> QED BY <1>9, <1>10, <1>11 DEF r

LEMMA AfterUpdatesSound ==
    ASSUME NEW s, SyncsSound(s), NEW channels \in SUBSET Channel, NEW was, NEW is,
           \A c \in channels : was[c] \in CachedChannel /\ is[c] \in CachedChannel,
           world \in World, gained \in [Channel -> Nat]
    PROVE  LET r == AfterUpdates(s, channels, was, is)
           IN /\ SyncsSound(r) /\ Outside(s, r, channels)
              /\ \A c \in channels : Settled(s, r, c, was[c], is[c])
<1> DEFINE V == {v \in Syncs : SyncsSound(v)}
           After == [c \in channels |-> [v \in V |-> AfterUpdate(v, c, was[c], is[c])]]
           Equation(g) == g = [T \in SUBSET channels |->
               IF T = {} THEN s
               ELSE LET x == CHOOSE x \in T : TRUE
                    IN AfterUpdate(g[T \ {x}], x, was[x], is[x])]
           iter == CHOOSE g : Equation(g)
<1>1. IsFiniteSet(channels)
  BY FS_Subset, SyncsAssumption
<1>2. \A v : SyncsSound(v) => v \in V
  BY DEF SyncsSound
<1>3. \A c \in channels, v \in V : AfterUpdate(v, c, was[c], is[c]) \in V
  <2> SUFFICES ASSUME NEW c \in channels, NEW v \in V
               PROVE  AfterUpdate(v, c, was[c], is[c]) \in V
    OBVIOUS
  <2>1. SyncsSound(AfterUpdate(v, c, was[c], is[c]))
    BY AfterUpdateSound
  <2> QED BY <1>2, <2>1
<1> HIDE DEF V
<1>4. After \in [channels -> [V -> V]]
  BY <1>3
<1>5. PICK g \in [SUBSET channels -> V] : Folding(g, channels, s, After)
  <2>1. s \in V
    BY <1>2
  <2> HIDE DEF After
  <2> QED BY <1>1, <1>4, <2>1, FoldingExists
<1>6. Equation(g)
  <2>1. \A T \in SUBSET channels : g[T] =
            IF T = {} THEN s
            ELSE LET x == CHOOSE x \in T : TRUE
                 IN AfterUpdate(g[T \ {x}], x, was[x], is[x])
    <3> SUFFICES ASSUME NEW T \in SUBSET channels
                 PROVE  g[T] = IF T = {} THEN s
                               ELSE LET x == CHOOSE x \in T : TRUE
                                    IN AfterUpdate(g[T \ {x}], x, was[x], is[x])
      OBVIOUS
    <3> DEFINE x == CHOOSE x \in T : TRUE
    <3>1. CASE T = {}
      BY <1>5, <3>1 DEF Folding
    <3>2. CASE T # {}
      <4>1. x \in T /\ x \in channels
        BY <3>2
      <4>2. g[T \ {x}] \in V
        OBVIOUS
      <4>3. g[T] = After[x][g[T \ {x}]]
        BY <1>5, <3>2 DEF Folding
      <4> HIDE DEF x
      <4>4. g[T] = AfterUpdate(g[T \ {x}], x, was[x], is[x])
        BY <4>1, <4>2, <4>3
      <4> QED BY <3>2, <4>4 DEF x
    <3> QED BY <3>1, <3>2
  <2> QED BY <2>1
<1>7. Equation(iter)
  <2> HIDE DEF Equation
  <2> QED BY <1>6
<1>8. AfterUpdates(s, channels, was, is) = iter[channels]
  BY DEF AfterUpdates, FoldSet, MapThenFoldSet
<1>9. /\ iter[{}] = s
      /\ \A T \in SUBSET channels : T # {} => \E x \in T :
          iter[T] = AfterUpdate(iter[T \ {x}], x, was[x], is[x])
  <2> HIDE DEF iter
  <2>1. iter[{}] = s
    BY <1>7
  <2>2. ASSUME NEW T \in SUBSET channels, T # {}
        PROVE  \E x \in T : iter[T] = AfterUpdate(iter[T \ {x}], x, was[x], is[x])
    <3> DEFINE x == CHOOSE x \in T : TRUE
    <3>1. x \in T
      BY <2>2
    <3>2. iter[T] = AfterUpdate(iter[T \ {x}], x, was[x], is[x])
      BY <1>7, <2>2
    <3> HIDE DEF x
    <3> QED BY <3>1, <3>2
  <2> QED BY <2>1, <2>2
<1> HIDE DEF iter
<1> DEFINE Good == {T \in SUBSET channels :
                /\ SyncsSound(iter[T]) /\ Outside(s, iter[T], T)
                /\ \A c \in T : Settled(s, iter[T], c, was[c], is[c])}
<1>10. {} \in Good
  <2>1. Outside(s, s, {})
    BY DEF Outside
  <2> QED BY <1>9, <2>1
<1>11. ASSUME NEW T \in SUBSET channels, T # {}, \A x \in T : T \ {x} \in Good
       PROVE  T \in Good
  <2>1. PICK x \in T : iter[T] = AfterUpdate(iter[T \ {x}], x, was[x], is[x])
    BY <1>9, <1>11
  <2> DEFINE r == iter[T \ {x}]
             q == iter[T]
  <2>2. /\ SyncsSound(r) /\ Outside(s, r, T \ {x})
        /\ \A c \in T \ {x} : Settled(s, r, c, was[c], is[c])
    BY <1>11
  <2> HIDE DEF r
  <2>3. SyncsSound(q) /\ Outside(r, q, {x}) /\ Settled(r, q, x, was[x], is[x])
    <3>1. q = AfterUpdate(r, x, was[x], is[x])
      BY <2>1 DEF r
    <3>2. was[x] \in CachedChannel /\ is[x] \in CachedChannel /\ x \in Channel
      OBVIOUS
    <3> HIDE DEF q
    <3> QED BY <2>2, <3>1, <3>2, AfterUpdateSound
  <2> HIDE DEF q
  <2>4. Outside(s, q, T)
    <3>1. (T \ {x}) \cup {x} = T
      OBVIOUS
    <3> QED BY <2>2, <2>3, <3>1, OutsideTwice
  <2>5. ASSUME NEW c \in T PROVE Settled(s, q, c, was[c], is[c])
    <3>1. CASE c = x
      <4>1. x \in Channel \ (T \ {x})
        OBVIOUS
      <4>2. /\ AllAborted(s, x) => AllAborted(r, x)
            /\ \A gain \in Nat : SyncedSince(s, x, gain) => SyncedSince(r, x, gain)
        BY <2>2, <4>1 DEF Outside
      <4> QED BY <2>3, <3>1, <4>2 DEF Settled
    <3>2. CASE c # x
      <4>1. c \in Channel \ {x} /\ gained[c] + 1 \in Nat
        BY <3>2
      <4>2. /\ AllAborted(r, c) => AllAborted(q, c)
            /\ \A gain \in Nat : SyncedSince(r, c, gain) => SyncedSince(q, c, gain)
        BY <2>3, <4>1 DEF Outside
      <4>3. Settled(s, r, c, was[c], is[c])
        BY <2>2, <3>2
      <4> QED BY <4>1, <4>2, <4>3 DEF Settled
    <3> QED BY <3>1, <3>2
  <2> QED BY <2>3, <2>4, <2>5 DEF q
<1>12. channels \in Good
  <2> HIDE DEF Good
  <2> QED BY <1>1, <1>10, <1>11, SetInduction
<1> QED BY <1>8, <1>12

-----------------------------------------------------------------------------
(* Downloads of threads, of a channel with its threads, and of several.    *)
LEMMA StartThreadsSound ==
    ASSUME NEW s, SyncsSound(s), NEW c \in Channel, NEW threads \in SUBSET Thread
    PROVE  LET r == StartThreads(s, c, threads)
           IN SyncsSound(r) /\ Outside(s, r, {c}) /\ StillSynced(s, r)
<1> DEFINE V == {v \in Syncs : SyncsSound(v)}
           After == [t \in threads |-> [v \in V |-> StartMessages(v, c, t, 0)]]
           Equation(g) == g = [T \in SUBSET threads |->
               IF T = {} THEN s
               ELSE LET t == CHOOSE t \in T : TRUE
                    IN StartMessages(g[T \ {t}], c, t, 0)]
           iter == CHOOSE g : Equation(g)
<1>1. IsFiniteSet(threads)
  BY FS_Subset, SyncsAssumption
<1>2. \A v : SyncsSound(v) => v \in V
  BY DEF SyncsSound
<1>3. \A t \in threads, v \in V : StartMessages(v, c, t, 0) \in V
  <2> SUFFICES ASSUME NEW t \in threads, NEW v \in V
               PROVE  StartMessages(v, c, t, 0) \in V
    OBVIOUS
  <2>1. SyncsSound(StartMessages(v, c, t, 0))
    BY StartMessagesSound
  <2> QED BY <1>2, <2>1
<1> HIDE DEF V
<1>4. After \in [threads -> [V -> V]]
  BY <1>3
<1>5. PICK g \in [SUBSET threads -> V] : Folding(g, threads, s, After)
  <2>1. s \in V
    BY <1>2
  <2> HIDE DEF After
  <2> QED BY <1>1, <1>4, <2>1, FoldingExists
<1>6. Equation(g)
  <2>1. \A T \in SUBSET threads : g[T] =
            IF T = {} THEN s
            ELSE LET t == CHOOSE t \in T : TRUE IN StartMessages(g[T \ {t}], c, t, 0)
    <3> SUFFICES ASSUME NEW T \in SUBSET threads
                 PROVE  g[T] = IF T = {} THEN s
                               ELSE LET t == CHOOSE t \in T : TRUE
                                    IN StartMessages(g[T \ {t}], c, t, 0)
      OBVIOUS
    <3> DEFINE t == CHOOSE t \in T : TRUE
    <3>1. CASE T = {}
      BY <1>5, <3>1 DEF Folding
    <3>2. CASE T # {}
      <4>1. t \in T /\ t \in threads
        BY <3>2
      <4>2. g[T \ {t}] \in V
        OBVIOUS
      <4>3. g[T] = After[t][g[T \ {t}]]
        BY <1>5, <3>2 DEF Folding
      <4> HIDE DEF t
      <4>4. g[T] = StartMessages(g[T \ {t}], c, t, 0)
        BY <4>1, <4>2, <4>3
      <4> QED BY <3>2, <4>4 DEF t
    <3> QED BY <3>1, <3>2
  <2> QED BY <2>1
<1>7. Equation(iter)
  <2> HIDE DEF Equation
  <2> QED BY <1>6
<1>8. StartThreads(s, c, threads) = iter[threads]
  BY DEF StartThreads, FoldSet, MapThenFoldSet
<1>9. /\ iter[{}] = s
      /\ \A T \in SUBSET threads : T # {} => \E t \in T :
          iter[T] = StartMessages(iter[T \ {t}], c, t, 0)
  <2> HIDE DEF iter
  <2>1. iter[{}] = s
    BY <1>7
  <2>2. ASSUME NEW T \in SUBSET threads, T # {}
        PROVE  \E t \in T : iter[T] = StartMessages(iter[T \ {t}], c, t, 0)
    <3> DEFINE t == CHOOSE t \in T : TRUE
    <3>1. t \in T
      BY <2>2
    <3>2. iter[T] = StartMessages(iter[T \ {t}], c, t, 0)
      BY <1>7, <2>2
    <3> HIDE DEF t
    <3> QED BY <3>1, <3>2
  <2> QED BY <2>1, <2>2
<1> HIDE DEF iter
<1> DEFINE Good == {T \in SUBSET threads :
                SyncsSound(iter[T]) /\ Outside(s, iter[T], {c}) /\ StillSynced(s, iter[T])}
<1>10. {} \in Good
  <2>1. Outside(s, s, {c}) /\ StillSynced(s, s)
    BY DEF Outside, StillSynced
  <2> QED BY <1>9, <2>1
<1>11. ASSUME NEW T \in SUBSET threads, T # {}, \A t \in T : T \ {t} \in Good
       PROVE  T \in Good
  <2>1. PICK t \in T : iter[T] = StartMessages(iter[T \ {t}], c, t, 0)
    BY <1>9, <1>11
  <2> DEFINE r == iter[T \ {t}]
             q == iter[T]
  <2>2. SyncsSound(r) /\ Outside(s, r, {c}) /\ StillSynced(s, r)
    BY <1>11
  <2> HIDE DEF r
  <2>3. SyncsSound(q) /\ Outside(r, q, {c}) /\ StillSynced(r, q)
    <3>1. q = StartMessages(r, c, t, 0)
      BY <2>1 DEF r
    <3>2. t \in Thread \cup {c} /\ 0 \in Nat
      OBVIOUS
    <3> HIDE DEF q
    <3> QED BY <2>2, <3>1, <3>2, StartMessagesSound
  <2> HIDE DEF q
  <2>4. Outside(s, q, {c})
    <3>1. {c} \cup {c} = {c}
      OBVIOUS
    <3> QED BY <2>2, <2>3, <3>1, OutsideTwice
  <2>5. StillSynced(s, q)
    BY <2>2, <2>3 DEF StillSynced
  <2> QED BY <2>3, <2>4, <2>5 DEF q
<1>12. threads \in Good
  <2> HIDE DEF Good
  <2> QED BY <1>1, <1>10, <1>11, SetInduction
<1> QED BY <1>8, <1>12

LEMMA StartChannelSound ==
    ASSUME NEW s, SyncsSound(s), NEW c \in Channel, world \in World,
           gained \in [Channel -> Nat], cache[c].activeThreads \in SUBSET Thread
    PROVE  LET r == StartChannel(s, c)
           IN /\ SyncsSound(r) /\ Outside(s, r, {c}) /\ StillSynced(s, r)
              /\ SyncedSince(r, c, gained[c])
<1> DEFINE m == StartMessages(s, c, c, gained[c])
           p == IF cache[c].manage THEN StartList(m, "privateThreads", c) ELSE m
           t == StartThreads(p, c, cache[c].activeThreads)
           r == StartList(t, "publicThreads", c)
<1>1. "publicThreads" \in Lists /\ "privateThreads" \in Lists /\ gained[c] \in Nat
  BY DEF Lists
<1>2. /\ SyncsSound(m) /\ Outside(s, m, {c}) /\ StillSynced(s, m)
      /\ SyncedSince(m, c, gained[c])
  BY <1>1, StartMessagesSound
<1> HIDE DEF m
<1>3. SyncsSound(p) /\ Outside(m, p, {c}) /\ StillSynced(m, p)
  <2>1. CASE cache[c].manage
    BY <1>1, <1>2, <2>1, StartListSound
  <2>2. CASE ~cache[c].manage
    BY <1>2, <2>2 DEF Outside, StillSynced
  <2> QED BY <2>1, <2>2
<1> HIDE DEF p
<1>4. SyncsSound(t) /\ Outside(p, t, {c}) /\ StillSynced(p, t)
  BY <1>3, StartThreadsSound
<1> HIDE DEF t
<1>5. SyncsSound(r) /\ Outside(t, r, {c}) /\ StillSynced(t, r)
  BY <1>1, <1>4, StartListSound
<1> HIDE DEF r
<1>6. r = StartChannel(s, c)
  BY DEF StartChannel, r, t, p, m
<1>7. Outside(s, r, {c})
  <2>1. {c} \cup {c} = {c}
    OBVIOUS
  <2>2. Outside(s, p, {c})
    BY <1>2, <1>3, <2>1, OutsideTwice
  <2>3. Outside(s, t, {c})
    BY <1>4, <2>1, <2>2, OutsideTwice
  <2> QED BY <1>5, <2>1, <2>3, OutsideTwice
<1>8. StillSynced(s, r) /\ SyncedSince(r, c, gained[c])
  BY <1>1, <1>2, <1>3, <1>4, <1>5 DEF StillSynced
<1> QED BY <1>5, <1>6, <1>7, <1>8

LEMMA StartChannelsSound ==
    ASSUME NEW s, SyncsSound(s), NEW channels \in SUBSET Channel, world \in World,
           gained \in [Channel -> Nat],
           \A c \in channels : cache[c].activeThreads \in SUBSET Thread
    PROVE  LET r == StartChannels(s, channels)
           IN /\ SyncsSound(r) /\ Outside(s, r, channels)
              /\ \A c \in channels : SyncedSince(r, c, gained[c])
<1> DEFINE V == {v \in Syncs : SyncsSound(v)}
           After == [c \in channels |-> [v \in V |-> StartChannel(v, c)]]
           Equation(g) == g = [T \in SUBSET channels |->
               IF T = {} THEN s
               ELSE LET c == CHOOSE c \in T : TRUE
                    IN StartChannel(g[T \ {c}], c)]
           iter == CHOOSE g : Equation(g)
<1>1. IsFiniteSet(channels)
  BY FS_Subset, SyncsAssumption
<1>2. \A v : SyncsSound(v) => v \in V
  BY DEF SyncsSound
<1>3. \A c \in channels, v \in V : StartChannel(v, c) \in V
  <2> SUFFICES ASSUME NEW c \in channels, NEW v \in V
               PROVE  StartChannel(v, c) \in V
    OBVIOUS
  <2>1. SyncsSound(StartChannel(v, c))
    BY StartChannelSound
  <2> QED BY <1>2, <2>1
<1> HIDE DEF V
<1>4. After \in [channels -> [V -> V]]
  BY <1>3
<1>5. PICK g \in [SUBSET channels -> V] : Folding(g, channels, s, After)
  <2>1. s \in V
    BY <1>2
  <2> HIDE DEF After
  <2> QED BY <1>1, <1>4, <2>1, FoldingExists
<1>6. Equation(g)
  <2>1. \A T \in SUBSET channels : g[T] =
            IF T = {} THEN s
            ELSE LET c == CHOOSE c \in T : TRUE IN StartChannel(g[T \ {c}], c)
    <3> SUFFICES ASSUME NEW T \in SUBSET channels
                 PROVE  g[T] = IF T = {} THEN s
                               ELSE LET c == CHOOSE c \in T : TRUE
                                    IN StartChannel(g[T \ {c}], c)
      OBVIOUS
    <3> DEFINE c == CHOOSE c \in T : TRUE
    <3>1. CASE T = {}
      BY <1>5, <3>1 DEF Folding
    <3>2. CASE T # {}
      <4>1. c \in T /\ c \in channels
        BY <3>2
      <4>2. g[T \ {c}] \in V
        OBVIOUS
      <4>3. g[T] = After[c][g[T \ {c}]]
        BY <1>5, <3>2 DEF Folding
      <4> HIDE DEF c
      <4>4. g[T] = StartChannel(g[T \ {c}], c)
        BY <4>1, <4>2, <4>3
      <4> QED BY <3>2, <4>4 DEF c
    <3> QED BY <3>1, <3>2
  <2> QED BY <2>1
<1>7. Equation(iter)
  <2> HIDE DEF Equation
  <2> QED BY <1>6
<1>8. StartChannels(s, channels) = iter[channels]
  BY DEF StartChannels, FoldSet, MapThenFoldSet
<1>9. /\ iter[{}] = s
      /\ \A T \in SUBSET channels : T # {} => \E c \in T :
          iter[T] = StartChannel(iter[T \ {c}], c)
  <2> HIDE DEF iter
  <2>1. iter[{}] = s
    BY <1>7
  <2>2. ASSUME NEW T \in SUBSET channels, T # {}
        PROVE  \E c \in T : iter[T] = StartChannel(iter[T \ {c}], c)
    <3> DEFINE c == CHOOSE c \in T : TRUE
    <3>1. c \in T
      BY <2>2
    <3>2. iter[T] = StartChannel(iter[T \ {c}], c)
      BY <1>7, <2>2
    <3> HIDE DEF c
    <3> QED BY <3>1, <3>2
  <2> QED BY <2>1, <2>2
<1> HIDE DEF iter
<1> DEFINE Good == {T \in SUBSET channels :
                /\ SyncsSound(iter[T]) /\ Outside(s, iter[T], T)
                /\ \A c \in T : SyncedSince(iter[T], c, gained[c])}
<1>10. {} \in Good
  <2>1. Outside(s, s, {})
    BY DEF Outside
  <2> QED BY <1>9, <2>1
<1>11. ASSUME NEW T \in SUBSET channels, T # {}, \A c \in T : T \ {c} \in Good
       PROVE  T \in Good
  <2>1. PICK x \in T : iter[T] = StartChannel(iter[T \ {x}], x)
    BY <1>9, <1>11
  <2> DEFINE r == iter[T \ {x}]
             q == iter[T]
  <2>2. /\ SyncsSound(r) /\ Outside(s, r, T \ {x})
        /\ \A c \in T \ {x} : SyncedSince(r, c, gained[c])
    BY <1>11
  <2> HIDE DEF r
  <2>3. /\ SyncsSound(q) /\ Outside(r, q, {x}) /\ StillSynced(r, q)
        /\ SyncedSince(q, x, gained[x])
    <3>1. q = StartChannel(r, x) /\ x \in Channel
      BY <2>1 DEF r
    <3> HIDE DEF q
    <3> QED BY <2>2, <3>1, StartChannelSound
  <2> HIDE DEF q
  <2>4. Outside(s, q, T)
    <3>1. (T \ {x}) \cup {x} = T
      OBVIOUS
    <3> QED BY <2>2, <2>3, <3>1, OutsideTwice
  <2>5. \A c \in T : SyncedSince(q, c, gained[c])
    BY <2>2, <2>3 DEF StillSynced
  <2> QED BY <2>3, <2>4, <2>5 DEF q
<1>12. channels \in Good
  <2> HIDE DEF Good
  <2> QED BY <1>1, <1>10, <1>11, SetInduction
<1> QED BY <1>8, <1>12

-----------------------------------------------------------------------------
(* Discord. *)
ListEvents(w) == {Event("THREAD_LIST_SYNC", c, w) : c \in Channel}

LEMMA ThreadListsAre ==
    ASSUME NEW w
    PROVE  ThreadLists(w) \in Seq(ListEvents(w))
<1> DEFINE V == Seq(ListEvents(w))
           opened == {c \in Channel : /\ MayRead(w, c) /\ ~MayRead(world, c)
                                      /\ ActiveIn(w, c) # {}}
           With(list, c) == Append(list, Event("THREAD_LIST_SYNC", c, w))
           After == [c \in opened |-> [v \in V |-> With(v, c)]]
           Equation(g) == g = [T \in SUBSET opened |->
               IF T = {} THEN <<>>
               ELSE LET c == CHOOSE c \in T : TRUE IN With(g[T \ {c}], c)]
           iter == CHOOSE g : Equation(g)
<1>1. IsFiniteSet(opened)
  BY FS_Subset, SyncsAssumption
<1>2. ThreadLists(w) = iter[opened]
  BY DEF ThreadLists, FoldSet, MapThenFoldSet
<1>3. opened \subseteq Channel
  OBVIOUS
<1> HIDE DEF opened
<1>4. \A c \in opened, v \in V : With(v, c) \in V
  BY <1>3 DEF ListEvents
<1>5. <<>> \in V
  OBVIOUS
<1> HIDE DEF V, With
<1>6. After \in [opened -> [V -> V]]
  BY <1>4
<1>7. PICK g \in [SUBSET opened -> V] : Folding(g, opened, <<>>, After)
  <2> HIDE DEF After
  <2> QED BY <1>1, <1>5, <1>6, FoldingExists
<1>8. Equation(g)
  <2>1. \A T \in SUBSET opened : g[T] =
            IF T = {} THEN <<>>
            ELSE LET c == CHOOSE c \in T : TRUE IN With(g[T \ {c}], c)
    <3> SUFFICES ASSUME NEW T \in SUBSET opened
                 PROVE  g[T] = IF T = {} THEN <<>>
                               ELSE LET c == CHOOSE c \in T : TRUE IN With(g[T \ {c}], c)
      OBVIOUS
    <3> DEFINE c == CHOOSE c \in T : TRUE
    <3>1. CASE T = {}
      BY <1>7, <3>1 DEF Folding
    <3>2. CASE T # {}
      <4>1. c \in T /\ c \in opened
        BY <3>2
      <4>2. g[T \ {c}] \in V
        OBVIOUS
      <4>3. g[T] = After[c][g[T \ {c}]]
        BY <1>7, <3>2 DEF Folding
      <4> HIDE DEF c
      <4>4. g[T] = With(g[T \ {c}], c)
        BY <4>1, <4>2, <4>3
      <4> QED BY <3>2, <4>4 DEF c
    <3> QED BY <3>1, <3>2
  <2> QED BY <2>1
<1>9. Equation(iter)
  <2> HIDE DEF Equation
  <2> QED BY <1>8
<1> HIDE DEF iter
<1> DEFINE Good == {T \in SUBSET opened : iter[T] \in V}
<1>10. {} \in Good
  BY <1>5, <1>9
<1>11. ASSUME NEW T \in SUBSET opened, T # {}, \A c \in T : T \ {c} \in Good
       PROVE  T \in Good
  <2> DEFINE c == CHOOSE c \in T : TRUE
  <2>1. c \in T /\ c \in opened
    BY <1>11
  <2>2. iter[T] = With(iter[T \ {c}], c)
    BY <1>9, <1>11
  <2> HIDE DEF c
  <2>3. iter[T \ {c}] \in V
    BY <1>11, <2>1
  <2> QED BY <1>4, <2>1, <2>2, <2>3
<1>12. opened \in Good
  <2> HIDE DEF Good
  <2> QED BY <1>1, <1>10, <1>11, SetInduction
<1> QED BY <1>2, <1>12 DEF V

(* A change in Discord.                                                    *)
LEMMA ChangeKeeps ==
    ASSUME CInv, NEW w, NEW type, NEW subject, Change(w, type, subject),
           EventSound(Event(type, subject, w)), type # "GUILD_CREATE",
           gone' \subseteq Channel \cup Role,
           \A c \in Channel : w.overwrites[c] = Null /\ c \notin gone' =>
               world.overwrites[c] = Null /\ c \notin gone,
           type = "CHANNEL_CREATE" => world.overwrites[subject] = Null /\ subject \notin gone
    PROVE  CInv'
<1> DEFINE e == Event(type, subject, w)
           lists == ThreadLists(w)
           len == Len(events)
<1> USE DEF CInv
<1>1. /\ changes < MaxChanges /\ changes' = changes + 1 /\ world' = w
      /\ events' = Append(events, e) \o lists
      /\ UNCHANGED <<cache, account, allReady, process, syncs, gained>>
  BY DEF Change
<1>2. e.type = type /\ e.subject = subject /\ e.world = w
  BY DEF Event
<1>3. EventSound(e) /\ e \in EventOf /\ WorldSound(w)
  BY <1>2 DEF EventSound
<1>4. lists \in Seq(ListEvents(w)) /\ events \in Seq(EventOf)
  BY ThreadListsAre DEF WorldInv
<1>5. \A l \in ListEvents(w) :
        /\ EventSound(l) /\ l \in EventOf
        /\ l.type = "THREAD_LIST_SYNC" /\ l.world = w
  BY <1>3 DEF ListEvents, Event, EventSound, EventOf, EventType, WorldSound
<1> HIDE DEF e, lists
<1>6. /\ len \in Nat /\ events' \in Seq(EventOf) /\ Len(events') = len + 1 + Len(lists)
      /\ Len(lists) \in Nat
      /\ \A k \in 1..len : events'[k] = events[k]
      /\ events'[len + 1] = e
      /\ \A k \in len + 2..Len(events') : events'[k] \in ListEvents(w)
      /\ events # <<>> => Head(events') = Head(events) /\ events' # <<>>
  <2>1. lists \in Seq(EventOf) /\ Append(events, e) \in Seq(EventOf)
    <3>1. ListEvents(w) \subseteq EventOf
      BY <1>5
    <3> QED BY <1>3, <1>4, <3>1
  <2>2. /\ Len(Append(events, e)) = len + 1 /\ len \in Nat /\ Len(lists) \in Nat
        /\ \A k \in 1..len : Append(events, e)[k] = events[k]
        /\ Append(events, e)[len + 1] = e
    BY <1>3, <1>4
  <2>3. /\ events' \in Seq(EventOf) /\ Len(events') = len + 1 + Len(lists)
        /\ \A k \in 1..len + 1 : events'[k] = Append(events, e)[k]
        /\ \A k \in len + 2..Len(events') : events'[k] = lists[k - (len + 1)]
    <3> DEFINE ext == Append(events, e)
    <3>1. ext \in Seq(EventOf) /\ events' = ext \o lists /\ Len(ext) = len + 1
      BY <1>1, <2>1, <2>2
    <3> HIDE DEF ext
    <3>2. /\ events' \in Seq(EventOf) /\ Len(events') = len + 1 + Len(lists)
          /\ \A k \in 1..len + 1 : events'[k] = ext[k]
          /\ \A k \in len + 2..Len(events') : events'[k] = lists[k - (len + 1)]
      <4>1. /\ ext \o lists \in Seq(EventOf)
            /\ Len(ext \o lists) = Len(ext) + Len(lists)
            /\ \A k \in 1..Len(ext) + Len(lists) : (ext \o lists)[k] =
                IF k <= Len(ext) THEN ext[k] ELSE lists[k - Len(ext)]
        BY <2>1, <3>1, ConcatProperties
      <4>2. \A k \in 1..len + 1 : k \in 1..len + 1 + Len(lists) /\ k <= len + 1
        BY <2>2
      <4>3. \A k \in len + 2..len + 1 + Len(lists) :
                k \in 1..len + 1 + Len(lists) /\ ~(k <= len + 1)
        BY <2>2
      <4> QED BY <2>2, <3>1, <4>1, <4>2, <4>3
    <3> QED BY <3>2 DEF ext
  <2>4. \A k \in len + 2..Len(events') : lists[k - (len + 1)] \in ListEvents(w)
    <3> SUFFICES ASSUME NEW k \in len + 2..Len(events')
                 PROVE  lists[k - (len + 1)] \in ListEvents(w)
      OBVIOUS
    <3>1. k - (len + 1) \in 1..Len(lists)
      BY <2>2, <2>3
    <3> QED BY <1>4, <3>1
  <2>5. events # <<>> => Head(events') = Head(events) /\ events' # <<>>
    <3> SUFFICES ASSUME events # <<>> PROVE Head(events') = Head(events) /\ events' # <<>>
      OBVIOUS
    <3>1. 1 \in 1..len /\ 1 \in 1..len + 1
      BY <1>4, <2>2
    <3>2. events'[1] = events[1] /\ Len(events') >= 1
      BY <2>2, <2>3, <3>1
    <3>3. Head(events) = events[1] /\ Head(events') = events'[1]
      BY <1>4, <2>3
    <3> QED BY <2>3, <3>2, <3>3
  <2>6. len + 1 \in 1..len + 1 /\ \A k \in 1..len : k \in 1..len + 1
    BY <2>2
  <2> QED BY <2>2, <2>3, <2>4, <2>5, <2>6
<1>7. \A k \in 1..Len(events') : k \in 1..len \/ k = len + 1 \/ k \in len + 2..Len(events')
  BY <1>6
<1>8. WorldInv'
  <2>1. \A k \in 1..Len(events') : EventSound(events'[k])
    BY <1>3, <1>5, <1>6, <1>7 DEF WorldInv
  <2>2. changes' \in 0..MaxChanges
    BY <1>1, SyncsAssumption DEF WorldInv
  <2> QED BY <1>1, <1>3, <1>6, <2>1, <2>2 DEF WorldInv
<1>9. CacheInv'
  BY <1>1, <1>6 DEF CacheInv
<1>10. CreatedOnce'
  <2> SUFFICES ASSUME NEW c \in Channel
        PROVE  /\ world'.overwrites[c] = Null /\ c \notin gone' =>
                    /\ cache'[c] = Null
                    /\ \A k \in 1..Len(events') : events'[k].world.overwrites[c] = Null
               /\ \A k \in 1..Len(events') : NewsOf(k, c)' =>
                    /\ cache'[c] = Null
                    /\ \A j \in 1..k - 1 :
                        /\ ~NewsOf(j, c)'
                        /\ account' = Null /\ events'[j].type = "GUILD_CREATE" =>
                            events'[j].world.overwrites[c] = Null
    BY DEF CreatedOnce
  <2>1. ASSUME world'.overwrites[c] = Null, c \notin gone'
        PROVE  /\ cache'[c] = Null
               /\ \A k \in 1..Len(events') : events'[k].world.overwrites[c] = Null
    <3>1. /\ cache[c] = Null
          /\ \A k \in 1..len : events[k].world.overwrites[c] = Null
      BY <1>1, <2>1 DEF CreatedOnce
    <3> QED BY <1>1, <1>2, <1>5, <1>6, <1>7, <2>1, <3>1
  <2>2. ASSUME NEW k \in 1..Len(events'), NewsOf(k, c)'
        PROVE  /\ cache'[c] = Null
               /\ \A j \in 1..k - 1 :
                   /\ ~NewsOf(j, c)'
                   /\ account' = Null /\ events'[j].type = "GUILD_CREATE" =>
                       events'[j].world.overwrites[c] = Null
    <3>1. events'[k].type = "CHANNEL_CREATE" /\ events'[k].subject = c
      BY <2>2 DEF NewsOf
    <3>2. k \notin len + 2..Len(events')
      BY <1>5, <1>6, <3>1
    <3>3. CASE k \in 1..len
      <4>1. NewsOf(k, c)
        BY <1>6, <3>1, <3>3 DEF NewsOf
      <4>2. /\ cache[c] = Null
            /\ \A j \in 1..k - 1 :
                /\ ~NewsOf(j, c)
                /\ account = Null /\ events[j].type = "GUILD_CREATE" =>
                    events[j].world.overwrites[c] = Null
        BY <3>3, <4>1 DEF CreatedOnce
      <4>3. \A j \in 1..k - 1 : events'[j] = events[j]
        BY <1>6, <3>3
      <4>4. \A j \in 1..k - 1 : ~NewsOf(j, c)'
        BY <4>2, <4>3 DEF NewsOf
      <4> QED BY <1>1, <4>2, <4>3, <4>4
    <3>4. CASE k = len + 1
      <4>1. type = "CHANNEL_CREATE" /\ subject = c
        BY <1>2, <1>6, <3>1, <3>4
      <4>2. /\ cache[c] = Null
            /\ \A j \in 1..len : events[j].world.overwrites[c] = Null
        BY <4>1 DEF CreatedOnce
      <4>3. \A j \in 1..k - 1 : j \in 1..len /\ events'[j] = events[j]
        BY <1>6, <3>4
      <4>4. \A j \in 1..len : events[j].type = "CHANNEL_CREATE" => events[j].subject # c
        <5> SUFFICES ASSUME NEW j \in 1..len, events[j].type = "CHANNEL_CREATE",
                            events[j].subject = c
                     PROVE  FALSE
          OBVIOUS
        <5>1. EventSound(events[j])
          BY DEF WorldInv
        <5> QED BY <4>2, <5>1 DEF EventSound
      <4>5. \A j \in 1..k - 1 : ~NewsOf(j, c)'
        BY <4>3, <4>4 DEF NewsOf
      <4> QED BY <1>1, <4>2, <4>3, <4>5
    <3> QED BY <1>7, <3>2, <3>3, <3>4
  <2> QED BY <2>1, <2>2
<1>11. SyncsInv'
  BY <1>1 DEF SyncsInv
<1>12. ReadInv'
  BY <1>1 DEF ReadInv, Known
<1> QED BY <1>8, <1>9, <1>10, <1>11, <1>12

LEMMA ChangeChannelKeeps ==
    ASSUME CInv, NEW c \in Channel, NEW o \in Overwrites, ChangeChannel(c, o)
    PROVE  CInv'
<1> DEFINE w == [world EXCEPT !.overwrites[c] = o]
           type == IF world.overwrites[c] = Null THEN "CHANNEL_CREATE" ELSE "CHANNEL_UPDATE"
<1>1. c \notin gone /\ Change(w, type, c) /\ gone' = gone
  BY DEF ChangeChannel
<1>2. world \in World /\ WorldSound(world) /\ gone \subseteq Channel \cup Role
  BY DEF CInv, WorldInv, WorldSound
<1>3. /\ w \in World /\ w.roles = world.roles /\ w.permissions = world.permissions
      /\ w.overwrites = [world.overwrites EXCEPT ![c] = o] /\ o # Null
  BY <1>2, SyncsAssumption DEF World
<1>4. w.overwrites[c] = o /\ \A d \in Channel : d # c => w.overwrites[d] = world.overwrites[d]
  BY <1>2, <1>3 DEF World
<1> HIDE DEF w
<1>5. WorldSound(w)
  BY <1>2, <1>3 DEF WorldSound
<1>6. EventSound(Event(type, c, w))
  BY <1>3, <1>4, <1>5 DEF EventSound, Event, EventOf, EventType
<1>7. type # "GUILD_CREATE" /\ (type = "CHANNEL_CREATE" => world.overwrites[c] = Null)
  OBVIOUS
<1> HIDE DEF type
<1>8. \A d \in Channel : w.overwrites[d] = Null /\ d \notin gone' =>
        world.overwrites[d] = Null /\ d \notin gone
  BY <1>1, <1>3, <1>4
<1>9. gone' \subseteq Channel \cup Role
  BY <1>1, <1>2
<1> QED BY <1>1, <1>6, <1>7, <1>8, <1>9, ChangeKeeps

LEMMA DeleteChannelKeeps ==
    ASSUME CInv, NEW c \in Channel, DeleteChannel(c)
    PROVE  CInv'
<1> DEFINE w == [world EXCEPT !.overwrites[c] = Null]
<1>1. Change(w, "CHANNEL_DELETE", c) /\ gone' = gone \cup {c}
  BY DEF DeleteChannel
<1>2. world \in World /\ WorldSound(world) /\ gone \subseteq Channel \cup Role
  BY DEF CInv, WorldInv, WorldSound
<1>3. /\ w \in World /\ w.roles = world.roles /\ w.permissions = world.permissions
      /\ \A d \in Channel : d # c => w.overwrites[d] = world.overwrites[d]
  BY <1>2 DEF World
<1> HIDE DEF w
<1>4. WorldSound(w)
  BY <1>2, <1>3 DEF WorldSound
<1>5. EventSound(Event("CHANNEL_DELETE", c, w))
  BY <1>3, <1>4 DEF EventSound, Event, EventOf, EventType
<1>6. \A d \in Channel : w.overwrites[d] = Null /\ d \notin gone' =>
        world.overwrites[d] = Null /\ d \notin gone
  BY <1>1, <1>3
<1>7. gone' \subseteq Channel \cup Role
  BY <1>1, <1>2
<1> QED BY <1>1, <1>5, <1>6, <1>7, ChangeKeeps

LEMMA ChangeRoleKeeps ==
    ASSUME CInv, NEW r \in Role \cup {Everyone}, NEW g \in Grants, ChangeRole(r, g)
    PROVE  CInv'
<1> DEFINE w == [world EXCEPT !.permissions[r] = g]
           type == IF world.permissions[r] = Null THEN "GUILD_ROLE_CREATE"
                   ELSE "GUILD_ROLE_UPDATE"
<1>1. Change(w, type, r) /\ gone' = gone
  BY DEF ChangeRole
<1>2. world \in World /\ WorldSound(world) /\ gone \subseteq Channel \cup Role
  BY DEF CInv, WorldInv, WorldSound
<1>3. /\ w \in World /\ w.roles = world.roles /\ w.overwrites = world.overwrites
      /\ w.permissions = [world.permissions EXCEPT ![r] = g] /\ g # Null
  BY <1>2, SyncsAssumption DEF World, RolePermissions
<1>4. \A q \in Role \cup {Everyone} :
        w.permissions[q] = world.permissions[q] \/ w.permissions[q] # Null
  BY <1>2, <1>3 DEF World, RolePermissions
<1> HIDE DEF w
<1>5. WorldSound(w)
  BY <1>2, <1>3, <1>4 DEF WorldSound, World
<1>6. EventSound(Event(type, r, w)) /\ type \notin {"GUILD_CREATE", "CHANNEL_CREATE"}
  BY <1>3, <1>5 DEF EventSound, Event, EventOf, EventType
<1> HIDE DEF type
<1> QED BY <1>1, <1>2, <1>3, <1>6, ChangeKeeps

LEMMA DeleteRoleKeeps ==
    ASSUME CInv, NEW r \in Role, DeleteRole(r)
    PROVE  CInv'
<1> DEFINE w == [world EXCEPT !.permissions[r] = Null, !.roles = @ \ {r}]
<1>1. Change(w, "GUILD_ROLE_DELETE", r) /\ gone' = gone \cup {r}
  BY DEF DeleteRole
<1>2. world \in World /\ WorldSound(world) /\ gone \subseteq Channel \cup Role
  BY DEF CInv, WorldInv, WorldSound
<1>3. /\ w \in World /\ w.roles = world.roles \ {r} /\ w.overwrites = world.overwrites
      /\ w.permissions = [world.permissions EXCEPT ![r] = Null]
  BY <1>2 DEF World, RolePermissions
<1>4. \A q \in Role \cup {Everyone} : q # r => w.permissions[q] = world.permissions[q]
  BY <1>2, <1>3 DEF World, RolePermissions
<1> HIDE DEF w
<1>5. WorldSound(w)
  BY <1>2, <1>3, <1>4, SyncsAssumption DEF WorldSound, World
<1>6. EventSound(Event("GUILD_ROLE_DELETE", r, w))
  BY <1>3, <1>5 DEF EventSound, Event, EventOf, EventType
<1>7. gone' \subseteq Channel \cup Role
  BY <1>1, <1>2
<1> QED BY <1>1, <1>3, <1>6, <1>7, ChangeKeeps

LEMMA ChangeRolesKeeps ==
    ASSUME CInv, NEW roles \in SUBSET Role, ChangeRolesOfAccount(roles)
    PROVE  CInv'
<1> DEFINE w == [world EXCEPT !.roles = roles]
<1>1. /\ Change(w, "GUILD_MEMBER_UPDATE", Null) /\ gone' = gone
      /\ \A r \in roles : world.permissions[r] # Null
  BY DEF ChangeRolesOfAccount
<1>2. world \in World /\ WorldSound(world) /\ gone \subseteq Channel \cup Role
  BY DEF CInv, WorldInv, WorldSound
<1>3. /\ w \in World /\ w.roles = roles /\ w.overwrites = world.overwrites
      /\ w.permissions = world.permissions
  BY <1>2 DEF World
<1> HIDE DEF w
<1>4. WorldSound(w)
  BY <1>1, <1>2, <1>3 DEF WorldSound
<1>5. EventSound(Event("GUILD_MEMBER_UPDATE", Null, w))
  BY <1>3, <1>4 DEF EventSound, Event, EventOf, EventType
<1> QED BY <1>1, <1>2, <1>3, <1>5, ChangeKeeps

LEMMA LoseSessionKeeps ==
    ASSUME CInv, LoseSession
    PROVE  CInv'
<1> DEFINE e == Event("GUILD_CREATE", Null, world)
<1>1. /\ changes < MaxChanges /\ changes' = changes + 1 /\ events' = <<e>> /\ account # Null
      /\ UNCHANGED <<world, gone, cache, account, allReady, process, syncs, gained>>
  BY DEF LoseSession
<1>2. e.type = "GUILD_CREATE" /\ e.world = world /\ EventSound(e) /\ e \in EventOf
  BY DEF CInv, WorldInv, WorldSound, EventSound, Event, EventOf, EventType
<1> HIDE DEF e
<1>3. events' \in Seq(EventOf) /\ Len(events') = 1 /\ events'[1] = e
  BY <1>1, <1>2
<1>4. WorldInv'
  BY <1>1, <1>2, <1>3, SyncsAssumption DEF CInv, WorldInv
<1>5. CacheInv'
  BY <1>1 DEF CInv, CacheInv
<1>6. CreatedOnce'
  <2>1. \A c : \A k \in 1..Len(events') : ~NewsOf(k, c)'
    BY <1>2, <1>3 DEF NewsOf
  <2> QED BY <1>1, <1>2, <1>3, <2>1 DEF CInv, CreatedOnce
<1>7. SyncsInv' /\ ReadInv'
  BY <1>1 DEF CInv, SyncsInv, ReadInv, Known
<1> QED BY <1>4, <1>5, <1>6, <1>7 DEF CInv

-----------------------------------------------------------------------------
(* The listener. *)
LEMMA TakeSound ==
    ASSUME CInv, NEW type, Take(type)
    PROVE  /\ WorldInv' /\ EventSound(Head(events)) /\ Head(events).type = type
           /\ events # <<>> /\ process = "up" /\ allReady' = allReady
           /\ UNCHANGED <<world, gone, changes>>
           /\ account = Null => type = "GUILD_CREATE"
           /\ events[1] = Head(events) /\ 1 \in 1..Len(events)
           /\ \A k \in 1..Len(events') :
               events'[k] = events[k + 1] /\ k + 1 \in 1..Len(events)
<1>1. /\ events # <<>> /\ events' = Tail(events) /\ Head(events).type = type
      /\ process = "up" /\ UNCHANGED <<world, gone, changes, allReady>>
  BY DEF Take, discord
<1>2. events \in Seq(EventOf) /\ \A k \in 1..Len(events) : EventSound(events[k])
  BY DEF CInv, WorldInv
<1>3. /\ Tail(events) \in Seq(EventOf) /\ Len(Tail(events)) = Len(events) - 1
      /\ \A k \in 1..Len(Tail(events)) : Tail(events)[k] = events[k + 1]
  BY <1>1, <1>2, HeadTailProperties
<1>4. /\ events[1] = Head(events) /\ 1 \in 1..Len(events)
      /\ \A k \in 1..Len(events) - 1 : k + 1 \in 1..Len(events)
  BY <1>1, <1>2
<1>5. EventSound(Head(events))
  BY <1>2, <1>4
<1>6. \A k \in 1..Len(events') : events'[k] = events[k + 1] /\ k + 1 \in 1..Len(events)
  BY <1>1, <1>3, <1>4
<1>7. \A k \in 1..Len(events') : EventSound(events'[k])
  BY <1>2, <1>6
<1>8. WorldInv'
  BY <1>1, <1>3, <1>7 DEF CInv, WorldInv
<1>9. account = Null => type = "GUILD_CREATE"
  BY <1>1 DEF CInv, CacheInv
<1> QED BY <1>1, <1>4, <1>5, <1>6, <1>8, <1>9

(* A channel becomes known with its CHANNEL_CREATE or the first            *)
(* GUILD_CREATE, and only once.                                            *)
LEMMA TakeKeepsCreatedOnce ==
    ASSUME CInv, NEW type, Take(type), account' # Null,
           \A c \in Channel : cache'[c] # Null =>
               \/ cache[c] # Null
               \/ type = "CHANNEL_CREATE" /\ Head(events).subject = c
               \/ /\ account = Null /\ type = "GUILD_CREATE"
                  /\ Head(events).world.overwrites[c] # Null
    PROVE  CreatedOnce'
<1> DEFINE e == Head(events)
<1>1. /\ EventSound(e) /\ e.type = type /\ UNCHANGED <<world, gone>>
      /\ events[1] = e /\ 1 \in 1..Len(events)
      /\ \A k \in 1..Len(events') : events'[k] = events[k + 1] /\ k + 1 \in 1..Len(events)
  BY TakeSound
<1> HIDE DEF e
<1> SUFFICES ASSUME NEW c \in Channel
    PROVE  /\ world'.overwrites[c] = Null /\ c \notin gone' =>
                /\ cache'[c] = Null
                /\ \A k \in 1..Len(events') : events'[k].world.overwrites[c] = Null
           /\ \A k \in 1..Len(events') : NewsOf(k, c)' =>
                /\ cache'[c] = Null
                /\ \A j \in 1..k - 1 :
                    /\ ~NewsOf(j, c)'
                    /\ account' = Null /\ events'[j].type = "GUILD_CREATE" =>
                        events'[j].world.overwrites[c] = Null
  BY DEF CreatedOnce
<1>2. ASSUME world'.overwrites[c] = Null, c \notin gone'
      PROVE  /\ cache'[c] = Null
             /\ \A k \in 1..Len(events') : events'[k].world.overwrites[c] = Null
  <2>1. /\ cache[c] = Null
        /\ \A k \in 1..Len(events) : events[k].world.overwrites[c] = Null
    BY <1>1, <1>2 DEF CInv, CreatedOnce
  <2>2. e.world.overwrites[c] = Null
    BY <1>1, <2>1
  <2>3. ~(type = "CHANNEL_CREATE" /\ e.subject = c)
    BY <1>1, <2>2 DEF EventSound
  <2>4. cache'[c] = Null
    BY <2>1, <2>2, <2>3 DEF e
  <2> QED BY <1>1, <2>1, <2>4
<1>3. ASSUME NEW k \in 1..Len(events'), NewsOf(k, c)'
      PROVE  cache'[c] = Null /\ \A j \in 1..k - 1 : ~NewsOf(j, c)'
  <2>1. k + 1 \in 1..Len(events) /\ NewsOf(k + 1, c)
    BY <1>1, <1>3 DEF NewsOf
  <2>2. /\ cache[c] = Null
        /\ \A j \in 1..(k + 1) - 1 :
            /\ ~NewsOf(j, c)
            /\ account = Null /\ events[j].type = "GUILD_CREATE" =>
                events[j].world.overwrites[c] = Null
    BY <2>1 DEF CInv, CreatedOnce
  <2>3. 1 \in 1..(k + 1) - 1
    BY <2>1
  <2>4. /\ ~(type = "CHANNEL_CREATE" /\ e.subject = c)
        /\ account = Null /\ type = "GUILD_CREATE" => e.world.overwrites[c] = Null
    BY <1>1, <2>2, <2>3 DEF NewsOf
  <2>5. cache'[c] = Null
    BY <2>2, <2>4 DEF e
  <2>6. \A j \in 1..k - 1 : ~NewsOf(j, c)'
    <3> SUFFICES ASSUME NEW j \in 1..k - 1 PROVE ~NewsOf(j, c)'
      OBVIOUS
    <3>1. j \in 1..Len(events') /\ j + 1 \in 1..(k + 1) - 1
      OBVIOUS
    <3>2. ~NewsOf(j + 1, c)
      BY <2>2, <3>1
    <3> QED BY <1>1, <3>1, <3>2 DEF NewsOf
  <2> QED BY <2>5, <2>6
<1> QED BY <1>2, <1>3

(* What is said of an event that does not touch the operations.            *)
LEMMA NoUpdateKeeps ==
    ASSUME CInv, NEW type, Take(type), account # Null, account' \in CachedAccount,
           NoUpdate, process' = process
    PROVE  CInv'
<1>1. WorldInv' /\ allReady' = allReady
  BY TakeSound
<1>2. account' # Null
  BY SyncsAssumption
<1>3. cache' = cache /\ syncs' = syncs /\ gained' = gained
  BY DEF NoUpdate
<1>4. CreatedOnce'
  BY <1>2, <1>3, TakeKeepsCreatedOnce
<1>5. CacheInv'
  BY <1>1, <1>2, <1>3 DEF CInv, CacheInv
<1>6. SyncsInv' /\ ReadInv'
  BY <1>1, <1>3 DEF CInv, SyncsInv, ReadInv, Known
<1> QED BY <1>1, <1>4, <1>5, <1>6 DEF CInv

LEMMA UpdatedFields ==
    ASSUME NEW channel \in CachedChannel, NEW data
    PROVE  /\ Updated(channel, data) \in CachedChannel
           /\ Updated(channel, data).known = channel.known
<1> DEFINE permissions == computeChannelPermissions(
                              data.guildPermissions, data.roles, channel.overwrites)
           read == hasChannelPermissions(permissions, {"ReadMessageHistory"})
           manage == read /\ hasChannelPermissions(permissions, {"ManageThreads"})
<1>1. read \in BOOLEAN /\ manage \in BOOLEAN
  BY DEF hasChannelPermissions
<1>2. Updated(channel, data) =
        [channel EXCEPT !.read = read, !.manage = manage \/ (@ /\ ~read)]
  BY DEF Updated
<1> HIDE DEF read, manage
<1> QED BY <1>1, <1>2 DEF CachedChannel

(* What updateGuildChannelPermissions does, in a cache that has these      *)
(* overwrites.                                                             *)
LEMMA UpdateKeeps ==
    ASSUME CInv, NEW channels \in SUBSET Channel,
           NEW overwritten \in [Channel -> CachedChannel \cup {Null}], NEW data,
           \A c \in channels : overwritten[c] \in CachedChannel,
           \A c \in Channel : cache[c] # Null => overwritten[c] # Null,
           \A c \in Channel : overwritten[c] # Null /\ overwritten[c].known =>
               /\ overwritten[c].read \/ AllAborted(syncs, c)
               /\ allReady /\ overwritten[c].read => SyncedSince(syncs, c, gained[c]),
           allReady' = allReady, UpdatePermissions(channels, overwritten, data)
    PROVE  /\ cache' \in [Channel -> CachedChannel \cup {Null}]
           /\ \A c \in Channel : cache'[c] # Null => overwritten[c] # Null
           /\ gained' \in [Channel -> Nat]
           /\ SyncsInv' /\ ReadInv'
<1> DEFINE is == [c \in Channel |-> IF c \in channels THEN Updated(overwritten[c], data)
                                    ELSE overwritten[c]]
<1>1. /\ cache' = is /\ syncs' = AfterUpdates(syncs, channels, overwritten, is)
      /\ Len(syncs'.ops) <= MaxOps
      /\ gained' = [c \in Channel |->
            gained[c] + IF c \in channels /\ ~overwritten[c].read /\ is[c].read
                        THEN 1 ELSE 0]
  BY DEF UpdatePermissions
<1>2. \A c \in channels : /\ is[c] \in CachedChannel /\ is[c] # Null
                          /\ is[c].known = overwritten[c].known
  BY UpdatedFields, SyncsAssumption
<1>3. \A c \in Channel \ channels : is[c] = overwritten[c]
  OBVIOUS
<1> HIDE DEF is
<1>4. gained \in [Channel -> Nat] /\ world \in World /\ SyncsSound(syncs)
  BY DEF CInv, CacheInv, WorldInv, WorldSound, SyncsInv
<1>5. /\ SyncsSound(syncs') /\ Outside(syncs, syncs', channels)
      /\ \A c \in channels : Settled(syncs, syncs', c, overwritten[c], is[c])
  BY <1>1, <1>2, <1>4, AfterUpdatesSound
<1>6. cache' \in [Channel -> CachedChannel \cup {Null}]
  <2>1. \A c \in Channel : is[c] \in CachedChannel \cup {Null}
    BY <1>2, <1>3
  <2>2. is = [c \in Channel |-> is[c]]
    BY DEF is
  <2> QED BY <1>1, <2>1, <2>2
<1>7. \A c \in Channel : cache'[c] # Null => overwritten[c] # Null
  BY <1>1, <1>3, SyncsAssumption
<1>8. gained' \in [Channel -> Nat]
  BY <1>1, <1>4
<1>9. SyncsInv'
  <2> SUFFICES ASSUME NEW n \in 1..Len(syncs'.ops)
               PROVE  cache'[syncs'.ops[n].channel] # Null
    BY <1>1, <1>5 DEF SyncsInv
  <2>1. CASE syncs'.ops[n].channel \in channels
    BY <1>1, <1>2, <2>1
  <2>2. CASE syncs'.ops[n].channel \notin channels
    <3> DEFINE c == syncs'.ops[n].channel
    <3>1. n \in 1..Len(syncs.ops) /\ c = syncs.ops[n].channel
      BY <1>5, <2>2 DEF Outside
    <3>2. cache[c] # Null
      BY <3>1 DEF CInv, SyncsInv
    <3>3. c \in Channel
      <4>1. syncs.ops[n] \in Operation
        BY <1>4, <3>1 DEF SyncsSound, Syncs
      <4> QED BY <3>1, <4>1 DEF Operation
    <3> HIDE DEF c
    <3>4. cache'[c] # Null
      BY <1>1, <1>3, <2>2, <3>2, <3>3 DEF c
    <3> QED BY <3>4 DEF c
  <2> QED BY <2>1, <2>2
<1>10. ReadInv'
  <2> SUFFICES ASSUME NEW c \in Channel, is[c] # Null, is[c].known
               PROVE  /\ is[c].read \/ AllAborted(syncs', c)
                      /\ allReady /\ is[c].read => SyncedSince(syncs', c, gained'[c])
    BY <1>1 DEF ReadInv, Known
  <2>1. CASE c \in channels
    <3>1. overwritten[c].known /\ overwritten[c] # Null
      BY <1>2, <2>1, SyncsAssumption
    <3>2. /\ overwritten[c].read \/ AllAborted(syncs, c)
          /\ allReady /\ overwritten[c].read => SyncedSince(syncs, c, gained[c])
      BY <3>1
    <3>3. Settled(syncs, syncs', c, overwritten[c], is[c])
      BY <1>5, <2>1
    <3>4. is[c].read /\ overwritten[c].read => gained'[c] = gained[c]
      BY <1>1, <1>4
    <3>5. is[c].read /\ ~overwritten[c].read => gained'[c] = gained[c] + 1
      BY <1>1, <1>4, <2>1
    <3>6. gained[c] \in Nat
      BY <1>4
    <3> QED BY <3>2, <3>3, <3>4, <3>5, <3>6 DEF Settled
  <2>2. CASE c \notin channels
    <3>1. is[c] = overwritten[c] /\ gained'[c] = gained[c] /\ gained[c] \in Nat
      BY <1>1, <1>3, <1>4, <2>2
    <3>2. /\ overwritten[c].read \/ AllAborted(syncs, c)
          /\ allReady /\ overwritten[c].read => SyncedSince(syncs, c, gained[c])
      BY <3>1
    <3>3. /\ AllAborted(syncs, c) => AllAborted(syncs', c)
          /\ \A gain \in Nat : SyncedSince(syncs, c, gain) => SyncedSince(syncs', c, gain)
      BY <1>5, <2>2 DEF Outside
    <3> QED BY <3>1, <3>2, <3>3
  <2> QED BY <2>1, <2>2
<1> QED BY <1>6, <1>7, <1>8, <1>9, <1>10

(* What the cache does not know of has no operations.                      *)
LEMMA UnknownIsQuiet ==
    ASSUME CInv, NEW c \in Channel, cache[c] = Null
    PROVE  AllAborted(syncs, c)
BY NothingRegistered DEF CInv, SyncsInv

LEMMA NewChannelFields ==
    ASSUME NEW o \in Overwrites, NEW threads \in SUBSET Thread
    PROVE  /\ NewChannel(o, threads) \in CachedChannel /\ NewChannel(o, threads) # Null
           /\ ~NewChannel(o, threads).read /\ NewChannel(o, threads).known
<1>1. /\ NewChannel(o, threads) \in CachedChannel
      /\ ~NewChannel(o, threads).read /\ NewChannel(o, threads).known
  BY DEF NewChannel, CachedChannel
<1>2. NewChannel(o, threads) # Null
  BY <1>1, SyncsAssumption
<1> QED BY <1>1, <1>2

LEMMA GuildPermissionsType ==
    ASSUME NEW w, WorldSound(w)
    PROVE  computeGuildPermissions(FALSE, w.permissions, w.roles) \in SUBSET Flag
<1>1. \A r \in w.roles \cup {Everyone} : w.permissions[r] \in SUBSET Flag
  BY SyncsAssumption DEF WorldSound, World, RolePermissions
<1> QED BY <1>1 DEF computeGuildPermissions

LEMMA GuildCreateKeeps ==
    ASSUME CInv, GuildCreate
    PROVE  CInv'
<1> DEFINE w == Head(events).world
           data == [roles |-> w.roles, rolePermissions |-> w.permissions,
                    guildPermissions |-> computeGuildPermissions(FALSE, w.permissions, w.roles)]
           channels == {c \in Channel : w.overwrites[c] # Null}
           Threads(c) == IF MayRead(w, c) THEN ActiveIn(w, c) ELSE {}
           overwritten == [c \in Channel |-> IF c \in channels
                                             THEN NewChannel(w.overwrites[c], Threads(c))
                                             ELSE Null]
<1>1. Take("GUILD_CREATE") /\ process' = process
  BY DEF GuildCreate
<1>2. WorldSound(w) /\ w \in World /\ WorldInv' /\ allReady' = allReady /\ process = "up"
  BY <1>1, TakeSound DEF EventSound, WorldSound
<1>3. account \in CachedAccount \cup {Null}
  BY DEF CInv, CacheInv
<1>4. CASE account # Null
  <2>1. account' = account /\ NoUpdate
    BY <1>4 DEF GuildCreate
  <2> QED BY <1>1, <1>3, <1>4, <2>1, NoUpdateKeeps
<1>5. CASE account = Null
  <2>1. account' = data /\ UpdatePermissions(channels, overwritten, data)
    BY <1>5 DEF GuildCreate
  <2>2. data \in CachedAccount
    BY <1>2, GuildPermissionsType DEF CachedAccount, WorldSound, World
  <2>3. data # Null
    BY <2>2, SyncsAssumption
  <2> HIDE DEF data
  <2>4. \A c \in channels : w.overwrites[c] \in Overwrites /\ Threads(c) \in SUBSET Thread
    <3>1. w.threads \in SUBSET Thread
      BY <1>2 DEF World
    <3>2. \A c \in channels : Threads(c) \in SUBSET Thread
      BY <3>1 DEF ActiveIn
    <3>3. \A c \in channels : w.overwrites[c] \in Overwrites
      BY <1>2 DEF World
    <3> QED BY <3>2, <3>3
  <2>5. \A c \in channels : overwritten[c] = NewChannel(w.overwrites[c], Threads(c))
    OBVIOUS
  <2>6. \A c \in channels : overwritten[c] \in CachedChannel
    <3> HIDE DEF overwritten, channels, w, Threads
    <3> QED BY <2>4, <2>5, NewChannelFields
  <2>7. \A c \in Channel : c \notin channels => overwritten[c] = Null
    OBVIOUS
  <2>8. channels \in SUBSET Channel
    OBVIOUS
  <2>9. \A c \in channels : w.overwrites[c] # Null
    OBVIOUS
  <2>10. overwritten = [c \in Channel |-> overwritten[c]]
    OBVIOUS
  <2> HIDE DEF channels, overwritten, w, Threads
  <2>11. overwritten \in [Channel -> CachedChannel \cup {Null}]
    <3>1. \A c \in Channel : overwritten[c] \in CachedChannel \cup {Null}
      BY <2>6, <2>7
    <3> QED BY <2>10, <3>1
  <2>12. \A c \in Channel : cache[c] = Null
    BY <1>5 DEF CInv, CacheInv
  <2>13. \A c \in Channel : overwritten[c] # Null /\ overwritten[c].known =>
            /\ overwritten[c].read \/ AllAborted(syncs, c)
            /\ allReady /\ overwritten[c].read => SyncedSince(syncs, c, gained[c])
    <3> SUFFICES ASSUME NEW c \in Channel, overwritten[c] # Null
                 PROVE  ~overwritten[c].read /\ AllAborted(syncs, c)
      OBVIOUS
    <3>1. c \in channels
      BY <2>7
    <3>2. ~overwritten[c].read
      BY <2>4, <2>5, <3>1, NewChannelFields
    <3> QED BY <2>12, <3>2, UnknownIsQuiet
  <2>14. /\ cache' \in [Channel -> CachedChannel \cup {Null}]
         /\ \A c \in Channel : cache'[c] # Null => overwritten[c] # Null
         /\ gained' \in [Channel -> Nat]
         /\ SyncsInv' /\ ReadInv'
    BY <1>2, <2>1, <2>6, <2>8, <2>11, <2>12, <2>13, UpdateKeeps
  <2>15. \A c \in Channel : cache'[c] # Null =>
            account = Null /\ Head(events).world.overwrites[c] # Null
    BY <1>5, <2>7, <2>9, <2>14 DEF w
  <2>16. CreatedOnce'
    BY <1>1, <2>1, <2>3, <2>15, TakeKeepsCreatedOnce
  <2>17. CacheInv'
    BY <1>1, <1>2, <2>1, <2>2, <2>3, <2>14 DEF CInv, CacheInv
  <2> QED BY <1>2, <2>14, <2>16, <2>17 DEF CInv
<1> QED BY <1>4, <1>5

LEMMA ChannelCreateKeeps ==
    ASSUME CInv, ChannelCreate
    PROVE  CInv'
<1> DEFINE c == Head(events).subject
           o == Head(events).world.overwrites[c]
<1>1. /\ Take("CHANNEL_CREATE") /\ cache' = [cache EXCEPT ![c] = NewChannel(o, {})]
      /\ UNCHANGED <<account, process, syncs, gained>>
  BY DEF ChannelCreate
<1>2. /\ EventSound(Head(events)) /\ Head(events).type = "CHANNEL_CREATE" /\ WorldInv'
      /\ allReady' = allReady /\ account # Null
      /\ events[1] = Head(events) /\ 1 \in 1..Len(events)
  BY <1>1, TakeSound
<1>3. c \in Channel /\ o \in Overwrites
  BY <1>2 DEF EventSound, WorldSound, World
<1>4. cache[c] = Null
  <2>1. NewsOf(1, c)
    BY <1>2 DEF NewsOf
  <2> HIDE DEF c
  <2> QED BY <1>2, <1>3, <2>1 DEF CInv, CreatedOnce
<1>5. /\ NewChannel(o, {}) \in CachedChannel /\ NewChannel(o, {}) # Null
      /\ ~NewChannel(o, {}).read /\ NewChannel(o, {}).known
  BY <1>3, NewChannelFields
<1> HIDE DEF o
<1>6. cache \in [Channel -> CachedChannel \cup {Null}]
  BY DEF CInv, CacheInv
<1>7. AllAborted(syncs, c)
  BY <1>3, <1>4, UnknownIsQuiet
<1>8. \A d \in Channel : d # c => cache'[d] = cache[d]
  BY <1>1, <1>6
<1>9. cache'[c] = NewChannel(o, {}) /\ cache' \in [Channel -> CachedChannel \cup {Null}]
  BY <1>1, <1>3, <1>5, <1>6
<1>10. CreatedOnce'
  BY <1>1, <1>2, <1>8, TakeKeepsCreatedOnce DEF c
<1> HIDE DEF c
<1>11. CacheInv'
  BY <1>1, <1>2, <1>9 DEF CInv, CacheInv
<1>12. SyncsInv'
  <2> SUFFICES ASSUME NEW n \in 1..Len(syncs.ops)
               PROVE  cache'[syncs.ops[n].channel] # Null
    BY <1>1 DEF CInv, SyncsInv
  <2>1. syncs.ops[n].channel \in Channel
    <3>1. syncs.ops[n] \in Operation
      BY DEF CInv, SyncsInv, SyncsSound, Syncs
    <3> QED BY <3>1 DEF Operation
  <2> QED BY <1>5, <1>8, <1>9, <2>1 DEF CInv, SyncsInv
<1>13. ReadInv'
  <2> SUFFICES ASSUME process = "up", NEW d \in Channel, cache'[d] # Null, cache'[d].known
               PROVE  /\ cache'[d].read \/ AllAborted(syncs, d)
                      /\ allReady /\ cache'[d].read => SyncedSince(syncs, d, gained[d])
    BY <1>1, <1>2 DEF ReadInv, Known
  <2>1. CASE d = c
    BY <1>5, <1>7, <1>9, <2>1
  <2>2. CASE d # c
    BY <1>8, <2>2 DEF CInv, ReadInv, Known
  <2> QED BY <2>1, <2>2
<1> QED BY <1>2, <1>10, <1>11, <1>12, <1>13 DEF CInv

LEMMA ChannelUpdateKeeps ==
    ASSUME CInv, ChannelUpdate
    PROVE  CInv'
<1> DEFINE c == Head(events).subject
           o == Head(events).world.overwrites[c]
           overwritten == [cache EXCEPT ![c].overwrites = o]
<1>1. Take("CHANNEL_UPDATE") /\ UNCHANGED <<account, process>>
  BY DEF ChannelUpdate
<1>2. /\ EventSound(Head(events)) /\ Head(events).type = "CHANNEL_UPDATE" /\ WorldInv'
      /\ allReady' = allReady /\ account # Null /\ process = "up"
  BY <1>1, TakeSound
<1>3. c \in Channel /\ o \in Overwrites
  BY <1>2 DEF EventSound, WorldSound, World
<1>4. /\ cache \in [Channel -> CachedChannel \cup {Null}]
      /\ account \in CachedAccount \cup {Null}
  BY DEF CInv, CacheInv
<1>5. CASE c \notin Known
  <2>1. NoUpdate
    BY <1>5 DEF ChannelUpdate
  <2> QED BY <1>1, <1>2, <1>4, <2>1, NoUpdateKeeps
<1>6. CASE c \in Known
  <2>1. UpdatePermissions({c}, overwritten, account)
    BY <1>6 DEF ChannelUpdate
  <2>2. cache[c] \in CachedChannel
    BY <1>3, <1>4, <1>6 DEF Known
  <2>3. /\ overwritten[c] \in CachedChannel /\ overwritten[c].read = cache[c].read
        /\ overwritten[c].known = cache[c].known
        /\ overwritten \in [Channel -> CachedChannel \cup {Null}]
        /\ \A d \in Channel : d # c => overwritten[d] = cache[d]
    <3> HIDE DEF o, c
    <3>1. overwritten = [cache EXCEPT ![c] = [cache[c] EXCEPT !.overwrites = o]]
      OBVIOUS
    <3>2. /\ [cache[c] EXCEPT !.overwrites = o] \in CachedChannel
          /\ [cache[c] EXCEPT !.overwrites = o].read = cache[c].read
          /\ [cache[c] EXCEPT !.overwrites = o].known = cache[c].known
      BY <1>3, <2>2 DEF CachedChannel
    <3> HIDE DEF overwritten
    <3> QED BY <1>3, <1>4, <3>1, <3>2
  <2> HIDE DEF overwritten, o
  <2>4. overwritten[c] # Null /\ cache[c] # Null /\ cache[c].known
    BY <1>6, <2>3, SyncsAssumption DEF Known
  <2>5. \A d \in Channel : cache[d] # Null <=> overwritten[d] # Null
    BY <2>3, <2>4
  <2>6. \A d \in Channel : overwritten[d] # Null /\ overwritten[d].known =>
            /\ overwritten[d].read \/ AllAborted(syncs, d)
            /\ allReady /\ overwritten[d].read => SyncedSince(syncs, d, gained[d])
    <3> SUFFICES ASSUME NEW d \in Channel, overwritten[d] # Null, overwritten[d].known
                 PROVE  /\ overwritten[d].read \/ AllAborted(syncs, d)
                        /\ allReady /\ overwritten[d].read => SyncedSince(syncs, d, gained[d])
      OBVIOUS
    <3>1. cache[d] # Null /\ cache[d].known /\ cache[d].read = overwritten[d].read
      BY <2>3, <2>4
    <3> QED BY <1>2, <3>1 DEF CInv, ReadInv, Known
  <2>7. {c} \in SUBSET Channel
    BY <1>3
  <2> HIDE DEF c
  <2>8. /\ cache' \in [Channel -> CachedChannel \cup {Null}]
        /\ \A d \in Channel : cache'[d] # Null => overwritten[d] # Null
        /\ gained' \in [Channel -> Nat]
        /\ SyncsInv' /\ ReadInv'
    BY <1>2, <2>1, <2>3, <2>5, <2>6, <2>7, UpdateKeeps
  <2>9. CreatedOnce'
    BY <1>1, <1>2, <2>5, <2>8, TakeKeepsCreatedOnce
  <2>10. CacheInv'
    BY <1>1, <1>2, <2>8 DEF CInv, CacheInv
  <2> QED BY <1>2, <2>8, <2>9, <2>10 DEF CInv
<1> QED BY <1>5, <1>6

LEMMA ChannelDeleteKeeps ==
    ASSUME CInv, ChannelDelete
    PROVE  CInv'
<1> DEFINE c == Head(events).subject
<1>1. /\ Take("CHANNEL_DELETE")
      /\ cache' = IF c \in Known THEN [cache EXCEPT ![c].known = FALSE] ELSE cache
      /\ UNCHANGED <<account, process, syncs, gained>>
  BY DEF ChannelDelete
<1>2. WorldInv' /\ allReady' = allReady /\ account # Null
  BY <1>1, TakeSound
<1> HIDE DEF c
<1>3. cache \in [Channel -> CachedChannel \cup {Null}]
  BY DEF CInv, CacheInv
<1>4. /\ cache' \in [Channel -> CachedChannel \cup {Null}]
      /\ \A d \in Channel : cache'[d] # Null <=> cache[d] # Null
      /\ \A d \in Channel : cache'[d] # Null /\ cache'[d].known => cache'[d] = cache[d]
  <2>1. CASE c \in Known
    <3>1. cache[c] \in CachedChannel /\ c \in Channel
      BY <1>3, <2>1 DEF Known
    <3> DEFINE deleted == [cache[c] EXCEPT !.known = FALSE]
    <3>2. deleted \in CachedChannel /\ ~deleted.known /\ deleted # Null
      BY <3>1, SyncsAssumption DEF CachedChannel
    <3>3. cache' = [cache EXCEPT ![c] = deleted]
      BY <1>1, <2>1
    <3> HIDE DEF deleted
    <3>4. cache[c] # Null
      BY <3>1, SyncsAssumption
    <3> QED BY <1>3, <3>1, <3>2, <3>3, <3>4
  <2>2. CASE c \notin Known
    BY <1>1, <1>3, <2>2
  <2> QED BY <2>1, <2>2
<1>5. CreatedOnce'
  BY <1>1, <1>2, <1>4, TakeKeepsCreatedOnce
<1>6. CacheInv'
  BY <1>1, <1>2, <1>4 DEF CInv, CacheInv
<1>7. SyncsInv'
  <2> SUFFICES ASSUME NEW n \in 1..Len(syncs.ops)
               PROVE  cache'[syncs.ops[n].channel] # Null
    BY <1>1 DEF CInv, SyncsInv
  <2>1. syncs.ops[n].channel \in Channel
    <3>1. syncs.ops[n] \in Operation
      BY DEF CInv, SyncsInv, SyncsSound, Syncs
    <3> QED BY <3>1 DEF Operation
  <2> QED BY <1>4, <2>1 DEF CInv, SyncsInv
<1>8. ReadInv'
  BY <1>1, <1>2, <1>4 DEF CInv, ReadInv, Known
<1> QED BY <1>2, <1>5, <1>6, <1>7, <1>8 DEF CInv

LEMMA WithRoleType ==
    ASSUME account \in CachedAccount, NEW r \in Role \cup {Everyone}, NEW w \in World
    PROVE  WithRole(r, w.permissions[r]) \in CachedAccount
<1>1. w.permissions[r] \in Grants \cup {Null} /\ account.rolePermissions \in RolePermissions
  BY DEF World, RolePermissions, CachedAccount
<1>2. [account.rolePermissions EXCEPT ![r] = w.permissions[r]] \in RolePermissions
  BY <1>1 DEF RolePermissions
<1>3. WithRole(r, w.permissions[r]) =
        [account EXCEPT !.rolePermissions =
            [account.rolePermissions EXCEPT ![r] = w.permissions[r]]]
  BY DEF WithRole
<1> QED BY <1>2, <1>3 DEF CachedAccount

LEMMA RoleCreateKeeps ==
    ASSUME CInv, RoleCreate
    PROVE  CInv'
<1> DEFINE r == Head(events).subject
           w == Head(events).world
<1>1. /\ Take("GUILD_ROLE_CREATE") /\ account' = WithRole(r, w.permissions[r])
      /\ NoUpdate /\ process' = process
  BY DEF RoleCreate
<1>2. EventSound(Head(events)) /\ Head(events).type = "GUILD_ROLE_CREATE" /\ account # Null
  BY <1>1, TakeSound
<1>3. r \in Role \cup {Everyone} /\ w \in World
  BY <1>2 DEF EventSound, WorldSound
<1>4. account \in CachedAccount
  BY <1>2 DEF CInv, CacheInv
<1> HIDE DEF r, w
<1>5. account' \in CachedAccount
  BY <1>1, <1>3, <1>4, WithRoleType
<1> QED BY <1>1, <1>2, <1>5, NoUpdateKeeps

(* updateGuildPermissions.                                                 *)
LEMMA UpdateGuildPermissionsKeeps ==
    ASSUME CInv, NEW type, Take(type), account # Null, NEW data \in CachedAccount,
           UpdateGuildPermissions(data), process' = process
    PROVE  CInv'
<1>1. account' = data /\ UpdatePermissions(Known, cache, data)
  BY DEF UpdateGuildPermissions
<1>2. data # Null
  BY SyncsAssumption
<1>3. WorldInv' /\ allReady' = allReady /\ process = "up"
  BY TakeSound
<1>4. cache \in [Channel -> CachedChannel \cup {Null}]
  BY DEF CInv, CacheInv
<1>5. Known \in SUBSET Channel /\ \A c \in Known : cache[c] \in CachedChannel
  BY <1>4 DEF Known
<1>6. \A c \in Channel : cache[c] # Null /\ cache[c].known =>
        /\ cache[c].read \/ AllAborted(syncs, c)
        /\ allReady /\ cache[c].read => SyncedSince(syncs, c, gained[c])
  BY <1>3 DEF CInv, ReadInv, Known
<1>7. /\ cache' \in [Channel -> CachedChannel \cup {Null}]
      /\ \A c \in Channel : cache'[c] # Null => cache[c] # Null
      /\ gained' \in [Channel -> Nat]
      /\ SyncsInv' /\ ReadInv'
  BY <1>1, <1>3, <1>4, <1>5, <1>6, UpdateKeeps
<1>8. CreatedOnce'
  BY <1>1, <1>2, <1>7, TakeKeepsCreatedOnce
<1>9. CacheInv'
  BY <1>1, <1>2, <1>3, <1>7 DEF CInv, CacheInv
<1> QED BY <1>3, <1>7, <1>8, <1>9 DEF CInv

LEMMA RoleUpdateKeeps ==
    ASSUME CInv, NEW type \in {"GUILD_ROLE_UPDATE", "GUILD_ROLE_DELETE"}, RoleUpdate(type)
    PROVE  CInv'
<1> DEFINE r == Head(events).subject
           w == Head(events).world
<1>1. /\ Take(type) /\ process' = process
      /\ IF account.rolePermissions[r] # w.permissions[r]
         THEN UpdateGuildPermissions(WithRole(r, w.permissions[r]))
         ELSE NoUpdate /\ account' = account
  BY DEF RoleUpdate
<1>2. EventSound(Head(events)) /\ Head(events).type = type /\ account # Null
  BY <1>1, TakeSound
<1>3. r \in Role \cup {Everyone} /\ w \in World
  BY <1>2 DEF EventSound, WorldSound
<1>4. account \in CachedAccount
  BY <1>2 DEF CInv, CacheInv
<1> HIDE DEF r, w
<1>5. WithRole(r, w.permissions[r]) \in CachedAccount
  BY <1>3, <1>4, WithRoleType
<1>6. CASE account.rolePermissions[r] # w.permissions[r]
  BY <1>1, <1>2, <1>5, <1>6, UpdateGuildPermissionsKeeps
<1>7. CASE account.rolePermissions[r] = w.permissions[r]
  BY <1>1, <1>2, <1>4, <1>7, NoUpdateKeeps
<1> QED BY <1>6, <1>7

LEMMA MemberUpdateKeeps ==
    ASSUME CInv, MemberUpdate
    PROVE  CInv'
<1> DEFINE roles == Head(events).world.roles
           data == [account EXCEPT !.roles = roles]
<1>1. /\ Take("GUILD_MEMBER_UPDATE") /\ process' = process
      /\ IF account.roles # roles THEN UpdateGuildPermissions(data)
         ELSE NoUpdate /\ account' = account
  BY DEF MemberUpdate
<1>2. EventSound(Head(events)) /\ account # Null
  BY <1>1, TakeSound
<1>3. account \in CachedAccount /\ roles \in SUBSET Role
  BY <1>2 DEF CInv, CacheInv, EventSound, WorldSound, World
<1> HIDE DEF roles
<1>4. data \in CachedAccount
  BY <1>3 DEF CachedAccount
<1> HIDE DEF data
<1>5. CASE account.roles # roles
  BY <1>1, <1>2, <1>4, <1>5, UpdateGuildPermissionsKeeps
<1>6. CASE account.roles = roles
  BY <1>1, <1>2, <1>3, <1>6, NoUpdateKeeps
<1> QED BY <1>5, <1>6

(* What keeps the downloads and enumerations of the readable channels.     *)
LEMMA SyncsStepKeeps ==
    ASSUME CInv, SyncsSound(syncs'), Len(syncs'.ops) <= MaxOps,
           NEW channels \in SUBSET Channel, Outside(syncs, syncs', channels),
           StillSynced(syncs, syncs'),
           \A c \in channels : cache[c] # Null /\ cache[c].read,
           cache' = cache, gained' = gained, allReady' = allReady,
           process' = "up" => process = "up"
    PROVE  SyncsInv' /\ ReadInv'
<1>1. SyncsInv'
  <2> SUFFICES ASSUME NEW n \in 1..Len(syncs'.ops)
               PROVE  cache[syncs'.ops[n].channel] # Null
    BY DEF SyncsInv
  <2> QED BY DEF Outside, CInv, SyncsInv
<1>2. ReadInv'
  <2> SUFFICES ASSUME process = "up", NEW c \in Channel, cache[c] # Null, cache[c].known
               PROVE  /\ cache[c].read \/ AllAborted(syncs', c)
                      /\ allReady /\ cache[c].read => SyncedSince(syncs', c, gained[c])
    BY DEF ReadInv, Known
  <2>1. /\ cache[c].read \/ AllAborted(syncs, c)
        /\ allReady /\ cache[c].read => SyncedSince(syncs, c, gained[c])
        /\ gained[c] \in Nat
    BY DEF CInv, CacheInv, ReadInv, Known
  <2> QED BY <2>1 DEF Outside, StillSynced
<1> QED BY <1>1, <1>2

LEMMA ThreadListSyncKeeps ==
    ASSUME CInv, ThreadListSync
    PROVE  CInv'
<1> DEFINE c == Head(events).subject
           ongoing == {syncs.ops[n].item : n \in Registered(syncs, "messages", c)}
           new == ActiveIn(Head(events).world, c) \ ongoing
<1>1. Take("THREAD_LIST_SYNC") /\ UNCHANGED <<cache, account, gained>>
  BY DEF ThreadListSync
<1>2. /\ EventSound(Head(events)) /\ Head(events).type = "THREAD_LIST_SYNC" /\ WorldInv'
      /\ allReady' = allReady /\ account # Null /\ process = "up"
  BY <1>1, TakeSound
<1>3. c \in Channel /\ new \in SUBSET Thread
  BY <1>2 DEF EventSound, WorldSound, World, ActiveIn
<1>4. /\ syncs' = syncs \/ (/\ c \in Known /\ cache[c].read
                            /\ syncs' = StartThreads(syncs, c, new)
                            /\ Len(syncs'.ops) <= MaxOps)
      /\ process' \in {process, "dead"}
  BY DEF ThreadListSync
<1> HIDE DEF c, ongoing, new
<1>5. SyncsSound(syncs) /\ Len(syncs.ops) <= MaxOps
  BY DEF CInv, SyncsInv
<1>6. SyncsInv' /\ ReadInv'
  <2>1. CASE syncs' = syncs
    <3>1. Outside(syncs, syncs', {}) /\ StillSynced(syncs, syncs')
      BY <2>1 DEF Outside, StillSynced
    <3> QED BY <1>1, <1>2, <1>5, <2>1, <3>1, SyncsStepKeeps
  <2>2. CASE /\ c \in Known /\ cache[c].read /\ syncs' = StartThreads(syncs, c, new)
             /\ Len(syncs'.ops) <= MaxOps
    <3>1. SyncsSound(syncs') /\ Outside(syncs, syncs', {c}) /\ StillSynced(syncs, syncs')
      BY <1>3, <1>5, <2>2, StartThreadsSound
    <3>2. {c} \in SUBSET Channel /\ \A d \in {c} : cache[d] # Null /\ cache[d].read
      BY <1>3, <2>2 DEF Known
    <3> QED BY <1>1, <1>2, <2>2, <3>1, <3>2, SyncsStepKeeps
  <2> QED BY <1>4, <2>1, <2>2
<1>7. CreatedOnce'
  BY <1>1, <1>2, TakeKeepsCreatedOnce
<1>8. CacheInv'
  BY <1>1, <1>2, <1>4 DEF CInv, CacheInv
<1> QED BY <1>2, <1>6, <1>7, <1>8 DEF CInv

LEMMA AllReadyKeeps ==
    ASSUME CInv, AllReady
    PROVE  CInv'
<1> DEFINE channels == {c \in Known : cache[c].read}
<1>1. /\ process = "up" /\ allReady' = TRUE /\ syncs' = StartChannels(syncs, channels)
      /\ Len(syncs'.ops) <= MaxOps
      /\ UNCHANGED <<world, gone, changes, events, cache, account, process, gained>>
  BY DEF AllReady, discord
<1>2. world \in World /\ gained \in [Channel -> Nat] /\ SyncsSound(syncs)
  BY DEF CInv, WorldInv, WorldSound, CacheInv, SyncsInv
<1>3. /\ channels \in SUBSET Channel /\ \A c \in channels : cache[c] # Null
      /\ \A c \in channels : cache[c].activeThreads \in SUBSET Thread
  <2>1. channels \in SUBSET Channel /\ \A c \in channels : cache[c] # Null
    BY DEF Known
  <2>2. \A c \in Channel : cache[c] # Null => cache[c] \in CachedChannel
    BY DEF CInv, CacheInv
  <2> HIDE DEF channels
  <2> QED BY <2>1, <2>2 DEF CachedChannel
<1>4. \A c \in Known : cache[c].read => c \in channels
  OBVIOUS
<1>5. \A c \in channels : cache[c].read
  OBVIOUS
<1> HIDE DEF channels
<1>6. /\ SyncsSound(syncs') /\ Outside(syncs, syncs', channels)
      /\ \A c \in channels : SyncedSince(syncs', c, gained[c])
  BY <1>1, <1>2, <1>3, StartChannelsSound
<1>7. WorldInv' /\ CacheInv' /\ CreatedOnce'
  BY <1>1 DEF CInv, WorldInv, CacheInv, CreatedOnce, NewsOf
<1>8. SyncsInv'
  <2> SUFFICES ASSUME NEW n \in 1..Len(syncs'.ops)
               PROVE  cache[syncs'.ops[n].channel] # Null
    BY <1>1, <1>6 DEF SyncsInv
  <2> QED BY <1>3, <1>6 DEF Outside, CInv, SyncsInv
<1>9. ReadInv'
  <2> SUFFICES ASSUME NEW c \in Known
               PROVE  /\ cache[c].read \/ AllAborted(syncs', c)
                      /\ cache[c].read => SyncedSince(syncs', c, gained[c])
    BY <1>1 DEF ReadInv, Known
  <2>1. c \in Channel
    BY DEF Known
  <2>2. CASE cache[c].read
    BY <1>4, <1>6, <2>2
  <2>3. CASE ~cache[c].read
    <3>1. AllAborted(syncs, c) /\ c \notin channels
      BY <1>1, <1>5, <2>3 DEF CInv, ReadInv
    <3> QED BY <1>6, <2>1, <2>3, <3>1 DEF Outside
  <2> QED BY <2>2, <2>3
<1> QED BY <1>7, <1>8, <1>9 DEF CInv

-----------------------------------------------------------------------------
(* The operations. *)
(* What keeps the invariant when an operation takes a step.                *)
LEMMA InOpKeeps ==
    ASSUME CInv, NEW n, InOp(n), SyncsSound(syncs'), Len(syncs'.ops) <= MaxOps,
           NEW channels \in SUBSET Channel, Outside(syncs, syncs', channels),
           StillSynced(syncs, syncs'),
           \A c \in channels : cache[c] # Null /\ cache[c].read,
           process' \in {process, "stopped", "dead"}
    PROVE  CInv'
<1>1. /\ UNCHANGED <<world, gone, changes, events, cache, account, allReady, gained>>
      /\ process # "dead"
  BY DEF InOp, discord
<1>2. SyncsInv' /\ ReadInv'
  BY <1>1, SyncsStepKeeps
<1>3. WorldInv' /\ CacheInv' /\ CreatedOnce'
  BY <1>1 DEF CInv, WorldInv, CacheInv, CreatedOnce, NewsOf
<1> QED BY <1>2, <1>3 DEF CInv

LEMMA InOpFacts ==
    ASSUME CInv, NEW n, InOp(n)
    PROVE  /\ SyncsSound(syncs) /\ Len(syncs.ops) <= MaxOps
           /\ n \in 1..Len(syncs.ops) /\ syncs.ops[n] \in Operation
           /\ syncs.ops[n].state # "ended" /\ syncs.ops \in Seq(Operation)
           /\ cache[syncs.ops[n].channel] # Null /\ syncs.ops[n].channel \in Channel
<1>1. SyncsSound(syncs) /\ Len(syncs.ops) <= MaxOps /\ syncs.ops \in Seq(Operation)
  BY DEF CInv, SyncsInv, SyncsSound, Syncs
<1>2. n \in 1..Len(syncs.ops) /\ syncs.ops[n].state # "ended"
  BY <1>1 DEF InOp
<1>3. syncs.ops[n] \in Operation
  BY <1>1, <1>2
<1> QED BY <1>1, <1>2, <1>3 DEF CInv, SyncsInv, Operation

(* One operation changes in something that the maps do not depend on.      *)
LEMMA QuietOp ==
    ASSUME NEW s, SyncsSound(s), NEW n \in 1..Len(s.ops), NEW op \in Operation,
           op.kind = s.ops[n].kind, op.channel = s.ops[n].channel,
           op.item = s.ops[n].item, op.map = s.ops[n].map,
           op.state = "ended" <=> s.ops[n].state = "ended",
           op.aborted = s.ops[n].aborted, op.gain = s.ops[n].gain
    PROVE  LET r == [s EXCEPT !.ops[n] = op]
           IN /\ SyncsSound(r) /\ Outside(s, r, {}) /\ StillSynced(s, r)
              /\ Len(r.ops) = Len(s.ops) /\ r.ops[n] = op
<1> DEFINE ops == [s.ops EXCEPT ![n] = op]
           r == [s EXCEPT !.ops = ops]
<1>1. s.ops \in Seq(Operation)
  BY DEF SyncsSound, Syncs
<1>2. /\ ops \in Seq(Operation) /\ Len(ops) = Len(s.ops) /\ ops[n] = op
      /\ \A m \in 1..Len(s.ops) : m # n => ops[m] = s.ops[m]
  BY <1>1
<1>3. r.ops = ops
  BY DEF SyncsSound, Syncs
<1> HIDE DEF ops
<1>4. \A m \in 1..Len(s.ops) :
        /\ ops[m].kind = s.ops[m].kind /\ ops[m].channel = s.ops[m].channel
        /\ ops[m].item = s.ops[m].item /\ ops[m].map = s.ops[m].map
        /\ ops[m].state = "ended" <=> s.ops[m].state = "ended"
        /\ ops[m].aborted = s.ops[m].aborted /\ ops[m].gain = s.ops[m].gain
  BY <1>2
<1>5. SyncsSound(r) /\ Outside(s, r, {}) /\ StillSynced(s, r)
  BY <1>2, <1>4, QuietOps
<1>6. [s EXCEPT !.ops[n] = op] = r
  BY DEF ops
<1> HIDE DEF r
<1> QED BY <1>2, <1>3, <1>5, <1>6

LEMMA AskingSound ==
    ASSUME NEW s, SyncsSound(s), NEW n \in 1..Len(s.ops)
    PROVE  LET r == Asking(s, n)
           IN /\ SyncsSound(r) /\ Outside(s, r, {}) /\ StillSynced(s, r)
              /\ Len(r.ops) = Len(s.ops)
<1> DEFINE read == MayRead(world, s.ops[n].channel)
           op == [s.ops[n] EXCEPT !.asked = read]
<1>1. read \in BOOLEAN
  BY MayReadIsBoolean
<1>2. s.ops[n] \in Operation
  BY DEF SyncsSound, Syncs
<1>3. Asking(s, n) = [s EXCEPT !.ops[n] = op]
  BY DEF Asking
<1> HIDE DEF read
<1>4. /\ op \in Operation /\ op.kind = s.ops[n].kind /\ op.channel = s.ops[n].channel
      /\ op.item = s.ops[n].item /\ op.map = s.ops[n].map /\ op.state = s.ops[n].state
      /\ op.aborted = s.ops[n].aborted /\ op.gain = s.ops[n].gain
  BY <1>1, <1>2 DEF Operation
<1> HIDE DEF op
<1> QED BY <1>3, <1>4, QuietOp

LEMMA StoppedKeeps ==
    ASSUME CInv, NEW n, Stopped(n) \/ Finish(n)
    PROVE  CInv'
<1>1. InOp(n) /\ syncs' = End(syncs, n) /\ process' = process
  BY DEF Stopped, Finish, Answered
<1>2. /\ SyncsSound(syncs) /\ Len(syncs.ops) <= MaxOps /\ n \in 1..Len(syncs.ops)
      /\ syncs.ops[n].state # "ended"
  BY <1>1, InOpFacts
<1>3. /\ SyncsSound(syncs') /\ Outside(syncs, syncs', {}) /\ StillSynced(syncs, syncs')
      /\ Len(syncs'.ops) = Len(syncs.ops)
  BY <1>1, <1>2, EndSound
<1> QED BY <1>1, <1>2, <1>3, InOpKeeps

LEMMA HangKeeps ==
    ASSUME CInv, NEW n, Hang(n)
    PROVE  CInv'
<1> DEFINE op == [syncs.ops[n] EXCEPT !.state = "hung"]
<1>1. syncs' = [syncs EXCEPT !.ops[n] = op]
  BY DEF Hang
<1>2. InOp(n) /\ process' = process
  BY DEF Hang, Answered
<1>3. /\ SyncsSound(syncs) /\ Len(syncs.ops) <= MaxOps /\ n \in 1..Len(syncs.ops)
      /\ syncs.ops[n].state # "ended" /\ syncs.ops[n] \in Operation
  BY <1>2, InOpFacts
<1>4. /\ op \in Operation /\ op.kind = syncs.ops[n].kind
      /\ op.channel = syncs.ops[n].channel /\ op.item = syncs.ops[n].item
      /\ op.map = syncs.ops[n].map /\ op.state = "hung"
      /\ op.aborted = syncs.ops[n].aborted /\ op.gain = syncs.ops[n].gain
  BY <1>3 DEF Operation
<1> HIDE DEF op
<1>5. /\ SyncsSound(syncs') /\ Outside(syncs, syncs', {}) /\ StillSynced(syncs, syncs')
      /\ Len(syncs'.ops) = Len(syncs.ops)
  BY <1>1, <1>3, <1>4, QuietOp
<1> QED BY <1>2, <1>3, <1>5, InOpKeeps

LEMMA MessagesPageKeeps ==
    ASSUME CInv, NEW n, MessagesPage(n)
    PROVE  CInv'
<1>1. InOp(n) /\ syncs' = Asking(syncs, n) /\ process' = process
  BY DEF MessagesPage, Answered
<1>2. SyncsSound(syncs) /\ Len(syncs.ops) <= MaxOps /\ n \in 1..Len(syncs.ops)
  BY <1>1, InOpFacts
<1>3. /\ SyncsSound(syncs') /\ Outside(syncs, syncs', {}) /\ StillSynced(syncs, syncs')
      /\ Len(syncs'.ops) = Len(syncs.ops)
  BY <1>1, <1>2, AskingSound
<1> QED BY <1>1, <1>2, <1>3, InOpKeeps

LEMMA ThreadsPageKeeps ==
    ASSUME CInv, NEW n, ThreadsPage(n)
    PROVE  CInv'
<1> DEFINE op == syncs.ops[n]
<1>1. InOp(n)
  BY DEF ThreadsPage, Answered
<1>2. /\ SyncsSound(syncs) /\ Len(syncs.ops) <= MaxOps /\ n \in 1..Len(syncs.ops)
      /\ op.state # "ended" /\ op \in Operation
      /\ cache[op.channel] # Null /\ op.channel \in Channel
  BY <1>1, InOpFacts
<1>3. PICK t \in op.rest :
        IF cache[op.channel].read
        THEN LET more == StartMessages([syncs EXCEPT !.ops[n].rest = @ \ {t}],
                                       op.channel, t, 0)
             IN /\ syncs' = IF op.rest = {t} THEN End(more, n) ELSE Asking(more, n)
                /\ Len(syncs'.ops) <= MaxOps /\ UNCHANGED process
        ELSE process' = "dead" /\ UNCHANGED syncs
  BY DEF ThreadsPage
<1>4. t \in Thread
  BY <1>2 DEF Operation
<1>5. CASE ~cache[op.channel].read
  <2>1. Outside(syncs, syncs, {}) /\ StillSynced(syncs, syncs)
    BY DEF Outside, StillSynced
  <2> QED BY <1>1, <1>2, <1>3, <1>5, <2>1, InOpKeeps
<1>6. CASE cache[op.channel].read
  <2> DEFINE c == op.channel
             listed == [op EXCEPT !.rest = @ \ {t}]
             less == [syncs EXCEPT !.ops[n] = listed]
             more == StartMessages(less, c, t, 0)
  <2>1. less = [syncs EXCEPT !.ops[n].rest = @ \ {t}]
    OBVIOUS
  <2>2. /\ syncs' = IF op.rest = {t} THEN End(more, n) ELSE Asking(more, n)
        /\ Len(syncs'.ops) <= MaxOps /\ process' = process
    BY <1>3, <1>6, <2>1
  <2>3. /\ listed \in Operation /\ listed.kind = op.kind
        /\ listed.channel = op.channel /\ listed.item = op.item
        /\ listed.map = op.map /\ listed.state = op.state
        /\ listed.aborted = op.aborted /\ listed.gain = op.gain
    BY <1>2 DEF Operation
  <2> HIDE DEF listed
  <2>4. /\ SyncsSound(less) /\ Outside(syncs, less, {}) /\ StillSynced(syncs, less)
        /\ Len(less.ops) = Len(syncs.ops) /\ less.ops[n] = listed
    BY <1>2, <2>3, QuietOp
  <2> HIDE DEF less
  <2>5. SyncsSound(more) /\ Outside(less, more, {c}) /\ StillSynced(less, more)
    <3>1. t \in Thread \cup {c} /\ 0 \in Nat /\ c \in Channel
      BY <1>2, <1>4
    <3> QED BY <2>4, <3>1, StartMessagesSound
  <2>6. n \in 1..Len(more.ops) /\ more.ops[n].state # "ended"
    <3>1. \E new : more.ops = Append(less.ops, new)
      BY DEF StartMessages
    <3>2. less.ops \in Seq(Operation)
      BY <2>4 DEF SyncsSound, Syncs
    <3>3. n \in 1..Len(more.ops) /\ more.ops[n] = less.ops[n]
      <4> HIDE DEF more
      <4> QED BY <1>2, <2>4, <3>1, <3>2
    <3> QED BY <1>2, <2>3, <2>4, <3>3
  <2> HIDE DEF more
  <2>7. SyncsSound(syncs') /\ Outside(more, syncs', {}) /\ StillSynced(more, syncs')
    <3>1. CASE op.rest = {t}
      BY <2>2, <2>5, <2>6, <3>1, EndSound
    <3>2. CASE op.rest # {t}
      BY <2>2, <2>5, <2>6, <3>2, AskingSound
    <3> QED BY <3>1, <3>2
  <2>8. Outside(syncs, syncs', {c})
    <3>1. {} \cup {c} = {c} /\ {c} \cup {} = {c}
      OBVIOUS
    <3>2. Outside(syncs, more, {c})
      BY <2>4, <2>5, <3>1, OutsideTwice
    <3> QED BY <2>7, <3>1, <3>2, OutsideTwice
  <2>9. StillSynced(syncs, syncs')
    BY <2>4, <2>5, <2>7 DEF StillSynced
  <2>10. {c} \in SUBSET Channel /\ \A d \in {c} : cache[d] # Null /\ cache[d].read
    BY <1>2, <1>6
  <2> HIDE DEF c
  <2> QED BY <1>1, <2>2, <2>7, <2>8, <2>9, <2>10, InOpKeeps
<1> QED BY <1>5, <1>6

LEMMA UnauthorizedKeeps ==
    ASSUME CInv, NEW n, Unauthorized(n)
    PROVE  CInv'
<1> DEFINE a == Abort(syncs, UNION {Registered(syncs, k, c) : k \in Kind, c \in Channel})
<1>1. InOp(n) /\ syncs' = End(a, n) /\ process' = "stopped"
  BY DEF Unauthorized, Answered
<1>2. /\ SyncsSound(syncs) /\ Len(syncs.ops) <= MaxOps /\ n \in 1..Len(syncs.ops)
      /\ syncs.ops[n].state # "ended"
  BY <1>1, InOpFacts
<1>3. /\ SyncsSound(a) /\ Len(a.ops) = Len(syncs.ops)
      /\ \A m \in 1..Len(syncs.ops) : a.ops[m].channel = syncs.ops[m].channel
      /\ \A m \in 1..Len(syncs.ops) : a.ops[m].state = syncs.ops[m].state
  BY <1>2, AbortSound
<1> HIDE DEF a
<1>4. SyncsSound(syncs') /\ Outside(a, syncs', {}) /\ Len(syncs'.ops) = Len(a.ops)
  BY <1>1, <1>2, <1>3, EndSound
<1>5. UNCHANGED <<world, gone, changes, events, cache, account, allReady, gained>>
  BY <1>1 DEF InOp, discord
<1>6. WorldInv' /\ CacheInv' /\ CreatedOnce'
  BY <1>1, <1>5 DEF CInv, WorldInv, CacheInv, CreatedOnce, NewsOf
<1>7. SyncsInv'
  <2> SUFFICES ASSUME NEW m \in 1..Len(syncs'.ops)
               PROVE  cache[syncs'.ops[m].channel] # Null
    BY <1>2, <1>3, <1>4, <1>5 DEF SyncsInv
  <2>1. m \in 1..Len(syncs.ops) /\ syncs'.ops[m].channel = syncs.ops[m].channel
    BY <1>3, <1>4 DEF Outside
  <2> QED BY <2>1 DEF CInv, SyncsInv
<1>8. ReadInv'
  BY <1>1 DEF ReadInv
<1> QED BY <1>6, <1>7, <1>8 DEF CInv

-----------------------------------------------------------------------------
(* The invariant. *)
LEMMA InitCInv ==
    ASSUME Init
    PROVE  CInv
<1>1. /\ world \in [overwrites: [Channel -> Overwrites \cup {Null}], threads: SUBSET Thread,
                    roles: SUBSET Role, permissions: RolePermissions]
      /\ \A r \in world.roles \cup {Everyone} : world.permissions[r] # Null
      /\ gone = {} /\ changes = 0
      /\ events = <<[type |-> "GUILD_CREATE", subject |-> Null, world |-> world]>>
      /\ cache = [c \in Channel |-> Null] /\ account = Null
      /\ allReady = FALSE /\ process = "up"
      /\ syncs = [ops |-> <<>>, maps |-> <<>>,
                  ongoing |-> [k \in Kind |-> [c \in Channel |-> Null]]]
      /\ gained = [c \in Channel |-> 0]
  BY DEF Init
<1> DEFINE e == [type |-> "GUILD_CREATE", subject |-> Null, world |-> world]
<1>2. WorldSound(world)
  BY <1>1, SyncsAssumption DEF WorldSound, World, RolePermissions
<1>3. EventSound(e) /\ e \in EventOf /\ e.type = "GUILD_CREATE" /\ e.world = world
  BY <1>2 DEF EventSound, EventOf, EventType, WorldSound
<1> HIDE DEF e
<1>4. /\ events = <<e>> /\ events \in Seq(EventOf) /\ Len(events) = 1 /\ events[1] = e
      /\ events # <<>> /\ Head(events) = e
  BY <1>1, <1>3 DEF e
<1>5. WorldInv
  BY <1>1, <1>2, <1>3, <1>4, SyncsAssumption DEF WorldInv
<1>6. CacheInv
  BY <1>1, <1>3, <1>4 DEF CacheInv
<1>7. CreatedOnce
  <2>1. \A c : \A k \in 1..Len(events) : ~NewsOf(k, c)
    BY <1>3, <1>4 DEF NewsOf
  <2> QED BY <1>1, <1>3, <1>4, <2>1 DEF CreatedOnce
<1>8. SyncsSound(syncs) /\ Len(syncs.ops) = 0 /\ \A k \in Kind, c \in Channel : syncs.ongoing[k][c] = Null
  <2>1. syncs.ops = <<>> /\ syncs.maps = <<>> /\ Len(syncs.ops) = 0 /\ Len(syncs.maps) = 0
    BY <1>1
  <2>2. /\ \A k \in Kind, c \in Channel : syncs.ongoing[k][c] = Null
        /\ syncs.ongoing \in [Kind -> [Channel -> Nat \cup {Null}]]
    BY <1>1
  <2>3. syncs \in Syncs
    <3>1. syncs = [ops |-> syncs.ops, maps |-> syncs.maps, ongoing |-> syncs.ongoing]
      BY <1>1
    <3>2. syncs.ops \in Seq(Operation) /\ syncs.maps \in Seq(Map)
      BY <2>1
    <3> QED BY <2>2, <3>1, <3>2 DEF Syncs
  <2> QED BY <2>1, <2>2, <2>3 DEF SyncsSound
<1>9. SyncsInv
  BY <1>8, SyncsAssumption DEF SyncsInv
<1>10. ReadInv
  BY <1>1 DEF ReadInv, Known
<1> QED BY <1>5, <1>6, <1>7, <1>9, <1>10 DEF CInv

LEMMA NextCInv ==
    ASSUME CInv, [Next]_vars
    PROVE  CInv'
<1>1. ASSUME NEW c \in Channel, NEW o \in Overwrites, ChangeChannel(c, o) PROVE CInv'
  BY <1>1, ChangeChannelKeeps
<1>2. ASSUME NEW c \in Channel, DeleteChannel(c) PROVE CInv'
  BY <1>2, DeleteChannelKeeps
<1>3. ASSUME NEW r \in Role \cup {Everyone}, NEW g \in Grants, ChangeRole(r, g) PROVE CInv'
  BY <1>3, ChangeRoleKeeps
<1>4. ASSUME NEW r \in Role, DeleteRole(r) PROVE CInv'
  BY <1>4, DeleteRoleKeeps
<1>5. ASSUME NEW roles \in SUBSET Role, ChangeRolesOfAccount(roles) PROVE CInv'
  BY <1>5, ChangeRolesKeeps
<1>6. CASE LoseSession
  BY <1>6, LoseSessionKeeps
<1>7. CASE AllReady
  BY <1>7, AllReadyKeeps
<1>8. CASE Listener
  <2>1. CASE GuildCreate
    BY <2>1, GuildCreateKeeps
  <2>2. CASE ChannelCreate
    BY <2>2, ChannelCreateKeeps
  <2>3. CASE ChannelUpdate
    BY <2>3, ChannelUpdateKeeps
  <2>4. CASE ChannelDelete
    BY <2>4, ChannelDeleteKeeps
  <2>5. CASE RoleCreate
    BY <2>5, RoleCreateKeeps
  <2>6. ASSUME NEW type \in {"GUILD_ROLE_UPDATE", "GUILD_ROLE_DELETE"}, RoleUpdate(type)
        PROVE  CInv'
    BY <2>6, RoleUpdateKeeps
  <2>7. CASE MemberUpdate
    BY <2>7, MemberUpdateKeeps
  <2>8. CASE ThreadListSync
    BY <2>8, ThreadListSyncKeeps
  <2> QED BY <1>8, <2>1, <2>2, <2>3, <2>4, <2>5, <2>6, <2>7, <2>8 DEF Listener
<1>9. ASSUME NEW n \in 1..MaxOps,
             \/ Stopped(n) \/ Hang(n) \/ Finish(n) \/ MessagesPage(n) \/ ThreadsPage(n)
             \/ Unauthorized(n)
      PROVE  CInv'
  BY <1>9, StoppedKeeps, HangKeeps, MessagesPageKeeps, ThreadsPageKeeps, UnauthorizedKeeps
<1>10. CASE UNCHANGED vars
  BY <1>10 DEF vars, discord, CInv, WorldInv, CacheInv, CreatedOnce, NewsOf, SyncsInv,
     ReadInv, Known
<1> QED BY <1>1, <1>2, <1>3, <1>4, <1>5, <1>6, <1>7, <1>8, <1>9, <1>10 DEF Next

(* The operations, the maps they are in, the cached permissions and the    *)
(* events to come fit together in every state that the archiver and        *)
(* Discord reach (archiver/index.ts).                                      *)
THEOREM ChannelSyncsInvariant == Spec => []CInv
<1>1. Init => CInv
  BY InitCInv
<1>2. CInv /\ [Next]_vars => CInv'
  BY NextCInv
<1> QED BY <1>1, <1>2, PTL DEF Spec

(* Every variable has its type; in particular, every entry of the account's *)
(* maps is an operation, or a map, that was made.                          *)
THEOREM ChannelSyncsTypeCorrect == Spec => []TypeOK
<1>1. CInv => TypeOK
  <2> SUFFICES ASSUME CInv PROVE TypeOK
    OBVIOUS
  <2>1. /\ syncs.ops \in Seq(Operation) /\ syncs.maps \in Seq(Map)
        /\ Len(syncs.maps) = Len(syncs.ops) /\ Len(syncs.ops) <= MaxOps
        /\ syncs.ongoing \in [Kind -> [Channel -> Nat \cup {Null}]]
    BY DEF CInv, SyncsInv, SyncsSound, Syncs
  <2>2. DOMAIN syncs.ops = 1..Len(syncs.ops) /\ DOMAIN syncs.maps = DOMAIN syncs.ops
    BY <2>1
  <2>3. \A n \in DOMAIN syncs.ops :
            /\ syncs.ops[n].map \in DOMAIN syncs.ops \cup {Null}
            /\ \A i \in DOMAIN syncs.maps[n] :
                syncs.maps[n][i] \in DOMAIN syncs.ops /\ syncs.ops[syncs.maps[n][i]].item = i
    BY <2>2 DEF CInv, SyncsInv, SyncsSound, OpSound
  <2>4. \A k \in Kind, c \in Channel : syncs.ongoing[k][c] \in DOMAIN syncs.ops \cup {Null}
    <3> SUFFICES ASSUME NEW k \in Kind, NEW c \in Channel, syncs.ongoing[k][c] # Null
                 PROVE  syncs.ongoing[k][c] \in DOMAIN syncs.ops
      OBVIOUS
    <3>1. EntrySound(syncs, k, c, syncs.ongoing[k][c])
      BY DEF CInv, SyncsInv, SyncsSound
    <3> QED BY <2>2, <3>1 DEF EntrySound, Going, Kind
  <2>5. syncs.ongoing \in [Kind -> [Channel -> DOMAIN syncs.ops \cup {Null}]]
    BY <2>1, <2>4
  <2> QED BY <2>1, <2>2, <2>3, <2>5 DEF CInv, WorldInv, WorldSound, CacheInv, TypeOK
<1> QED BY <1>1, ChannelSyncsInvariant, PTL

(* Once all accounts are ready, a channel that the cache says can be read  *)
(* has been downloaded, or is being, since the permission was last gained: *)
(* startMessageSync was called and no abort undid it (index.ts,            *)
(* updateGuildChannelPermissions and the start of the downloads).          *)
THEOREM ReadableChannelsAreSynced == Spec => []ReadableIsSynced
<1>1. CInv => ReadableIsSynced
  <2> SUFFICES ASSUME CInv, allReady, process = "up", NEW c \in Known, cache[c].read
               PROVE  \E n \in DOMAIN syncs.ops :
                        /\ syncs.ops[n].item = c /\ syncs.ops[n].kind = "messages"
                        /\ ~syncs.ops[n].aborted /\ syncs.ops[n].gain = gained[c]
    BY DEF ReadableIsSynced
  <2>1. SyncedSince(syncs, c, gained[c])
    BY DEF CInv, ReadInv
  <2>2. DOMAIN syncs.ops = 1..Len(syncs.ops)
    BY DEF CInv, SyncsInv, SyncsSound, Syncs
  <2> QED BY <2>1, <2>2 DEF SyncedSince
<1> QED BY <1>1, ChannelSyncsInvariant, PTL

(* An operation that has ended has left the account's maps: no entry of     *)
(* endMessageSync or endThreadSync is left behind (index.ts).              *)
THEOREM RegisteredOperationsRun == Spec => []RegisteredIsRunning
<1>1. CInv => RegisteredIsRunning
  BY RegisteredBelongs DEF CInv, SyncsInv, Going, RegisteredIsRunning
<1> QED BY <1>1, ChannelSyncsInvariant, PTL

(* No download goes on that is found under a channel which the cache says   *)
(* the account can no longer read: updateGuildChannelPermissions aborted    *)
(* it, and nothing has started one since (index.ts).                       *)
THEOREM RegisteredOperationsMayRead == Spec => []RegisteredMayRead
<1>1. CInv => RegisteredMayRead
  BY DEF CInv, ReadInv, AllAborted, RegisteredMayRead
<1> QED BY <1>1, ChannelSyncsInvariant, PTL

-----------------------------------------------------------------------------
(* The permissions. *)
\* The IDs whose overwrites are applied together, the later over the earlier.
Level(roles) == [k \in 1..3 |-> CASE k = 1 -> {Everyone} [] k = 2 -> roles [] k = 3 -> {Self}]

Named(overwrites, ids) == Denied(overwrites, ids) \cup Allowed(overwrites, ids)

(* What becomes of each flag of an account that is no administrator is     *)
(* decided by the most specific level of overwrites that names it, on      *)
(* which allowing wins over denying; one that none names stays as it is in *)
(* the guild (computeChannelPermissions).                                  *)
THEOREM MostSpecificDecides ==
    ASSUME NEW guildPermissions \in SUBSET Flag, NEW roles \in SUBSET Role,
           NEW overwrites, NEW flag \in Flag, "Administrator" \notin guildPermissions
    PROVE  LET permissions == computeChannelPermissions(guildPermissions, roles, overwrites)
               NamedAt(k) == flag \in Named(overwrites, Level(roles)[k])
           IN /\ \A k \in 1..3 : NamedAt(k) /\ (\A j \in k + 1..3 : ~NamedAt(j)) =>
                    (flag \in permissions <=> flag \in Allowed(overwrites, Level(roles)[k]))
              /\ (\A k \in 1..3 : ~NamedAt(k)) =>
                    (flag \in permissions <=> flag \in guildPermissions)
<1> DEFINE permissions == computeChannelPermissions(guildPermissions, roles, overwrites)
           NamedAt(k) == flag \in Named(overwrites, Level(roles)[k])
           AllowedAt(k) == flag \in Allowed(overwrites, Level(roles)[k])
           Then(before, k) == (before /\ ~NamedAt(k)) \/ AllowedAt(k)
<1>1. ASSUME NEW before, NEW k \in 1..3
      PROVE  flag \in Overwritten(before, overwrites, Level(roles)[k])
                <=> Then(flag \in before, k)
  BY DEF Overwritten, Named
<1>2. /\ Level(roles)[1] = {Everyone} /\ Level(roles)[2] = roles
      /\ Level(roles)[3] = {Self} /\ {1, 2, 3} \subseteq 1..3
  BY DEF Level
<1>3. flag \in permissions <=> Then(Then(Then(flag \in guildPermissions, 1), 2), 3)
  <2> DEFINE one == Overwritten(guildPermissions, overwrites, {Everyone})
             two == Overwritten(one, overwrites, roles)
             three == Overwritten(two, overwrites, {Self})
  <2>1. flag \in one <=> Then(flag \in guildPermissions, 1)
    BY <1>1, <1>2
  <2>2. flag \in two <=> Then(flag \in one, 2)
    BY <1>1, <1>2
  <2>3. flag \in three <=> Then(flag \in two, 3)
    BY <1>1, <1>2
  <2>4. permissions = three
    BY DEF computeChannelPermissions
  <2> HIDE DEF one, two, three, permissions, NamedAt, AllowedAt
  <2> QED BY <2>1, <2>2, <2>3, <2>4
<1>4. \A k : AllowedAt(k) => NamedAt(k)
  BY DEF Named
<1> HIDE DEF permissions, NamedAt, AllowedAt
<1>5. /\ NamedAt(3) => (flag \in permissions <=> AllowedAt(3))
      /\ NamedAt(2) /\ ~NamedAt(3) => (flag \in permissions <=> AllowedAt(2))
      /\ NamedAt(1) /\ ~NamedAt(2) /\ ~NamedAt(3) => (flag \in permissions <=> AllowedAt(1))
      /\ ~NamedAt(1) /\ ~NamedAt(2) /\ ~NamedAt(3) =>
            (flag \in permissions <=> flag \in guildPermissions)
  BY <1>3, <1>4
<1>6. ASSUME NEW k \in 1..3, NamedAt(k), \A j \in k + 1..3 : ~NamedAt(j)
      PROVE  flag \in permissions <=> AllowedAt(k)
  <2>1. CASE k = 3
    BY <1>5, <1>6, <2>1
  <2>2. CASE k = 2
    <3>1. ~NamedAt(3)
      BY <1>6, <2>2
    <3> QED BY <1>5, <1>6, <2>2, <3>1
  <2>3. CASE k = 1
    <3>1. ~NamedAt(2) /\ ~NamedAt(3)
      BY <1>6, <2>3
    <3> QED BY <1>5, <1>6, <2>3, <3>1
  <2> QED BY <2>1, <2>2, <2>3
<1>7. (\A k \in 1..3 : ~NamedAt(k)) => (flag \in permissions <=> flag \in guildPermissions)
  BY <1>2, <1>5
<1> QED BY <1>6, <1>7 DEF permissions, NamedAt, AllowedAt
=============================================================================
