--------------------- MODULE ConcurrencyLimiter_proofs ---------------------
(* The slots and the order of ConcurrencyLimiter, for any number of calls, *)
(* slots and abort signals.                                                *)
EXTENDS ConcurrencyLimiter, FiniteSetTheorems, TLAPS

\* The calls were numbered in the order they were made.
TurnsDistinct ==
    /\ \A op \in Op : state[op] # "idle" => turn[op] < calls
    /\ \A p, q \in Op :
        state[p] # "idle" /\ state[q] # "idle" /\ turn[p] = turn[q] => p = q

QueueIsQueued == queue = {op \in Op : state[op] = "queued"}

\* The inductive invariant.
LInv ==
    /\ LimiterTypeOK
    /\ QueueIsQueued
    /\ TurnsDistinct
    /\ SlotsExact
    /\ NoIdleSlot
    /\ FirstComeFirstServed

(* There are finitely many calls, so those that hold a slot can be counted. *)
LEMMA BusyFinite == IsFiniteSet(Busy)
  BY LimiterAssumption, FS_Subset DEF Busy

(* One more operation holds a slot. *)
LEMMA BusyGrows ==
    ASSUME NEW op \in Op, op \notin Busy, Busy' = Busy \cup {op}
    PROVE  /\ Cardinality(Busy) \in Nat
           /\ Cardinality(Busy') = Cardinality(Busy) + 1
  BY BusyFinite, FS_AddElement, FS_CardinalityType

(* One operation less holds a slot, so there was at least one. *)
LEMMA BusyShrinks ==
    ASSUME NEW op \in Busy, Busy' = Busy \ {op}
    PROVE  /\ Cardinality(Busy) \in Nat \ {0}
           /\ Cardinality(Busy') = Cardinality(Busy) - 1
<1>1. Cardinality(Busy') = Cardinality(Busy) - 1 /\ Cardinality(Busy) \in Nat
  BY BusyFinite, FS_RemoveElement, FS_CardinalityType
<1>2. Cardinality(Busy) # 0
  BY BusyFinite, FS_EmptySet
<1> QED
  BY <1>1, <1>2

(* A slot that is handed on is counted once. *)
LEMMA BusyHandsOn ==
    ASSUME NEW op \in Busy, NEW next \in Op \ Busy, Busy' = (Busy \ {op}) \cup {next}
    PROVE  Cardinality(Busy') = Cardinality(Busy)
<1> DEFINE rest == Busy \ {op}
<1>1. Cardinality(rest) = Cardinality(Busy) - 1 /\ IsFiniteSet(rest)
  BY BusyFinite, FS_RemoveElement
<1>2. Cardinality(rest \cup {next}) = Cardinality(rest) + 1
  BY <1>1, FS_AddElement
<1>3. Cardinality(Busy) \in Nat
  BY BusyFinite, FS_CardinalityType
<1> QED
  BY <1>1, <1>2, <1>3

(* In the initial state nothing was called. *)
LEMMA InitLInv == Init => LInv
<1> SUFFICES ASSUME Init PROVE LInv
  OBVIOUS
<1>1. Busy = {} /\ Cardinality(Busy) = 0
  BY FS_EmptySet DEF Init, Busy
<1>2. LimiterTypeOK /\ QueueIsQueued /\ TurnsDistinct
  BY LimiterAssumption DEF Init, LimiterTypeOK, State, Started, QueueIsQueued, TurnsDistinct
<1>3. SlotsExact /\ NoIdleSlot /\ FirstComeFirstServed
  BY <1>1, LimiterAssumption DEF Init, SlotsExact, NoIdleSlot, FirstComeFirstServed
<1> QED
  BY <1>2, <1>3 DEF LInv

(* A call starts right away only where nobody waits, and otherwise comes   *)
(* after all who wait.                                                     *)
LEMMA RunWhenFreeKeeps ==
    ASSUME LInv, NEW op \in Op, RunWhenFree(op)
    PROVE  LInv'
<1> USE DEF LInv
<1>1. op \notin queue /\ op \notin Busy
  BY DEF RunWhenFree, QueueIsQueued, Busy
<1>2. TurnsDistinct'
  BY DEF RunWhenFree, TurnsDistinct, LimiterTypeOK
<1>3. CASE /\ ongoingOperations < maxOngoingOperations
           /\ ongoingOperations' = ongoingOperations + 1
           /\ state' = [state EXCEPT ![op] = "running"]
           /\ UNCHANGED queue
  <2>1. queue = {}
    BY <1>3, LimiterAssumption DEF NoIdleSlot, LimiterTypeOK
  <2>2. Busy' = Busy \cup {op}
    BY <1>3 DEF Busy, LimiterTypeOK
  <2>3. SlotsExact'
    <3>1. Cardinality(Busy') = ongoingOperations + 1
      BY <1>1, <2>2, BusyGrows DEF SlotsExact
    <3>2. QED
      BY <1>3, <3>1, LimiterAssumption DEF SlotsExact, LimiterTypeOK
  <2>4. LimiterTypeOK'
    BY <1>3, LimiterAssumption DEF RunWhenFree, LimiterTypeOK, State, Started
  <2>5. QueueIsQueued' /\ NoIdleSlot'
    BY <1>1, <1>3, <2>1 DEF QueueIsQueued, NoIdleSlot, LimiterTypeOK
  <2>6. FirstComeFirstServed'
    BY <2>1, <2>5, <1>3 DEF QueueIsQueued, FirstComeFirstServed
  <2> QED
    BY <1>2, <2>3, <2>4, <2>5, <2>6
<1>4. CASE /\ ongoingOperations >= maxOngoingOperations
           /\ queue' = queue \cup {op}
           /\ state' = [state EXCEPT ![op] = "queued"]
           /\ UNCHANGED ongoingOperations
  <2>1. Busy' = Busy
    BY <1>1, <1>4 DEF Busy, LimiterTypeOK
  <2>2. LimiterTypeOK'
    BY <1>4 DEF RunWhenFree, LimiterTypeOK, State, Started
  <2>3. QueueIsQueued' /\ NoIdleSlot' /\ SlotsExact'
    BY <1>4, <2>1, LimiterAssumption DEF QueueIsQueued, NoIdleSlot, SlotsExact, LimiterTypeOK
  <2>4. FirstComeFirstServed'
    BY <1>4 DEF RunWhenFree, FirstComeFirstServed, TurnsDistinct, LimiterTypeOK, Started
  <2> QED
    BY <1>2, <2>2, <2>3, <2>4
<1> QED
  BY <1>3, <1>4 DEF RunWhenFree

(* A settled promise still holds its slot. *)
LEMMA SettleKeeps ==
    ASSUME LInv, NEW op \in Op, Settle(op)
    PROVE  LInv'
<1> USE DEF LInv
<1>1. Busy' = Busy
  BY DEF Settle, Busy, LimiterTypeOK
<1>2. LimiterTypeOK' /\ QueueIsQueued' /\ TurnsDistinct'
  BY DEF Settle, LimiterTypeOK, State, Started, QueueIsQueued, TurnsDistinct
<1>3. SlotsExact' /\ NoIdleSlot'
  BY <1>1 DEF Settle, SlotsExact, NoIdleSlot
<1>4. FirstComeFirstServed'
  BY DEF Settle, FirstComeFirstServed, LimiterTypeOK, Started
<1> QED
  BY <1>2, <1>3, <1>4

(* The slot goes to the one that waits longest, or is free when none does. *)
LEMMA OnSettledKeeps ==
    ASSUME LInv, NEW op \in Op, OnSettled(op)
    PROVE  LInv'
<1> USE DEF LInv
<1>1. op \in Busy /\ op \notin queue
  BY DEF OnSettled, Busy, QueueIsQueued
<1>2. ASSUME NEW next \in queue, First(next),
             queue' = queue \ {next},
             state' = [state EXCEPT ![op] = "over", ![next] = "running"],
             UNCHANGED ongoingOperations
      PROVE  LInv'
  <2>1. next \in Op \ Busy /\ next # op /\ state[next] = "queued"
    BY <1>1 DEF Busy, QueueIsQueued
  <2>2. Busy' = (Busy \ {op}) \cup {next}
    BY <1>2, <2>1 DEF Busy, LimiterTypeOK
  <2>3. SlotsExact' /\ NoIdleSlot'
    BY <1>1, <1>2, <2>1, <2>2, BusyHandsOn DEF SlotsExact, NoIdleSlot
  <2>4. LimiterTypeOK' /\ QueueIsQueued' /\ TurnsDistinct'
    BY <1>1, <1>2, <2>1
       DEF OnSettled, LimiterTypeOK, State, Started, QueueIsQueued, TurnsDistinct
  <2>5. \A other \in queue \ {next} : turn[next] < turn[other]
    BY <1>2, <2>1 DEF First, TurnsDistinct, QueueIsQueued, LimiterTypeOK
  <2>6. FirstComeFirstServed'
    BY <1>1, <1>2, <2>1, <2>5
       DEF OnSettled, FirstComeFirstServed, QueueIsQueued, LimiterTypeOK, Started
  <2> QED
    BY <2>3, <2>4, <2>6
<1>3. CASE /\ queue = {}
           /\ state' = [state EXCEPT ![op] = "over"]
           /\ ongoingOperations' = ongoingOperations - 1
           /\ UNCHANGED queue
  <2>1. Busy' = Busy \ {op}
    BY <1>3 DEF Busy, LimiterTypeOK
  <2>2. SlotsExact' /\ NoIdleSlot' /\ ongoingOperations' \in 0..maxOngoingOperations
    <3>1. /\ Cardinality(Busy) \in Nat \ {0}
          /\ Cardinality(Busy') = Cardinality(Busy) - 1
      BY <1>1, <2>1, BusyShrinks
    <3>2. SlotsExact' /\ ongoingOperations' \in 0..maxOngoingOperations
      BY <1>3, <3>1, LimiterAssumption DEF SlotsExact
    <3>3. NoIdleSlot'
      BY <1>3 DEF NoIdleSlot
    <3> QED
      BY <3>2, <3>3
  <2>3. LimiterTypeOK' /\ QueueIsQueued' /\ TurnsDistinct'
    BY <1>1, <1>3, <2>2
       DEF OnSettled, LimiterTypeOK, State, Started, QueueIsQueued, TurnsDistinct
  <2>4. FirstComeFirstServed'
    BY <1>3, <2>3 DEF FirstComeFirstServed, QueueIsQueued
  <2> QED
    BY <2>2, <2>3, <2>4
<1> QED
  BY <1>2, <1>3 DEF OnSettled

(* An abort only shortens the queue. *)
LEMMA AbortKeeps ==
    ASSUME LInv, NEW signal \in Signal, Abort(signal)
    PROVE  LInv'
<1> USE DEF LInv
<1>1. /\ queue' \subseteq queue
      /\ \A op \in Op : /\ op \in queue \ queue' => state'[op] = "dropped"
                        /\ op \notin queue \ queue' => state'[op] = state[op]
      /\ state' \in [Op -> State]
  BY DEF Abort, LimiterTypeOK, State
<1>2. Busy' = Busy
  BY <1>1 DEF Busy, QueueIsQueued
<1>3. LimiterTypeOK' /\ QueueIsQueued'
  BY <1>1 DEF Abort, LimiterTypeOK, QueueIsQueued
<1>4. TurnsDistinct'
  BY <1>1 DEF Abort, TurnsDistinct, QueueIsQueued
<1>5. SlotsExact' /\ NoIdleSlot'
  BY <1>1, <1>2 DEF Abort, SlotsExact, NoIdleSlot
<1>6. FirstComeFirstServed'
  BY <1>1 DEF Abort, FirstComeFirstServed, Started
<1> QED
  BY <1>3, <1>4, <1>5, <1>6

(* Every step keeps the inductive invariant. *)
LEMMA StepKeepsLInv == LInv /\ [Next]_limiterVars => LInv'
<1> SUFFICES ASSUME LInv, [Next]_limiterVars PROVE LInv'
  OBVIOUS
<1>1. CASE Next
  BY <1>1, RunWhenFreeKeeps, SettleKeeps, OnSettledKeeps, AbortKeeps DEF Next
<1>2. CASE UNCHANGED limiterVars
  BY <1>2 DEF limiterVars, LInv, LimiterTypeOK, QueueIsQueued, TurnsDistinct, SlotsExact,
              Busy, NoIdleSlot, FirstComeFirstServed
<1> QED
  BY <1>1, <1>2

(* With one slot, only one operation can hold it. *)
LEMMA OneSlotOneHolder ==
    ASSUME LInv, maxOngoingOperations = 1, NEW p \in Busy, NEW q \in Busy
    PROVE  p = q
<1>1. Cardinality(Busy) <= 1 /\ Cardinality(Busy) \in Nat
  BY BusyFinite, FS_CardinalityType DEF LInv, SlotsExact
<1>2. Cardinality({p, q}) <= Cardinality(Busy)
  BY BusyFinite, FS_Subset, {p, q} \subseteq Busy
<1>3. ASSUME p # q PROVE Cardinality({p, q}) = 2
  <2>1. Cardinality({p}) = 1 /\ IsFiniteSet({p})
    BY FS_Singleton
  <2>2. Cardinality({p} \cup {q}) = 2
    BY <1>3, <2>1, FS_AddElement
  <2> QED
    BY <2>2, {p} \cup {q} = {p, q}
<1> QED
  BY <1>1, <1>2, <1>3

(* When no slot is taken, nobody runs and nobody waits. *)
LEMMA NoSlotTaken ==
    ASSUME LInv, ongoingOperations = 0
    PROVE  Busy = {} /\ queue = {}
<1>1. Busy = {}
  BY BusyFinite, FS_EmptySet DEF LInv, SlotsExact
<1> QED
  BY <1>1, LimiterAssumption DEF LInv, NoIdleSlot

(* The inductive invariant always holds, in every use of the class. *)
THEOREM LimiterInvariant == Spec => []LInv
  BY InitLInv, StepKeepsLInv, PTL DEF Spec

(* The fields of the class are always of their types; in particular the    *)
(* counter is never negative and never above the maximum.                  *)
THEOREM LimiterTypeCorrect == Spec => []LimiterTypeOK
  BY LimiterInvariant, PTL DEF LInv

(* Slots are neither leaked nor counted twice, and never more than         *)
(* maxOngoingOperations callbacks have an unsettled promise.               *)
THEOREM SlotsAlwaysExact == Spec => []SlotsExact
  BY LimiterInvariant, PTL DEF LInv

(* Nobody is left waiting at a free slot. *)
THEOREM NeverIdle == Spec => []NoIdleSlot
  BY LimiterInvariant, PTL DEF LInv

(* Nobody is overtaken. *)
THEOREM NeverOvertaken == Spec => []FirstComeFirstServed
  BY LimiterInvariant, PTL DEF LInv
=============================================================================
