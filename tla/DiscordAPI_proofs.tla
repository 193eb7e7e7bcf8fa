-------------------------- MODULE DiscordAPI_proofs --------------------------
(* The two ways to Discord.  RestClient, whose steps are RateLimiter's or  *)
(* leave it alone: for any limit, interval, bounds and delays the limiter  *)
(* grants in order and never more than its limit per interval.  Then       *)
(* GatewayConnection: for any number of sockets, sessions, events and      *)
(* breakdowns, events are passed on in order and replays not as live ones. *)
EXTENDS RestClient, GatewayConnection, SequenceTheorems, TLAPS

-----------------------------------------------------------------------------
(* The rate limiter, alone and under the downloads. *)
\* How many grants have left lastTimestamps.
Gone == Len(granted) - Len(lastTimestamps)

(* lastTimestamps are the times of the last grants, too few to fill the    *)
(* limit while somebody waits; and for all grants but those the interval   *)
(* will be over when the next grant comes, now or at the timeout.          *)
Remembered ==
    /\ Len(lastTimestamps) <= Len(granted)
    /\ \A k \in DOMAIN lastTimestamps : lastTimestamps[k] = granted[Gone + k].at
    /\ Len(lastTimestamps) <= IF timer = Never THEN limit ELSE limit - 1
    /\ \A k \in 1..Gone :
        \/ granted[k].at + interval <= now
        \/ timer # Never /\ granted[k].at + interval <= timer

Chronological ==
    /\ \A k \in DOMAIN granted : granted[k].at <= now
    /\ \A j, k \in DOMAIN granted : j <= k => granted[j].at <= granted[k].at

Counted == calls = Len(granted) + Len(pending)

TimerWhilePending == pending # <<>> <=> timer # Never

\* The inductive invariant.
RInv ==
    /\ RateTypeOK /\ RateLimited /\ GrantedInOrder
    /\ Remembered /\ Chronological /\ Counted /\ TimerWhilePending

-----------------------------------------------------------------------------
(* A limiter that was not used satisfies the invariant.                    *)
LEMMA InitRInv == RateInit => RInv
BY RateAssumption DEF RateInit, RInv, RateTypeOK, RateLimited, GrantedInOrder,
   Remembered, Gone,
    Chronological, Counted, TimerWhilePending, Grant

(* A grant now keeps the rate, the order and the chronology, if all grants *)
(* but the last n are old, and n is below the limit.                       *)
LEMMA GrantKeeps ==
    ASSUME RInv, NEW n \in Nat, n < limit, n <= Len(granted),
           \A k \in 1..(Len(granted) - n) : granted[k].at + interval <= now,
           granted' = Append(granted, [call |-> Len(granted) + 1, at |-> now]),
           now' = now
    PROVE  /\ granted' \in Seq(Grant) /\ Len(granted') = Len(granted) + 1
           /\ \A k \in DOMAIN granted : granted'[k] = granted[k]
           /\ granted'[Len(granted')] = [call |-> Len(granted) + 1, at |-> now]
           /\ RateLimited' /\ Chronological'
           /\ \A k \in DOMAIN granted' : granted'[k].call = k
<1>1. granted \in Seq(Grant) /\ now \in Nat /\ limit \in Nat \ {0} /\ interval \in Nat
      /\ lastTimestamps \in Seq(Nat)
    BY RateAssumption DEF RInv, RateTypeOK
<1>2. [call |-> Len(granted) + 1, at |-> now] \in Grant
    BY <1>1 DEF Grant
<1>3. /\ granted' \in Seq(Grant) /\ Len(granted') = Len(granted) + 1
      /\ \A k \in DOMAIN granted : granted'[k] = granted[k]
      /\ granted'[Len(granted')] = [call |-> Len(granted) + 1, at |-> now]
    BY <1>1, <1>2
<1>4. RateLimited'
  <2>1. SUFFICES ASSUME NEW k \in DOMAIN granted', k + limit \in DOMAIN granted'
                 PROVE  granted'[k + limit].at >= granted'[k].at + interval
    BY <1>1 DEF RateLimited
  <2>2. k \in DOMAIN granted /\ granted'[k] = granted[k] /\ granted[k] \in Grant
    BY <1>1, <1>3, <2>1
  <2>3. CASE k + limit \in DOMAIN granted
    BY <1>1, <1>3, <2>2, <2>3 DEF RInv, RateLimited
  <2>4. CASE k + limit = Len(granted')
    <3>1. k \in 1..(Len(granted) - n)
        BY <1>1, <1>3, <2>2, <2>4
    <3>2. granted[k].at + interval <= now
        BY <3>1
    <3>3. granted'[k + limit].at = now
        BY <1>3, <2>4
    <3>4. QED
        BY <1>1, <2>2, <3>2, <3>3 DEF Grant
  <2>5. QED
    BY <1>1, <1>3, <2>1, <2>3, <2>4
<1>5. Chronological'
  <2>1. \A k \in DOMAIN granted' : granted'[k].at <= now'
    BY <1>1, <1>3 DEF RInv, Chronological, Grant
  <2>2. ASSUME NEW j \in DOMAIN granted', NEW k \in DOMAIN granted', j <= k
        PROVE  granted'[j].at <= granted'[k].at
    <3>1. CASE k \in DOMAIN granted
        BY <1>1, <1>3, <2>2, <3>1 DEF RInv, Chronological
    <3>2. CASE k = Len(granted')
        BY <1>1, <1>3, <2>1, <2>2, <3>2
    <3>3. QED
        BY <1>1, <1>3, <2>2, <3>1, <3>2
  <2>3. QED
    BY <2>1, <2>2 DEF Chronological
<1>6. \A k \in DOMAIN granted' : granted'[k].call = k
    BY <1>1, <1>3 DEF RInv, GrantedInOrder, Grant
<1>7. QED
    BY <1>3, <1>4, <1>5, <1>6

(* What Append makes of a sequence, element by element.                    *)
LEMMA AppendFacts ==
    ASSUME NEW S, NEW s \in Seq(S), NEW e \in S
    PROVE  /\ Append(s, e) \in Seq(S) /\ Len(Append(s, e)) = Len(s) + 1
           /\ \A j \in DOMAIN s : Append(s, e)[j] = s[j]
           /\ Append(s, e)[Len(s) + 1] = e
           /\ DOMAIN Append(s, e) = DOMAIN s \cup {Len(s) + 1}
OBVIOUS

(* The same of Head and Tail.                                              *)
LEMMA TailFacts ==
    ASSUME NEW S, NEW s \in Seq(S), s # <<>>
    PROVE  /\ Tail(s) \in Seq(S) /\ Len(Tail(s)) = Len(s) - 1
           /\ DOMAIN Tail(s) = 1..(Len(s) - 1)
           /\ \A j \in 1..(Len(s) - 1) : Tail(s)[j] = s[j + 1] /\ j + 1 \in DOMAIN s
           /\ Head(s) = s[1] /\ s[1] \in S /\ 1 \in DOMAIN s
OBVIOUS

(* What is left after the first k timestamps: its length and elements.     *)
LEMMA RestFacts ==
    ASSUME lastTimestamps \in Seq(Nat), NEW k \in 0..Len(lastTimestamps)
    PROVE  /\ Rest(k) \in Seq(Nat) /\ Len(Rest(k)) = Len(lastTimestamps) - k
           /\ \A j \in DOMAIN Rest(k) : Rest(k)[j] = lastTimestamps[k + j]
<1>1. Len(lastTimestamps) \in Nat /\ k \in Nat /\ k <= Len(lastTimestamps)
    OBVIOUS
<1>2. \A i \in (k + 1)..Len(lastTimestamps) : lastTimestamps[i] \in Nat
    OBVIOUS
<1>3. Len(lastTimestamps) - (k + 1) + 1 = Len(lastTimestamps) - k
    BY <1>1
<1>4. /\ Rest(k) \in Seq(Nat)
      /\ Len(Rest(k)) = IF k + 1 <= Len(lastTimestamps) THEN Len(lastTimestamps) - (k + 1) + 1
                        ELSE 0
      /\ \A j \in 1..(Len(lastTimestamps) - (k + 1) + 1) :
            Rest(k)[j] = lastTimestamps[(k + 1) + j - 1]
  <2>1. k + 1 \in Int /\ Len(lastTimestamps) \in Int
    BY <1>1
  <2>2. QED
    BY <1>2, <2>1, SubSeqProperties DEF Rest
<1>5. Len(Rest(k)) = Len(lastTimestamps) - k
    BY <1>1, <1>4
<1>6. ASSUME NEW j \in 1..(Len(lastTimestamps) - k)
      PROVE  Rest(k)[j] = lastTimestamps[k + j]
  <2>1. (k + 1) + j - 1 = k + j
    BY <1>1
  <2>2. QED
    BY <1>3, <1>4, <2>1
<1>7. DOMAIN Rest(k) = 1..(Len(lastTimestamps) - k)
    BY <1>4, <1>5
<1>8. QED
    BY <1>4, <1>5, <1>6, <1>7

(* What the loop of whenFree drops is old, so that it need not be          *)
(* remembered: the same holds of what is left as of all.                   *)
LEMMA DropKeeps ==
    ASSUME RInv, NEW k \in 0..Len(lastTimestamps), Prunes(k)
    PROVE  /\ Len(Rest(k)) <= Len(lastTimestamps)
           /\ \A j \in DOMAIN Rest(k) :
                Rest(k)[j] = granted[Len(granted) - Len(Rest(k)) + j].at
           /\ \A j \in 1..(Len(granted) - Len(Rest(k))) :
                \/ granted[j].at + interval <= now
                \/ timer # Never /\ granted[j].at + interval <= timer
<1>1. /\ granted \in Seq(Grant) /\ now \in Nat /\ interval \in Nat
      /\ lastTimestamps \in Seq(Nat) /\ timer \in Nat \cup {Never}
    BY RateAssumption DEF RInv, RateTypeOK
<1>2. /\ Len(Rest(k)) = Len(lastTimestamps) - k
      /\ \A j \in DOMAIN Rest(k) : Rest(k)[j] = lastTimestamps[k + j]
      /\ DOMAIN Rest(k) = 1..(Len(lastTimestamps) - k)
    BY <1>1, RestFacts
<1>3. ASSUME NEW j \in DOMAIN Rest(k)
      PROVE  Rest(k)[j] = granted[Len(granted) - Len(Rest(k)) + j].at
  <2>1. /\ Gone = Len(granted) - Len(lastTimestamps)
        /\ Gone + (k + j) = Len(granted) - Len(Rest(k)) + j
    <3>1. Len(granted) \in Nat /\ Len(lastTimestamps) \in Nat /\ k \in Nat
        BY <1>1
    <3>2. j \in Nat
        BY <1>2, <3>1
    <3>3. Gone = Len(granted) - Len(lastTimestamps)
        BY DEF Gone
    <3>4. QED
        BY <1>2, <3>1, <3>2, <3>3
  <2>2. k + j \in DOMAIN lastTimestamps
    <3>1. Len(lastTimestamps) \in Nat /\ DOMAIN lastTimestamps = 1..Len(lastTimestamps)
        BY <1>1
    <3>2. j \in 1..(Len(lastTimestamps) - k)
        BY <1>2
    <3>3. QED
        BY <3>1, <3>2
  <2>3. QED
    BY <1>2, <1>3, <2>1, <2>2 DEF RInv, Remembered
<1>4. ASSUME NEW j \in 1..(Len(granted) - Len(Rest(k)))
      PROVE  \/ granted[j].at + interval <= now
             \/ timer # Never /\ granted[j].at + interval <= timer
  <2>1. CASE j <= Gone
    BY <1>1, <1>4, <2>1 DEF RInv, Remembered, Gone
  <2>2. CASE j > Gone
    <3>1. /\ Len(granted) \in Nat /\ Len(lastTimestamps) \in Nat /\ k \in Nat /\ j \in Nat
          /\ Gone = Len(granted) - Len(lastTimestamps) /\ Gone \in Nat
          /\ j <= Gone + k /\ k <= Len(lastTimestamps)
        BY <1>1, <1>2, <1>4 DEF RInv, Remembered, Gone
    <3>2. /\ j - Gone \in 1..k /\ j - Gone \in DOMAIN lastTimestamps
          /\ Gone + (j - Gone) = j /\ j \in DOMAIN granted
        BY <1>1, <2>2, <3>1
    <3>3. lastTimestamps[j - Gone] = granted[j].at /\ granted[j] \in Grant
        BY <1>1, <3>2 DEF RInv, Remembered
    <3>4. ~(lastTimestamps[j - Gone] + interval >= now)
        BY <3>2 DEF Prunes, Recent
    <3>5. QED
        BY <1>1, <3>3, <3>4 DEF Grant
  <2>3. QED
    BY <1>1, <1>4, <2>1, <2>2 DEF Gone
<1>5. QED
    BY <1>1, <1>2, <1>3, <1>4

-----------------------------------------------------------------------------
(* A call that whenFree grants at once.                                    *)
LEMMA GrantedAtOnce ==
    ASSUME RInv, NEW k \in 0..Len(lastTimestamps), Prunes(k),
           Len(Rest(k)) < limit, pending = <<>>, calls' = calls + 1,
           lastTimestamps' = Append(Rest(k), now),
           granted' = Append(granted, [call |-> calls', at |-> now]),
           UNCHANGED <<now, pending, timer>>
    PROVE  RInv'
<1>1. /\ granted \in Seq(Grant) /\ now \in Nat /\ interval \in Nat /\ calls \in Nat
      /\ lastTimestamps \in Seq(Nat) /\ timer = Never /\ Never \notin Nat
      /\ calls = Len(granted) /\ limit \in Nat
    BY RateAssumption DEF RInv, RateTypeOK, TimerWhilePending, Counted
<1>2. /\ Rest(k) \in Seq(Nat) /\ Len(Rest(k)) \in Nat /\ Len(Rest(k)) <= Len(granted)
      /\ \A j \in DOMAIN Rest(k) :
            Rest(k)[j] = granted[Len(granted) - Len(Rest(k)) + j].at
      /\ \A j \in 1..(Len(granted) - Len(Rest(k))) : granted[j].at + interval <= now
  <2>1. Len(lastTimestamps) <= Len(granted) /\ Len(granted) \in Nat
    BY <1>1 DEF RInv, Remembered
  <2>2. Rest(k) \in Seq(Nat) /\ Len(Rest(k)) \in Nat
    BY <1>1, RestFacts
  <2>3. /\ Len(Rest(k)) <= Len(lastTimestamps)
        /\ \A j \in DOMAIN Rest(k) :
              Rest(k)[j] = granted[Len(granted) - Len(Rest(k)) + j].at
        /\ \A j \in 1..(Len(granted) - Len(Rest(k))) : granted[j].at + interval <= now
    BY <1>1, DropKeeps
  <2>4. Len(Rest(k)) <= Len(granted)
    BY <1>1, <2>1, <2>2, <2>3
  <2>5. QED
    BY <2>2, <2>3, <2>4
<1>3. /\ granted' \in Seq(Grant) /\ Len(granted') = Len(granted) + 1
      /\ \A j \in DOMAIN granted : granted'[j] = granted[j]
      /\ granted'[Len(granted')] = [call |-> Len(granted) + 1, at |-> now]
      /\ RateLimited' /\ Chronological'
      /\ \A j \in DOMAIN granted' : granted'[j].call = j
    BY <1>1, <1>2, GrantKeeps
<1>4. /\ lastTimestamps' \in Seq(Nat) /\ Len(lastTimestamps') = Len(Rest(k)) + 1
      /\ \A j \in DOMAIN Rest(k) : lastTimestamps'[j] = Rest(k)[j]
      /\ lastTimestamps'[Len(Rest(k)) + 1] = now
      /\ DOMAIN lastTimestamps' = DOMAIN Rest(k) \cup {Len(Rest(k)) + 1}
  <2>1. Rest(k) \in Seq(Nat) /\ now \in Nat /\ lastTimestamps' = Append(Rest(k), now)
    BY <1>1, <1>2
  <2>2. QED
    BY <2>1, AppendFacts
<1>5. Gone' = Len(granted) - Len(Rest(k))
    BY <1>1, <1>2, <1>3, <1>4 DEF Gone
<1>6. Remembered'
  <2>1. ASSUME NEW j \in DOMAIN lastTimestamps'
        PROVE  lastTimestamps'[j] = granted'[Gone' + j].at
    <3>1. CASE j \in DOMAIN Rest(k)
        <4>1. j \in 1..Len(Rest(k)) /\ Len(granted) \in Nat
            BY <1>1, <1>2, <3>1
        <4>2. Gone' + j \in 1..Len(granted)
          <5>1. Len(Rest(k)) \in Nat /\ Len(Rest(k)) <= Len(granted)
            BY <1>2
          <5>2. QED
            BY <1>5, <4>1, <5>1
        <4>3. granted'[Gone' + j] = granted[Gone' + j]
            BY <1>1, <1>3, <4>2
        <4>4. lastTimestamps'[j] = granted[Gone' + j].at
            BY <1>2, <1>4, <1>5, <3>1
        <4>5. QED
            BY <4>3, <4>4
    <3>2. CASE j = Len(Rest(k)) + 1
        BY <1>1, <1>2, <1>3, <1>4, <1>5, <3>2
    <3>3. QED
        BY <1>4, <2>1, <3>1, <3>2
  <2>2. \A j \in 1..Gone' : granted'[j].at + interval <= now'
    BY <1>1, <1>2, <1>3, <1>5
  <2>3. Len(lastTimestamps') <= Len(granted') /\ Len(lastTimestamps') <= limit
    BY <1>1, <1>2, <1>3, <1>4
  <2>4. QED
    BY <1>1, <2>1, <2>2, <2>3 DEF Remembered
<1>7. RateTypeOK'
    BY <1>1, <1>3, <1>4 DEF RInv, RateTypeOK
<1>8. GrantedInOrder' /\ Counted' /\ TimerWhilePending'
    BY <1>1, <1>3 DEF RInv, GrantedInOrder, Counted, TimerWhilePending
<1>9. QED
    BY <1>3, <1>6, <1>7, <1>8 DEF RInv

(* A call that is the first to wait sets the timeout.                      *)
LEMMA FirstWaits ==
    ASSUME RInv, NEW k \in 0..Len(lastTimestamps), Prunes(k),
           Len(Rest(k)) >= limit, pending = <<>>, calls' = calls + 1,
           timer' = Head(Rest(k)) + interval,
           lastTimestamps' = Tail(Rest(k)),
           pending' = <<calls'>>,
           UNCHANGED <<now, granted>>
    PROVE  RInv'
<1>1. /\ granted \in Seq(Grant) /\ now \in Nat /\ interval \in Nat /\ calls \in Nat
      /\ lastTimestamps \in Seq(Nat) /\ timer = Never /\ Never \notin Nat
      /\ calls = Len(granted) /\ limit \in Nat \ {0}
    BY RateAssumption DEF RInv, RateTypeOK, TimerWhilePending, Counted
<1>2. /\ Len(granted) \in Nat /\ Len(lastTimestamps) \in Nat
      /\ Len(lastTimestamps) <= limit /\ Len(lastTimestamps) <= Len(granted)
    BY <1>1 DEF RInv, Remembered
<1>3. Rest(k) \in Seq(Nat) /\ Len(Rest(k)) \in Nat /\ Len(Rest(k)) <= Len(lastTimestamps)
  <2>1. Rest(k) \in Seq(Nat)
    BY <1>1, RestFacts
  <2>2. Len(Rest(k)) <= Len(lastTimestamps)
    BY DropKeeps
  <2> QED
    BY <2>1, <2>2
<1>4. /\ Rest(k) \in Seq(Nat) /\ Len(Rest(k)) \in Nat /\ Len(Rest(k)) = limit
      /\ Len(Rest(k)) <= Len(granted)
      /\ \A j \in DOMAIN Rest(k) :
            Rest(k)[j] = granted[Len(granted) - Len(Rest(k)) + j].at
      /\ \A j \in 1..(Len(granted) - Len(Rest(k))) : granted[j].at + interval <= now
    BY <1>2, <1>1, <1>3, DropKeeps
<1>5. /\ lastTimestamps' \in Seq(Nat) /\ Len(lastTimestamps') = Len(Rest(k)) - 1
      /\ \A j \in DOMAIN lastTimestamps' : lastTimestamps'[j] = Rest(k)[j + 1]
      /\ timer' = Rest(k)[1] + interval
      /\ Rest(k)[1] \in Nat /\ 1 \in DOMAIN Rest(k)
      /\ DOMAIN lastTimestamps' = 1..(Len(Rest(k)) - 1)
  <2>1. Rest(k) # <<>>
    BY <1>1, <1>4
  <2>2. lastTimestamps' = Tail(Rest(k)) /\ timer' = Head(Rest(k)) + interval
    OBVIOUS
  <2>3. QED
    BY <1>4, <2>1, <2>2, TailFacts
<1>6. Gone' = Len(granted) - Len(Rest(k)) + 1 /\ timer' \in Nat
  <2>1. Gone' = Len(granted) - (Len(Rest(k)) - 1)
    BY <1>5 DEF Gone
  <2>2. Gone' = Len(granted) - Len(Rest(k)) + 1
    BY <1>2, <1>4, <2>1
  <2>3. interval \in Nat /\ Rest(k)[1] \in Nat /\ timer' = Rest(k)[1] + interval
    BY <1>1, <1>5
  <2>4. timer' \in Nat
    BY <2>3
  <2>5. QED
    BY <2>2, <2>4
<1>7. Remembered'
  <2>1. ASSUME NEW j \in DOMAIN lastTimestamps'
        PROVE  lastTimestamps'[j] = granted'[Gone' + j].at
    <3>1. j \in 1..(Len(Rest(k)) - 1) /\ DOMAIN Rest(k) = 1..Len(Rest(k))
        BY <1>4, <1>5, <2>1
    <3>2. j + 1 \in DOMAIN Rest(k) /\ Len(granted) - Len(Rest(k)) + (j + 1) = Gone' + j
      <4>1. Len(Rest(k)) \in Nat /\ Len(granted) \in Nat
        BY <1>2, <1>4
      <4>2. Gone' = Len(granted) - Len(Rest(k)) + 1
        BY <1>6
      <4>3. QED
        BY <3>1, <4>1, <4>2
    <3>3. QED
        BY <1>4, <1>5, <2>1, <3>1, <3>2
  <2>2. ASSUME NEW j \in 1..Gone'
        PROVE  granted[j].at + interval <= now \/ granted[j].at + interval <= timer'
    <3>1. CASE j \in 1..(Len(granted) - Len(Rest(k)))
        BY <1>4, <3>1
    <3>2. CASE j = Len(granted) - Len(Rest(k)) + 1
        <4>1. timer' = granted[j].at + interval
            BY <1>4, <1>5, <3>2
        <4>2. QED
            BY <1>6, <4>1
    <3>3. j \in 1..(Len(granted) - Len(Rest(k))) \/ j = Len(granted) - Len(Rest(k)) + 1
        BY <1>2, <1>4, <1>6, <2>2
    <3>4. QED
        BY <3>1, <3>2, <3>3
  <2>3. Len(lastTimestamps') <= Len(granted') /\ Len(lastTimestamps') <= limit - 1
    BY <1>1, <1>2, <1>4, <1>5
  <2>4. QED
    BY <1>1, <1>6, <2>1, <2>2, <2>3 DEF Remembered
<1>8. RateTypeOK'
    BY <1>1, <1>5, <1>6 DEF RInv, RateTypeOK
<1>9. GrantedInOrder' /\ Counted' /\ TimerWhilePending'
    BY <1>1, <1>6 DEF RInv, GrantedInOrder, Counted, TimerWhilePending
<1>10. QED
    BY <1>7, <1>8, <1>9 DEF RInv, RateLimited, Chronological

(* A call that others wait before changes nothing but the queue.           *)
LEMMA AnotherWaits ==
    ASSUME RInv, NEW k \in 0..Len(lastTimestamps), Prunes(k),
           pending # <<>>, calls' = calls + 1,
           lastTimestamps' = Rest(k),
           pending' = Append(pending, calls'),
           UNCHANGED <<now, timer, granted>>
    PROVE  RInv'
<1>1. /\ granted \in Seq(Grant) /\ now \in Nat /\ interval \in Nat /\ calls \in Nat
      /\ lastTimestamps \in Seq(Nat) /\ timer \in Nat /\ timer # Never /\ Never \notin Nat
      /\ pending \in Seq(Nat) /\ calls = Len(granted) + Len(pending) /\ limit \in Nat
    BY RateAssumption DEF RInv, RateTypeOK, TimerWhilePending, Counted
<1>2. /\ Len(granted) \in Nat /\ Len(lastTimestamps) \in Nat
      /\ Len(lastTimestamps) <= limit - 1 /\ Len(lastTimestamps) <= Len(granted)
    BY <1>1 DEF RInv, Remembered
<1>3. Rest(k) \in Seq(Nat) /\ Len(Rest(k)) \in Nat /\ Len(Rest(k)) <= Len(lastTimestamps)
  <2>1. Rest(k) \in Seq(Nat)
    BY <1>1, RestFacts
  <2>2. Len(Rest(k)) <= Len(lastTimestamps)
    BY DropKeeps
  <2> QED
    BY <2>1, <2>2
<1>4. Len(Rest(k)) <= Len(granted) /\ Len(Rest(k)) <= limit - 1
    BY <1>1, <1>2, <1>3
<1>5. Gone' = Len(granted) - Len(Rest(k))
    BY <1>1 DEF Gone
<1>6. Remembered'
    BY <1>1, <1>4, <1>3, <1>5, DropKeeps DEF Remembered
<1>7. RateTypeOK'
    BY <1>1, <1>3 DEF RInv, RateTypeOK
<1>8. GrantedInOrder'
  <2>1. calls' \in Nat /\ pending' = Append(pending, calls')
    BY <1>1
  <2>2. /\ DOMAIN pending' = DOMAIN pending \cup {Len(pending) + 1}
        /\ \A j \in DOMAIN pending : pending'[j] = pending[j]
        /\ pending'[Len(pending) + 1] = calls'
    BY <1>1, <2>1, AppendFacts
  <2>3. Len(pending) \in Nat
    BY <1>1
  <2>4. calls' = Len(granted) + (Len(pending) + 1)
    BY <1>1, <1>2, <2>3
  <2>5. QED
    BY <2>2, <2>4 DEF RInv, GrantedInOrder
<1>9. Counted' /\ TimerWhilePending'
  <2>1. Len(pending) \in Nat /\ calls' \in Nat
    BY <1>1
  <2>2. Len(pending') = Len(pending) + 1
    BY <1>1, <2>1
  <2>3. pending' # <<>>
    BY <2>1, <2>2
  <2>4. Counted'
    BY <1>1, <1>2, <2>1, <2>2 DEF Counted
  <2>5. QED
    BY <1>1, <2>3, <2>4 DEF TimerWhilePending
<1>10. QED
    BY <1>6, <1>7, <1>8, <1>9 DEF RInv, RateLimited, Chronological

(* A call of whenFree keeps the invariant.                                 *)
LEMMA WhenFreeKeeps == ASSUME RInv, WhenFree PROVE RInv'
<1>1. PICK k \in 0..Len(lastTimestamps) :
        /\ Prunes(k)
        /\ \/ /\ Len(Rest(k)) < limit /\ pending = <<>>
              /\ lastTimestamps' = Append(Rest(k), now)
              /\ granted' = Append(granted, [call |-> calls', at |-> now])
              /\ UNCHANGED <<pending, timer>>
           \/ /\ Len(Rest(k)) >= limit /\ pending = <<>>
              /\ timer' = Head(Rest(k)) + interval
              /\ lastTimestamps' = Tail(Rest(k))
              /\ pending' = <<calls'>>
              /\ UNCHANGED granted
           \/ /\ pending # <<>>
              /\ lastTimestamps' = Rest(k)
              /\ pending' = Append(pending, calls')
              /\ UNCHANGED <<timer, granted>>
    BY DEF WhenFree
<1>2. calls' = calls + 1 /\ UNCHANGED now
    BY DEF WhenFree
<1>3. QED
    BY <1>1, <1>2, GrantedAtOnce, FirstWaits, AnotherWaits

-----------------------------------------------------------------------------
(* What executeFirstPending does, whether more calls wait or not: the      *)
(* first call that waits is the next in order, and all that are no longer  *)
(* remembered are old, for the timeout is over.                            *)
LEMMA FirstIsNext ==
    ASSUME RInv, ExecuteFirstPending
    PROVE  /\ granted' \in Seq(Grant) /\ Len(granted') = Len(granted) + 1
           /\ \A k \in DOMAIN granted : granted'[k] = granted[k]
           /\ granted'[Len(granted')] = [call |-> Len(granted) + 1, at |-> now]
           /\ RateLimited' /\ Chronological'
           /\ \A k \in DOMAIN granted' : granted'[k].call = k
           /\ \A k \in 1..Gone : granted[k].at + interval <= now
<1>1. /\ granted \in Seq(Grant) /\ now \in Nat /\ interval \in Nat /\ limit \in Nat
      /\ lastTimestamps \in Seq(Nat) /\ timer \in Nat /\ timer # Never /\ timer <= now
      /\ pending \in Seq(Nat) /\ pending # <<>> /\ Never \notin Nat
    BY RateAssumption DEF RInv, RateTypeOK, TimerWhilePending, ExecuteFirstPending
<1>2. /\ Len(lastTimestamps) \in Nat /\ Len(granted) \in Nat
      /\ Len(lastTimestamps) <= limit - 1 /\ Len(lastTimestamps) <= Len(granted)
      /\ Gone = Len(granted) - Len(lastTimestamps)
    BY <1>1 DEF RInv, Remembered, Gone
<1>3. ASSUME NEW k \in 1..Gone
      PROVE  granted[k].at + interval <= now
  <2>1. k \in DOMAIN granted /\ granted[k] \in Grant
    BY <1>1, <1>2, <1>3
  <2>2. granted[k].at + interval <= now \/ granted[k].at + interval <= timer
    BY <1>3 DEF RInv, Remembered
  <2>3. QED
    BY <1>1, <2>1, <2>2 DEF Grant
<1>4. Head(pending) = Len(granted) + 1
  <2>1. 1 \in DOMAIN pending /\ Head(pending) = pending[1]
    BY <1>1
  <2>2. QED
    BY <2>1 DEF RInv, GrantedInOrder
<1>5. granted' = Append(granted, [call |-> Len(granted) + 1, at |-> now]) /\ now' = now
    BY <1>4 DEF ExecuteFirstPending
<1>6. \A k \in 1..(Len(granted) - Len(lastTimestamps)) : granted[k].at + interval <= now
    BY <1>2, <1>3
<1>7. Len(lastTimestamps) < limit
    BY <1>1, <1>2
<1>8. QED
    BY <1>2, <1>3, <1>5, <1>6, <1>7, GrantKeeps

(* A timeout grants the first call that waits.                             *)
LEMMA ExecuteFirstPendingKeeps == ASSUME RInv, ExecuteFirstPending PROVE RInv'
<1>1. /\ granted \in Seq(Grant) /\ now \in Nat /\ interval \in Nat /\ calls \in Nat
      /\ lastTimestamps \in Seq(Nat) /\ timer \in Nat /\ timer # Never /\ timer <= now
      /\ pending \in Seq(Nat) /\ pending # <<>> /\ Never \notin Nat /\ limit \in Nat
      /\ calls = Len(granted) + Len(pending)
    BY RateAssumption DEF RInv, RateTypeOK, TimerWhilePending, Counted, ExecuteFirstPending
<1>2. /\ Len(lastTimestamps) \in Nat /\ Len(granted) \in Nat
      /\ Len(lastTimestamps) <= limit - 1 /\ Len(lastTimestamps) <= Len(granted)
      /\ Gone = Len(granted) - Len(lastTimestamps)
      /\ \A k \in DOMAIN lastTimestamps : lastTimestamps[k] = granted[Gone + k].at
    BY <1>1 DEF RInv, Remembered, Gone
<1>3. /\ granted' \in Seq(Grant) /\ Len(granted') = Len(granted) + 1
      /\ \A k \in DOMAIN granted : granted'[k] = granted[k]
      /\ granted'[Len(granted')] = [call |-> Len(granted) + 1, at |-> now]
      /\ RateLimited' /\ Chronological'
      /\ \A k \in DOMAIN granted' : granted'[k].call = k
      /\ \A k \in 1..Gone : granted[k].at + interval <= now
    BY FirstIsNext
<1>4. /\ pending' = Tail(pending) /\ now' = now /\ calls' = calls
      /\ pending' \in Seq(Nat) /\ Len(pending') = Len(pending) - 1
      /\ Len(pending) \in Nat
      /\ DOMAIN pending' = 1..(Len(pending) - 1)
      /\ \A k \in DOMAIN pending' : pending'[k] = pending[k + 1] /\ k + 1 \in DOMAIN pending
  <2>1. pending' = Tail(pending) /\ now' = now /\ calls' = calls
    BY DEF ExecuteFirstPending
  <2>2. QED
    BY <1>1, <2>1, TailFacts
<1>5. GrantedInOrder' /\ Counted'
  <2>1. ASSUME NEW k \in DOMAIN pending'
        PROVE  pending'[k] = Len(granted') + k
    <3>1. pending'[k] = pending[k + 1] /\ k + 1 \in DOMAIN pending
        BY <1>4, <2>1
    <3>2. pending[k + 1] = Len(granted) + (k + 1)
        BY <3>1 DEF RInv, GrantedInOrder
    <3>3. k \in Nat /\ Len(granted') = Len(granted) + 1
        BY <1>3, <1>4, <2>1
    <3>4. QED
        BY <1>2, <3>1, <3>2, <3>3
  <2>2. Counted'
    BY <1>1, <1>2, <1>3, <1>4 DEF Counted
  <2>3. QED
    BY <1>3, <2>1, <2>2 DEF GrantedInOrder
<1>6. \A k \in 1..Gone : granted'[k].at + interval <= now'
  <2>1. \A k \in 1..Gone : k \in DOMAIN granted
    BY <1>1, <1>2
  <2>2. \A k \in 1..Gone : granted'[k] = granted[k]
    BY <1>3, <2>1
  <2>3. QED
    BY <1>3, <1>4, <2>2
<1>7. DEFINE stamps == Append(lastTimestamps, now)
<1>8. /\ stamps \in Seq(Nat) /\ Len(stamps) = Len(lastTimestamps) + 1
      /\ DOMAIN stamps = DOMAIN lastTimestamps \cup {Len(lastTimestamps) + 1}
      /\ \A k \in DOMAIN lastTimestamps : stamps[k] = lastTimestamps[k]
      /\ stamps[Len(lastTimestamps) + 1] = now
    BY <1>1, AppendFacts
<1>9. \A k \in DOMAIN stamps : stamps[k] = granted'[Gone + k].at /\ Gone + k \in DOMAIN granted'
  <2>1. ASSUME NEW k \in DOMAIN lastTimestamps
        PROVE  stamps[k] = granted'[Gone + k].at /\ Gone + k \in DOMAIN granted'
    <3>1. Gone + k \in DOMAIN granted
      <4>1. DOMAIN granted = 1..Len(granted) /\ DOMAIN lastTimestamps = 1..Len(lastTimestamps)
        BY <1>1
      <4>2. QED
        BY <1>2, <2>1, <4>1
    <3>2. Gone + k \in DOMAIN granted'
        BY <1>1, <1>2, <1>3, <3>1
    <3>3. QED
        BY <1>2, <1>3, <1>8, <2>1, <3>1, <3>2
  <2>2. Gone + (Len(lastTimestamps) + 1) = Len(granted') /\ Len(granted') \in DOMAIN granted'
    BY <1>1, <1>2, <1>3
  <2>3. stamps[Len(lastTimestamps) + 1] = granted'[Len(granted')].at
    BY <1>3, <1>8
  <2>4. QED
    BY <1>8, <2>1, <2>2, <2>3
<1>10. CASE pending' # <<>>
  <2>1. timer' = Head(stamps) + interval /\ lastTimestamps' = Tail(stamps)
    BY <1>10 DEF ExecuteFirstPending
  <2>2. /\ lastTimestamps' \in Seq(Nat) /\ Len(lastTimestamps') = Len(lastTimestamps)
        /\ DOMAIN lastTimestamps' = 1..Len(lastTimestamps)
        /\ \A k \in DOMAIN lastTimestamps' :
              lastTimestamps'[k] = stamps[k + 1] /\ k + 1 \in DOMAIN stamps
        /\ 1 \in DOMAIN stamps /\ Head(stamps) = stamps[1] /\ stamps[1] \in Nat
    <3> HIDE DEF stamps
    <3>1. stamps # <<>> /\ Len(stamps) - 1 = Len(lastTimestamps)
        BY <1>2, <1>8
    <3>2. QED
        BY <1>8, <2>1, <3>1, TailFacts
  <2>3. timer' = granted'[Gone + 1].at + interval /\ timer' \in Nat /\ timer' # Never
    <3> HIDE DEF stamps
    <3>1. stamps[1] = granted'[Gone + 1].at
        BY <1>9, <2>2
    <3>2. timer' = stamps[1] + interval
        BY <2>1, <2>2
    <3>3. interval \in Nat /\ stamps[1] \in Nat /\ Never \notin Nat
        BY <1>1, <2>2
    <3>4. timer' \in Nat
        BY <3>2, <3>3
    <3>5. QED
        BY <3>1, <3>2, <3>3, <3>4
  <2>4. Gone' = Gone + 1
    BY <1>2, <1>3, <2>2 DEF Gone
  <2>5. ASSUME NEW k \in DOMAIN lastTimestamps'
        PROVE  lastTimestamps'[k] = granted'[Gone' + k].at
    <3> HIDE DEF stamps
    <3>1. Gone + (k + 1) = Gone' + k
        BY <1>2, <2>2, <2>4, <2>5
    <3>2. QED
        BY <1>9, <2>2, <2>5, <3>1
  <2>6. ASSUME NEW k \in 1..Gone'
        PROVE  granted'[k].at + interval <= now' \/ granted'[k].at + interval <= timer'
    <3>1. CASE k \in 1..Gone
        BY <1>6, <3>1
    <3>2. CASE k = Gone + 1
        BY <2>3, <3>2
    <3>3. QED
        BY <1>2, <2>4, <2>6, <3>1, <3>2
  <2>7. Remembered'
    BY <1>2, <1>3, <2>2, <2>3, <2>5, <2>6 DEF Remembered
  <2>8. RateTypeOK' /\ TimerWhilePending'
    BY <1>1, <1>3, <1>4, <1>10, <2>2, <2>3 DEF RateTypeOK, TimerWhilePending
  <2>9. QED
    BY <1>3, <1>5, <2>7, <2>8 DEF RInv
<1>11. CASE pending' = <<>>
  <2>1. timer' = Never /\ lastTimestamps' = stamps
    BY <1>11 DEF ExecuteFirstPending
  <2>2. Gone' = Gone
    BY <1>2, <1>3, <1>8, <2>1 DEF Gone
  <2>3. Remembered'
    <3> HIDE DEF stamps
    <3>1. \A k \in DOMAIN lastTimestamps' : lastTimestamps'[k] = granted'[Gone' + k].at
        BY <1>9, <2>1, <2>2
    <3>2. \A k \in 1..Gone' : granted'[k].at + interval <= now'
        BY <1>6, <2>2
    <3>3. Len(lastTimestamps') <= Len(granted') /\ Len(lastTimestamps') <= limit
      <4>1. Len(lastTimestamps') = Len(lastTimestamps) + 1 /\ limit \in Nat
        BY <1>1, <1>8, <2>1
      <4>2. QED
        BY <1>2, <1>3, <4>1
    <3>4. QED
        BY <2>1, <3>1, <3>2, <3>3 DEF Remembered
  <2>4. RateTypeOK' /\ TimerWhilePending'
    BY <1>1, <1>3, <1>4, <1>8, <1>11, <2>1 DEF RateTypeOK, TimerWhilePending
  <2>5. QED
    BY <1>3, <1>5, <2>3, <2>4 DEF RInv
<1>12. QED
    BY <1>10, <1>11

(* Time may pass as long as no timer is overdue.                           *)
LEMMA TickKeeps == ASSUME RInv, Tick PROVE RInv'
<1>1. now' = now + 1 /\ UNCHANGED <<lastTimestamps, pending, timer, calls, granted>>
    BY DEF Tick
<1>2. /\ granted \in Seq(Grant) /\ now \in Nat /\ interval \in Nat
      /\ lastTimestamps \in Seq(Nat) /\ timer \in Nat \cup {Never}
      /\ Len(granted) \in Nat /\ Len(lastTimestamps) \in Nat
    BY RateAssumption DEF RInv, RateTypeOK
<1>3. Gone' = Gone /\ Gone = Len(granted) - Len(lastTimestamps)
    BY <1>1 DEF Gone
<1>4. \A k \in DOMAIN granted : granted[k].at \in Nat
  <2>1. \A k \in DOMAIN granted : granted[k] \in Grant
    BY <1>2
  <2>2. QED
    BY <2>1 DEF Grant
<1>5. Chronological'
    BY <1>1, <1>2, <1>4 DEF RInv, Chronological
<1>6. \A k \in 1..Gone : k \in DOMAIN granted
    BY <1>2, <1>3
<1>7. Remembered'
  <2>1. ASSUME NEW k \in 1..Gone'
        PROVE  \/ granted'[k].at + interval <= now'
               \/ timer' # Never /\ granted'[k].at + interval <= timer'
    <3>1. granted[k].at \in Nat
        BY <1>3, <1>4, <1>6, <2>1
    <3>2. \/ granted[k].at + interval <= now
          \/ timer # Never /\ granted[k].at + interval <= timer
        BY <1>3, <2>1 DEF RInv, Remembered
    <3>3. QED
        BY <1>1, <1>2, <3>1, <3>2
  <2>2. QED
    BY <1>1, <1>3, <2>1 DEF RInv, Remembered
<1>8. RateTypeOK' /\ RateLimited' /\ GrantedInOrder' /\ Counted' /\ TimerWhilePending'
    BY <1>1, <1>2 DEF RInv, RateTypeOK, RateLimited, GrantedInOrder, Counted, TimerWhilePending
<1>9. QED
    BY <1>5, <1>7, <1>8 DEF RInv

(* The invariant is about the variables of the limiter alone.              *)
LEMMA SameKeeps == ASSUME RInv, UNCHANGED rateVars PROVE RInv'
BY DEF RInv, rateVars, RateTypeOK, RateLimited, GrantedInOrder, Remembered, Gone,
   Chronological,
    Counted, TimerWhilePending

(* The invariant of the limiter always holds.                              *)
LEMMA RInvariant == RateSpec => []RInv
<1>1. RInv /\ [RateNext]_rateVars => RInv'
    BY WhenFreeKeeps, ExecuteFirstPendingKeeps, TickKeeps, SameKeeps DEF RateNext
<1>2. QED
    BY InitRInv, <1>1, PTL DEF RateSpec

(* In every step of RestClient the limiter takes one of its own steps, or  *)
(* none: however many downloads share it, fail, retry and are aborted.     *)
LEMMA RestStepsAreSteps == RestNext => [RateNext]_rateVars
<1>1. PassTime => Tick
    BY DEF PassTime
<1>2. FirstPending => ExecuteFirstPending
    BY DEF FirstPending
<1>3. Abort => UNCHANGED rateVars
    BY DEF Abort, limiter, rateVars
<1>4. ASSUME NEW s \in Sync, Step(s)
      PROVE  WhenFree \/ UNCHANGED rateVars
    BY <1>4 DEF Step, GoOn, Request, In, Awaiting, Granted, Retry, Resume, Stored, Reset,
        Unawaited, Aborted, rateVars, limiter
<1>5. ASSUME NEW s \in Sync, Begin(s) \/ Answer(s)
      PROVE  WhenFree \/ UNCHANGED rateVars
    BY <1>5 DEF Begin, Request, In, Awaiting, Answer, FailedAttempt, Headers, BodyFailed,
        Malformed, ReceivePage, ReceiveReactions, Refused, Unauthorized, rateVars, limiter
<1>6. QED
    BY <1>1, <1>2, <1>3, <1>4, <1>5 DEF RestNext, RateNext

(* RestClient implements RateLimiter.                                      *)
THEOREM RestImplementsRateLimiter == RestSpec => RateSpec
<1>1. RestInit => RateInit
    BY DEF RestInit
<1>2. UNCHANGED restVars => UNCHANGED rateVars
    BY DEF restVars
<1>3. QED
    BY <1>1, <1>2, RestStepsAreSteps, PTL DEF RestSpec, RateSpec

(* The class comment of rate-limiter.ts, for every limit and interval and  *)
(* for timers that fire as late as they like.                              *)
THEOREM RateLimitedAlways == RestSpec => []RateLimited
<1>1. RInv => RateLimited
    BY DEF RInv
<1>2. QED
    BY <1>1, RInvariant, RestImplementsRateLimiter, PTL

(* The comment on whenFree: nobody is overtaken.                           *)
THEOREM GrantsAlwaysInOrder == RestSpec => []GrantedInOrder
<1>1. RInv => GrantedInOrder
    BY DEF RInv
<1>2. QED
    BY <1>1, RInvariant, RestImplementsRateLimiter, PTL

-----------------------------------------------------------------------------
(* The reset of the page is over once its rateLimitReset has resolved, and *)
(* until then the page is not done with.  The reset said by an answer that *)
(* is being read is that of the promise made with it, which is what a      *)
(* pause between two requests about reactions awaits.                      *)
ResetPending(sync, time) ==
    /\ IF sync.reset = Never THEN sync.until <= time
       ELSE sync.until = sync.reset /\ (sync.listing \/ sync.phase \in {"storing", "resetting"})
    /\ sync.phase = "reading" => IF sync.made = Never THEN sync.said <= time
                                 ELSE sync.said = sync.made
    /\ sync.phase = "pausing" => sync.due = sync.said
    /\ sync.phase \in {"next", "queued"} /\ sync.listing => sync.said <= time
    /\ sync.phase \in {"idle", "storing", "resetting"} => ~sync.listing

SyncTypes ==
    [phase: Phase, call: Nat, listing: BOOLEAN, interval: Nat, due: Time, made: Time,
     reset: Time, lost: Time, until: Nat, said: Nat, aborted: BOOLEAN]

\* The inductive invariant of the downloads.
DInv ==
    /\ RInv
    /\ syncs \in [Sync -> SyncTypes]
    /\ process \in {"up", "dead"} /\ troubles \in 0..MaxTroubles
    /\ \A s \in Sync : ResetPending(syncs[s], now)

(* Downloads that have not begun satisfy their invariant.                  *)
LEMMA InitDInv == RestInit => DInv
<1>1. SUFFICES ASSUME RestInit PROVE DInv
    OBVIOUS
<1>2. Idle \in SyncTypes /\ ResetPending(Idle, 0)
    BY DEF Idle, SyncTypes, Phase, Time, ResetPending
<1>3. RInv
    BY <1>1, InitRInv DEF RestInit
<1>4. QED
    BY <1>1, <1>2, <1>3, RestAssumption DEF RestInit, RateInit, DInv

(* The later of two timeouts, one of which may not exist.                  *)
LEMMA LaterIsTime == ASSUME NEW a \in Time, NEW b \in Time PROVE Later(a, b) \in Time
BY DEF Later, Larger, Time

(* Steps that change one download only.                                    *)
LEMMA OneSync ==
    ASSUME DInv, RInv', NEW s \in Sync, NEW sync \in SyncTypes,
           ResetPending(sync, now), now' = now,
           syncs' = [syncs EXCEPT ![s] = sync],
           process' = process, troubles' \in 0..MaxTroubles
    PROVE  DInv'
BY DEF DInv

(* A download's call of the limiter keeps the invariant.                   *)
LEMMA RequestKeeps ==
    ASSUME DInv, RInv', NEW s \in Sync, Request(s), now' = now,
           syncs[s].phase \in {"idle", "next"}
    PROVE  DInv'
<1>1. calls' \in Nat
    BY DEF RInv, RateTypeOK
<1>2. /\ syncs \in [Sync -> SyncTypes] /\ syncs[s] \in SyncTypes
      /\ ResetPending(syncs[s], now)
    BY DEF DInv
<1>3. DEFINE sync == [syncs[s] EXCEPT !.phase = "queued", !.call = calls']
<1>4. sync \in SyncTypes
    BY <1>1, <1>2 DEF SyncTypes, Phase
<1>5. ResetPending(sync, now)
    BY <1>2 DEF SyncTypes, ResetPending
<1>6. syncs' = [syncs EXCEPT ![s] = sync]
    BY <1>2 DEF Request
<1>7. process' = process /\ troubles' \in 0..MaxTroubles
    BY DEF Request, DInv
<1>8. QED
    BY <1>4, <1>5, <1>6, <1>7, OneSync

(* Aborting downloads.                                                     *)
LEMMA AbortingKeeps ==
    ASSUME DInv, RInv', syncs' = [t \in Sync |-> syncs'[t]],
           \A t \in Sync :
             syncs'[t] = syncs[t] \/ syncs'[t] = [syncs[t] EXCEPT !.aborted = TRUE],
           now' = now, process' \in {"up", "dead"}, troubles' = troubles
    PROVE  DInv'
<1>1. ASSUME NEW t \in Sync
      PROVE  syncs'[t] \in SyncTypes /\ ResetPending(syncs'[t], now)
  <2>1. syncs[t] \in SyncTypes /\ ResetPending(syncs[t], now)
    BY DEF DInv
  <2>2. /\ [syncs[t] EXCEPT !.aborted = TRUE] \in SyncTypes
        /\ ResetPending([syncs[t] EXCEPT !.aborted = TRUE], now)
    BY <2>1 DEF SyncTypes, ResetPending
  <2>3. QED
    BY <2>1, <2>2
<1>2. syncs' \in [Sync -> SyncTypes]
    BY <1>1
<1>3. QED
    BY <1>1, <1>2 DEF DInv

(* Every other step of a download keeps the invariant.                     *)
LEMMA DownloadKeeps ==
    ASSUME DInv, RInv', NEW s \in Sync,
           Begin(s) \/ Answer(s) \/ Step(s)
    PROVE  DInv'
<1>1. /\ syncs \in [Sync -> SyncTypes] /\ syncs[s] \in SyncTypes
      /\ ResetPending(syncs[s], now) /\ now \in Nat /\ Never \notin Nat
      /\ process \in {"up", "dead"} /\ troubles \in 0..MaxTroubles /\ MaxTroubles \in Nat
    BY RateAssumption, RestAssumption DEF DInv, RInv, RateTypeOK
<1>2. CASE Begin(s) \/ GoOn(s)
    BY <1>2, RequestKeeps DEF Begin, GoOn, In
<1>3. ASSUME End(s), now' = now, process' = process, troubles' = troubles
      PROVE  DInv'
  <2>1. [Idle EXCEPT !.phase = "ended", !.aborted = syncs[s].aborted] \in SyncTypes
    BY <1>1 DEF Idle, SyncTypes, Phase, Time
  <2>2. ResetPending([Idle EXCEPT !.phase = "ended", !.aborted = syncs[s].aborted], now)
    BY <1>1 DEF Idle, ResetPending
  <2>3. QED
    BY <1>1, <1>3, <2>1, <2>2, OneSync DEF End
<1>4. CASE Granted(s)
  <2>1. [syncs[s] EXCEPT !.phase = "fetching", !.call = 0, !.interval = 0] \in SyncTypes
    BY <1>1 DEF SyncTypes, Phase
  <2>2. ResetPending([syncs[s] EXCEPT !.phase = "fetching", !.call = 0, !.interval = 0], now)
    BY <1>1, <1>4 DEF SyncTypes, ResetPending, Granted, In
  <2>3. syncs' = [syncs EXCEPT
            ![s] = [syncs[s] EXCEPT !.phase = "fetching", !.call = 0, !.interval = 0]]
    BY <1>1, <1>4 DEF Granted
  <2>4. QED
    BY <1>1, <1>4, <2>1, <2>2, <2>3, OneSync DEF Granted, In
<1>5. CASE FailedAttempt(s)
  <2>1. PICK w \in Waits(syncs[s].interval) :
          syncs' = [syncs EXCEPT ![s].phase = "waiting", ![s].due = now + w,
                                 ![s].interval = Larger(w + ServerWait, LongWait)]
    BY <1>5 DEF FailedAttempt
  <2>2. w \in Nat
    BY <1>1, RestAssumption DEF SyncTypes, Waits, Larger
  <2>3. Larger(w + ServerWait, LongWait) \in Nat /\ now + w \in Nat
    BY <1>1, <2>2, RestAssumption DEF Larger
  <2> DEFINE sync == [syncs[s] EXCEPT !.phase = "waiting", !.due = now + w,
                                      !.interval = Larger(w + ServerWait, LongWait)]
  <2>4. sync \in SyncTypes
    BY <1>1, <2>3 DEF SyncTypes, Phase, Time
  <2>5. ResetPending(sync, now)
    BY <1>1, <1>5 DEF SyncTypes, ResetPending, FailedAttempt, Awaiting, In
  <2>6. syncs' = [syncs EXCEPT ![s] = sync]
    BY <1>1, <2>1
  <2>7. now' = now /\ process' = process /\ troubles < MaxTroubles /\ troubles' = troubles + 1
    BY <1>5 DEF FailedAttempt, Awaiting, In
  <2>8. troubles' \in 0..MaxTroubles
    BY <1>1, <2>7
  <2>9. QED
    BY <2>4, <2>5, <2>6, <2>7, <2>8, OneSync
<1>6. CASE Retry(s)
  <2>1. [syncs[s] EXCEPT !.phase = "fetching", !.due = Never] \in SyncTypes
    BY <1>1 DEF SyncTypes, Phase, Time
  <2>2. ResetPending([syncs[s] EXCEPT !.phase = "fetching", !.due = Never], now)
    BY <1>1, <1>6 DEF SyncTypes, ResetPending, Retry, Awaiting, In
  <2>3. syncs' = [syncs EXCEPT ![s] = [syncs[s] EXCEPT !.phase = "fetching", !.due = Never]]
    BY <1>1, <1>6 DEF Retry
  <2>4. QED
    BY <1>1, <1>6, <2>1, <2>2, <2>3, OneSync DEF Retry, Awaiting, In
<1>7. CASE ReceivePage(s)
  <2>1. CASE End(s)
    BY <1>1, <1>3, <1>7, <2>1 DEF ReceivePage, Awaiting, In
  <2>2. CASE ~End(s)
    <3>1. PICK phase \in {"storing", AwaitsReset(syncs[s].made)}, reactions \in BOOLEAN :
            syncs' = [syncs EXCEPT
                ![s].phase = IF reactions THEN "next" ELSE phase, ![s].listing = reactions,
                ![s].reset = syncs[s].made, ![s].made = Never,
                ![s].until = syncs[s].said, ![s].said = 0]
        BY <1>7, <2>2 DEF ReceivePage
    <3> DEFINE sync == [syncs[s] EXCEPT
                !.phase = IF reactions THEN "next" ELSE phase, !.listing = reactions,
                !.reset = syncs[s].made, !.made = Never,
                !.until = syncs[s].said, !.said = 0]
    <3>2. sync \in SyncTypes
        BY <1>1 DEF SyncTypes, Phase, Time, AwaitsReset
    <3>3. ResetPending(sync, now)
        <4>1. /\ IF syncs[s].made = Never THEN syncs[s].said <= now
                 ELSE syncs[s].said = syncs[s].made
              /\ syncs[s].said \in Nat
            BY <1>1, <1>7 DEF ResetPending, SyncTypes, ReceivePage, Awaiting, In
        <4>2. /\ sync.reset = syncs[s].made /\ sync.made = Never
              /\ sync.until = syncs[s].said /\ sync.said = 0 /\ sync.listing = reactions
              /\ sync.phase = IF reactions THEN "next" ELSE phase
            BY <1>1 DEF SyncTypes
        <4>3. phase \in {"storing", "next", "resetting"}
              /\ (syncs[s].made # Never => phase # "next")
            BY DEF AwaitsReset
        <4>4. QED
            BY <1>1, <4>1, <4>2, <4>3 DEF ResetPending
    <3>4. syncs' = [syncs EXCEPT ![s] = sync]
        BY <1>1, <3>1
    <3>5. QED
        BY <1>1, <1>7, <3>2, <3>3, <3>4, OneSync DEF ReceivePage, Awaiting, In
  <2>3. QED
    BY <2>1, <2>2
<1>8. CASE Refused(s)
  <2>1. CASE End(s)
    BY <1>1, <1>3, <1>8, <2>1 DEF Refused, Awaiting, In
  <2>2. CASE ~End(s)
    <3>1. PICK announced \in {now + r : r \in Resets} \cup {Never} :
            syncs' = [syncs EXCEPT ![s].phase = "hung", ![s].lost = Later(@, announced)]
        BY <1>8, <2>2 DEF Refused
    <3> DEFINE sync == [syncs[s] EXCEPT !.phase = "hung", !.lost = Later(@, announced)]
    <3>2. announced \in Time
        BY <1>1, RestAssumption DEF Time
    <3>3. Later(syncs[s].lost, announced) \in Time
        BY <1>1, <3>2, LaterIsTime DEF SyncTypes
    <3>4. sync \in SyncTypes
        BY <1>1, <3>3 DEF SyncTypes, Phase
    <3>5. ResetPending(sync, now)
        BY <1>1, <1>8 DEF SyncTypes, ResetPending, Refused, Awaiting, In
    <3>6. syncs' = [syncs EXCEPT ![s] = sync]
        BY <1>1, <3>1
    <3>7. QED
        BY <1>1, <1>8, <3>4, <3>5, <3>6, OneSync DEF Refused, Awaiting, In
  <2>3. QED
    BY <2>1, <2>2
<1>9. CASE Stored(s)
  <2>1. CASE End(s)
    BY <1>1, <1>3, <1>9, <2>1 DEF Stored, In
  <2>2. CASE ~End(s)
    <3> DEFINE sync == [syncs[s] EXCEPT !.phase = AwaitsReset(syncs[s].reset)]
    <3>1. sync \in SyncTypes
        BY <1>1 DEF SyncTypes, Phase, AwaitsReset
    <3>2. ResetPending(sync, now)
        BY <1>1, <1>9 DEF SyncTypes, ResetPending, AwaitsReset, Stored, In
    <3>3. syncs' = [syncs EXCEPT ![s] = sync]
        BY <1>1, <1>9, <2>2 DEF Stored
    <3>4. QED
        BY <1>1, <1>9, <3>1, <3>2, <3>3, OneSync DEF Stored, In
  <2>3. QED
    BY <2>1, <2>2
<1>10. CASE Reset(s)
  <2> DEFINE sync == [syncs[s] EXCEPT
            !.phase = IF syncs[s].phase = "resetting" THEN "next" ELSE syncs[s].phase,
            !.reset = Never]
  <2>1. sync \in SyncTypes
    BY <1>1 DEF SyncTypes, Phase, Time
  <2>2. ResetPending(sync, now)
    BY <1>1, <1>10 DEF SyncTypes, ResetPending, Reset
  <2>3. syncs' = [syncs EXCEPT ![s] = sync]
    BY <1>1, <1>10 DEF Reset
  <2>4. QED
    BY <1>1, <1>10, <2>1, <2>2, <2>3, OneSync DEF Reset
<1>11. CASE Aborted(s)
    BY <1>1, <1>3, <1>11 DEF Aborted, In
<1>12. CASE Unauthorized(s)
  <2>1. syncs' = [t \in Sync |-> syncs'[t]]
    BY <1>12 DEF Unauthorized, Aborting
  <2>2. \A t \in Sync :
          syncs'[t] = syncs[t] \/ syncs'[t] = [syncs[t] EXCEPT !.aborted = TRUE]
    BY <1>12 DEF Unauthorized, Aborting
  <2>3. now' = now /\ process' \in {"up", "dead"} /\ troubles' = troubles
    BY <1>1, <1>12 DEF Unauthorized, Rejected, Awaiting, In
  <2>4. QED
    BY <2>1, <2>2, <2>3, AbortingKeeps
<1>13. CASE Headers(s)
  <2>1. PICK announced \in {now + r : r \in Resets} \cup {Never} :
          syncs' = [syncs EXCEPT ![s].phase = "reading", ![s].made = announced,
                                 ![s].said = IF announced = Never THEN 0 ELSE announced]
    BY <1>13 DEF Headers
  <2>2. announced \in Time
    BY <1>1, RestAssumption DEF Time
  <2> DEFINE sync == [syncs[s] EXCEPT !.phase = "reading", !.made = announced,
                          !.said = IF announced = Never THEN 0 ELSE announced]
  <2>3. sync \in SyncTypes
    BY <1>1, <2>2 DEF SyncTypes, Phase, Time
  <2>4. ResetPending(sync, now)
    BY <1>1, <1>13, <2>2 DEF SyncTypes, ResetPending, Headers, Awaiting, In
  <2>5. syncs' = [syncs EXCEPT ![s] = sync]
    BY <1>1, <2>1
  <2>6. QED
    BY <1>1, <1>13, <2>3, <2>4, <2>5, OneSync DEF Headers, Awaiting, In
<1>14. CASE BodyFailed(s)
  <2> DEFINE sync == [syncs[s] EXCEPT
            !.phase = "waiting", !.due = now + syncs[s].interval,
            !.interval = Larger(@ + ServerWait, LongWait),
            !.made = Never, !.lost = Later(@, syncs[s].made)]
  <2>1. Larger(syncs[s].interval + ServerWait, LongWait) \in Nat
    BY <1>1, RestAssumption DEF SyncTypes, Larger
  <2>2. Later(syncs[s].lost, syncs[s].made) \in Time
    BY <1>1, LaterIsTime DEF SyncTypes
  <2>3. now + syncs[s].interval \in Nat
    BY <1>1 DEF SyncTypes
  <2>4. sync \in SyncTypes
    BY <1>1, <2>1, <2>2, <2>3 DEF SyncTypes, Phase, Time
  <2>5. ResetPending(sync, now)
    BY <1>1, <1>14 DEF SyncTypes, ResetPending, BodyFailed, Awaiting, In
  <2>6. syncs' = [syncs EXCEPT ![s] = sync]
    BY <1>1, <1>14 DEF BodyFailed
  <2>7. now' = now /\ process' = process /\ troubles' = troubles + 1 /\ troubles < MaxTroubles
    BY <1>14 DEF BodyFailed, Awaiting, In
  <2>8. troubles' \in 0..MaxTroubles
    BY <1>1, <2>7
  <2>9. QED
    BY <2>4, <2>5, <2>6, <2>7, <2>8, OneSync
<1>15. CASE Malformed(s)
    BY <1>1, <1>15, AbortingKeeps DEF Malformed, Awaiting, In
<1>16. CASE ReceiveReactions(s)
  <2> DEFINE more == [syncs[s] EXCEPT
                !.phase = IF syncs[s].made = Never THEN "next" ELSE "pausing",
                !.due = syncs[s].made, !.made = Never]
             last == [syncs[s] EXCEPT !.phase = "storing", !.listing = FALSE,
                !.made = Never, !.lost = Later(@, syncs[s].made)]
  <2>1. Later(syncs[s].lost, syncs[s].made) \in Time
    BY <1>1, LaterIsTime DEF SyncTypes
  <2>2. more \in SyncTypes /\ last \in SyncTypes
    BY <1>1, <2>1 DEF SyncTypes, Phase, Time
  <2>3. ResetPending(more, now)
    BY <1>1, <1>16 DEF SyncTypes, ResetPending, ReceiveReactions, Awaiting, In
  <2>4. ResetPending(last, now)
    BY <1>1, <1>16 DEF SyncTypes, ResetPending, ReceiveReactions, Awaiting, In
  <2>5. syncs' = [syncs EXCEPT ![s] = more] \/ syncs' = [syncs EXCEPT ![s] = last]
    BY <1>1, <1>16 DEF ReceiveReactions
  <2>6. QED
    BY <1>1, <1>16, <2>2, <2>3, <2>4, <2>5, OneSync DEF ReceiveReactions, Awaiting, In
<1>17. CASE Resume(s)
  <2> DEFINE sync == [syncs[s] EXCEPT !.phase = "next", !.due = Never]
  <2>1. sync \in SyncTypes
    BY <1>1 DEF SyncTypes, Phase, Time
  <2>2. ResetPending(sync, now)
    BY <1>1, <1>17 DEF SyncTypes, ResetPending, Resume, Awaiting, In
  <2>3. syncs' = [syncs EXCEPT ![s] = sync]
    BY <1>1, <1>17 DEF Resume
  <2>4. QED
    BY <1>1, <1>17, <2>1, <2>2, <2>3, OneSync DEF Resume, Awaiting, In
<1>18. CASE Unawaited(s)
  <2> DEFINE made == [syncs[s] EXCEPT !.made = Never]
             lost == [syncs[s] EXCEPT !.lost = Never]
  <2>1. made \in SyncTypes /\ lost \in SyncTypes
    BY <1>1 DEF SyncTypes, Time
  <2>2. ResetPending(lost, now)
    BY <1>1 DEF SyncTypes, ResetPending
  <2>3. CASE syncs[s].made # Never /\ syncs[s].made <= now /\ syncs' = [syncs EXCEPT ![s].made = Never]
    <3>1. ResetPending(made, now)
        BY <1>1, <2>3 DEF SyncTypes, ResetPending
    <3>2. syncs' = [syncs EXCEPT ![s] = made]
        BY <1>1, <2>3
    <3>3. QED
        BY <1>1, <1>18, <2>1, <3>1, <3>2, OneSync DEF Unawaited
  <2>4. CASE syncs' = [syncs EXCEPT ![s].lost = Never]
    <3>1. syncs' = [syncs EXCEPT ![s] = lost]
        BY <1>1, <2>4
    <3>2. QED
        BY <1>1, <1>18, <2>1, <2>2, <3>1, OneSync DEF Unawaited
  <2>5. QED
    BY <1>18, <2>3, <2>4 DEF Unawaited
<1>19. QED
    BY <1>2, <1>4, <1>5, <1>6, <1>7, <1>8, <1>9, <1>10, <1>11, <1>12, <1>13, <1>14, <1>15,
       <1>16, <1>17, <1>18 DEF Step, Answer

(* Every step keeps the invariant of the downloads.                        *)
LEMMA StepKeepsDInv == DInv /\ [RestNext]_restVars => DInv'
<1>1. SUFFICES ASSUME DInv, [RestNext]_restVars PROVE DInv'
    OBVIOUS
<1>2. RInv'
  <2>1. RInv /\ [RateNext]_rateVars => RInv'
    BY WhenFreeKeeps, ExecuteFirstPendingKeeps, TickKeeps, SameKeeps DEF RateNext
  <2>2. [RateNext]_rateVars
    BY <1>1, RestStepsAreSteps DEF restVars
  <2>3. QED
    BY <1>1, <2>1, <2>2 DEF DInv
<1>3. CASE UNCHANGED restVars
    BY <1>1, <1>2, <1>3 DEF DInv, restVars, rateVars
<1>4. CASE FirstPending
    BY <1>1, <1>2, <1>4 DEF DInv, FirstPending, ExecuteFirstPending
<1>5. CASE PassTime
  <2>1. now' = now + 1 /\ now \in Nat
    BY <1>1, <1>5 DEF PassTime, Tick, DInv, RInv, RateTypeOK
  <2>2. ASSUME NEW s \in Sync
        PROVE  ResetPending(syncs[s], now')
    BY <1>1, <2>1, <2>2 DEF DInv, ResetPending, SyncTypes
  <2>3. QED
    BY <1>1, <1>2, <1>5, <2>2 DEF DInv, PassTime
<1>6. CASE Abort
  <2>1. /\ syncs' = [t \in Sync |-> syncs'[t]]
        /\ \A t \in Sync :
             syncs'[t] = syncs[t] \/ syncs'[t] = [syncs[t] EXCEPT !.aborted = TRUE]
        /\ now' = now /\ process' \in {"up", "dead"} /\ troubles' = troubles
    BY <1>6 DEF Abort, Aborting, Rejected
  <2>2. QED
    BY <1>1, <1>2, <2>1, AbortingKeeps
<1>7. ASSUME NEW s \in Sync, Begin(s) \/ Answer(s) \/ Step(s)
      PROVE  DInv'
    BY <1>1, <1>2, <1>7, DownloadKeeps
<1>8. QED
    BY <1>1, <1>3, <1>4, <1>5, <1>6, <1>7 DEF RestNext

(* The invariant of the downloads always holds.                            *)
LEMMA DInvariant == RestSpec => []DInv
BY InitDInv, StepKeepsDInv, PTL DEF RestSpec

(* Type correctness of the downloads and their limiter.                    *)
THEOREM RestTypeCorrect == RestSpec => []RestTypeOK
<1>1. DInv => RestTypeOK
    BY DEF DInv, RInv, RestTypeOK, SyncTypes
<1>2. QED
    BY <1>1, DInvariant, PTL

(* Whatever the delays, aborts, retries and bodies that cannot be read, a  *)
(* download requests no page before the reset announced with its last      *)
(* page, and no reactions before the reset announced with the last         *)
(* reactions of the same page (but, as the code is written, does not wait  *)
(* for one kind of reset before a request of the other).                   *)
THEOREM ResetAlwaysRespected == RestSpec => []ResetRespected
<1>1. ASSUME DInv, NEW s \in Sync
      PROVE  /\ syncs[s].phase \in {"queued", "fetching"} /\ ~syncs[s].listing =>
                    now >= syncs[s].until
             /\ syncs[s].phase = "queued" /\ syncs[s].listing => now >= syncs[s].said
  <2>1. syncs[s] \in SyncTypes /\ ResetPending(syncs[s], now) /\ now \in Nat
    BY <1>1 DEF DInv, RInv, RateTypeOK
  <2>2. syncs[s].until \in Nat /\ syncs[s].said \in Nat
    BY <2>1 DEF SyncTypes
  <2>3. QED
    BY <2>1, <2>2 DEF ResetPending
<1>2. DInv => ResetRespected
    BY <1>1 DEF ResetRespected
<1>3. QED
    BY <1>2, DInvariant, PTL
-----------------------------------------------------------------------------
(* The gateway connection. *)
IsDispatch(p) == p.op = "Dispatch"

\* The payloads that make the client identify or resume.
Asks(p) == p.op \in {"Hello", "InvalidSession"}

-----------------------------------------------------------------------------
(* What a line of payloads may be. *)
NoneAsks(line) == \A k \in 1..Len(line) : ~Asks(line[k])

Quiet(line) == \A k \in 1..Len(line) : ~Asks(line[k]) /\ ~IsDispatch(line[k])

\* The server sends no event between such a payload and the client's answer.
AskingLast(line) ==
    \A k \in 1..Len(line) : Asks(line[k]) =>
        \A j \in k + 1..Len(line) : ~Asks(line[j]) /\ ~IsDispatch(line[j])

\* Events are of sessions that were started, and none that is yet to come.
Produced(line, s) ==
    \A k \in 1..Len(line) : IsDispatch(line[k]) =>
        /\ line[k].session <= s.sessions
        /\ line[k].session = s.session => line[k].s <= s.produced

NoReplay(line) == \A k \in 1..Len(line) : IsDispatch(line[k]) => ~line[k].replay

HasEvent(line, n) == \E j \in 1..Len(line) : IsDispatch(line[j]) /\ line[j].s = n

\* Its events follow one another from the one after seen, in one session.
Continues(line, seen, awaited) ==
    /\ \A k \in 1..Len(line) : IsDispatch(line[k]) =>
        /\ line[k].s > seen /\ line[k].session \in awaited
        /\ \A n \in seen + 1..line[k].s - 1 :
            \E j \in 1..k - 1 : IsDispatch(line[j]) /\ line[j].s = n
    /\ \A j, k \in 1..Len(line) : j < k /\ IsDispatch(line[j]) /\ IsDispatch(line[k]) =>
        line[j].s < line[k].s /\ line[j].session = line[k].session

\* ... up to the last that the server has produced.
UpTo(line, seen, s) ==
    /\ \A k \in 1..Len(line) : IsDispatch(line[k]) => line[k].session = s.session
    /\ \A n \in seen + 1..s.produced : HasEvent(line, n)

-----------------------------------------------------------------------------
(* The inductive invariant. *)
\* Only the newest socket's payloads are decoded.
Sockets ==
    /\ client.ws \in {0, client.decoder} /\ client.decoder \in {0, sockets}
    /\ server.attached \in {0} \cup up
    /\ server.session <= server.sessions
    /\ client.state = "DESTROYED" => destroyed

Lines ==
    \A x \in Socket :
        /\ AskingLast(down[x]) /\ Produced(down[x], server)
        /\ server.attached = x => NoneAsks(down[x])

\* Nothing was passed on of a session that is yet to start.
SessionsStarted ==
    /\ \A y \in Session : y > server.sessions => emitted[y] = <<>>
    /\ client.resumeState # Null => client.resumeState.session <= server.sessions

ReplaysAwaitedNotLive ==
    client.decoder # 0 /\ client.live => NoReplay(down[client.decoder])

\* The last event the client has passed on.
SeenOf(resume) == IF resume = Null THEN 0 ELSE resume.seq

\* The sessions whose events the client may get: any that is new to it, or
\* the one it has.
AwaitedOf(resume, passed) ==
    IF resume = Null THEN {y \in Session : passed[y] = <<>>} ELSE {resume.session}

EmittedInOrder ==
    /\ \A y \in Session : \A k \in 1..Len(emitted[y]) : emitted[y][k].s = k
    /\ client.resumeState # Null =>
        Len(emitted[client.resumeState.session]) = client.resumeState.seq

\* No session is to be resumed after more than was produced of it.
ResumesProduced ==
    client.resumeState # Null /\ client.resumeState.session = server.session
    => client.resumeState.seq <= server.produced

\* What is on its way continues what was passed on.
Continuous ==
    LET seen == SeenOf(client.resumeState)
        awaited == AwaitedOf(client.resumeState, emitted)
    IN /\ client.decoder # 0 => Continues(down[client.decoder], seen, awaited)
       /\ client.decoder # 0 /\ server.attached = client.decoder =>
            /\ server.session \in awaited /\ seen <= server.produced
            /\ UpTo(down[client.decoder], seen, server)

InOrder == ~destroyed => EmittedInOrder /\ ResumesProduced /\ (alive => Continuous)

GInv ==
    /\ TypeOK /\ Sockets /\ Lines /\ SessionsStarted
    /\ ReplaysAwaitedNotLive /\ InOrder /\ ReplayNotLive

-----------------------------------------------------------------------------
(* Payloads and lines. *)
\* What a payload is, by its kind.
LEMMA PayloadFields ==
    ASSUME NEW p \in Payload
    PROVE  /\ IsDispatch(p) => /\ p.s \in 1..MaxSeq /\ p.session \in Session
                               /\ p.replay \in BOOLEAN /\ ~Asks(p) /\ p.op # "close"
                               /\ p.t \in {"READY", "RESUMED", "event"}
           /\ p.op = "InvalidSession" => p.d \in BOOLEAN
           /\ p.op = "close" => p.fatal \in BOOLEAN
           /\ p.op \in {"Dispatch", "Hello", "InvalidSession", "HeartbeatAck", "Reconnect", "close"}
BY DEF Payload, IsDispatch, Asks

\* The payloads that the model sends are payloads.
LEMMA PayloadsSent ==
    /\ \A fatal \in BOOLEAN : [op |-> "close", fatal |-> fatal] \in Payload
    /\ \A d \in BOOLEAN : InvalidSession(d) \in Payload
    /\ \A o \in {"Hello", "HeartbeatAck", "Reconnect"} : [op |-> o] \in Payload
    /\ \A t \in {"READY", "RESUMED", "event"}, x \in Session, s \in 1..MaxSeq, r \in BOOLEAN :
        Dispatch(t, x, s, r) \in Payload
BY DEF Payload, InvalidSession, Dispatch

\* A line without its first payload.
LEMMA TailOfLine ==
    ASSUME NEW line \in Seq(Payload), line # <<>>
    PROVE  /\ Head(line) \in Payload /\ Head(line) = line[1] /\ Len(line) \in Nat \ {0}
           /\ Tail(line) \in Seq(Payload) /\ Len(Tail(line)) = Len(line) - 1
           /\ \A k \in 1..Len(line) - 1 : Tail(line)[k] = line[k + 1]
BY HeadTailProperties, EmptySeq, LenProperties, ElementOfSeq

\* A line with a payload more.
LEMMA LongerLine ==
    ASSUME NEW line \in Seq(Payload), NEW p \in Payload
    PROVE  /\ Append(line, p) \in Seq(Payload) /\ Len(line) \in Nat
           /\ Len(Append(line, p)) = Len(line) + 1
           /\ \A k \in 1..Len(line) : Append(line, p)[k] = line[k]
           /\ Append(line, p)[Len(line) + 1] = p
BY AppendProperties, LenProperties

\* What holds of a line whose first payload is taken, whatever it is.
LEMMA TakenLine ==
    ASSUME NEW line \in Seq(Payload), line # <<>>, NEW s,
           AskingLast(line), Produced(line, s)
    PROVE  /\ AskingLast(Tail(line)) /\ Produced(Tail(line), s)
           /\ NoneAsks(line) => NoneAsks(Tail(line))
           /\ NoReplay(line) => NoReplay(Tail(line))
           /\ Asks(Head(line)) => Quiet(Tail(line)) /\ ~NoneAsks(line)
<1> DEFINE rest == Tail(line)
<1>1. /\ Head(line) = line[1] /\ Len(line) \in Nat \ {0} /\ Len(rest) = Len(line) - 1
      /\ \A k \in 1..Len(rest) : k + 1 \in 1..Len(line) /\ rest[k] = line[k + 1]
  BY TailOfLine
<1> HIDE DEF rest
<1>2. AskingLast(rest)
  <2> SUFFICES ASSUME NEW k \in 1..Len(rest), Asks(rest[k]), NEW j \in k + 1..Len(rest)
               PROVE  ~Asks(rest[j]) /\ ~IsDispatch(rest[j])
    BY DEF AskingLast
  <2>1. Asks(line[k + 1]) /\ j + 1 \in (k + 1) + 1..Len(line) /\ rest[j] = line[j + 1]
    BY <1>1
  <2> QED BY <2>1, <1>1 DEF AskingLast
<1>3. Produced(rest, s)
  BY <1>1 DEF Produced
<1>4. NoneAsks(line) => NoneAsks(rest)
  BY <1>1 DEF NoneAsks
<1>5. NoReplay(line) => NoReplay(rest)
  BY <1>1 DEF NoReplay
<1>6. ASSUME Asks(Head(line)) PROVE Quiet(rest) /\ ~NoneAsks(line)
  <2>1. 1 \in 1..Len(line) /\ Asks(line[1])
    BY <1>1, <1>6
  <2>2. \A j \in 1 + 1..Len(line) : ~Asks(line[j]) /\ ~IsDispatch(line[j])
    BY <2>1 DEF AskingLast
  <2>3. \A k \in 1..Len(rest) : k + 1 \in 1 + 1..Len(line)
    BY <1>1
  <2>4. Quiet(rest)
    BY <2>2, <2>3, <1>1 DEF Quiet
  <2> QED BY <2>1, <2>4 DEF NoneAsks
<1> QED BY <1>2, <1>3, <1>4, <1>5, <1>6 DEF rest

\* What continues still does without a first payload that is no event.
LEMMA TakenOther ==
    ASSUME NEW line \in Seq(Payload), line # <<>>, ~IsDispatch(Head(line)), NEW seen \in Nat,
           NEW awaited, NEW s, s.produced \in Nat
    PROVE  /\ Continues(line, seen, awaited) => Continues(Tail(line), seen, awaited)
           /\ UpTo(line, seen, s) => UpTo(Tail(line), seen, s)
<1> DEFINE rest == Tail(line)
<1>1. /\ Head(line) = line[1] /\ Len(line) \in Nat \ {0} /\ Len(rest) = Len(line) - 1
      /\ \A k \in 1..Len(rest) : k + 1 \in 1..Len(line) /\ rest[k] = line[k + 1]
  BY TailOfLine
<1>t. /\ rest \in Seq(Payload) /\ \A k \in 1..Len(rest) : rest[k] \in Payload
  BY TailOfLine, ElementOfSeq
<1> HIDE DEF rest
<1>2. ASSUME Continues(line, seen, awaited) PROVE Continues(rest, seen, awaited)
  <2>1. ASSUME NEW k \in 1..Len(rest), IsDispatch(rest[k])
        PROVE  /\ rest[k].s > seen /\ rest[k].session \in awaited
               /\ \A n \in seen + 1..rest[k].s - 1 :
                    \E j \in 1..k - 1 : IsDispatch(rest[j]) /\ rest[j].s = n
    <3>1. k + 1 \in 1..Len(line) /\ rest[k] = line[k + 1]
      BY <1>1
    <3>2. rest[k].s > seen /\ rest[k].session \in awaited
      BY <3>1, <2>1, <1>2 DEF Continues
    <3>3. ASSUME NEW n \in seen + 1..rest[k].s - 1
          PROVE  \E j \in 1..k - 1 : IsDispatch(rest[j]) /\ rest[j].s = n
      <4>1. PICK i \in 1..k : IsDispatch(line[i]) /\ line[i].s = n
        BY <3>1, <3>3, <2>1, <1>2 DEF Continues
      <4>2. i # 1
        BY <4>1, <1>1
      <4>3. i - 1 \in 1..k - 1 /\ i - 1 \in 1..Len(rest) /\ (i - 1) + 1 = i
        BY <4>2, <1>1
      <4>4. rest[i - 1] = line[i]
        BY <4>3, <1>1
      <4> QED BY <4>1, <4>3, <4>4
    <3> QED BY <3>2, <3>3
  <2>2. ASSUME NEW j \in 1..Len(rest), NEW k \in 1..Len(rest), j < k,
               IsDispatch(rest[j]), IsDispatch(rest[k])
        PROVE  rest[j].s < rest[k].s /\ rest[j].session = rest[k].session
    <3>1. j + 1 \in 1..Len(line) /\ k + 1 \in 1..Len(line) /\ j + 1 < k + 1
      BY <1>1, <2>2
    <3> QED BY <3>1, <2>2, <1>2, <1>1 DEF Continues
  <2> QED BY <2>1, <2>2 DEF Continues
<1>3. ASSUME UpTo(line, seen, s) PROVE UpTo(rest, seen, s)
  <2>1. ASSUME NEW k \in 1..Len(rest), IsDispatch(rest[k]) PROVE rest[k].session = s.session
    BY <2>1, <1>1, <1>3 DEF UpTo
  <2>2. ASSUME NEW n \in seen + 1..s.produced PROVE HasEvent(rest, n)
    <3>1. PICK i \in 1..Len(line) : IsDispatch(line[i]) /\ line[i].s = n
      BY <1>3 DEF UpTo, HasEvent
    <3>2. i # 1
      BY <3>1, <1>1
    <3>3. i - 1 \in 1..Len(rest) /\ rest[i - 1] = line[i]
      BY <3>2, <1>1
    <3> QED BY <3>1, <3>3 DEF HasEvent
  <2> QED BY <2>1, <2>2 DEF UpTo
<1> QED BY <1>2, <1>3 DEF rest

\* The first payload, when it is an event, is the next one; what follows it
\* continues from there.
LEMMA TakenEvent ==
    ASSUME NEW line \in Seq(Payload), line # <<>>, IsDispatch(Head(line)), NEW seen \in Nat,
           NEW awaited, NEW s, s.produced \in Nat, Continues(line, seen, awaited)
    PROVE  /\ Head(line).s = seen + 1 /\ Head(line).session \in awaited
           /\ Continues(Tail(line), seen + 1, {Head(line).session})
           /\ UpTo(line, seen, s) => /\ UpTo(Tail(line), seen + 1, s)
                                     /\ Head(line).session = s.session
<1> DEFINE rest == Tail(line)
<1>1. /\ Head(line) = line[1] /\ Len(line) \in Nat \ {0} /\ Len(rest) = Len(line) - 1
      /\ \A k \in 1..Len(rest) : k + 1 \in 1..Len(line) /\ rest[k] = line[k + 1]
  BY TailOfLine
<1>t. /\ \A k \in 1..Len(line) : line[k] \in Payload
  BY ElementOfSeq
<1> HIDE DEF rest
<1>2. /\ line[1].s \in 1..MaxSeq
  BY <1>1, <1>t, PayloadFields
<1>3. line[1].s = seen + 1 /\ line[1].session \in awaited
  <2>1. line[1].s > seen /\ line[1].session \in awaited
    BY <1>1 DEF Continues
  <2>2. \A n \in seen + 1..line[1].s - 1 : \E j \in 1..1 - 1 : IsDispatch(line[j])
    BY <1>1 DEF Continues
  <2>3. seen + 1 \notin seen + 1..line[1].s - 1
    BY <2>2
  <2> QED BY <2>1, <2>3, <1>2
<1>4. Continues(rest, seen + 1, {Head(line).session})
  <2>1. ASSUME NEW k \in 1..Len(rest), IsDispatch(rest[k])
        PROVE  /\ rest[k].s > seen + 1 /\ rest[k].session \in {Head(line).session}
               /\ \A n \in seen + 1 + 1..rest[k].s - 1 :
                    \E j \in 1..k - 1 : IsDispatch(rest[j]) /\ rest[j].s = n
    <3>1. k + 1 \in 1..Len(line) /\ rest[k] = line[k + 1] /\ 1 < k + 1
      BY <1>1
    <3>2. line[1].s < rest[k].s /\ line[1].session = rest[k].session
      BY <3>1, <2>1, <1>1 DEF Continues
    <3>3. ASSUME NEW n \in seen + 1 + 1..rest[k].s - 1
          PROVE  \E j \in 1..k - 1 : IsDispatch(rest[j]) /\ rest[j].s = n
      <4>0. rest[k].s \in Nat
        BY <3>1, <2>1, <1>t, PayloadFields
      <4>1. PICK i \in 1..k : IsDispatch(line[i]) /\ line[i].s = n
        <5>1. n \in seen + 1..line[k + 1].s - 1
          BY <3>1, <3>3, <4>0
        <5> QED BY <5>1, <3>1, <2>1 DEF Continues
      <4>2. i # 1
        BY <4>1, <1>3
      <4>3. i - 1 \in 1..k - 1 /\ rest[i - 1] = line[i]
        BY <4>2, <1>1
      <4> QED BY <4>1, <4>3
    <3> QED BY <3>2, <3>3, <1>1, <1>3
  <2>2. ASSUME NEW j \in 1..Len(rest), NEW k \in 1..Len(rest), j < k,
               IsDispatch(rest[j]), IsDispatch(rest[k])
        PROVE  rest[j].s < rest[k].s /\ rest[j].session = rest[k].session
    <3>1. j + 1 \in 1..Len(line) /\ k + 1 \in 1..Len(line) /\ j + 1 < k + 1
      BY <1>1, <2>2
    <3> QED BY <3>1, <2>2, <1>1 DEF Continues
  <2> QED BY <2>1, <2>2 DEF Continues
<1>5. ASSUME UpTo(line, seen, s)
      PROVE  UpTo(rest, seen + 1, s) /\ Head(line).session = s.session
  <2>1. ASSUME NEW k \in 1..Len(rest), IsDispatch(rest[k]) PROVE rest[k].session = s.session
    BY <2>1, <1>1, <1>5 DEF UpTo
  <2>2. ASSUME NEW n \in seen + 1 + 1..s.produced PROVE HasEvent(rest, n)
    <3>1. PICK i \in 1..Len(line) : IsDispatch(line[i]) /\ line[i].s = n
      <4>1. n \in seen + 1..s.produced
        OBVIOUS
      <4> QED BY <4>1, <1>5 DEF UpTo, HasEvent
    <3>2. i # 1
      BY <3>1, <1>3
    <3>3. i - 1 \in 1..Len(rest) /\ rest[i - 1] = line[i]
      BY <3>2, <1>1
    <3> QED BY <3>1, <3>3 DEF HasEvent
  <2>3. Head(line).session = s.session
    BY <1>1, <1>5 DEF UpTo
  <2> QED BY <2>1, <2>2, <2>3 DEF UpTo
<1> QED BY <1>1, <1>3, <1>4, <1>5 DEF rest

\* What holds of a line that gets a payload more which is no event.
LEMMA LongerByOther ==
    ASSUME NEW line \in Seq(Payload), NEW p \in Payload, ~IsDispatch(p), NEW s
    PROVE  LET longer == Append(line, p)
           IN /\ AskingLast(line) /\ (Asks(p) => NoneAsks(line)) => AskingLast(longer)
              /\ Produced(line, s) => Produced(longer, s)
              /\ NoneAsks(line) /\ ~Asks(p) => NoneAsks(longer)
              /\ NoReplay(line) => NoReplay(longer)
<1> DEFINE longer == Append(line, p)
<1>1. /\ Len(line) \in Nat /\ Len(longer) = Len(line) + 1 /\ longer[Len(line) + 1] = p
      /\ \A k \in 1..Len(line) : longer[k] = line[k]
      /\ \A k \in 1..Len(longer) : k \in 1..Len(line) \/ k = Len(line) + 1
  BY LongerLine
<1> HIDE DEF longer
<1>2. ASSUME AskingLast(line), Asks(p) => NoneAsks(line) PROVE AskingLast(longer)
  <2> SUFFICES ASSUME NEW k \in 1..Len(longer), Asks(longer[k]), NEW j \in k + 1..Len(longer)
               PROVE  ~Asks(longer[j]) /\ ~IsDispatch(longer[j])
    BY DEF AskingLast
  <2>1. k \in 1..Len(line) /\ Asks(line[k])
    BY <1>1
  <2>2. ~NoneAsks(line)
    BY <2>1 DEF NoneAsks
  <2>3. CASE j \in 1..Len(line)
    <3>1. j \in k + 1..Len(line)
      BY <2>3
    <3> QED BY <3>1, <2>1, <2>3, <1>1, <1>2 DEF AskingLast
  <2>4. CASE j = Len(line) + 1
    BY <2>4, <2>2, <1>1, <1>2
  <2> QED BY <2>3, <2>4, <1>1
<1>3. Produced(line, s) => Produced(longer, s)
  BY <1>1 DEF Produced
<1>4. NoneAsks(line) /\ ~Asks(p) => NoneAsks(longer)
  BY <1>1 DEF NoneAsks
<1>5. NoReplay(line) => NoReplay(longer)
  BY <1>1 DEF NoReplay
<1> QED BY <1>2, <1>3, <1>4, <1>5 DEF longer

\* A payload more, even an event that follows, disturbs nothing of what
\* continues.
LEMMA LongerContinues ==
    ASSUME NEW line \in Seq(Payload), NEW p \in Payload, NEW seen \in Nat,
           NEW awaited, NEW s, s.produced \in Nat, Continues(line, seen, awaited),
           IsDispatch(p) =>
             /\ p.s = s.produced + 1 /\ p.session = s.session
             /\ seen <= s.produced /\ s.session \in awaited
             /\ Produced(line, s) /\ UpTo(line, seen, s)
    PROVE  LET longer == Append(line, p)
           IN /\ Continues(longer, seen, awaited)
              /\ ~IsDispatch(p) /\ UpTo(line, seen, s) => UpTo(longer, seen, s)
<1> DEFINE longer == Append(line, p)
<1>1. /\ Len(line) \in Nat /\ Len(longer) = Len(line) + 1 /\ longer[Len(line) + 1] = p
      /\ \A k \in 1..Len(line) : k \in 1..Len(longer) /\ longer[k] = line[k]
      /\ \A k \in 1..Len(longer) : k \in 1..Len(line) \/ k = Len(line) + 1
  BY LongerLine
<1>t. \A k \in 1..Len(line) : line[k] \in Payload
  BY ElementOfSeq
<1> HIDE DEF longer
<1>2. ASSUME NEW k \in 1..Len(longer), IsDispatch(longer[k])
      PROVE  /\ longer[k].s > seen /\ longer[k].session \in awaited
             /\ \A n \in seen + 1..longer[k].s - 1 :
                  \E j \in 1..k - 1 : IsDispatch(longer[j]) /\ longer[j].s = n
  <2>1. CASE k \in 1..Len(line)
    <3>1. IsDispatch(line[k]) /\ longer[k] = line[k]
      BY <2>1, <1>1, <1>2
    <3>2. \A j \in 1..k - 1 : longer[j] = line[j]
      BY <2>1, <1>1
    <3>3. /\ line[k].s > seen /\ line[k].session \in awaited
          /\ \A n \in seen + 1..line[k].s - 1 :
                \E j \in 1..k - 1 : IsDispatch(line[j]) /\ line[j].s = n
      BY <3>1, <2>1 DEF Continues
    <3> QED BY <3>1, <3>2, <3>3
  <2>2. CASE k = Len(line) + 1
    <3>1. longer[k] = p /\ IsDispatch(p) /\ p.s = s.produced + 1
      BY <2>2, <1>1, <1>2
    <3>2. ASSUME NEW n \in seen + 1..p.s - 1
          PROVE  \E j \in 1..k - 1 : IsDispatch(longer[j]) /\ longer[j].s = n
      <4>1. n \in seen + 1..s.produced
        BY <3>1, <3>2
      <4>2. PICK j \in 1..Len(line) : IsDispatch(line[j]) /\ line[j].s = n
        BY <4>1, <3>1 DEF UpTo, HasEvent
      <4> QED BY <4>2, <2>2, <1>1
    <3> QED BY <3>1, <3>2
  <2> QED BY <2>1, <2>2, <1>1
<1>3. ASSUME NEW j \in 1..Len(longer), NEW k \in 1..Len(longer), j < k,
             IsDispatch(longer[j]), IsDispatch(longer[k])
      PROVE  longer[j].s < longer[k].s /\ longer[j].session = longer[k].session
  <2>1. j \in 1..Len(line) /\ longer[j] = line[j]
    BY <1>1, <1>3
  <2>2. CASE k \in 1..Len(line)
    BY <2>1, <2>2, <1>1, <1>3 DEF Continues
  <2>3. CASE k = Len(line) + 1
    <3>1. longer[k] = p /\ IsDispatch(p) /\ IsDispatch(line[j])
      BY <2>1, <2>3, <1>1, <1>3
    <3>2. line[j].session = s.session
      BY <3>1, <2>1 DEF UpTo
    <3>3. line[j].s <= s.produced /\ line[j].s \in Nat
      <4>1. line[j].s \in Nat
        BY <3>1, <2>1, <1>t, PayloadFields
      <4> QED BY <4>1, <3>1, <3>2, <2>1 DEF Produced
    <3> QED BY <3>1, <3>2, <3>3, <2>1
  <2> QED BY <2>2, <2>3, <1>1
<1>4. ASSUME ~IsDispatch(p), UpTo(line, seen, s) PROVE UpTo(longer, seen, s)
  <2>1. \A k \in 1..Len(longer) : IsDispatch(longer[k]) => longer[k].session = s.session
    BY <1>1, <1>4 DEF UpTo
  <2>2. ASSUME NEW n \in seen + 1..s.produced PROVE HasEvent(longer, n)
    <3>1. PICK j \in 1..Len(line) : IsDispatch(line[j]) /\ line[j].s = n
      BY <1>4 DEF UpTo, HasEvent
    <3> QED BY <3>1, <1>1 DEF HasEvent
  <2> QED BY <2>1, <2>2 DEF UpTo
<1> QED BY <1>2, <1>3, <1>4 DEF longer, Continues

\* What holds of a line that gets the event just produced, s being the server
\* before that and t after it.
LEMMA LongerByEvent ==
    ASSUME NEW line \in Seq(Payload), NEW p \in Payload, IsDispatch(p), ~p.replay,
           NEW s, NEW t, s.produced \in Nat, t.produced = s.produced + 1,
           t.session = s.session, t.sessions = s.sessions, s.session <= s.sessions,
           p.s = t.produced, p.session = t.session,
           AskingLast(line), NoneAsks(line), Produced(line, s)
    PROVE  LET longer == Append(line, p)
           IN /\ AskingLast(longer) /\ NoneAsks(longer) /\ Produced(longer, t)
              /\ NoReplay(line) => NoReplay(longer)
              /\ \A seen \in Nat : UpTo(line, seen, s) => UpTo(longer, seen, t)
<1> DEFINE longer == Append(line, p)
<1>1. /\ Len(line) \in Nat /\ Len(longer) = Len(line) + 1 /\ longer[Len(line) + 1] = p
      /\ \A k \in 1..Len(line) : k \in 1..Len(longer) /\ longer[k] = line[k]
      /\ \A k \in 1..Len(longer) : k \in 1..Len(line) \/ k = Len(line) + 1
  BY LongerLine
<1>t. \A k \in 1..Len(line) : line[k] \in Payload
  BY ElementOfSeq
<1> HIDE DEF longer
<1>2. NoneAsks(longer)
  BY <1>1, PayloadFields DEF NoneAsks
<1>3. AskingLast(longer)
  BY <1>2 DEF AskingLast, NoneAsks
<1>4. Produced(longer, t)
  <2> SUFFICES ASSUME NEW k \in 1..Len(longer), IsDispatch(longer[k])
               PROVE  /\ longer[k].session <= t.sessions
                      /\ longer[k].session = t.session => longer[k].s <= t.produced
    BY DEF Produced
  <2>1. CASE k \in 1..Len(line)
    <3>1. IsDispatch(line[k]) /\ longer[k] = line[k]
      BY <2>1, <1>1
    <3>2. line[k].s \in Nat
      BY <3>1, <2>1, <1>t, PayloadFields
    <3> QED BY <3>1, <3>2, <2>1 DEF Produced
  <2>2. CASE k = Len(line) + 1
    <3>1. p.s \in Nat
      BY PayloadFields
    <3> QED BY <3>1, <2>2, <1>1
  <2> QED BY <2>1, <2>2, <1>1
<1>5. NoReplay(line) => NoReplay(longer)
  BY <1>1 DEF NoReplay
<1>6. ASSUME NEW seen \in Nat, UpTo(line, seen, s) PROVE UpTo(longer, seen, t)
  <2>1. \A k \in 1..Len(longer) : IsDispatch(longer[k]) => longer[k].session = t.session
    BY <1>1, <1>6 DEF UpTo
  <2>2. ASSUME NEW n \in seen + 1..t.produced PROVE HasEvent(longer, n)
    <3>1. CASE n \in seen + 1..s.produced
      <4>1. PICK j \in 1..Len(line) : IsDispatch(line[j]) /\ line[j].s = n
        BY <3>1, <1>6 DEF UpTo, HasEvent
      <4> QED BY <4>1, <1>1 DEF HasEvent
    <3>2. CASE n = t.produced
      BY <3>2, <1>1 DEF HasEvent
    <3> QED BY <3>1, <3>2
  <2> QED BY <2>1, <2>2 DEF UpTo
<1> QED BY <1>2, <1>3, <1>4, <1>5, <1>6 DEF longer

\* What was produced stays produced as the server goes on.
LEMMA StillProduced ==
    ASSUME NEW line \in Seq(Payload), NEW s \in Server, NEW t \in Server, Produced(line, s),
           s.session <= s.sessions,
           \/ t.sessions = s.sessions /\ t.session = s.session /\ s.produced <= t.produced
           \/ t.sessions = s.sessions /\ t.session = 0
           \/ t.sessions = s.sessions + 1 /\ t.session = t.sessions
    PROVE  Produced(line, t)
<1> SUFFICES ASSUME NEW k \in 1..Len(line), IsDispatch(line[k])
             PROVE  /\ line[k].session <= t.sessions
                    /\ line[k].session = t.session => line[k].s <= t.produced
  BY DEF Produced
<1>1. line[k].s \in Nat /\ line[k].session \in Nat \ {0}
  BY ElementOfSeq, PayloadFields, GatewayAssumption DEF Session
<1>2. /\ line[k].session <= s.sessions
      /\ line[k].session = s.session => line[k].s <= s.produced
  BY DEF Produced
<1>3. {s.sessions, t.sessions, s.produced, t.produced, s.session, t.session} \subseteq Nat
  <2>1. ASSUME NEW r \in Server
        PROVE  r.sessions \in Nat /\ r.session \in Nat /\ r.produced \in Nat
    BY GatewayAssumption DEF Server, Session
  <2>2. /\ s.sessions \in Nat /\ s.session \in Nat /\ s.produced \in Nat
        /\ t.sessions \in Nat /\ t.session \in Nat /\ t.produced \in Nat
    BY <2>1
  <2> QED BY <2>2
<1> QED BY <1>1, <1>2, <1>3

\* A line that holds no event continues from anywhere.
LEMMA QuietContinues ==
    ASSUME NEW line \in Seq(Payload), Quiet(line)
    PROVE  /\ NoneAsks(line) /\ NoReplay(line)
           /\ \A seen, awaited : Continues(line, seen, awaited)
<1>1. NoneAsks(line) /\ NoReplay(line)
  BY DEF Quiet, NoneAsks, NoReplay
<1>2. \A seen, awaited : Continues(line, seen, awaited)
  BY DEF Quiet, Continues
<1> QED BY <1>1, <1>2

\* What is whole has n events of session y more than line; they follow number
\* q, or come at least no later than the last.
Longer(line, whole, n, y) ==
    /\ Len(whole) = Len(line) + n
    /\ \A k \in 1..Len(line) : whole[k] = line[k]
    /\ \A k \in 1..n : IsDispatch(whole[Len(line) + k]) /\ whole[Len(line) + k].session = y

Following(line, whole, n, q) == \A k \in 1..n : whole[Len(line) + k].s = q + k

NoLater(line, whole, n, last) == \A k \in 1..n : whole[Len(line) + k].s <= last

\* What holds of a line without events once the server has answered in it
\* with n events of its session,
LEMMA AnsweredLine ==
    ASSUME NEW line \in Seq(Payload), Quiet(line), NEW whole \in Seq(Payload),
           NEW n \in Nat, NEW s, s.session <= s.sessions,
           Longer(line, whole, n, s.session), NoLater(line, whole, n, s.produced)
    PROVE  AskingLast(whole) /\ NoneAsks(whole) /\ Produced(whole, s)
<1> USE DEF Longer, NoLater
<1> DEFINE m == Len(line)
<1>1. m \in Nat /\ Len(whole) \in Nat
  BY LenProperties
<1>2. \A k \in 1..m : ~Asks(whole[k]) /\ ~IsDispatch(whole[k])
  BY DEF Quiet
<1>3. ASSUME NEW k \in 1..Len(whole), k > m
      PROVE  /\ IsDispatch(whole[k]) /\ ~Asks(whole[k])
             /\ whole[k].s <= s.produced /\ whole[k].session = s.session
  <2>1. k - m \in 1..n /\ k = m + (k - m)
    BY <1>1, <1>3
  <2> QED BY <2>1 DEF IsDispatch, Asks
<1>4. \A k \in 1..Len(whole) : k \in 1..m \/ k > m
  BY <1>1
<1> HIDE DEF m
<1>5. NoneAsks(whole)
  BY <1>2, <1>3, <1>4 DEF NoneAsks
<1>6. AskingLast(whole)
  BY <1>5 DEF AskingLast, NoneAsks
<1>7. Produced(whole, s)
  BY <1>2, <1>3, <1>4 DEF Produced
<1> QED BY <1>5, <1>6, <1>7

\* and when they are the ones that follow number q.
LEMMA AnsweredInOrder ==
    ASSUME NEW line \in Seq(Payload), Quiet(line), NEW whole \in Seq(Payload),
           NEW q \in Nat, NEW n \in Nat, NEW s, NEW awaited,
           s.produced = q + n, s.session \in awaited,
           Longer(line, whole, n, s.session), Following(line, whole, n, q)
    PROVE  Continues(whole, q, awaited) /\ UpTo(whole, q, s)
<1> DEFINE m == Len(line)
<1>1. m \in Nat
  BY LenProperties
<1>2. \A k \in 1..m : ~Asks(whole[k]) /\ ~IsDispatch(whole[k])
  BY DEF Quiet, Longer
<1>3. ASSUME NEW k \in 1..Len(whole), k > m
      PROVE  /\ IsDispatch(whole[k]) /\ ~Asks(whole[k])
             /\ whole[k].s = q + (k - m) /\ whole[k].session = s.session
  <2>1. k - m \in 1..n /\ k = m + (k - m)
    BY <1>1, <1>3 DEF Longer
  <2> QED BY <2>1 DEF IsDispatch, Asks, Longer, Following
<1>4. \A k \in 1..Len(whole) : k \in 1..m \/ k > m
  BY <1>1
<1>5. Len(whole) \in Nat
  BY LenProperties
<1> HIDE DEF m
<1>6. ASSUME NEW k \in 1..Len(whole), IsDispatch(whole[k])
      PROVE  /\ whole[k].s > q /\ whole[k].session \in awaited
             /\ \A i \in q + 1..whole[k].s - 1 :
                  \E j \in 1..k - 1 : IsDispatch(whole[j]) /\ whole[j].s = i
  <2>1. k > m
    BY <1>2, <1>4, <1>6
  <2>2. whole[k].s = q + (k - m) /\ whole[k].session = s.session
    BY <2>1, <1>3
  <2>3. ASSUME NEW i \in q + 1..whole[k].s - 1
        PROVE  \E j \in 1..k - 1 : IsDispatch(whole[j]) /\ whole[j].s = i
    <3>0. i \in q + 1..(q + (k - m)) - 1
      BY <2>2, <2>3
    <3>1. PICK e \in 1..k - 1 : e = m + (i - q)
      <4>1. k \in Nat /\ i \in Nat
        BY <3>0, <1>5
      <4>2. m + (i - q) \in 1..k - 1
        BY <3>0, <4>1, <1>1
      <4> QED BY <4>2
    <3>2. e \in 1..Len(whole) /\ e > m /\ q + (e - m) = i
      BY <3>0, <3>1, <1>1, <1>5
    <3>3. IsDispatch(whole[e]) /\ whole[e].s = q + (e - m)
      BY <3>2, <1>3
    <3> QED BY <3>2, <3>3
  <2> QED BY <2>1, <2>2, <2>3, <1>1, <1>5
<1>7. ASSUME NEW j \in 1..Len(whole), NEW k \in 1..Len(whole), j < k,
              IsDispatch(whole[j]), IsDispatch(whole[k])
       PROVE  whole[j].s < whole[k].s /\ whole[j].session = whole[k].session
  <2>1. j > m /\ k > m
    <3>1. j \notin 1..m /\ k \notin 1..m
      BY <1>2, <1>7
    <3> QED BY <3>1, <1>1, <1>4, <1>5
  <2>2. /\ whole[j].s = q + (j - m) /\ whole[j].session = s.session
        /\ whole[k].s = q + (k - m) /\ whole[k].session = s.session
    BY <2>1, <1>3
  <2>3. j \in Nat /\ k \in Nat
    BY <1>5
  <2> QED BY <2>2, <2>3, <1>1, <1>7
<1>8. Continues(whole, q, awaited)
  BY <1>6, <1>7 DEF Continues
<1>9. \A k \in 1..Len(whole) : IsDispatch(whole[k]) => whole[k].session = s.session
  BY <1>2, <1>3, <1>4
<1>10. ASSUME NEW i \in q + 1..s.produced PROVE HasEvent(whole, i)
  <2>1. PICK e \in 1..Len(whole) : e = m + (i - q)
    <3>1. m + (i - q) \in 1..m + n
      BY <1>1
    <3> QED BY <3>1 DEF m, Longer
  <2>2. e > m /\ q + (e - m) = i
    BY <2>1, <1>1
  <2>3. IsDispatch(whole[e]) /\ whole[e].s = q + (e - m)
    BY <2>2, <1>3
  <2> QED BY <2>2, <2>3 DEF HasEvent
<1>11. UpTo(whole, q, s)
  BY <1>9, <1>10 DEF UpTo
<1> QED BY <1>8, <1>11

-----------------------------------------------------------------------------
(* Types. *)
LinesOfPayloads == [Socket -> Seq(Payload)]

\* What the fields of the client and of the server are.
LEMMA Fields ==
    ASSUME TypeOK
    PROVE  /\ client.ws \in {0} \cup Socket /\ client.decoder \in {0} \cup Socket
           /\ client.resumeState \in [session: Session, seq: 0..MaxSeq] \cup {Null}
           /\ {client.live, client.wasHeartbeatAcknowledged, client.heartbeatTimer} \subseteq BOOLEAN
           /\ client.connecting \in Nat /\ client.reconnectTimers \in Nat
           /\ server.sessions \in {0} \cup Session /\ server.session \in {0} \cup Session
           /\ server.produced \in 0..MaxSeq /\ server.attached \in {0} \cup Socket
           /\ down \in LinesOfPayloads
           /\ \A x \in Socket : down[x] \in Seq(Payload)
BY DEF TypeOK, Client, Server, LinesOfPayloads

\* The numbers are numbers.
LEMMA Numbers ==
    ASSUME TypeOK
    PROVE  /\ Session \subseteq Nat \ {0} /\ Socket \subseteq Nat \ {0} /\ MaxSeq \in Nat \ {0}
           /\ {server.sessions, server.session, server.produced, server.attached,
               client.ws, client.decoder, sockets, trouble} \subseteq Nat
           /\ client.resumeState # Null =>
                client.resumeState.session \in Session /\ client.resumeState.seq \in 0..MaxSeq
<1>1. /\ Session \subseteq Nat \ {0} /\ Socket \subseteq Nat \ {0} /\ MaxSeq \in Nat \ {0}
  BY GatewayAssumption DEF Session, Socket
<1>2. /\ server.sessions \in Nat /\ server.session \in Nat /\ server.produced \in Nat
      /\ server.attached \in Nat /\ client.ws \in Nat /\ client.decoder \in Nat
  <2>1. /\ server.sessions \in {0} \cup Session /\ server.session \in {0} \cup Session
        /\ server.produced \in 0..MaxSeq /\ server.attached \in {0} \cup Socket
        /\ client.ws \in {0} \cup Socket /\ client.decoder \in {0} \cup Socket
    BY Fields
  <2>2. {0} \cup Session \subseteq Nat /\ {0} \cup Socket \subseteq Nat /\ 0..MaxSeq \subseteq Nat
    BY <1>1
  <2> QED BY ONLY <2>1, <2>2
<1>3. {sockets, trouble} \subseteq Nat
  BY <1>1 DEF TypeOK
<1>4. client.resumeState # Null =>
        client.resumeState.session \in Session /\ client.resumeState.seq \in 0..MaxSeq
  BY Fields
<1> QED BY <1>1, <1>2, <1>3, <1>4

\* A line may be replaced by another.
LEMMA LineReplaced ==
    ASSUME NEW lines \in LinesOfPayloads, NEW x \in Socket, NEW line \in Seq(Payload)
    PROVE  /\ [lines EXCEPT ![x] = line] \in LinesOfPayloads
           /\ [lines EXCEPT ![x] = line][x] = line
           /\ \A y \in Socket : y # x => [lines EXCEPT ![x] = line][y] = lines[y]
BY DEF LinesOfPayloads

\* The fields stay of their types when the socket is let go of, when another
\* is asked for, and when the first payload of a session sets the session.
LEMMA ClientsTyped ==
    ASSUME NEW c \in Client
    PROVE  /\ Disconnected(c) \in Client /\ Connecting(c) \in Client
           /\ \A r \in [session: Session, seq: 0..MaxSeq] \cup {Null} :
                [c EXCEPT !.resumeState = r] \in Client
           /\ \A st \in {"CONNECTING", "IDENTIFYING", "READY", "DESTROYED"} :
                [c EXCEPT !.state = st] \in Client
<1>1. Disconnected(c) \in Client
  BY DEF Client, Disconnected
<1>2. Connecting(c) \in Client
  <2>1. PICK n \in Nat : n = c.connecting + 1
    BY DEF Client
  <2>2. Connecting(c) = [c EXCEPT !.state = "CONNECTING", !.wasHeartbeatAcknowledged = TRUE,
                                  !.connecting = n]
    BY <2>1 DEF Connecting
  <2> QED BY ONLY <2>2, n \in Nat, c \in Client DEF Client
<1>3. \A r \in [session: Session, seq: 0..MaxSeq] \cup {Null} :
        [c EXCEPT !.resumeState = r] \in Client
  BY DEF Client
<1>4. \A st \in {"CONNECTING", "IDENTIFYING", "READY", "DESTROYED"} :
        [c EXCEPT !.state = st] \in Client
  BY DEF Client
<1> QED BY <1>1, <1>2, <1>3, <1>4

\* Letting go of the socket keeps the types.
LEMMA ReconnectTyped ==
    ASSUME TypeOK, NEW taken \in LinesOfPayloads, NEW c \in Client, Reconnect(c, taken),
           UNCHANGED <<sockets, trouble>>
    PROVE  TypeOK'
<1>1. client' \in Client
  BY ClientsTyped DEF Reconnect
<1>2. server' \in Server /\ up' \subseteq 1..sockets'
  BY DEF TypeOK, Server, Reconnect, HangUp
<1> QED BY <1>1, <1>2 DEF TypeOK, Reconnect, LinesOfPayloads

\* So does an error.
LEMMA ErrorTyped ==
    ASSUME TypeOK, NEW taken \in LinesOfPayloads, NEW c \in Client, Error(c, taken),
           UNCHANGED <<sockets, trouble>>
    PROVE  TypeOK'
<1>1. client' \in Client
  BY ClientsTyped DEF Error
<1>2. server' \in Server /\ up' \subseteq 1..sockets'
  BY DEF TypeOK, Server, Error, HangUp
<1> QED BY <1>1, <1>2 DEF TypeOK, Error, LinesOfPayloads

\* So does destroy(),
LEMMA DestroyedTyped ==
    ASSUME TypeOK, NEW taken \in LinesOfPayloads, NEW c \in Client, Destroyed(c, taken),
           UNCHANGED <<sockets, trouble>>
    PROVE  TypeOK'
<1>1. client' \in Client
  BY ClientsTyped DEF Destroyed
<1>2. server' \in Server /\ up' \subseteq 1..sockets'
  BY DEF TypeOK, Server, Destroyed, HangUp
<1> QED BY <1>1, <1>2 DEF TypeOK, Destroyed, LinesOfPayloads

\* and the "dispatch" event of the class.
LEMMA OnDispatchTyped ==
    ASSUME TypeOK, NEW taken \in LinesOfPayloads, NEW p \in Payload, IsDispatch(p),
           NEW c \in Client, p.t = "READY" \/ c.resumeState # Null,
           OnDispatch(c, p, taken), UNCHANGED <<sockets, trouble>>
    PROVE  TypeOK'
<1>1. p.s \in 1..MaxSeq /\ p.session \in Session /\ p.replay \in BOOLEAN
  BY PayloadFields
<1>2. client' \in Client
  <2>1. CASE p.t = "READY"
    <3>1. p.s \in 0..MaxSeq
      BY <1>1, Numbers
    <3>2. PICK r \in [session: Session, seq: 0..MaxSeq] : r = [session |-> p.session, seq |-> p.s]
      BY <3>1, <1>1
    <3>3. client' = [c EXCEPT !.state = "READY", !.resumeState = r]
      BY <3>2, <2>1 DEF OnDispatch
    <3> QED BY ONLY <3>3, c \in Client, r \in [session: Session, seq: 0..MaxSeq] DEF Client
  <2>2. CASE p.t # "READY"
    <3>1. c.resumeState \in [session: Session, seq: 0..MaxSeq]
      BY <2>2 DEF Client
    <3>2. [c.resumeState EXCEPT !.seq = p.s] \in [session: Session, seq: 0..MaxSeq]
      BY <3>1, <1>1
    <3>3. client' = [c EXCEPT !.resumeState = [c.resumeState EXCEPT !.seq = p.s]]
      BY <2>2 DEF Client, OnDispatch
    <3> QED BY <3>2, <3>3 DEF Client
  <2> QED BY <2>1, <2>2
<1>3. emitted' \in [Session -> Seq(Event)]
  <2> DEFINE e == [s |-> p.s, replay |-> p.replay, live |-> c.live]
  <2>1. e \in Event
    BY <1>1 DEF Event, Client
  <2>2. Append(emitted[p.session], e) \in Seq(Event)
    BY <1>1, <2>1, AppendProperties DEF TypeOK
  <2> HIDE DEF e
  <2>3. emitted' = [emitted EXCEPT ![p.session] = Append(emitted[p.session], e)]
    BY DEF OnDispatch, e
  <2> QED BY <2>2, <2>3, <1>1 DEF TypeOK
<1> QED BY <1>2, <1>3 DEF TypeOK, OnDispatch, LinesOfPayloads

\* The replay of the missed events is a line.
LEMMA ReplayTyped ==
    ASSUME NEW resume \in [session: Session, seq: 0..MaxSeq], server \in Server,
           server.produced < MaxSeq
    PROVE  /\ Replay(resume) \in Seq(Payload)
           /\ Dispatch("RESUMED", resume.session, server.produced + 1, TRUE) \in Payload
<1> DEFINE m == server.produced - resume.seq
           replay == Replay(resume)
<1>1. /\ m \in Int /\ server.produced = resume.seq + m
      /\ resume.seq \in Nat /\ server.produced \in Nat /\ MaxSeq \in Nat /\ resume.session \in Session
  BY GatewayAssumption DEF Server
<1>2. Dispatch("RESUMED", resume.session, server.produced + 1, TRUE) \in Payload
  BY <1>1 DEF Dispatch, Payload
<1>3. \A k \in 1..m : Dispatch("event", resume.session, resume.seq + k, TRUE) \in Payload
  BY <1>1 DEF Dispatch, Payload
<1>4. replay = [k \in 1..m |-> Dispatch("event", resume.session, resume.seq + k, TRUE)]
  BY DEF Replay
<1>5. replay \in Seq(Payload)
  <2> HIDE DEF m, replay
  <2>1. replay \in [1..m -> Payload]
    BY <1>3, <1>4
  <2>2. CASE m \in Nat
    BY <2>1, <2>2, SeqDef
  <2>3. CASE m \notin Nat
    <3>1. 1..m = 1..0
      BY <2>3, <1>1
    <3>2. replay \in [1..0 -> Payload]
      BY <2>1, <3>1
    <3>3. 0 \in Nat
      OBVIOUS
    <3> QED BY <3>2, <3>3, SeqDef
  <2> QED BY <2>2, <2>3
<1> QED BY <1>2, <1>5

\* The replay of the missed events and RESUMED.
LEMMA ReplayedLine ==
    ASSUME NEW line \in Seq(Payload), NEW resume \in [session: Session, seq: 0..MaxSeq],
           server \in Server, server.produced < MaxSeq, NEW whole,
           whole = line \o Replay(resume) \o
                     <<Dispatch("RESUMED", resume.session, server.produced + 1, TRUE)>>
    PROVE  /\ whole \in Seq(Payload)
           /\ \E n \in Nat :
                /\ Longer(line, whole, n, resume.session)
                /\ NoLater(line, whole, n, server.produced + 1)
                /\ resume.seq <= server.produced =>
                    /\ server.produced + 1 = resume.seq + n
                    /\ Following(line, whole, n, resume.seq)
<1> DEFINE m == IF resume.seq <= server.produced THEN server.produced - resume.seq ELSE 0
           last == Dispatch("RESUMED", resume.session, server.produced + 1, TRUE)
           replay == Replay(resume)
<1>1. /\ m \in Nat
      /\ resume.seq <= server.produced => server.produced = resume.seq + m
      /\ resume.seq \in Nat /\ server.produced \in Nat /\ MaxSeq \in Nat /\ resume.session \in Session
  BY GatewayAssumption DEF Server
<1>2. last \in Payload /\ replay \in Seq(Payload)
  BY ReplayTyped
<1>3. /\ IsDispatch(last) /\ last.s = server.produced + 1 /\ last.session = resume.session
  BY <1>1 DEF Dispatch, IsDispatch
<1>4. replay = [k \in 1..m |-> Dispatch("event", resume.session, resume.seq + k, TRUE)]
  <2>1. 1..(server.produced - resume.seq) = 1..m
    BY <1>1
  <2> QED BY <2>1 DEF Replay
<1> HIDE DEF m
<1>5. Len(replay) = m
  BY <1>1, <1>2, <1>4, LenProperties
<1>6. \A k \in 1..m : /\ IsDispatch(replay[k]) /\ replay[k].s = resume.seq + k
                      /\ replay[k].session = resume.session
  BY <1>4 DEF Dispatch, IsDispatch
<1>7. m # 0 => server.produced = resume.seq + m
  BY <1>1 DEF m
<1> HIDE DEF last, replay
<1>8. <<last>> \in Seq(Payload) /\ Len(<<last>>) = 1 /\ <<last>>[1] = last
  BY <1>2
<1> DEFINE front == line \o replay
<1>9. /\ front \in Seq(Payload) /\ Len(line) \in Nat /\ Len(front) = Len(line) + m
      /\ \A k \in 1..Len(front) : front[k] = IF k <= Len(line) THEN line[k]
                                             ELSE replay[k - Len(line)]
  BY <1>2, <1>5, ConcatProperties, LenProperties
<1> HIDE DEF front
<1>10. /\ front \o <<last>> \in Seq(Payload)
       /\ Len(front \o <<last>>) = Len(front) + 1
       /\ \A k \in 1..Len(front) + 1 :
            (front \o <<last>>)[k] = IF k <= Len(front) THEN front[k]
                                     ELSE <<last>>[k - Len(front)]
  BY <1>8, <1>9, ConcatProperties
<1>11. whole = front \o <<last>>
  BY DEF front, last, replay
<1>12. \A k \in 1..Len(line) : whole[k] = line[k]
  BY <1>1, <1>9, <1>10, <1>11
<1>13. ASSUME NEW k \in 1..m
       PROVE  whole[Len(line) + k] = replay[k]
  <2>1. PICK e : e = Len(line) + k
    OBVIOUS
  <2>2. e \in 1..Len(front) /\ ~(e <= Len(line)) /\ e - Len(line) = k
    BY <2>1, <1>1, <1>9
  <2>3. front[e] = replay[k]
    BY <2>2, <1>9
  <2>4. whole[e] = front[e]
    BY <2>2, <1>9, <1>10, <1>11
  <2> QED BY <2>1, <2>3, <2>4
<1>14. whole[Len(line) + (m + 1)] = last
  <2>1. PICK e : e = Len(line) + (m + 1)
    OBVIOUS
  <2>2. e \in 1..Len(front) + 1 /\ ~(e <= Len(front)) /\ e - Len(front) = 1
    BY <2>1, <1>1, <1>9
  <2>3. whole[e] = last
    BY <2>2, <1>8, <1>10, <1>11
  <2> QED BY <2>1, <2>3
<1>15. Len(whole) = Len(line) + (m + 1)
  BY <1>1, <1>9, <1>10, <1>11
<1>16. whole \in Seq(Payload) /\ Len(line) \in Nat
  BY <1>9, <1>10, <1>11
<1>17. \A k \in 1..m + 1 : k \in 1..m \/ k = m + 1
  BY <1>1
<1>18. ASSUME NEW k \in 1..m + 1
       PROVE  /\ IsDispatch(whole[Len(line) + k])
              /\ whole[Len(line) + k].s <= server.produced + 1
              /\ whole[Len(line) + k].session = resume.session
              /\ resume.seq <= server.produced => whole[Len(line) + k].s = resume.seq + k
  <2>1. CASE k \in 1..m
    <3>1. PICK p : p = whole[Len(line) + k] /\ p = replay[k]
      BY <2>1, <1>13
    <3>2. IsDispatch(p) /\ p.s = resume.seq + k /\ p.session = resume.session
      BY <2>1, <3>1, <1>6
    <3>3. resume.seq + k <= server.produced + 1
      BY <2>1, <1>1, <1>7
    <3> QED BY <3>1, <3>2, <3>3
  <2>2. CASE k = m + 1
    <3>1. PICK p : p = whole[Len(line) + k] /\ p = last
      BY <2>2, <1>14
    <3>2. IsDispatch(p) /\ p.s = server.produced + 1 /\ p.session = resume.session
      BY <3>1, <1>3
    <3>3. /\ server.produced + 1 <= server.produced + 1
          /\ resume.seq <= server.produced => server.produced + 1 = resume.seq + k
      BY <2>2, <1>1
    <3> QED BY <3>1, <3>2, <3>3
  <2> QED BY <2>1, <2>2, <1>17
<1>19. m + 1 \in Nat /\ (resume.seq <= server.produced => server.produced + 1 = resume.seq + (m + 1))
  BY <1>1
<1>20. Longer(line, whole, m + 1, resume.session)
  BY <1>12, <1>15, <1>18 DEF Longer
<1>21. /\ NoLater(line, whole, m + 1, server.produced + 1)
       /\ resume.seq <= server.produced => Following(line, whole, m + 1, resume.seq)
  BY <1>18 DEF NoLater, Following
<1> QED BY <1>16, <1>19, <1>20, <1>21

\* What the server answers to the client, and what it leaves out.
Unanswered(taken) == server' = server /\ down' = taken

Identifies(x, taken) ==
    /\ x \in up /\ server.sessions < MaxSessions
    /\ server' = Identified(x)
    /\ down' = [taken EXCEPT ![x] =
                    Append(taken[x], Dispatch("READY", server.sessions + 1, 1, FALSE))]

Resumes(x, resume, taken) ==
    /\ x \in up /\ resume # Null /\ server.session = resume.session /\ server.produced < MaxSeq
    /\ server' = [server EXCEPT !.produced = server.produced + 1, !.attached = x]
    /\ down' = [taken EXCEPT ![x] = taken[x] \o Replay(resume) \o
                    <<Dispatch("RESUMED", resume.session, server.produced + 1, TRUE)>>]

Refuses(x, taken) ==
    /\ x \in up
    /\ server' = [server EXCEPT !.session = 0]
    /\ down' = [taken EXCEPT ![x] = Append(taken[x], InvalidSession(FALSE))]

\* These are its answers.
LEMMA Answers ==
    ASSUME TypeOK, NEW taken \in LinesOfPayloads, NEW x \in {0} \cup Socket,
           NEW resume, ServerAnswers(x, resume, taken)
    PROVE  \/ Unanswered(taken)
           \/ resume = Null /\ Identifies(x, taken)
           \/ Resumes(x, resume, taken) \/ Refuses(x, taken)
<1>1. CASE x \notin up \/ (resume = Null /\ server.sessions = MaxSessions)
  <2>1. /\ ~(x \in up /\ resume = Null /\ server.sessions < MaxSessions)
        /\ ~(x \in up /\ resume # Null /\ CanResume(resume))
        /\ ~(x \in up /\ resume # Null /\ ~CanResume(resume))
    BY <1>1, Numbers, GatewayAssumption
  <2> QED BY <1>1, <2>1 DEF ServerAnswers, Unanswered
<1>2. CASE x \in up /\ resume = Null /\ server.sessions < MaxSessions
  <2>1. ~(x \notin up \/ (resume = Null /\ server.sessions = MaxSessions))
    BY <1>2, Numbers, GatewayAssumption
  <2>2. /\ server' = Identified(x)
        /\ down' = [taken EXCEPT ![x] =
                        Append(taken[x], Dispatch("READY", server'.session, 1, FALSE))]
    BY <1>2, <2>1 DEF ServerAnswers
  <2>3. server'.session = server.sessions + 1
    BY <2>2 DEF Identified, TypeOK, Server
  <2> QED BY <1>2, <2>2, <2>3 DEF Identifies
<1>3. CASE x \in up /\ resume # Null /\ CanResume(resume)
  <2>1. /\ server' = [server EXCEPT !.produced = @ + 1, !.attached = x]
        /\ down' = [taken EXCEPT ![x] = taken[x] \o Replay(resume) \o
                <<Dispatch("RESUMED", resume.session, server'.produced, TRUE)>>]
    BY <1>3 DEF ServerAnswers
  <2>2. server'.produced = server.produced + 1
    BY <2>1 DEF TypeOK, Server
  <2> QED BY <1>3, <2>1, <2>2 DEF Resumes, CanResume
<1>4. CASE x \in up /\ resume # Null /\ ~CanResume(resume)
  BY <1>4 DEF ServerAnswers, Refuses
<1>5. server.sessions = MaxSessions \/ server.sessions < MaxSessions
  BY Fields, GatewayAssumption DEF Session
<1> QED BY <1>1, <1>2, <1>3, <1>4, <1>5

\* They keep the types.
LEMMA AnswersTyped ==
    ASSUME TypeOK, NEW taken \in LinesOfPayloads, NEW x \in {0} \cup Socket,
           NEW resume \in {client.resumeState, Null}, ServerAnswers(x, resume, taken), up' = up
    PROVE  server' \in Server /\ down' \in LinesOfPayloads
<1>0. /\ server.sessions \in Nat /\ server.produced \in Nat /\ MaxSeq \in Nat \ {0}
      /\ server.session \in {0} \cup Session
  BY Numbers, Fields
<1>u. ASSUME x \in up PROVE x \in Socket
  BY <1>u, Numbers DEF TypeOK
<1>1. CASE Unanswered(taken)
  BY <1>1 DEF Unanswered, TypeOK
<1>2. CASE Identifies(x, taken)
  <2>1. server.sessions + 1 \in Session /\ x \in Socket
    BY <1>0, <1>2, <1>u, GatewayAssumption DEF Identifies, Session
  <2>2. server' \in Server
    <3>1. PICK n \in Session : n = server.sessions + 1
      BY <2>1
    <3>2. server' = [server EXCEPT !.sessions = n, !.session = n, !.produced = 1, !.attached = x]
      BY <3>1, <1>2 DEF Identifies, Identified
    <3>3. 1 \in 0..MaxSeq /\ server \in Server
      BY <1>0 DEF TypeOK
    <3> QED BY ONLY <3>2, <3>3, n \in Session, <2>1 DEF Server
  <2>3. Dispatch("READY", server.sessions + 1, 1, FALSE) \in Payload
    BY <1>0, <2>1 DEF Dispatch, Payload
  <2>4. Append(taken[x], Dispatch("READY", server.sessions + 1, 1, FALSE)) \in Seq(Payload)
    BY <2>1, <2>3, LongerLine DEF LinesOfPayloads
  <2> QED BY <1>2, <2>1, <2>2, <2>4, LineReplaced DEF Identifies
<1>3. CASE Resumes(x, resume, taken)
  <2>1. resume \in [session: Session, seq: 0..MaxSeq]
    BY <1>3, Fields DEF Resumes
  <2>2. x \in Socket
    BY <1>3, <1>u DEF Resumes
  <2>3. server' \in Server
    <3>1. PICK n \in 0..MaxSeq : n = server.produced + 1
      BY <1>0, <1>3 DEF Resumes
    <3>2. server' = [server EXCEPT !.produced = n, !.attached = x]
      BY <3>1, <1>3 DEF Resumes
    <3> QED BY <3>2, <2>2 DEF TypeOK, Server
  <2>4. /\ server \in Server /\ taken[x] \in Seq(Payload) /\ server.produced < MaxSeq
    BY <1>3, <2>2 DEF TypeOK, LinesOfPayloads, Resumes
  <2>5. taken[x] \o Replay(resume) \o
            <<Dispatch("RESUMED", resume.session, server.produced + 1, TRUE)>> \in Seq(Payload)
    <3>1. PICK a \in Seq(Payload), b \in Seq(Payload), c \in Payload :
            /\ a = taken[x] /\ b = Replay(resume)
            /\ c = Dispatch("RESUMED", resume.session, server.produced + 1, TRUE)
      BY <2>1, <2>4, ReplayTyped
    <3>2. a \o b \in Seq(Payload) /\ <<c>> \in Seq(Payload)
      BY ConcatProperties
    <3>3. (a \o b) \o <<c>> \in Seq(Payload)
      BY <3>2, ConcatProperties
    <3> QED BY <3>1, <3>3
  <2> QED BY <1>3, <2>2, <2>3, <2>5, LineReplaced DEF Resumes
<1>4. CASE Refuses(x, taken)
  <2>1. x \in Socket
    BY <1>4, <1>u DEF Refuses
  <2>2. server' \in Server
    BY <1>4 DEF Refuses, TypeOK, Server
  <2>3. Append(taken[x], InvalidSession(FALSE)) \in Seq(Payload)
    BY <2>1, PayloadsSent, LongerLine DEF LinesOfPayloads
  <2> QED BY <1>4, <2>1, <2>2, <2>3, LineReplaced DEF Refuses
<1> QED BY <1>1, <1>2, <1>3, <1>4, Answers

\* #resumeOrIdentify keeps the types.
LEMMA ResumeOrIdentifyTyped ==
    ASSUME TypeOK, NEW taken \in LinesOfPayloads, NEW c \in Client,
           c.resumeState \in {client.resumeState, Null}, ResumeOrIdentify(c, taken),
           UNCHANGED <<sockets, trouble>>
    PROVE  TypeOK'
<1>1. client' \in Client
  BY DEF ResumeOrIdentify, Client
<1>2. c.ws \in {0} \cup Socket
  BY DEF Client
<1>3. server' \in Server /\ down' \in LinesOfPayloads
  <2> DEFINE r == c.resumeState
             x == c.ws
  <2>1. ServerAnswers(x, r, taken) /\ r \in {client.resumeState, Null} /\ up' = up
        /\ x \in {0} \cup Socket
    BY <1>2 DEF ResumeOrIdentify
  <2> HIDE DEF r, x
  <2> QED BY <2>1, AnswersTyped
<1>4. alive' \in BOOLEAN
  BY DEF ResumeOrIdentify
<1> QED BY <1>1, <1>3, <1>4 DEF TypeOK, ResumeOrIdentify, LinesOfPayloads

\* The line of a socket without its first payload.
LEMMA Taken ==
    ASSUME TypeOK, NEW x \in Socket, down[x] # <<>>
    PROVE  LET taken == [down EXCEPT ![x] = Tail(@)]
           IN /\ taken \in LinesOfPayloads /\ taken[x] = Tail(down[x])
              /\ \A y \in Socket : y # x => taken[y] = down[y]
              /\ Head(down[x]) \in Payload
<1>1. down \in LinesOfPayloads /\ down[x] \in Seq(Payload)
  BY Fields
<1>2. Tail(down[x]) \in Seq(Payload) /\ Head(down[x]) \in Payload
  BY <1>1, TailOfLine
<1>3. PICK line \in Seq(Payload) : line = Tail(down[x])
  BY <1>2
<1>4. /\ [down EXCEPT ![x] = line] \in LinesOfPayloads /\ [down EXCEPT ![x] = line][x] = line
      /\ \A y \in Socket : y # x => [down EXCEPT ![x] = line][y] = down[y]
  BY <1>1, LineReplaced
<1> QED BY <1>2, <1>3, <1>4

\* What the client does on the first payload of a socket: the alternatives
\* of OnPayload and of OnClose.
Drops(c, taken) ==
    client' = c /\ down' = taken /\ UNCHANGED <<alive, destroyed, emitted, up, server>>

Acknowledges(c, taken) ==
    /\ client' = [c EXCEPT !.wasHeartbeatAcknowledged = TRUE]
    /\ down' = taken /\ UNCHANGED <<alive, destroyed, emitted, up, server>>

Loses(taken) ==
    /\ client' = [Disconnected(client) EXCEPT !.reconnectTimers = @ + 1]
    /\ down' = taken /\ UNCHANGED <<alive, destroyed, emitted, up, server>>

Starts(d, c) ==
    d \in {[c EXCEPT !.heartbeatTimer = TRUE], c, [c EXCEPT !.resumeState = Null]}

Takes(c, p, taken) ==
    \/ Error(c, taken)
    \/ (IsDispatch(p) => c.state = "DESTROYED") /\ Drops(c, taken)
    \/ ~IsDispatch(p) /\ Acknowledges(c, taken)
    \/ ~IsDispatch(p) /\ Reconnect(c, taken)
    \/ /\ IsDispatch(p) /\ (p.t = "READY" \/ c.resumeState # Null)
       /\ OnDispatch(c, p, taken)
    \/ /\ Asks(p) /\ c.state # "DESTROYED"
       /\ \E d : Starts(d, c) /\ ResumeOrIdentify(d, taken)
    \/ ~IsDispatch(p) /\ \E d : Starts(d, c) /\ Destroyed(d, taken)

\* What it does on a payload that was decoded.
LEMMA PayloadTaken ==
    ASSUME NEW p \in Payload, NEW c, NEW taken, p.op # "close", OnPayload(c, p, taken)
    PROVE  Takes(c, p, taken)
<1>1. CASE c.state = "DESTROYED"
  BY <1>1 DEF OnPayload, Drops, Takes
<1>2. CASE c.state # "DESTROYED" /\ p.op = "Dispatch"
  BY <1>2 DEF OnPayload, IsDispatch, Takes
<1>3. CASE c.state # "DESTROYED" /\ p.op = "Hello"
  <2>1. Error(c, taken) \/ ResumeOrIdentify([c EXCEPT !.heartbeatTimer = TRUE], taken)
    BY <1>3 DEF OnPayload
  <2>2. Starts([c EXCEPT !.heartbeatTimer = TRUE], c) /\ Asks(p)
    BY <1>3 DEF Starts, Asks
  <2> QED BY <2>1, <2>2, <1>3 DEF Takes
<1>4. CASE c.state # "DESTROYED" /\ p.op = "HeartbeatAck"
  BY <1>4 DEF OnPayload, Acknowledges, IsDispatch, Takes
<1>5. CASE c.state # "DESTROYED" /\ p.op = "InvalidSession"
  <2> DEFINE d == IF p.d THEN c ELSE [c EXCEPT !.resumeState = Null]
  <2>1. ResumeOrIdentify(d, taken) \/ Destroyed(d, taken)
    BY <1>5 DEF OnPayload
  <2>2. Starts(d, c) /\ Asks(p) /\ ~IsDispatch(p)
    BY <1>5 DEF Starts, Asks, IsDispatch
  <2> HIDE DEF d
  <2> QED BY <2>1, <2>2, <1>5 DEF Takes
<1>6. CASE c.state # "DESTROYED" /\ p.op = "Reconnect"
  BY <1>6 DEF OnPayload, IsDispatch, Takes
<1> QED BY <1>1, <1>2, <1>3, <1>4, <1>5, <1>6, PayloadFields

\* The cases of what it does.
LEMMA Receives ==
    ASSUME TypeOK, NEW x \in Socket, Receive(x)
    PROVE  LET p == Head(down[x])
               taken == [down EXCEPT ![x] = Tail(@)]
           IN \/ /\ ~IsDispatch(p)
                 /\ Loses(taken) \/ Error(client, taken) \/ Drops(client, taken)
              \/ Reconnect([client EXCEPT !.decoder = 0], taken)
              \/ Takes(Decoded(x), p, taken)
<1> DEFINE p == Head(down[x])
           taken == [down EXCEPT ![x] = Tail(@)]
<1>1. p \in Payload
  BY Taken DEF Receive
<1>2. \/ p.op = "close" /\ OnClose(p.fatal, taken)
      \/ p.op = "close" /\ Drops(client, taken)
      \/ p.op # "close" /\ OnPayload(Decoded(x), p, taken)
      \/ Reconnect([client EXCEPT !.decoder = 0], taken)
  BY DEF Receive, Drops
<1> HIDE DEF p, taken
<1>3. CASE p.op = "close" /\ OnClose(p.fatal, taken)
  BY <1>3 DEF OnClose, Loses, IsDispatch, p, taken
<1>4. CASE p.op = "close" /\ Drops(client, taken)
  BY <1>4 DEF IsDispatch, p, taken
<1>5. CASE Reconnect([client EXCEPT !.decoder = 0], taken)
  BY <1>5 DEF p, taken
<1>6. CASE p.op # "close" /\ OnPayload(Decoded(x), p, taken)
  BY <1>1, <1>6, PayloadTaken DEF p, taken
<1> QED BY <1>2, <1>3, <1>4, <1>5, <1>6

\* The fields of the client after a message of socket x was decoded, or not.
LEMMA DecodedFields ==
    ASSUME client \in Client, NEW x \in Socket, NEW c,
           c \in {Decoded(x), [client EXCEPT !.decoder = 0]}
    PROVE  /\ c \in Client /\ c.ws = client.ws /\ c.live = client.live
           /\ c.resumeState = client.resumeState /\ c.state = client.state
           /\ c = Decoded(x) => /\ c.decoder = x
                                /\ c.crossed = (client.crossed \/ x # client.decoder)
           /\ c # Decoded(x) => c.decoder = 0 /\ c.crossed = client.crossed
<1>1. CASE c = Decoded(x)
  <2>1. /\ c.ws = client.ws /\ c.live = client.live
        /\ c.resumeState = client.resumeState /\ c.state = client.state
        /\ c.decoder = x /\ c.crossed = (client.crossed \/ x # client.decoder)
    BY <1>1 DEF Client, Decoded
  <2>2. c \in Client
    BY <1>1 DEF Client, Decoded
  <2> QED BY <1>1, <2>1, <2>2
<1>2. CASE c = [client EXCEPT !.decoder = 0]
  <2>1. /\ c.ws = client.ws /\ c.live = client.live
        /\ c.resumeState = client.resumeState /\ c.state = client.state
        /\ c.decoder = 0 /\ c.crossed = client.crossed
    BY <1>2 DEF Client
  <2>2. c \in Client
    BY <1>2 DEF Client
  <2>3. c = Decoded(x) => c.decoder = x /\ c.crossed = (client.crossed \/ x # client.decoder)
    BY DEF Client, Decoded
  <2> QED BY <2>1, <2>2, <2>3
<1> QED BY <1>1, <1>2

\* The fields that a session is begun or resumed with.
LEMMA StartsFields ==
    ASSUME NEW c \in Client, NEW d, Starts(d, c)
    PROVE  /\ d \in Client /\ d.ws = c.ws /\ d.decoder = c.decoder /\ d.live = c.live
           /\ d.resumeState \in {c.resumeState, Null} /\ d.crossed = c.crossed
<1>1. CASE d = c
  BY <1>1
<1>2. CASE d = [c EXCEPT !.heartbeatTimer = TRUE]
  BY <1>2 DEF Client
<1>3. CASE d = [c EXCEPT !.resumeState = Null]
  BY <1>3 DEF Client
<1> QED BY <1>1, <1>2, <1>3 DEF Starts

\* Every step keeps the types.
LEMMA ReceiveTyped ==
    ASSUME TypeOK, NEW x \in Socket, Receive(x)
    PROVE  TypeOK'
<1> DEFINE p == Head(down[x])
           taken == [down EXCEPT ![x] = Tail(@)]
<1>1. taken \in LinesOfPayloads /\ p \in Payload
  BY Taken DEF Receive
<1>2. UNCHANGED <<sockets, trouble>>
  BY DEF Receive
<1>3. client \in Client /\ Decoded(x) \in Client /\ [client EXCEPT !.decoder = 0] \in Client
      /\ Decoded(x).resumeState = client.resumeState
  <2>1. client \in Client
    BY DEF TypeOK
  <2> QED BY <2>1, DecodedFields
<1> HIDE DEF p, taken
<1>4. ASSUME NEW c \in Client, Drops(c, taken) PROVE TypeOK'
  BY <1>1, <1>2, <1>4 DEF Drops, TypeOK, LinesOfPayloads
<1>5. ASSUME NEW c \in Client, Acknowledges(c, taken) PROVE TypeOK'
  <2>1. client' \in Client
    BY <1>5 DEF Acknowledges, Client
  <2> QED BY <1>1, <1>2, <1>5, <2>1 DEF Acknowledges, TypeOK, LinesOfPayloads
<1>6. CASE Loses(taken)
  <2>1. client' \in Client
    <3>1. PICK d \in Client : d = Disconnected(client)
      BY ClientsTyped DEF TypeOK
    <3>2. PICK n \in Nat : n = d.reconnectTimers + 1
      BY DEF Client
    <3>3. client' = [d EXCEPT !.reconnectTimers = n]
      BY <3>1, <3>2, <1>6 DEF Loses
    <3> QED BY ONLY <3>3, d \in Client, n \in Nat DEF Client
  <2> QED BY <1>1, <1>2, <1>6, <2>1 DEF Loses, TypeOK, LinesOfPayloads
<1>7. ASSUME NEW c \in Client, Error(c, taken) \/ Reconnect(c, taken) PROVE TypeOK'
  BY <1>1, <1>2, <1>7, ErrorTyped, ReconnectTyped
<1>8. CASE Takes(Decoded(x), p, taken)
  <2>1. PICK c \in Client : c = Decoded(x) /\ c.resumeState = client.resumeState
    BY <1>3
  <2>2. Takes(c, p, taken)
    BY <1>8, <2>1
  <2>3. CASE IsDispatch(p) /\ (p.t = "READY" \/ c.resumeState # Null) /\ OnDispatch(c, p, taken)
    BY <1>1, <1>2, <2>3, OnDispatchTyped
  <2>4. ASSUME NEW d, Starts(d, c), ResumeOrIdentify(d, taken) \/ Destroyed(d, taken)
        PROVE  TypeOK'
    <3>1. d \in Client /\ d.resumeState \in {client.resumeState, Null}
      BY <2>1, <2>4, StartsFields
    <3> QED BY <1>1, <1>2, <2>4, <3>1, ResumeOrIdentifyTyped, DestroyedTyped
  <2> QED BY <2>2, <2>3, <2>4, <1>4, <1>5, <1>7 DEF Takes
<1> QED BY <1>3, <1>4, <1>6, <1>7, <1>8, Receives DEF p, taken

\* Every step keeps the types.
LEMMA StepTyped ==
    ASSUME TypeOK, [Next]_vars
    PROVE  TypeOK'
<1>0. /\ sockets \in Nat /\ trouble \in Nat /\ MaxSeq \in Nat \ {0} /\ server.produced \in Nat
      /\ server.sessions \in Nat
  BY Numbers
<1>t. down \in LinesOfPayloads /\ client \in Client /\ server \in Server
  BY DEF TypeOK, LinesOfPayloads
<1>1. CASE Connected
  <2>1. sockets' \in Socket /\ sockets' = sockets + 1
    BY <1>0, <1>1, GatewayAssumption DEF Connected, Socket
  <2>2. client' \in Client
    <3>1. PICK n \in Nat : n = client.connecting - 1
      BY <1>1, Fields DEF Connected
    <3>2. client' = [client EXCEPT !.connecting = n, !.ws = sockets', !.decoder = sockets',
                                  !.begun = FALSE]
      BY <3>1, <1>1 DEF Connected
    <3> QED BY <3>2, <2>1, <1>t DEF Client
  <2>3. up' \subseteq 1..sockets'
    BY <2>1, <1>0, <1>1 DEF TypeOK, Connected
  <2>4. [op |-> "Hello"] \in Payload
    BY PayloadsSent
  <2>5. <<[op |-> "Hello"]>> \in Seq(Payload)
    BY <2>4
  <2>6. down' \in LinesOfPayloads
    BY <2>1, <2>5, <1>1, <1>t, LineReplaced DEF Connected
  <2> QED BY <2>1, <2>2, <2>3, <2>6, <1>1 DEF TypeOK, Connected, LinesOfPayloads
<1>2. CASE ReconnectTimeout
  <2>1. PICK d \in Client : d = Connecting(client)
    BY ClientsTyped, <1>t
  <2>2. PICK n \in Nat : n = d.reconnectTimers - 1
    <3>1. d.reconnectTimers = client.reconnectTimers
      BY <2>1, <1>t DEF Connecting, Client
    <3> QED BY <3>1, <1>2, Fields DEF ReconnectTimeout
  <2>3. client' = [d EXCEPT !.reconnectTimers = n]
    BY <2>1, <2>2, <1>2 DEF ReconnectTimeout
  <2>4. client' \in Client
    BY ONLY <2>3, d \in Client, n \in Nat DEF Client
  <2> QED BY <2>4, <1>2 DEF TypeOK, ReconnectTimeout
<1>3. CASE Heartbeat
  <2>1. CASE Reconnect(client, down)
    BY <2>1, <1>3, <1>t, ReconnectTyped DEF Heartbeat
  <2>2. CASE ~Reconnect(client, down)
    <3>1. client' \in Client
      BY <2>2, <1>3, <1>t DEF Heartbeat, Client
    <3>2. down' \in LinesOfPayloads
      <4>1. CASE client.ws \notin up
        BY <4>1, <2>2, <1>3, <1>t DEF Heartbeat
      <4>2. CASE client.ws \in up
        <5>1. client.ws \in Socket /\ down[client.ws] \in Seq(Payload)
          BY <4>2, <1>0, Fields DEF TypeOK
        <5>2. Append(down[client.ws], [op |-> "HeartbeatAck"]) \in Seq(Payload)
          BY <5>1, PayloadsSent, LongerLine
        <5>3. down' = [down EXCEPT ![client.ws] = Append(@, [op |-> "HeartbeatAck"])]
          BY <4>2, <2>2, <1>3 DEF Heartbeat
        <5> QED BY <5>1, <5>2, <5>3, <1>t, LineReplaced
      <4> QED BY <4>1, <4>2
    <3> QED BY <3>1, <3>2, <2>2, <1>3 DEF TypeOK, Heartbeat, LinesOfPayloads
  <2> QED BY <2>1, <2>2
<1>4. CASE Destroy
  BY <1>4, <1>t, DestroyedTyped DEF Destroy
<1>5. ASSUME NEW x \in Socket, Receive(x) PROVE TypeOK'
  BY <1>5, ReceiveTyped
<1>6. ASSUME NEW x \in Socket, Close(x) \/ FallSilent(x) PROVE TypeOK'
  <2>1. down[x] \in Seq(Payload) /\ <<>> \in Seq(Payload)
    BY Fields
  <2>2. PICK line \in Seq(Payload) : down' = [down EXCEPT ![x] = line]
    <3>1. CASE FallSilent(x)
      BY <3>1, <2>1 DEF FallSilent
    <3>2. CASE Close(x)
      <4>1. PICK kept \in {down[x], <<>>}, fatal \in BOOLEAN :
              down' = [down EXCEPT ![x] = Append(kept, [op |-> "close", fatal |-> fatal])]
        BY <3>2 DEF Close
      <4>2. kept \in Seq(Payload) /\ [op |-> "close", fatal |-> fatal] \in Payload
        BY <2>1, PayloadsSent
      <4>3. Append(kept, [op |-> "close", fatal |-> fatal]) \in Seq(Payload)
        BY <4>2, LongerLine
      <4> QED BY <4>1, <4>3
    <3> QED BY <3>1, <3>2, <1>6
  <2>3. server' \in Server /\ up' \subseteq 1..sockets
    BY <1>6 DEF TypeOK, Server, Close, FallSilent, HangUp
  <2>4. trouble' \in 0..MaxTrouble
    BY <1>0, <1>6, GatewayAssumption DEF Close, FallSilent, Trouble
  <2>5. down' \in LinesOfPayloads
    BY <2>2, <1>t, LineReplaced
  <2> QED BY <2>3, <2>4, <2>5, <1>6
          DEF TypeOK, LinesOfPayloads, Close, FallSilent, Trouble, UnchangedClient
<1>7. ASSUME NEW p \in Payload, down' = SendTo(server.attached, p) PROVE down' \in LinesOfPayloads
  <2>1. CASE server.attached = 0
    BY <2>1, <1>7, <1>t DEF SendTo
  <2>2. CASE server.attached # 0
    <3>1. server.attached \in Socket /\ down[server.attached] \in Seq(Payload)
      BY <2>2, Fields
    <3>2. Append(down[server.attached], p) \in Seq(Payload)
      BY <3>1, LongerLine
    <3>3. down' = [down EXCEPT ![server.attached] = Append(@, p)]
      BY <2>2, <1>7 DEF SendTo
    <3> QED BY <3>1, <3>2, <3>3, <1>t, LineReplaced
  <2> QED BY <2>1, <2>2
<1>8. CASE Produce
  <2>1. PICK n \in 0..MaxSeq : n = server.produced + 1
    BY <1>0, <1>8 DEF Produce
  <2>2. server' = [server EXCEPT !.produced = n]
    BY <2>1, <1>8 DEF Produce
  <2>3. server' \in Server /\ server'.produced = n
    BY <2>2, <1>t DEF Server
  <2>4. Dispatch("event", server.session, server'.produced, FALSE) \in Payload
    BY <2>1, <2>3, <1>0, <1>8, Fields DEF Dispatch, Payload, Produce
  <2>5. down' \in LinesOfPayloads
    BY <2>4, <1>7, <1>8 DEF Produce
  <2> QED BY <2>3, <2>5, <1>8 DEF TypeOK, LinesOfPayloads, Produce, UnchangedClient
<1>9. CASE AskReconnect
  <2>1. down' \in LinesOfPayloads
    BY <1>7, <1>9, PayloadsSent DEF AskReconnect
  <2>2. trouble' \in 0..MaxTrouble
    BY <1>0, <1>9, GatewayAssumption DEF AskReconnect, Trouble
  <2> QED BY <2>1, <2>2, <1>9 DEF TypeOK, LinesOfPayloads, AskReconnect, Trouble, UnchangedClient
<1>10. ASSUME NEW resumable \in BOOLEAN, EndSession(resumable) PROVE TypeOK'
  <2>1. down' \in LinesOfPayloads
    BY <1>7, <1>10, PayloadsSent DEF EndSession
  <2>2. trouble' \in 0..MaxTrouble
    BY <1>0, <1>10, GatewayAssumption DEF EndSession, Trouble
  <2>3. server' \in Server
    BY <1>10, <1>t DEF EndSession, Server
  <2> QED BY <2>1, <2>2, <2>3, <1>10
          DEF TypeOK, LinesOfPayloads, EndSession, Trouble, UnchangedClient
<1>11. CASE UNCHANGED vars
  BY <1>11 DEF TypeOK, vars
<1> QED BY <1>1, <1>2, <1>3, <1>4, <1>5, <1>6, <1>8, <1>9, <1>10, <1>11 DEF Next

-----------------------------------------------------------------------------
(* Steps that pass no event on and have the server answer nothing.         *)
\* The rest of the state changes by no more than this.
LittleElse ==
    /\ client'.ws \in {0, client.ws}
    /\ client'.decoder = client.decoder \/ (client'.decoder = 0 /\ client'.ws = 0)
    /\ client'.live = client.live
    /\ \/ client'.resumeState = client.resumeState
       \/ client'.resumeState = Null /\ destroyed'
    /\ client'.state = "DESTROYED" => destroyed'
    /\ sockets' = sockets /\ emitted' = emitted
    /\ destroyed => destroyed'
    /\ alive
    /\ server'.attached \in {0} \cup up' /\ server'.attached \in {0, server.attached}
    /\ server'.sessions = server.sessions /\ server'.produced = server.produced
    /\ server'.session \in {0, server.session}
    /\ server'.attached # 0 => server'.session = server.session

\* The line of socket x becomes one of which what matters still holds.
GoesOn(x) ==
    LET old == down[x]
        new == down'[x]
    IN /\ AskingLast(new) /\ Produced(new, server)
       /\ NoReplay(old) => NoReplay(new)
       /\ server'.attached = x => NoneAsks(new)
       /\ x = client'.decoder /\ ~destroyed' /\ alive' =>
            \A seen \in Nat :
                /\ \A awaited : Continues(old, seen, awaited) => Continues(new, seen, awaited)
                /\ server'.attached = x /\ UpTo(old, seen, server) => UpTo(new, seen, server)

\* A line that stays as it is goes on.
LEMMA SameLine ==
    ASSUME GInv, LittleElse, NEW x \in Socket, down'[x] = down[x]
    PROVE  GoesOn(x)
<1>1. AskingLast(down[x]) /\ Produced(down[x], server)
  BY DEF GInv, Lines
<1>2. server'.attached = x => NoneAsks(down[x])
  <2>1. x # 0
    BY Numbers DEF GInv
  <2> QED BY <2>1 DEF GInv, Lines, LittleElse
<1> QED BY <1>1, <1>2 DEF GoesOn

\* The invariant then stays.
LEMMA LinesGoOn ==
    ASSUME GInv, TypeOK', LittleElse, \A x \in Socket : GoesOn(x)
    PROVE  GInv'
<1> USE DEF LittleElse
<1>0. /\ TypeOK /\ Sockets /\ Lines /\ SessionsStarted /\ ReplaysAwaitedNotLive
      /\ InOrder /\ ReplayNotLive
  BY DEF GInv
<1>1. Sockets'
  <2>1. server'.session <= server'.sessions
    BY <1>0, Numbers DEF Sockets
  <2> QED BY <2>1, <1>0 DEF Sockets
<1>2. Lines'
  <2> SUFFICES ASSUME NEW x \in Socket
               PROVE  /\ AskingLast(down'[x]) /\ Produced(down'[x], server')
                      /\ server'.attached = x => NoneAsks(down'[x])
    BY DEF Lines
  <2>1. AskingLast(down'[x]) /\ Produced(down'[x], server)
        /\ (server'.attached = x => NoneAsks(down'[x]))
    BY DEF GoesOn
  <2>2. PICK s \in Server, t \in Server, line \in Seq(Payload) :
            s = server /\ t = server' /\ line = down'[x]
    BY <1>0 DEF TypeOK
  <2>3. Produced(line, t)
    <3>1. /\ s.session <= s.sessions /\ t.sessions = s.sessions /\ s.produced = t.produced
          /\ s.produced \in Nat
          /\ t.session \in {0, s.session}
      BY <2>2, <1>0, Numbers DEF Sockets
    <3> QED BY <3>1, <2>1, <2>2, StillProduced
  <2> QED BY <2>1, <2>2, <2>3
<1>3. SessionsStarted'
  BY <1>0 DEF SessionsStarted
<1>4. ReplaysAwaitedNotLive'
  <2>1. client.decoder # 0 => client.decoder \in Socket
    BY <1>0, Fields
  <2>2. CASE client'.decoder = 0
    BY <2>2 DEF ReplaysAwaitedNotLive
  <2>3. CASE client'.decoder = client.decoder
    BY <2>1, <2>3, <1>0 DEF ReplaysAwaitedNotLive, GoesOn
  <2> QED BY <2>2, <2>3
<1>5. InOrder'
  <2> SUFFICES ASSUME ~destroyed' PROVE EmittedInOrder' /\ ResumesProduced' /\ (alive' => Continuous')
    BY DEF InOrder
  <2>1. ~destroyed /\ EmittedInOrder /\ Continuous
    BY <1>0 DEF InOrder
  <2>2. EmittedInOrder'
    BY <2>1 DEF EmittedInOrder
  <2>3. ASSUME alive', client'.decoder # 0 PROVE Continuous'
    <3>0. client'.decoder = client.decoder
      BY <2>3
    <3> DEFINE seen == SeenOf(client.resumeState)
               awaited == AwaitedOf(client.resumeState, emitted)
               d == client.decoder
    <3>1. seen \in Nat
      BY <1>0, Numbers DEF SeenOf
    <3>2. /\ d # 0 => Continues(down[d], seen, awaited)
          /\ d # 0 /\ server.attached = d =>
                /\ server.session \in awaited /\ seen <= server.produced
                /\ UpTo(down[d], seen, server)
      BY <2>1 DEF Continuous
    <3>3. d # 0 => d \in Socket
      BY <1>0, Fields
    <3> HIDE DEF seen, awaited, d
    <3>4. d # 0 => Continues(down'[d], seen, awaited)
      BY <2>3, <3>0, <3>1, <3>2, <3>3 DEF GoesOn, d
    <3>5. ASSUME d # 0, server'.attached = d
          PROVE  /\ server'.session \in awaited /\ seen <= server'.produced
                 /\ UpTo(down'[d], seen, server')
      <4>1. server.attached = d /\ server'.session = server.session
        BY <3>5
      <4>2. UpTo(down'[d], seen, server)
        BY <2>3, <3>0, <3>1, <3>2, <3>3, <3>5, <4>1 DEF GoesOn, d
      <4> QED BY <3>2, <3>5, <4>1, <4>2 DEF UpTo
    <3>6. client'.resumeState = client.resumeState
      BY <2>3
    <3> QED BY <3>0, <3>4, <3>5, <3>6 DEF Continuous, seen, awaited, d
  <2>4. ResumesProduced'
    <3>1. client.resumeState # Null => client.resumeState.session # 0
      BY <1>0, Numbers
    <3> QED BY <3>1, <1>0 DEF ResumesProduced, InOrder
  <2>5. client'.decoder = 0 => Continuous'
    BY DEF Continuous
  <2> QED BY <2>2, <2>3, <2>4, <2>5
<1>6. ReplayNotLive'
  BY <1>0 DEF ReplayNotLive
<1> QED BY <1>1, <1>2, <1>3, <1>4, <1>5, <1>6 DEF GInv

\* Letting go of a socket changes little else: #reconnect, destroy() and the
\* server hearing no more of it.
LEMMA LetGo ==
    ASSUME GInv, alive, NEW x \in {0} \cup Socket, HangUp(x), sockets' = sockets,
           emitted' = emitted, destroyed => destroyed',
           /\ client'.ws \in {0, client.ws}
           /\ client'.decoder = client.decoder \/ (client'.decoder = 0 /\ client'.ws = 0)
           /\ client'.live = client.live
           /\ \/ client'.resumeState = client.resumeState
              \/ client'.resumeState = Null /\ destroyed',
           client'.state = "DESTROYED" => destroyed'
    PROVE  LittleElse /\ (x # 0 => server'.attached # x)
<1>1. server \in Server /\ server.attached \in {0} \cup up
  BY DEF GInv, TypeOK, Sockets
<1>2. /\ server' = [server EXCEPT !.attached = IF server.attached = x THEN 0 ELSE server.attached]
      /\ up' = up \ {x}
  BY DEF HangUp
<1>3. /\ server'.attached = IF server.attached = x THEN 0 ELSE server.attached
      /\ server'.sessions = server.sessions /\ server'.produced = server.produced
      /\ server'.session = server.session
  BY <1>1, <1>2 DEF Server
<1>4. server'.attached \in {0} \cup up' /\ (x # 0 => server'.attached # x)
  BY <1>1, <1>2, <1>3
<1> QED BY <1>3, <1>4 DEF LittleElse

\* The fields after an error, #reconnect and destroy().
LEMMA FieldsLetGo ==
    ASSUME NEW c \in Client
    PROVE  /\ \A d \in {Disconnected(c), Connecting(Disconnected(c)),
                        [Disconnected(c) EXCEPT !.state = "DESTROYED"]} :
                /\ d.ws = 0 /\ d.decoder = c.decoder /\ d.live = c.live
                /\ d.resumeState = c.resumeState /\ d.crossed = c.crossed
           /\ Disconnected(c).state = c.state
           /\ Connecting(Disconnected(c)).state = "CONNECTING"
  BY DEF Client, Connecting, Disconnected

\* No socket's line changes: the step keeps the invariant.
LEMMA NoLineChanges ==
    ASSUME GInv, TypeOK', LittleElse, down' = down
    PROVE  GInv'
BY SameLine, LinesGoOn

\* One socket's does.
LEMMA OneLineChanges ==
    ASSUME GInv, TypeOK', LittleElse, NEW x \in Socket, NEW line \in Seq(Payload),
           down' = [down EXCEPT ![x] = line], GoesOn(x)
    PROVE  GInv'
<1>1. down \in LinesOfPayloads
  BY Fields DEF GInv
<1>2. \A y \in Socket : y # x => down'[y] = down[y]
  BY <1>1, LineReplaced
<1> QED BY <1>2, SameLine, LinesGoOn

\* A payload that is no event is taken, or an event that is not to be passed
\* on.
LEMMA TakenGoesOn ==
    ASSUME GInv, LittleElse, NEW x \in Socket, down[x] # <<>>, down'[x] = Tail(down[x]),
           IsDispatch(Head(down[x])) /\ x = client'.decoder /\ alive' => destroyed'
    PROVE  GoesOn(x)
<1> DEFINE old == down[x]
<1>1. old \in Seq(Payload) /\ server.produced \in Nat
  BY Fields, Numbers DEF GInv
<1>2. AskingLast(old) /\ Produced(old, server) /\ (server.attached = x => NoneAsks(old))
  BY DEF GInv, Lines
<1>3. x # 0 /\ (server'.attached = x => server.attached = x)
  BY Numbers DEF GInv, LittleElse
<1> HIDE DEF old
<1>4. /\ AskingLast(Tail(old)) /\ Produced(Tail(old), server)
      /\ NoneAsks(old) => NoneAsks(Tail(old))
      /\ NoReplay(old) => NoReplay(Tail(old))
  BY <1>1, <1>2, TakenLine DEF old
<1>5. ASSUME ~IsDispatch(Head(old)), NEW seen \in Nat
      PROVE  /\ \A awaited : Continues(old, seen, awaited) => Continues(Tail(old), seen, awaited)
             /\ UpTo(old, seen, server) => UpTo(Tail(old), seen, server)
  BY <1>1, <1>5, TakenOther DEF old
<1> QED BY <1>2, <1>3, <1>4, <1>5 DEF GoesOn, old

\* A payload that is no event is sent; one that makes the client ask only
\* when nothing follows it.
LEMMA SentGoesOn ==
    ASSUME GInv, LittleElse, NEW x \in Socket, NEW p \in Payload, ~IsDispatch(p),
           down'[x] = Append(down[x], p),
           Asks(p) => server'.attached # x /\ NoneAsks(down[x])
    PROVE  GoesOn(x)
<1> DEFINE old == down[x]
<1>1. old \in Seq(Payload) /\ server.produced \in Nat
  BY Fields, Numbers DEF GInv
<1>2. AskingLast(old) /\ Produced(old, server) /\ (server.attached = x => NoneAsks(old))
  BY DEF GInv, Lines
<1>3. x # 0 /\ (server'.attached = x => server.attached = x)
  BY Numbers DEF GInv, LittleElse
<1> HIDE DEF old
<1>4. /\ (Asks(p) => NoneAsks(old)) => AskingLast(Append(old, p))
      /\ Produced(Append(old, p), server)
      /\ NoneAsks(old) /\ ~Asks(p) => NoneAsks(Append(old, p))
      /\ NoReplay(old) => NoReplay(Append(old, p))
  BY <1>1, <1>2, LongerByOther
<1>5. ASSUME NEW seen \in Nat, NEW awaited, Continues(old, seen, awaited)
      PROVE  /\ Continues(Append(old, p), seen, awaited)
             /\ UpTo(old, seen, server) => UpTo(Append(old, p), seen, server)
  BY <1>1, <1>5, LongerContinues
<1>6. ASSUME NEW seen \in Nat, UpTo(old, seen, server)
      PROVE  UpTo(Append(old, p), seen, server)
  <2>1. /\ Len(old) \in Nat /\ Len(Append(old, p)) = Len(old) + 1
        /\ Append(old, p)[Len(old) + 1] = p
        /\ \A k \in 1..Len(old) : k \in 1..Len(Append(old, p)) /\ Append(old, p)[k] = old[k]
        /\ \A k \in 1..Len(Append(old, p)) : k \in 1..Len(old) \/ k = Len(old) + 1
    BY <1>1, LongerLine
  <2>2. \A k \in 1..Len(Append(old, p)) : IsDispatch(Append(old, p)[k]) =>
            Append(old, p)[k].session = server.session
    BY <2>1, <1>6 DEF UpTo
  <2>3. \A n : HasEvent(old, n) => HasEvent(Append(old, p), n)
    BY <2>1 DEF HasEvent
  <2> QED BY <2>2, <2>3, <1>6 DEF UpTo
<1> QED BY <1>2, <1>3, <1>4, <1>5, <1>6 DEF GoesOn, old

\* The line is lost, with or without the end of the socket after it.
LEMMA LostGoesOn ==
    ASSUME GInv, LittleElse, NEW x \in Socket, server'.attached # x,
           down'[x] = <<>> \/ \E p \in Payload : p.op = "close" /\ down'[x] = <<p>>
    PROVE  GoesOn(x)
<1>1. PICK new \in Seq(Payload) : new = down'[x] /\ Quiet(new)
  <2>1. CASE down'[x] = <<>>
    <3>1. Quiet(<<>>) /\ <<>> \in Seq(Payload)
      BY DEF Quiet
    <3> QED BY <2>1, <3>1
  <2>2. CASE \E p \in Payload : p.op = "close" /\ down'[x] = <<p>>
    <3>1. PICK p \in Payload : p.op = "close" /\ down'[x] = <<p>>
      BY <2>2
    <3>2. <<p>> \in Seq(Payload) /\ Len(<<p>>) = 1 /\ <<p>>[1] = p
      BY ONLY p \in Payload
    <3>3. Quiet(<<p>>)
      BY <3>1, <3>2 DEF Quiet, Asks, IsDispatch
    <3> QED BY <3>1, <3>2, <3>3
  <2> QED BY <2>1, <2>2
<1>2. /\ NoneAsks(new) /\ NoReplay(new)
      /\ \A seen, awaited : Continues(new, seen, awaited)
  BY <1>1, QuietContinues
<1>3. AskingLast(new) /\ Produced(new, server)
  BY <1>1 DEF AskingLast, Produced, Quiet
<1> QED BY <1>1, <1>2, <1>3 DEF GoesOn

-----------------------------------------------------------------------------
(* The steps, one by one. *)
\* The fields from which a method goes on: those of the client, but that a
\* decoder has decoded something or fails from now on.
Decodes(c) ==
    /\ c \in Client /\ c.ws = client.ws /\ c.live = client.live
    /\ c.decoder \in {client.decoder, 0}

\* #reconnect with every line as it was, or the first payload of one taken.
LEMMA ReconnectKeeps ==
    ASSUME GInv, TypeOK', alive, sockets' = sockets, NEW taken, NEW c, Decodes(c),
           c.resumeState = client.resumeState, Reconnect(c, taken)
    PROVE  LittleElse /\ client'.decoder = c.decoder
<1>1. client.ws \in {0} \cup Socket
  BY Fields DEF GInv
<1>2. HangUp(client.ws) /\ emitted' = emitted /\ destroyed' = destroyed
      /\ client' = Connecting(Disconnected(c))
  BY DEF Reconnect, Decodes
<1>3. /\ client'.ws = 0 /\ client'.decoder = c.decoder /\ client'.live = client.live
      /\ client'.resumeState = client.resumeState /\ client'.state = "CONNECTING"
  BY <1>2, FieldsLetGo DEF Decodes
<1> QED BY <1>1, <1>2, <1>3, LetGo DEF Decodes

\* destroy(), called or for a session that cannot be resumed.
LEMMA DestroyedKeeps ==
    ASSUME GInv, TypeOK', alive, sockets' = sockets, NEW taken, NEW c, Decodes(c),
           c.resumeState \in {client.resumeState, Null}, Destroyed(c, taken)
    PROVE  LittleElse
<1>1. client.ws \in {0} \cup Socket
  BY Fields DEF GInv
<1>2. HangUp(client.ws) /\ emitted' = emitted /\ destroyed' = TRUE
      /\ client' = [Disconnected(c) EXCEPT !.state = "DESTROYED"]
  BY DEF Destroyed, Decodes
<1>3. /\ client'.ws = 0 /\ client'.decoder = c.decoder /\ client'.live = client.live
      /\ client'.resumeState = c.resumeState
  BY <1>2, FieldsLetGo DEF Decodes
<1> QED BY <1>1, <1>2, <1>3, LetGo DEF Decodes

\* Nothing that an event to be passed on depends on changes: the timers and
\* the acknowledgements.
LEMMA OtherFields ==
    ASSUME GInv, alive, UNCHANGED <<sockets, emitted, destroyed, up, server>>,
           client'.ws \in {0, client.ws}, client'.decoder = client.decoder,
           client'.live = client.live, client'.resumeState = client.resumeState,
           client'.state \in {client.state, "CONNECTING"}
    PROVE  LittleElse
<1>1. server.attached \in {0} \cup up /\ (client.state = "DESTROYED" => destroyed)
  BY DEF GInv, Sockets
<1>2. server' = server /\ up' = up /\ destroyed' = destroyed
      /\ sockets' = sockets /\ emitted' = emitted
  OBVIOUS
<1>3. server'.attached \in {0} \cup up' /\ server'.attached \in {0, server.attached}
      /\ server'.sessions = server.sessions /\ server'.produced = server.produced
  BY <1>1, <1>2
<1>4. client'.state = "DESTROYED" => destroyed'
  BY <1>1, <1>2
<1> QED BY <1>2, <1>3, <1>4 DEF LittleElse

\* #error: the listener throws, or the socket is let go of.
LEMMA ErrorKeeps ==
    ASSUME GInv, TypeOK', alive, sockets' = sockets, NEW taken, NEW c, Decodes(c),
           c.decoder = client.decoder, c.resumeState = client.resumeState,
           c.state = client.state, Error(c, taken)
    PROVE  LittleElse
<1>1. client.ws \in {0} \cup Socket
  BY Fields DEF GInv
<1>2. emitted' = emitted /\ destroyed' = destroyed
  BY DEF Error
<1>3. CASE client' = c /\ UNCHANGED <<up, server>>
  BY <1>2, <1>3, OtherFields DEF Decodes
<1>4. CASE client' = Disconnected(c) /\ HangUp(c.ws)
  <2>1. /\ client'.ws = 0 /\ client'.decoder = client.decoder /\ client'.live = client.live
        /\ client'.resumeState = client.resumeState /\ client'.state = client.state
    BY <1>4, FieldsLetGo DEF Decodes
  <2>2. HangUp(client.ws) /\ (client'.state = "DESTROYED" => destroyed')
    BY <2>1, <1>2, <1>4 DEF Decodes, GInv, Sockets
  <2> QED BY <1>1, <1>2, <2>1, <2>2, LetGo
<1> QED BY <1>3, <1>4 DEF Error

\* The steps of the client on a payload that it passes on to nobody and that
\* needs no answer of the server.
LEMMA ReceiveOther ==
    ASSUME GInv, TypeOK', NEW x \in Socket, Receive(x), NEW c, Decodes(c),
           c.resumeState = client.resumeState, c.state = client.state,
           LET p == Head(down[x])
               taken == [down EXCEPT ![x] = Tail(@)]
           IN \/ ~IsDispatch(p) /\ Loses(taken)
              \/ c.decoder = client.decoder /\ Error(c, taken)
              \/ /\ IsDispatch(p) => client.state = "DESTROYED"
                 /\ c.decoder = client.decoder /\ Drops(c, taken)
              \/ ~IsDispatch(p) /\ c.decoder = client.decoder /\ Acknowledges(c, taken)
              \/ (IsDispatch(p) => c.decoder = 0) /\ Reconnect(c, taken)
              \/ ~IsDispatch(p) /\ \E d : Starts(d, c) /\ Destroyed(d, taken)
    PROVE  GInv'
<1> DEFINE p == Head(down[x])
           taken == [down EXCEPT ![x] = Tail(@)]
<1>1. TypeOK /\ Sockets /\ alive /\ down[x] # <<>> /\ sockets' = sockets
      /\ client \in Client /\ server \in Server /\ x # 0
  BY Numbers DEF GInv, Receive, TypeOK
<1>2. taken \in LinesOfPayloads /\ taken[x] = Tail(down[x])
  BY <1>1, Taken
<1>3. taken[x] \in Seq(Payload)
  BY <1>2 DEF LinesOfPayloads
<1>4. ASSUME LittleElse, down' = taken,
             IsDispatch(p) /\ x = client'.decoder /\ alive' => destroyed'
      PROVE  GInv'
  <2>1. GoesOn(x)
    BY <1>1, <1>2, <1>4, TakenGoesOn
  <2> QED BY <2>1, <1>2, <1>3, <1>4, OneLineChanges
<1> HIDE DEF p, taken
<1>5. CASE ~IsDispatch(p) /\ Loses(taken)
  <2>1. /\ client'.ws = 0 /\ client'.decoder = client.decoder /\ client'.live = client.live
        /\ client'.resumeState = client.resumeState /\ client'.state = client.state
    BY <1>1, <1>5 DEF Loses, Disconnected, Client
  <2>2. LittleElse
    BY <2>1, <1>1, <1>5, OtherFields DEF Loses
  <2> QED BY <2>2, <1>4, <1>5 DEF Loses
<1>6. CASE c.decoder = client.decoder /\ Error(c, taken)
  <2>1. LittleElse
    BY <1>1, <1>6, ErrorKeeps
  <2> QED BY <2>1, <1>4, <1>6 DEF Error
<1>7. CASE /\ IsDispatch(p) => client.state = "DESTROYED"
           /\ c.decoder = client.decoder /\ Drops(c, taken)
  <2>1. LittleElse
    BY <1>1, <1>7, OtherFields DEF Drops, Decodes
  <2>2. client.state = "DESTROYED" => destroyed'
    BY <1>1, <1>7 DEF Sockets, Drops
  <2> QED BY <2>1, <2>2, <1>4, <1>7 DEF Drops
<1>8. CASE ~IsDispatch(p) /\ c.decoder = client.decoder /\ Acknowledges(c, taken)
  <2>1. /\ client'.ws = client.ws /\ client'.decoder = client.decoder
        /\ client'.live = client.live
        /\ client'.resumeState = client.resumeState /\ client'.state = client.state
    BY <1>1, <1>8 DEF Acknowledges, Client, Decodes
  <2>2. LittleElse
    BY <2>1, <1>1, <1>8, OtherFields DEF Acknowledges
  <2> QED BY <2>2, <1>4, <1>8 DEF Acknowledges
<1>9. CASE (IsDispatch(p) => c.decoder = 0) /\ Reconnect(c, taken)
  <2>1. LittleElse /\ client'.decoder = c.decoder
    BY <1>1, <1>9, ReconnectKeeps
  <2> QED BY <2>1, <1>1, <1>4, <1>9 DEF Reconnect
<1>10. CASE ~IsDispatch(p) /\ \E d : Starts(d, c) /\ Destroyed(d, taken)
  <2>1. PICK d : Starts(d, c) /\ Destroyed(d, taken)
    BY <1>10
  <2>2. Decodes(d) /\ d.resumeState \in {client.resumeState, Null}
    BY <2>1, StartsFields DEF Decodes
  <2>3. LittleElse
    BY <2>1, <2>2, <1>1, DestroyedKeeps
  <2> QED BY <2>1, <2>3, <1>4, <1>10 DEF Destroyed
<1> QED BY <1>5, <1>6, <1>7, <1>8, <1>9, <1>10 DEF p, taken

\* An event is passed on.
LEMMA ReceiveEvent ==
    ASSUME GInv, TypeOK', NEW x \in Socket, Receive(x), x = client.decoder,
           IsDispatch(Head(down[x])), NEW c, Decodes(c), c.decoder = client.decoder,
           c.resumeState = client.resumeState, c.state = client.state,
           Head(down[x]).t = "READY" \/ client.resumeState # Null,
           OnDispatch(c, Head(down[x]), [down EXCEPT ![x] = Tail(@)])
    PROVE  GInv'
<1>0. /\ TypeOK /\ Sockets /\ Lines /\ SessionsStarted /\ ReplaysAwaitedNotLive
      /\ InOrder /\ ReplayNotLive /\ client \in Client
  BY DEF GInv, TypeOK
<1> DEFINE taken == [down EXCEPT ![x] = Tail(@)]
<1>1. PICK p \in Payload : p = Head(down[x])
  BY <1>0, Taken DEF Receive
<1>2. PICK old \in Seq(Payload) : old = down[x] /\ old # <<>>
  BY <1>0, Fields DEF Receive
<1>3. PICK rest \in Seq(Payload) : rest = Tail(old)
  BY <1>2, TailOfLine
<1>4. alive /\ down' = taken /\ UNCHANGED <<sockets, destroyed, alive, up, server>>
  BY DEF Receive, OnDispatch
<1>5. down'[x] = rest /\ \A y \in Socket : y # x => down'[y] = down[y]
  BY <1>0, <1>2, <1>3, <1>4, Taken
<1>6. /\ IsDispatch(p) /\ p.s \in 1..MaxSeq /\ p.session \in Session /\ p.replay \in BOOLEAN
      /\ p.t = "READY" \/ client.resumeState # Null
      /\ MaxSeq \in Nat
  BY <1>1, PayloadFields, <1>0, Numbers
<1>7. /\ client'.ws = client.ws /\ client'.decoder = client.decoder /\ client'.live = client.live
      /\ client'.resumeState # Null /\ client'.resumeState.seq = p.s
      /\ client'.resumeState.session =
            IF p.t = "READY" THEN p.session ELSE client.resumeState.session
      /\ client'.state \in {client.state, "READY"}
  <2>0. OnDispatch(c, p, taken)
    BY <1>1
  <2>1. client' = [c EXCEPT
            !.state = IF p.t = "READY" THEN "READY" ELSE c.state,
            !.resumeState = IF p.t = "READY" THEN [session |-> p.session, seq |-> p.s]
                            ELSE [c.resumeState EXCEPT !.seq = p.s]]
    BY <2>0 DEF OnDispatch
  <2>2. /\ client'.ws = client.ws /\ client'.decoder = client.decoder
        /\ client'.live = client.live /\ client'.state \in {client.state, "READY"}
        /\ client'.resumeState = IF p.t = "READY" THEN [session |-> p.session, seq |-> p.s]
                                 ELSE [client.resumeState EXCEPT !.seq = p.s]
    BY <2>1, <1>0 DEF Client, Decodes
  <2>3. p.s \in 0..MaxSeq
    BY <1>6
  <2>4. ASSUME p.t # "READY"
        PROVE  client.resumeState \in [session: Session, seq: 0..MaxSeq]
    BY <2>4, <1>6, <1>0, Fields
  <2>5. client'.resumeState \in [session: Session, seq: 0..MaxSeq]
    BY <2>2, <2>3, <2>4, <1>6
  <2>6. client'.resumeState # Null
    BY <2>5, GatewayAssumption
  <2> QED BY <2>2, <2>4, <2>6
<1>8. PICK e : /\ e = [s |-> p.s, replay |-> p.replay, live |-> client.live]
               /\ emitted' = [emitted EXCEPT ![p.session] = Append(emitted[p.session], e)]
  BY <1>1 DEF OnDispatch, Decodes
<1>9. /\ \A y \in Session : emitted[y] \in Seq(Event)
      /\ e \in Event
  BY <1>0, <1>6, <1>8, Fields DEF TypeOK, Event
<1>10. PICK passed \in Seq(Event) : passed = emitted[p.session]
  BY <1>6, <1>9
<1>11. /\ emitted'[p.session] = Append(passed, e)
       /\ \A y \in Session : y # p.session => emitted'[y] = emitted[y]
  BY <1>0, <1>6, <1>8, <1>10 DEF TypeOK
<1>12. /\ Len(passed) \in Nat /\ Len(Append(passed, e)) = Len(passed) + 1
       /\ \A k \in 1..Len(passed) : Append(passed, e)[k] = passed[k]
       /\ Append(passed, e)[Len(passed) + 1] = e /\ Append(passed, e) # <<>>
  BY <1>9, AppendProperties, LenProperties
<1>13. /\ AskingLast(old) /\ Produced(old, server)
       /\ server.attached = x => NoneAsks(old)
  BY <1>0, <1>2 DEF Lines
<1>14. /\ AskingLast(rest) /\ Produced(rest, server)
       /\ NoneAsks(old) => NoneAsks(rest)
       /\ NoReplay(old) => NoReplay(rest)
  BY <1>2, <1>3, <1>13, TakenLine
<1>15. /\ p = old[1] /\ 1 \in 1..Len(old)
  BY <1>1, <1>2, TailOfLine
<1>16. /\ p.session <= server.sessions
       /\ p.session = server.session => p.s <= server.produced
  BY <1>6, <1>13, <1>15 DEF Produced
<1>17. Sockets'
  BY <1>0, <1>4, <1>7 DEF Sockets
<1>18. Lines'
  <2> SUFFICES ASSUME NEW y \in Socket
               PROVE  /\ AskingLast(down'[y]) /\ Produced(down'[y], server')
                      /\ server'.attached = y => NoneAsks(down'[y])
    BY DEF Lines
  <2>1. CASE y = x
    BY <2>1, <1>4, <1>5, <1>13, <1>14
  <2>2. CASE y # x
    BY <2>2, <1>0, <1>4, <1>5 DEF Lines
  <2> QED BY <2>1, <2>2
<1>s. ASSUME p.t # "READY", ~destroyed PROVE p.session = client.resumeState.session
  <2>1. Continues(old, SeenOf(client.resumeState), AwaitedOf(client.resumeState, emitted))
    <3>1. x # 0
      BY <1>0, Numbers
    <3> QED BY <3>1, <1>s, <1>0, <1>2, <1>4 DEF InOrder, Continuous
  <2>2. p.session \in AwaitedOf(client.resumeState, emitted)
    BY <2>1, <1>6, <1>15 DEF Continues
  <2> QED BY <2>2, <1>s, <1>6 DEF AwaitedOf
<1>19. SessionsStarted'
  <2>1. ASSUME NEW y \in Session, y > server.sessions PROVE emitted'[y] = <<>>
    <3>1. /\ y \in Nat /\ p.session \in Nat /\ server.sessions \in Nat
          /\ p.session <= server.sessions
      <4>1. Session \subseteq Nat /\ server.sessions \in Nat
        BY <1>0, Numbers
      <4> QED BY <4>1, <1>6, <1>16
    <3>2. y # p.session
      BY <2>1, <3>1
    <3> QED BY <3>2, <2>1, <1>0, <1>11 DEF SessionsStarted
  <2>2. client'.resumeState.session <= server.sessions
    BY <1>0, <1>6, <1>7, <1>16 DEF SessionsStarted
  <2> QED BY <2>1, <2>2, <1>4 DEF SessionsStarted
<1>20. ReplaysAwaitedNotLive'
  BY <1>0, <1>2, <1>5, <1>7, <1>14 DEF ReplaysAwaitedNotLive
<1>21. ReplayNotLive'
  <2> SUFFICES ASSUME NEW y \in Session, NEW k \in 1..Len(emitted'[y]), emitted'[y][k].replay
               PROVE  ~emitted'[y][k].live
    <3>1. \A y \in Session : DOMAIN emitted'[y] = 1..Len(emitted'[y])
      BY LenProperties DEF TypeOK
    <3> QED BY <3>1 DEF ReplayNotLive
  <2>1. \A i \in 1..Len(passed) : passed[i].replay => ~passed[i].live
    <3>1. DOMAIN passed = 1..Len(passed)
      BY LenProperties
    <3> QED BY <3>1, <1>0, <1>6, <1>10 DEF ReplayNotLive
  <2>2. CASE y # p.session
    <3>1. emitted'[y] = emitted[y] /\ DOMAIN emitted[y] = 1..Len(emitted[y])
      BY <2>2, <1>9, <1>11, LenProperties
    <3> QED BY <3>1, <1>0 DEF ReplayNotLive
  <2>3. CASE y = p.session /\ k \in 1..Len(passed)
    BY <2>1, <2>3, <1>11, <1>12
  <2>4. CASE y = p.session /\ k = Len(passed) + 1
    <3>1. emitted'[y][k] = e
      BY <2>4, <1>11, <1>12
    <3>2. x # 0
      BY <1>0, Numbers
    <3>3. p.replay => ~client.live
      BY <3>2, <1>0, <1>2, <1>6, <1>15 DEF ReplaysAwaitedNotLive, NoReplay
    <3> QED BY <3>1, <3>3, <1>8
  <2> QED BY <2>2, <2>3, <2>4, <1>11, <1>12
<1>22. InOrder'
  <2> SUFFICES ASSUME ~destroyed
               PROVE  EmittedInOrder' /\ ResumesProduced' /\ Continuous'
    BY <1>4 DEF InOrder
  <2> DEFINE seen == SeenOf(client.resumeState)
             awaited == AwaitedOf(client.resumeState, emitted)
  <2>0. x # 0 /\ seen \in Nat /\ server.produced \in Nat
    BY <1>0, Numbers DEF SeenOf
  <2>1. /\ EmittedInOrder /\ Continues(old, seen, awaited)
        /\ server.attached = x => /\ server.session \in awaited /\ seen <= server.produced
                                  /\ UpTo(old, seen, server)
    BY <2>0, <1>0, <1>2, <1>4 DEF InOrder, Continuous
  <2> HIDE DEF seen, awaited
  <2>2. /\ p.s = seen + 1 /\ p.session \in awaited
        /\ Continues(rest, seen + 1, {p.session})
        /\ UpTo(old, seen, server) => UpTo(rest, seen + 1, server) /\ p.session = server.session
    BY <2>0, <2>1, <1>1, <1>2, <1>3, <1>6, TakenEvent
  <2>3. client'.resumeState.session = p.session
    BY <1>s, <1>7
  <2>4. Len(passed) = seen
    <3>1. CASE client.resumeState = Null
      BY <3>1, <2>2, <1>10 DEF awaited, seen, AwaitedOf, SeenOf
    <3>2. CASE client.resumeState # Null
      <4>1. p.session = client.resumeState.session
        BY <3>2, <2>2 DEF awaited, AwaitedOf
      <4> QED BY <3>2, <4>1, <2>1, <1>10 DEF EmittedInOrder, seen, SeenOf
    <3> QED BY <3>1, <3>2
  <2>5. EmittedInOrder'
    <3>1. ASSUME NEW y \in Session, NEW k \in 1..Len(emitted'[y]) PROVE emitted'[y][k].s = k
      <4>1. CASE y # p.session
        BY <4>1, <3>1, <2>1, <1>11 DEF EmittedInOrder
      <4>2. CASE y = p.session /\ k \in 1..Len(passed)
        <5>1. emitted'[y][k] = passed[k]
          BY <4>2, <1>11, <1>12
        <5>2. \A i \in 1..Len(passed) : passed[i].s = i
          BY <2>1, <1>6, <1>10 DEF EmittedInOrder
        <5> QED BY <4>2, <5>1, <5>2
      <4>3. CASE y = p.session /\ k = Len(passed) + 1
        BY <4>3, <2>2, <2>4, <1>8, <1>11, <1>12
      <4> QED BY <4>1, <4>2, <4>3, <3>1, <1>11, <1>12
    <3>2. Len(emitted'[client'.resumeState.session]) = client'.resumeState.seq
      BY <2>2, <2>3, <2>4, <1>7, <1>11, <1>12
    <3> QED BY <3>1, <3>2 DEF EmittedInOrder
  <2>6. ResumesProduced'
    BY <2>3, <1>4, <1>7, <1>16 DEF ResumesProduced
  <2>7. Continuous'
    <3>1. SeenOf(client'.resumeState) = seen + 1
      BY <2>2, <1>7 DEF SeenOf
    <3>2. AwaitedOf(client'.resumeState, emitted') = {p.session}
      BY <2>3, <1>7 DEF AwaitedOf
    <3>3. server.attached = x =>
            server.session \in {p.session} /\ seen + 1 <= server.produced /\ UpTo(rest, seen + 1, server)
      BY <2>1, <2>2, <1>16
    <3> QED BY <3>1, <3>2, <3>3, <2>2, <1>4, <1>5, <1>7 DEF Continuous
  <2> QED BY <2>5, <2>6, <2>7
<1> QED BY <1>17, <1>18, <1>19, <1>20, <1>21, <1>22 DEF GInv

\* The client identifies or resumes, and the server answers.
LEMMA ReceiveAsking ==
    ASSUME GInv, TypeOK', NEW x \in Socket, Receive(x), x = client.decoder,
           Asks(Head(down[x])), client.state # "DESTROYED",
           NEW c, Decodes(c), c.decoder = client.decoder,
           c.resumeState \in {client.resumeState, Null},
           ResumeOrIdentify(c, [down EXCEPT ![x] = Tail(@)])
    PROVE  GInv'
<1>0. /\ TypeOK /\ Sockets /\ Lines /\ SessionsStarted /\ ReplaysAwaitedNotLive
      /\ InOrder /\ ReplayNotLive /\ client \in Client /\ server \in Server
  BY DEF GInv, TypeOK
<1>1. PICK taken \in LinesOfPayloads : taken = [down EXCEPT ![x] = Tail(@)]
  BY <1>0, Taken DEF Receive
<1>2. PICK old \in Seq(Payload) : old = down[x] /\ old # <<>>
  BY <1>0, Fields DEF Receive
<1>3. PICK rest \in Seq(Payload) : rest = Tail(old)
  BY <1>2, TailOfLine
<1>4. taken[x] = rest /\ \A y \in Socket : y # x => taken[y] = down[y]
  BY <1>0, <1>1, <1>2, <1>3, Taken
<1>5. PICK resume : resume = c.resumeState /\ resume \in {client.resumeState, Null}
  OBVIOUS
<1>6. /\ c.ws = client.ws /\ c.decoder = client.decoder /\ c \in Client
  BY DEF Decodes
<1>7. /\ client'.ws = client.ws /\ client'.decoder = client.decoder
      /\ client'.resumeState = resume /\ (client'.live => resume = Null)
      /\ client'.state = "IDENTIFYING"
      /\ UNCHANGED <<destroyed, emitted, up, sockets>>
  <2>1. /\ client' = [c EXCEPT !.state = "IDENTIFYING", !.live = c.resumeState = Null]
        /\ ServerAnswers(c.ws, c.resumeState, taken)
        /\ UNCHANGED <<destroyed, emitted, up, sockets>>
    BY <1>1 DEF ResumeOrIdentify, Receive
  <2>2. /\ client'.ws = c.ws /\ client'.decoder = c.decoder
        /\ client'.resumeState = c.resumeState /\ client'.live = (c.resumeState = Null)
        /\ client'.state = "IDENTIFYING"
    BY <2>1, <1>6 DEF Client
  <2> QED BY <2>1, <2>2, <1>5, <1>6
<1>a. ServerAnswers(client.ws, resume, taken)
  BY <1>1, <1>5, <1>6 DEF ResumeOrIdentify
<1>n. /\ client.ws \in {0} \cup Socket /\ client.ws \in {0, x} /\ x # 0 /\ alive
      /\ client'.resumeState = Null \/ client'.resumeState = client.resumeState
  BY <1>0, <1>5, <1>7, Fields, Numbers DEF Sockets, Receive
\* Nothing else is on its way in the socket, which gets no events.
<1>8. Quiet(rest) /\ server.attached # x
  <2>1. AskingLast(old) /\ Produced(old, server) /\ (server.attached = x => NoneAsks(old))
    BY <1>0, <1>2 DEF Lines
  <2>2. Asks(Head(old))
    BY <1>2
  <2> QED BY <2>1, <2>2, <1>2, <1>3, TakenLine
<1>9. /\ NoneAsks(rest) /\ NoReplay(rest) /\ AskingLast(rest) /\ Produced(rest, server)
      /\ \A seen, awaited : Continues(rest, seen, awaited)
  <2>1. AskingLast(rest) /\ Produced(rest, server)
    BY <1>8 DEF Quiet, AskingLast, Produced
  <2> QED BY <2>1, <1>8, QuietContinues
<1>10. \A y \in Socket : /\ AskingLast(down[y]) /\ Produced(down[y], server)
                         /\ server.attached = y => NoneAsks(down[y])
  BY <1>0 DEF Lines
<1>11. server' \in Server /\ server.produced \in Nat /\ server.sessions \in Nat
       /\ server.session \in Nat /\ MaxSeq \in Nat \ {0} /\ Session \subseteq Nat \ {0}
       /\ server.session <= server.sessions
  BY <1>0, Numbers DEF TypeOK, Sockets
<1>12. ReplayNotLive'
  BY <1>0, <1>7 DEF ReplayNotLive
<1>13. ~destroyed' => EmittedInOrder'
  BY <1>0, <1>n, <1>7 DEF InOrder, EmittedInOrder
\* What the answers leave to be shown.
<1>14. ASSUME NEW whole \in Seq(Payload), down'[x] = whole,
              \A y \in Socket : y # x => down'[y] = down[y],
              AskingLast(whole), Produced(whole, server'),
              server'.attached = x => NoneAsks(whole),
              server'.attached \in {x, server.attached},
              server'.session <= server'.sessions, server'.sessions >= server.sessions,
              resume = Null => NoReplay(whole),
              \/ server'.sessions = server.sessions /\ server'.session = server.session
                 /\ server.produced <= server'.produced
              \/ server'.sessions = server.sessions /\ server'.session = 0
              \/ server'.sessions = server.sessions + 1 /\ server'.session = server'.sessions,
              (x = client.ws /\ x \in up) \/ server'.attached # x,
              ~destroyed => /\ ResumesProduced'
                            /\ Continues(whole, SeenOf(resume), AwaitedOf(resume, emitted)),
              ~destroyed /\ server'.attached = x =>
                    /\ server'.session \in AwaitedOf(resume, emitted)
                    /\ SeenOf(resume) <= server'.produced
                    /\ UpTo(whole, SeenOf(resume), server')
       PROVE  GInv'
  <2>1. down'[x] = whole /\ \A y \in Socket : y # x => down'[y] = down[y]
    BY <1>14
  <2>2. Sockets'
    BY <1>0, <1>7, <1>14 DEF Sockets
  <2>3. Lines'
    <3> SUFFICES ASSUME NEW y \in Socket
                 PROVE  /\ AskingLast(down'[y]) /\ Produced(down'[y], server')
                        /\ server'.attached = y => NoneAsks(down'[y])
      BY DEF Lines
    <3>1. CASE y = x
      BY <3>1, <2>1, <1>14
    <3>2. CASE y # x
      <4>1. PICK s \in Server, t \in Server, line \in Seq(Payload) :
                s = server /\ t = server' /\ line = down[y]
        BY <1>0, <1>11, Fields
      <4>2. Produced(line, s) /\ s.session <= s.sessions
            /\ (\/ t.sessions = s.sessions /\ t.session = s.session /\ s.produced <= t.produced
                \/ t.sessions = s.sessions /\ t.session = 0
                \/ t.sessions = s.sessions + 1 /\ t.session = t.sessions)
        BY <4>1, <1>10, <1>11, <1>14
      <4>3. Produced(line, t)
        BY <4>2, StillProduced
      <4> QED BY <3>2, <4>1, <4>3, <2>1, <1>10, <1>14
    <3> QED BY <3>1, <3>2
  <2>4. SessionsStarted'
    <3>1. server'.sessions \in Nat
      BY <1>11, <1>14
    <3>2. \A y \in Session : y > server'.sessions => y > server.sessions
      BY <3>1, <1>11, <1>14
    <3>3. client'.resumeState # Null =>
            client'.resumeState.session \in Nat /\ client'.resumeState.session <= server.sessions
      BY <1>0, <1>n, Numbers DEF SessionsStarted
    <3>4. client'.resumeState # Null => client'.resumeState.session <= server'.sessions
      BY <3>1, <3>3, <1>11, <1>14
    <3> QED BY <3>2, <3>4, <1>0, <1>7 DEF SessionsStarted
  <2>5. ReplaysAwaitedNotLive'
    BY <2>1, <1>7, <1>14 DEF ReplaysAwaitedNotLive
  <2>6. InOrder'
    <3>1. ~destroyed => Continuous'
      BY <2>1, <1>7, <1>14 DEF Continuous
    <3> QED BY <3>1, <1>7, <1>13, <1>14 DEF InOrder
  <2> QED BY <2>2, <2>3, <2>4, <2>5, <2>6, <1>12 DEF GInv
<1>w. ASSUME NEW whole \in Seq(Payload), down' = [taken EXCEPT ![x] = whole]
      PROVE  down'[x] = whole /\ \A y \in Socket : y # x => down'[y] = down[y]
  BY <1>4, <1>w, LineReplaced
<1>15. ASSUME ~destroyed, server'.produced = server.produced,
              server'.session \in {0, server.session}
       PROVE  ResumesProduced'
  <2>1. client'.resumeState # Null => client'.resumeState.session # 0
    BY <1>0, <1>n, Numbers
  <2> QED BY <2>1, <1>0, <1>n, <1>15 DEF ResumesProduced, InOrder
<1>u. 0 \notin up
  BY <1>0, GatewayAssumption DEF TypeOK, Socket
<1>16. CASE Unanswered(taken)
  <2>1. /\ down'[x] = rest /\ server' = server
        /\ \A y \in Socket : y # x => down'[y] = down[y]
    BY <1>4, <1>16 DEF Unanswered
  <2> QED BY <2>1, <1>8, <1>9, <1>11, <1>14, <1>15
<1>17. CASE Refuses(client.ws, taken)
  <2>1. client.ws = x /\ x \in up
    <3>1. client.ws \in up
      BY <1>17 DEF Refuses
    <3> QED BY <3>1, <1>u, <1>n
  <2>2. PICK p \in Payload : p = InvalidSession(FALSE)
    BY <1>17, PayloadsSent
  <2>3. PICK whole \in Seq(Payload) : whole = Append(rest, p)
    BY LongerLine
  <2>4. down' = [taken EXCEPT ![x] = whole]
    BY <2>1, <2>2, <2>3, <1>4, <1>17 DEF Refuses
  <2>5. /\ server'.session = 0 /\ server'.sessions = server.sessions
        /\ server'.produced = server.produced /\ server'.attached = server.attached
    BY <1>0, <1>17 DEF Refuses, Server
  <2>6. ~IsDispatch(p)
    BY <2>2 DEF InvalidSession, IsDispatch
  <2>7. PICK t : t = server'
    OBVIOUS
  <2>8. Produced(rest, t)
    BY <1>8 DEF Produced, Quiet
  <2>9. AskingLast(whole) /\ Produced(whole, t) /\ NoReplay(whole)
    BY <2>3, <2>6, <2>8, <1>9, LongerByOther
  <2>10. \A awaited : Continues(whole, SeenOf(resume), awaited)
    <3>1. PICK seen \in Nat : seen = SeenOf(resume)
      BY <1>0, <1>5, Numbers DEF SeenOf
    <3>2. ASSUME NEW awaited PROVE Continues(whole, seen, awaited)
      <4>1. Continues(rest, seen, awaited)
        BY <1>9
      <4> QED BY <4>1, <2>3, <2>6, <1>11, LongerContinues
    <3> QED BY <3>1, <3>2
  <2>11. down'[x] = whole /\ \A y \in Socket : y # x => down'[y] = down[y]
    BY <2>4, <1>w
  <2> QED BY <2>1, <2>5, <2>7, <2>9, <2>10, <2>11, <1>8, <1>11, <1>14, <1>15
<1>18. CASE resume = Null /\ Identifies(client.ws, taken)
  <2>1. client.ws = x /\ x \in up
    <3>1. client.ws \in up
      BY <1>18 DEF Identifies
    <3> QED BY <3>1, <1>u, <1>n
  <2>2. /\ server'.session = server.sessions + 1 /\ server'.sessions = server.sessions + 1
        /\ server'.produced = 1 /\ server'.attached = x
    BY <2>1, <1>0, <1>18 DEF Identifies, Identified, Server
  <2>3. PICK t \in Server : t = server'
    BY <1>11
  <2>4. PICK p \in Payload : p = Dispatch("READY", t.session, 1, FALSE)
    <3>1. t.session \in Session
      <4>1. t.session \in {0} \cup Session
        BY DEF Server
      <4>2. t.session # 0
        BY <2>2, <2>3, <1>11
      <4> QED BY <4>1, <4>2
    <3>2. Dispatch("READY", t.session, 1, FALSE) \in Payload
      BY <3>1, <1>11 DEF Dispatch, Payload
    <3> QED BY <3>2
  <2>5. IsDispatch(p) /\ p.s = 1 /\ p.session = t.session /\ ~p.replay
    BY <2>4 DEF Dispatch, IsDispatch
  <2>6. PICK whole \in Seq(Payload) : whole = Append(rest, p)
    BY LongerLine
  <2>7. down' = [taken EXCEPT ![x] = whole]
    BY <2>1, <2>2, <2>3, <2>4, <2>6, <1>4, <1>18 DEF Identifies
  <2>8. /\ Len(rest) \in Nat /\ Len(whole) = Len(rest) + 1
        /\ \A k \in 1..Len(rest) : whole[k] = rest[k]
        /\ whole[Len(rest) + 1] = p
        /\ \A k \in 1..Len(whole) : k \in 1..Len(rest) \/ k = Len(rest) + 1
    BY <2>6, LongerLine
  <2>9. t.session \in AwaitedOf(resume, emitted)
    <3>1. t.session \in Session /\ t.session > server.sessions
      BY <2>2, <2>3, <1>11 DEF Server
    <3>2. emitted[t.session] = <<>>
      BY <3>1, <1>0 DEF SessionsStarted
    <3> QED BY <3>1, <3>2, <1>18 DEF AwaitedOf
  <2>10. Longer(rest, whole, 1, t.session) /\ NoLater(rest, whole, 1, 1)
         /\ Following(rest, whole, 1, 0)
    <3>1. \A k \in 1..1 : k = 1
      OBVIOUS
    <3>2. Longer(rest, whole, 1, t.session)
      BY <3>1, <2>5, <2>8 DEF Longer
    <3>3. NoLater(rest, whole, 1, 1)
      BY <3>1, <2>5, <2>8 DEF NoLater
    <3>4. Following(rest, whole, 1, 0)
      BY <3>1, <2>5, <2>8 DEF Following
    <3> QED BY <3>2, <3>3, <3>4
  <2>11. PICK awaited : awaited = AwaitedOf(resume, emitted)
    OBVIOUS
  <2>12. /\ AskingLast(whole) /\ NoneAsks(whole) /\ Produced(whole, t)
         /\ Continues(whole, 0, awaited) /\ UpTo(whole, 0, t)
    <3>1. PICK q \in Nat, n \in Nat : q = 0 /\ n = 1 /\ t.produced = q + n /\ t.produced = 1
      BY <2>2, <2>3
    <3>2. t.session <= t.sessions
      BY <2>2, <2>3, <1>11
    <3>3. AskingLast(whole) /\ NoneAsks(whole) /\ Produced(whole, t)
      BY <3>1, <3>2, <2>10, <1>8, AnsweredLine
    <3>4. Longer(rest, whole, n, t.session) /\ Following(rest, whole, n, q)
      BY <3>1, <2>10
    <3>5. Continues(whole, q, awaited) /\ UpTo(whole, q, t)
      BY <3>1, <3>4, <2>9, <2>11, <1>8, AnsweredInOrder
    <3> QED BY <3>1, <3>3, <3>5
  <2>13. NoReplay(whole)
    BY <2>5, <2>8, <1>9 DEF NoReplay
  <2>14. SeenOf(resume) = 0 /\ ResumesProduced'
    BY <1>18, <1>7 DEF SeenOf, ResumesProduced
  <2>15. down'[x] = whole /\ \A y \in Socket : y # x => down'[y] = down[y]
    BY <2>7, <1>w
  <2> QED BY <2>1, <2>2, <2>3, <2>9, <2>11, <2>12, <2>13, <2>14, <2>15, <1>11, <1>14
<1>19. CASE Resumes(client.ws, resume, taken)
  <2>1. client.ws = x /\ x \in up
    <3>1. client.ws \in up
      BY <1>19 DEF Resumes
    <3> QED BY <3>1, <1>u, <1>n
  <2>2. /\ resume = client.resumeState /\ resume # Null /\ resume \in [session: Session, seq: 0..MaxSeq]
        /\ server.session = resume.session /\ server.produced < MaxSeq
    BY <1>0, <1>5, <1>19, Fields DEF Resumes
  <2>3. /\ server'.session = server.session /\ server'.sessions = server.sessions
        /\ server'.produced = server.produced + 1 /\ server'.attached = x
    BY <2>1, <1>0, <1>19 DEF Resumes, Server
  <2>4. PICK t \in Server : t = server'
    BY <1>11
  <2>5. PICK whole : whole = rest \o Replay(resume) \o
                        <<Dispatch("RESUMED", resume.session, server.produced + 1, TRUE)>>
    OBVIOUS
  <2>6. down' = [taken EXCEPT ![x] = whole]
    BY <2>1, <2>5, <1>4, <1>19 DEF Resumes
  <2>7. whole \in Seq(Payload)
    BY <2>2, <2>5, <1>0, ReplayedLine
  <2>8. PICK n \in Nat :
            /\ Longer(rest, whole, n, resume.session)
            /\ NoLater(rest, whole, n, server.produced + 1)
            /\ resume.seq <= server.produced =>
                /\ server.produced + 1 = resume.seq + n
                /\ Following(rest, whole, n, resume.seq)
    BY <2>2, <2>5, <1>0, ReplayedLine
  <2>9. /\ t.session = resume.session /\ t.session <= t.sessions
        /\ t.produced = server.produced + 1 /\ resume.seq \in Nat
    BY <2>2, <2>3, <2>4, <1>11
  <2>l. Longer(rest, whole, n, t.session) /\ NoLater(rest, whole, n, t.produced)
    <3>1. Longer(rest, whole, n, resume.session)
      BY <2>8
    <3>2. NoLater(rest, whole, n, server.produced + 1)
      BY <2>8
    <3>3. Longer(rest, whole, n, t.session)
      BY <3>1, <2>9
    <3>4. NoLater(rest, whole, n, t.produced)
      BY <3>2, <2>9
    <3> QED BY <3>3, <3>4
  <2>10. AskingLast(whole) /\ NoneAsks(whole) /\ Produced(whole, t)
    BY <2>7, <2>9, <2>l, <1>8, AnsweredLine
  <2>11. PICK awaited : awaited = AwaitedOf(resume, emitted)
    OBVIOUS
  <2>12. t.session \in awaited /\ SeenOf(resume) = resume.seq
    BY <2>2, <2>9, <2>11 DEF AwaitedOf, SeenOf
  <2>13. ASSUME ~destroyed
         PROVE  /\ ResumesProduced' /\ resume.seq <= t.produced
                /\ Continues(whole, resume.seq, awaited) /\ UpTo(whole, resume.seq, t)
    <3>1. resume.seq <= server.produced
      BY <2>2, <2>13, <1>0 DEF InOrder, ResumesProduced
    <3>2. Continues(whole, resume.seq, awaited) /\ UpTo(whole, resume.seq, t)
      <4>0. PICK q \in Nat : q = resume.seq
        BY <2>9
      <4>1. t.produced = q + n /\ Following(rest, whole, n, q)
        BY <4>0, <3>1, <2>8, <2>9
      <4>2. Continues(whole, q, awaited) /\ UpTo(whole, q, t)
        BY <4>1, <2>7, <2>l, <2>12, <1>8, AnsweredInOrder
      <4> QED BY <4>0, <4>2
    <3>3. ResumesProduced' /\ resume.seq <= t.produced
      BY <3>1, <2>3, <2>9, <1>7, <1>11 DEF ResumesProduced
    <3> QED BY <3>2, <3>3
  <2>14. down'[x] = whole /\ \A y \in Socket : y # x => down'[y] = down[y]
    BY <2>6, <2>7, <1>w
  <2> QED BY <2>1, <2>2, <2>3, <2>4, <2>7, <2>9, <2>10, <2>11, <2>12, <2>13, <2>14, <1>11, <1>14
<1> QED BY <1>0, <1>5, <1>a, <1>16, <1>17, <1>18, <1>19, <1>n, Answers

\* A new socket replaces the one before.
LEMMA ConnectedKeeps ==
    ASSUME GInv, TypeOK', Connected
    PROVE  GInv'
<1>0. /\ TypeOK /\ Sockets /\ Lines /\ SessionsStarted /\ ReplaysAwaitedNotLive
      /\ InOrder /\ ReplayNotLive /\ client \in Client
  BY DEF GInv, TypeOK
<1>1. PICK x \in Socket : x = sockets + 1 /\ sockets' = x /\ sockets \in Nat
  BY <1>0, Numbers, GatewayAssumption DEF Connected, Socket
<1>2. PICK p \in Payload : p = [op |-> "Hello"]
  BY PayloadsSent
<1>3. PICK line \in Seq(Payload) :
        line = <<[op |-> "Hello"]>> /\ Len(line) = 1 /\ line[1] = [op |-> "Hello"]
  <2>1. <<p>> \in Seq(Payload) /\ Len(<<p>>) = 1 /\ <<p>>[1] = p
    BY ONLY p \in Payload
  <2> QED BY <2>1, <1>2
<1>4. down'[x] = line /\ \A y \in Socket : y # x => down'[y] = down[y]
  <2>1. down' = [down EXCEPT ![x] = line] /\ down \in LinesOfPayloads
    BY <1>0, <1>1, <1>3, Fields DEF Connected
  <2> QED BY <2>1, LineReplaced
<1>5. /\ AskingLast(line) /\ NoReplay(line) /\ \A s : Produced(line, s)
      /\ \A seen, awaited : Continues(line, seen, awaited)
  <2>1. \A k \in 1..Len(line) : ~IsDispatch(line[k])
    BY <1>3 DEF IsDispatch
  <2>2. \A k \in 1..Len(line) : \A j \in k + 1..Len(line) : FALSE
    BY <1>3
  <2> QED BY <2>1, <2>2 DEF AskingLast, NoReplay, Produced, Continues
<1>6. /\ client'.ws = x /\ client'.decoder = x /\ client'.live = client.live
      /\ client'.resumeState = client.resumeState /\ client'.state = client.state
      /\ up' = up \cup {x} /\ UNCHANGED <<alive, destroyed, emitted, server>>
  BY <1>0, <1>1 DEF Connected, Client
<1>7. server.attached # x
  <2>1. server.attached \in {0} \cup up /\ up \subseteq 1..sockets
    BY <1>0 DEF TypeOK, Sockets
  <2>2. x \notin {0} \cup 1..sockets
    BY <1>1
  <2> QED BY <2>1, <2>2
<1>8. Sockets'
  BY <1>0, <1>1, <1>6 DEF Sockets
<1>9. Lines'
  <2> SUFFICES ASSUME NEW y \in Socket
               PROVE  /\ AskingLast(down'[y]) /\ Produced(down'[y], server')
                      /\ server'.attached = y => NoneAsks(down'[y])
    BY DEF Lines
  <2>1. CASE y = x
    BY <2>1, <1>4, <1>5, <1>6, <1>7
  <2>2. CASE y # x
    BY <2>2, <1>0, <1>4, <1>6 DEF Lines
  <2> QED BY <2>1, <2>2
<1>10. SessionsStarted' /\ ReplayNotLive'
  BY <1>0, <1>6 DEF SessionsStarted, ReplayNotLive
<1>11. ReplaysAwaitedNotLive'
  BY <1>4, <1>5, <1>6 DEF ReplaysAwaitedNotLive
<1>12. InOrder'
  <2>1. ~destroyed => EmittedInOrder' /\ ResumesProduced'
    BY <1>0, <1>6 DEF InOrder, EmittedInOrder, ResumesProduced
  <2>2. Continuous'
    BY <1>4, <1>5, <1>6, <1>7 DEF Continuous
  <2> QED BY <2>1, <2>2, <1>6 DEF InOrder
<1> QED BY <1>8, <1>9, <1>10, <1>11, <1>12 DEF GInv

\* The server produces an event.
LEMMA ProduceKeeps ==
    ASSUME GInv, TypeOK', Produce
    PROVE  GInv'
<1>0. /\ TypeOK /\ Sockets /\ Lines /\ SessionsStarted /\ ReplaysAwaitedNotLive
      /\ InOrder /\ ReplayNotLive /\ server \in Server /\ client \in Client
  BY DEF GInv, TypeOK
<1>1. PICK s \in Server, t \in Server : s = server /\ t = server'
  BY <1>0 DEF TypeOK
<1>2. /\ t.produced = s.produced + 1 /\ t.session = s.session /\ t.sessions = s.sessions
      /\ t.attached = s.attached /\ s.produced \in Nat /\ s.session <= s.sessions
      /\ s.session # 0 /\ alive /\ UNCHANGED <<client, alive, destroyed, emitted, sockets, up>>
  BY <1>0, <1>1, Numbers DEF Produce, Server, Sockets, UnchangedClient
<1>3. PICK p : p = Dispatch("event", s.session, t.produced, FALSE) /\ down' = SendTo(s.attached, p)
  BY <1>1 DEF Produce
<1>4. p \in Payload /\ IsDispatch(p) /\ ~p.replay /\ p.s = t.produced /\ p.session = t.session
  <2>1. s.session \in Session /\ t.produced \in 1..MaxSeq
    <3>1. s.session \in {0} \cup Session /\ t.produced \in 0..MaxSeq
      BY DEF Server
    <3> QED BY <3>1, <1>2
  <2> QED BY <2>1, <1>2, <1>3 DEF Dispatch, Payload, IsDispatch
<1>5. \A y \in Socket : /\ down[y] \in Seq(Payload) /\ Produced(down[y], s) /\ AskingLast(down[y])
                        /\ s.attached = y => NoneAsks(down[y])
  BY <1>0, <1>1, Fields DEF Lines
<1>6. \A y \in Socket : y # s.attached => down'[y] = down[y]
  <2>1. CASE s.attached = 0
    BY <2>1, <1>3 DEF SendTo
  <2>2. CASE s.attached # 0
    BY <2>2, <1>3 DEF SendTo, TypeOK
  <2> QED BY <2>1, <2>2
<1>7. ASSUME NEW x \in Socket, x = s.attached PROVE down'[x] = Append(down[x], p)
  <2>1. x # 0 /\ down \in LinesOfPayloads
    BY <1>0, Numbers, Fields
  <2> QED BY <2>1, <1>3, <1>7 DEF SendTo, LinesOfPayloads
<1>8. ASSUME NEW x \in Socket, x = s.attached
      PROVE  /\ AskingLast(down'[x]) /\ NoneAsks(down'[x]) /\ Produced(down'[x], t)
             /\ NoReplay(down[x]) => NoReplay(down'[x])
             /\ \A seen \in Nat : UpTo(down[x], seen, s) => UpTo(down'[x], seen, t)
  <2>1. PICK line \in Seq(Payload) : line = down[x]
    BY <1>5
  <2>2. AskingLast(line) /\ NoneAsks(line) /\ Produced(line, s)
    BY <2>1, <1>5, <1>8
  <2>3. down'[x] = Append(line, p)
    BY <2>1, <1>7, <1>8
  <2> QED BY <2>1, <2>2, <2>3, <1>2, <1>4, LongerByEvent
<1>9. \A y \in Socket : Produced(down[y], t)
  <2> TAKE y \in Socket
  <2>1. PICK line \in Seq(Payload) : line = down[y] /\ Produced(line, s)
    BY <1>5
  <2>2. Produced(line, t)
    BY <2>1, <1>2, StillProduced
  <2> QED BY <2>1, <2>2
<1>10. Sockets'
  BY <1>0, <1>1, <1>2 DEF Sockets
<1>11. Lines'
  <2> SUFFICES ASSUME NEW y \in Socket
               PROVE  /\ AskingLast(down'[y]) /\ Produced(down'[y], t)
                      /\ t.attached = y => NoneAsks(down'[y])
    BY <1>1 DEF Lines
  <2>1. CASE y = s.attached
    BY <2>1, <1>8
  <2>2. CASE y # s.attached
    BY <2>2, <1>2, <1>5, <1>6, <1>9
  <2> QED BY <2>1, <2>2
<1>12. SessionsStarted' /\ ReplayNotLive'
  BY <1>0, <1>1, <1>2 DEF SessionsStarted, ReplayNotLive
<1>13. ReplaysAwaitedNotLive'
  <2>1. client.decoder # 0 => client.decoder \in Socket
    BY <1>0, Fields
  <2> QED BY <2>1, <1>0, <1>2, <1>6, <1>8 DEF ReplaysAwaitedNotLive
<1>14. InOrder'
  <2> SUFFICES ASSUME ~destroyed PROVE EmittedInOrder' /\ ResumesProduced' /\ Continuous'
    BY <1>2 DEF InOrder
  <2>1. EmittedInOrder'
    BY <1>0, <1>2 DEF InOrder, EmittedInOrder
  <2>2. ResumesProduced'
    <3>1. client.resumeState # Null => client.resumeState.seq \in Nat
      BY <1>0, Numbers
    <3> QED BY <3>1, <1>0, <1>1, <1>2 DEF InOrder, ResumesProduced
  <2>3. ASSUME client.decoder # 0
        PROVE  LET d == client.decoder
                   seen == SeenOf(client.resumeState)
                   awaited == AwaitedOf(client.resumeState, emitted)
               IN /\ Continues(down'[d], seen, awaited)
                  /\ t.attached = d => /\ t.session \in awaited /\ seen <= t.produced
                                       /\ UpTo(down'[d], seen, t)
    <3>1. PICK d \in Socket : d = client.decoder
      BY <2>3, <1>0, Fields
    <3>2. PICK seen \in Nat : seen = SeenOf(client.resumeState)
      BY <1>0, Numbers DEF SeenOf
    <3>3. PICK awaited : awaited = AwaitedOf(client.resumeState, emitted)
      OBVIOUS
    <3>4. PICK line \in Seq(Payload) : line = down[d]
      BY <1>5
    <3>5. /\ Continues(line, seen, awaited)
          /\ s.attached = d => s.session \in awaited /\ seen <= s.produced /\ UpTo(line, seen, s)
      BY <2>3, <3>1, <3>2, <3>3, <3>4, <1>0, <1>1, <1>2 DEF InOrder, Continuous
    <3>6. CASE s.attached # d
      BY <3>1, <3>2, <3>3, <3>4, <3>5, <3>6, <1>2, <1>6
    <3>7. CASE s.attached = d
      <4>1. down'[d] = Append(line, p) /\ Produced(line, s)
        BY <3>4, <3>7, <1>5, <1>7
      <4>2. Continues(Append(line, p), seen, awaited)
        BY <3>5, <3>7, <4>1, <1>2, <1>4, LongerContinues
      <4>3. UpTo(down'[d], seen, t)
        BY <3>4, <3>5, <3>7, <1>8
      <4>4. seen <= t.produced /\ t.session \in awaited
        BY <3>5, <3>7, <1>2
      <4> QED BY <3>1, <3>2, <3>3, <4>1, <4>2, <4>3, <4>4
    <3> QED BY <3>6, <3>7
  <2>4. Continuous'
    BY <2>3, <1>1, <1>2 DEF Continuous
  <2> QED BY <2>1, <2>2, <2>4
<1> QED BY <1>10, <1>11, <1>12, <1>13, <1>14 DEF GInv

\* The server asks the client to resume or to connect again.
LEMMA SentKeeps ==
    ASSUME GInv, TypeOK', LittleElse, NEW p \in Payload, ~IsDispatch(p),
           down' = SendTo(server.attached, p), Asks(p) => server'.attached = 0
    PROVE  GInv'
<1>0. TypeOK /\ Lines
  BY DEF GInv
<1>1. CASE server.attached = 0
  BY <1>1, NoLineChanges DEF SendTo
<1>2. CASE server.attached # 0
  <2>1. PICK x \in Socket : x = server.attached /\ x # 0
    BY <1>0, <1>2, Fields
  <2>2. down[x] \in Seq(Payload) /\ NoneAsks(down[x]) /\ down \in LinesOfPayloads
    BY <2>1, <1>0, Fields DEF Lines
  <2>3. PICK line \in Seq(Payload) : line = Append(down[x], p)
    BY <2>2, LongerLine
  <2>4. down' = [down EXCEPT ![x] = line]
    BY <2>1, <2>3, <1>2 DEF SendTo
  <2>5. down'[x] = Append(down[x], p)
    <3>1. down'[x] = line
      BY <2>2, <2>4 DEF LinesOfPayloads
    <3> QED BY <3>1, <2>3
  <2>6. GoesOn(x)
    BY <2>1, <2>2, <2>5, SentGoesOn
  <2> QED BY <2>4, <2>6, OneLineChanges
<1> QED BY <1>1, <1>2

\* A heartbeat is sent, or was not acknowledged.
LEMMA HeartbeatKeeps ==
    ASSUME GInv, TypeOK', Heartbeat
    PROVE  GInv'
<1>0. TypeOK /\ Sockets /\ client \in Client /\ alive /\ sockets' = sockets
  BY DEF GInv, TypeOK, Heartbeat
<1>1. CASE Reconnect(client, down)
  <2>1. LittleElse /\ down' = down
    BY <1>0, <1>1, ReconnectKeeps DEF Reconnect, Decodes
  <2> QED BY <2>1, NoLineChanges
<1>2. CASE ~Reconnect(client, down)
  <2>1. /\ client' = [client EXCEPT !.wasHeartbeatAcknowledged = FALSE]
        /\ down' = IF client.ws \notin up THEN down
                   ELSE [down EXCEPT ![client.ws] = Append(@, [op |-> "HeartbeatAck"])]
        /\ UNCHANGED <<emitted, destroyed, up, server>>
    BY <1>2 DEF Heartbeat
  <2>2. /\ client'.ws = client.ws /\ client'.decoder = client.decoder
        /\ client'.live = client.live
        /\ client'.resumeState = client.resumeState /\ client'.state = client.state
    BY <2>1, <1>0 DEF Client
  <2>3. LittleElse
    BY <2>1, <2>2, <1>0, OtherFields
  <2>4. CASE client.ws \notin up
    BY <2>1, <2>3, <2>4, NoLineChanges
  <2>5. CASE client.ws \in up
    <3>1. PICK x \in Socket : x = client.ws
      <4>1. client.ws \in {0} \cup Socket
        BY <1>0, Fields
      <4>2. client.ws \in 1..sockets
        BY <2>5, <1>0 DEF TypeOK
      <4>3. client.ws # 0
        BY <4>2
      <4> QED BY <4>1, <4>3
    <3>2. PICK p \in Payload : p = [op |-> "HeartbeatAck"]
      BY PayloadsSent
    <3>3. ~IsDispatch(p) /\ ~Asks(p)
      BY <3>2 DEF IsDispatch, Asks
    <3>4. down[x] \in Seq(Payload) /\ down \in LinesOfPayloads
      BY <1>0, Fields
    <3>5. PICK line \in Seq(Payload) : line = Append(down[x], p)
      BY <3>4, LongerLine
    <3>6. down' = [down EXCEPT ![x] = line]
      BY <2>1, <2>5, <3>1, <3>2, <3>5
    <3>7. down'[x] = Append(down[x], p)
      <4>1. down'[x] = line
        BY <3>4, <3>6 DEF LinesOfPayloads
      <4> QED BY <4>1, <3>5
    <3>8. GoesOn(x)
      BY <2>3, <3>3, <3>7, SentGoesOn
    <3> QED BY <2>3, <3>6, <3>8, OneLineChanges
  <2> QED BY <2>4, <2>5
<1> QED BY <1>1, <1>2

\* A socket closes, breaks or goes dead.
LEMMA LostKeeps ==
    ASSUME GInv, TypeOK', NEW x \in Socket, Close(x) \/ FallSilent(x)
    PROVE  GInv'
<1>0. TypeOK /\ Sockets /\ Lines /\ alive /\ x # 0
  BY Numbers DEF GInv, Close, FallSilent, Trouble
<1>1. HangUp(x) /\ UNCHANGED <<client, alive, destroyed, emitted, sockets>>
  BY DEF Close, FallSilent, Trouble, UnchangedClient
<1>2. LittleElse /\ server'.attached # x
  <2>1. client.ws \in {0} \cup Socket /\ x \in {0} \cup Socket
    BY Fields DEF GInv
  <2> QED BY <1>0, <1>1, LetGo DEF Sockets, LittleElse
<1>3. down[x] \in Seq(Payload) /\ down \in LinesOfPayloads /\ <<>> \in Seq(Payload)
  BY <1>0, Fields
<1>4. CASE FallSilent(x)
  <2>1. down' = [down EXCEPT ![x] = <<>>] /\ down'[x] = <<>>
    <3>1. down' = [down EXCEPT ![x] = <<>>]
      BY <1>4 DEF FallSilent
    <3> QED BY <3>1, <1>3 DEF LinesOfPayloads
  <2>2. GoesOn(x)
    BY <2>1, <1>2, LostGoesOn
  <2> QED BY <2>1, <2>2, <1>2, <1>3, OneLineChanges
<1>5. CASE Close(x)
  <2>1. PICK kept \in {down[x], <<>>}, fatal \in BOOLEAN :
            down' = [down EXCEPT ![x] = Append(kept, [op |-> "close", fatal |-> fatal])]
    BY <1>5 DEF Close
  <2>2. PICK p \in Payload : p = [op |-> "close", fatal |-> fatal] /\ p.op = "close"
    BY PayloadsSent
  <2>3. PICK line \in Seq(Payload) : line = Append(kept, p)
    BY <1>3, LongerLine
  <2>4. down' = [down EXCEPT ![x] = line] /\ down'[x] = line
    <3>1. down' = [down EXCEPT ![x] = line]
      BY <2>1, <2>2, <2>3
    <3> QED BY <3>1, <1>3 DEF LinesOfPayloads
  <2>5. CASE kept = down[x]
    <3>1. ~IsDispatch(p) /\ ~Asks(p)
      BY <2>2 DEF IsDispatch, Asks
    <3>2. GoesOn(x)
      BY <2>3, <2>4, <2>5, <3>1, <1>2, SentGoesOn
    <3> QED BY <2>4, <3>2, <1>2, OneLineChanges
  <2>6. CASE kept = <<>>
    <3>1. line = <<p>>
      BY <2>3, <2>6
    <3>2. GoesOn(x)
      BY <2>2, <2>4, <3>1, <1>2, LostGoesOn
    <3> QED BY <2>4, <3>2, <1>2, OneLineChanges
  <2> QED BY <2>5, <2>6
<1> QED BY <1>4, <1>5

-----------------------------------------------------------------------------
(* The invariant. *)
\* It holds before the first connection.
LEMMA InitInv == Init => GInv
<1> SUFFICES ASSUME Init PROVE GInv
  OBVIOUS
<1>1. /\ client.ws = 0 /\ client.decoder = 0 /\ client.resumeState = Null
      /\ client.state = "CONNECTING" /\ ~destroyed /\ alive /\ sockets = 0 /\ up = {}
      /\ server.sessions = 0 /\ server.session = 0 /\ server.attached = 0 /\ server.produced = 0
      /\ \A y \in Session : emitted[y] = <<>>
      /\ \A x \in Socket : down[x] = <<>>
  BY DEF Init
<1>2. TypeOK
  <2>1. client \in Client
    BY DEF Init, Client
  <2>2. server \in Server
    BY GatewayAssumption DEF Init, Server
  <2>3. <<>> \in Seq(Event) /\ <<>> \in Seq(Payload)
    OBVIOUS
  <2>4. emitted \in [Session -> Seq(Event)] /\ down \in [Socket -> Seq(Payload)]
    BY <2>3 DEF Init
  <2>5. alive \in BOOLEAN /\ destroyed \in BOOLEAN
    BY DEF Init
  <2>6. sockets \in {0} \cup Socket /\ up \subseteq 1..sockets /\ trouble \in 0..MaxTrouble
    BY GatewayAssumption DEF Init
  <2> QED BY <2>1, <2>2, <2>4, <2>5, <2>6 DEF TypeOK
<1>3. Sockets /\ SessionsStarted /\ ReplaysAwaitedNotLive /\ ReplayNotLive
  BY <1>1 DEF Sockets, SessionsStarted, ReplaysAwaitedNotLive, ReplayNotLive
<1>4. Lines
  <2>1. \A x \in Socket : x # 0
    BY GatewayAssumption DEF Socket
  <2> QED BY <2>1, <1>1 DEF Lines, AskingLast, Produced
<1>5. InOrder
  BY <1>1 DEF InOrder, EmittedInOrder, ResumesProduced, Continuous
<1> QED BY <1>2, <1>3, <1>4, <1>5 DEF GInv

\* What is done on a payload that was decoded does not change that a decoder
\* began with another's stream.
LEMMA TakesUncrossed ==
    ASSUME NEW c \in Client, NEW p \in Payload, NEW taken, Takes(c, p, taken)
    PROVE  client'.crossed = c.crossed
<1>1. CASE Error(c, taken) \/ Reconnect(c, taken)
  BY <1>1, FieldsLetGo DEF Error, Reconnect
<1>2. CASE Drops(c, taken) \/ Acknowledges(c, taken)
  BY <1>2 DEF Drops, Acknowledges, Client
<1>3. CASE OnDispatch(c, p, taken)
  BY <1>3 DEF OnDispatch, Client
<1>4. ASSUME NEW d, Starts(d, c), ResumeOrIdentify(d, taken) \/ Destroyed(d, taken)
      PROVE  client'.crossed = c.crossed
  <2>1. d \in Client /\ d.crossed = c.crossed
    BY <1>4, StartsFields
  <2>2. CASE ResumeOrIdentify(d, taken)
    BY <2>1, <2>2 DEF ResumeOrIdentify, Client
  <2>3. CASE Destroyed(d, taken)
    BY <2>1, <2>3, FieldsLetGo DEF Destroyed
  <2> QED BY <2>2, <2>3, <1>4
<1> QED BY <1>1, <1>2, <1>3, <1>4 DEF Takes

\* Every step keeps it.
LEMMA StepInv == GInv /\ [Next]_vars /\ ~client'.crossed => GInv'
<1> SUFFICES ASSUME GInv, [Next]_vars, ~client'.crossed PROVE GInv'
  OBVIOUS
<1>0. TypeOK /\ Sockets /\ client \in Client /\ server \in Server
  BY DEF GInv, TypeOK
<1>t. TypeOK'
  BY <1>0, StepTyped
<1>1. CASE Connected
  BY <1>1, <1>t, ConnectedKeeps
<1>2. CASE ReconnectTimeout
  <2>1. /\ client'.ws = client.ws /\ client'.decoder = client.decoder
        /\ client'.live = client.live
        /\ client'.resumeState = client.resumeState /\ client'.state = "CONNECTING"
    BY <1>0, <1>2 DEF ReconnectTimeout, Connecting, Client
  <2>2. LittleElse /\ down' = down
    BY <2>1, <1>2, OtherFields DEF ReconnectTimeout
  <2> QED BY <2>2, <1>t, NoLineChanges
<1>3. CASE Heartbeat
  BY <1>3, <1>t, HeartbeatKeeps
<1>4. CASE Destroy
  <2>1. LittleElse /\ down' = down
    <3>1. Destroyed(client, down) /\ alive /\ sockets' = sockets
      BY <1>4 DEF Destroy
    <3> QED BY <3>1, <1>0, <1>t, DestroyedKeeps DEF Destroyed, Decodes
  <2> QED BY <2>1, <1>t, NoLineChanges
<1>5. ASSUME NEW x \in Socket, Receive(x) PROVE GInv'
  <2> DEFINE p == Head(down[x])
             taken == [down EXCEPT ![x] = Tail(@)]
  <2>1. p \in Payload
    BY <1>0, <1>5, Taken DEF Receive
  <2>2. CASE ~IsDispatch(p) /\ (Loses(taken) \/ Error(client, taken) \/ Drops(client, taken))
    <3>1. Decodes(client)
      BY <1>0 DEF Decodes
    <3> QED BY <2>2, <3>1, <1>5, <1>t, ReceiveOther
  <2>3. CASE Reconnect([client EXCEPT !.decoder = 0], taken)
    <3>1. PICK c : c = [client EXCEPT !.decoder = 0]
      OBVIOUS
    <3>2. /\ Decodes(c) /\ c.decoder = 0 /\ c.resumeState = client.resumeState
          /\ c.state = client.state
      BY <3>1, <1>0 DEF Decodes, Client
    <3>3. Reconnect(c, taken)
      BY <2>3, <3>1
    <3> HIDE DEF taken
    <3> QED BY <3>2, <3>3, <1>5, <1>t, ReceiveOther DEF taken
  <2>4. CASE Takes(Decoded(x), p, taken)
    <3>1. PICK c : c = Decoded(x)
      OBVIOUS
    <3> HIDE DEF p, taken
    <3>2. /\ c \in Client /\ c.ws = client.ws /\ c.live = client.live
          /\ c.resumeState = client.resumeState /\ c.state = client.state
          /\ c.decoder = x /\ c.crossed = (client.crossed \/ x # client.decoder)
      BY <3>1, <1>0, DecodedFields
    <3>3. Takes(c, p, taken)
      BY <2>4, <3>1
    <3>4. ~c.crossed
      BY <2>1, <3>2, <3>3, TakesUncrossed
    <3>5. Decodes(c) /\ c.decoder = client.decoder /\ x = client.decoder
      BY <3>2, <3>4 DEF Decodes
    <3>6. CASE IsDispatch(p) /\ (p.t = "READY" \/ c.resumeState # Null) /\ OnDispatch(c, p, taken)
      BY <3>2, <3>5, <3>6, <1>5, <1>t, ReceiveEvent DEF p, taken
    <3>7. CASE /\ Asks(p) /\ c.state # "DESTROYED"
               /\ \E d : Starts(d, c) /\ ResumeOrIdentify(d, taken)
      <4>1. PICK d : Starts(d, c) /\ ResumeOrIdentify(d, taken)
        BY <3>7
      <4>2. Decodes(d) /\ d.decoder = client.decoder /\ d.resumeState \in {client.resumeState, Null}
        BY <4>1, <3>2, <3>5, StartsFields DEF Decodes
      <4> QED BY <4>1, <4>2, <3>2, <3>5, <3>7, <1>5, <1>t, ReceiveAsking DEF p, taken
    <3>8. CASE \/ Error(c, taken)
               \/ (IsDispatch(p) => c.state = "DESTROYED") /\ Drops(c, taken)
               \/ ~IsDispatch(p) /\ Acknowledges(c, taken)
               \/ ~IsDispatch(p) /\ Reconnect(c, taken)
               \/ ~IsDispatch(p) /\ \E d : Starts(d, c) /\ Destroyed(d, taken)
      BY <3>2, <3>5, <3>8, <1>5, <1>t, ReceiveOther DEF p, taken
    <3> QED BY <3>3, <3>6, <3>7, <3>8 DEF Takes
  <2> QED BY <2>2, <2>3, <2>4, <1>0, <1>5, Receives
<1>6. ASSUME NEW x \in Socket, Close(x) \/ FallSilent(x) PROVE GInv'
  BY <1>6, <1>t, LostKeeps
<1>7. CASE Produce
  BY <1>7, <1>t, ProduceKeeps
<1>8. CASE AskReconnect
  <2>1. PICK p \in Payload : p = [op |-> "Reconnect"]
    BY PayloadsSent
  <2>2. ~IsDispatch(p) /\ ~Asks(p)
    BY <2>1 DEF IsDispatch, Asks
  <2>3. alive /\ UNCHANGED <<client, destroyed, emitted, sockets, up, server>>
    BY <1>8 DEF AskReconnect, Trouble, UnchangedClient
  <2>4. LittleElse
    BY <2>3, <1>0, OtherFields DEF Sockets
  <2>5. down' = SendTo(server.attached, p)
    BY <2>1, <1>8 DEF AskReconnect
  <2> QED BY <2>2, <2>4, <2>5, <1>t, SentKeeps
<1>9. ASSUME NEW resumable \in BOOLEAN, EndSession(resumable) PROVE GInv'
  <2>1. PICK p \in Payload : p = InvalidSession(resumable)
    BY PayloadsSent
  <2>2. ~IsDispatch(p)
    BY <2>1 DEF IsDispatch, InvalidSession
  <2>3. /\ alive /\ UNCHANGED <<client, destroyed, emitted, sockets, up>>
        /\ server'.attached = 0 /\ server'.sessions = server.sessions
        /\ server'.produced = server.produced /\ server'.session \in {0, server.session}
    BY <1>0, <1>9 DEF EndSession, Trouble, UnchangedClient, Server
  <2>4. LittleElse
    <3>1. client.state = "DESTROYED" => destroyed
      BY <1>0 DEF Sockets
    <3> QED BY <2>3, <3>1 DEF LittleElse
  <2>5. down' = SendTo(server.attached, p)
    BY <2>1, <1>9 DEF EndSession
  <2> QED BY <2>2, <2>3, <2>4, <2>5, <1>t, SentKeeps
<1>10. CASE UNCHANGED vars
  BY <1>10 DEF vars, GInv, TypeOK, Sockets, Lines, SessionsStarted, ReplaysAwaitedNotLive,
              InOrder, EmittedInOrder, ResumesProduced, Continuous, ReplayNotLive
<1> QED BY <1>1, <1>2, <1>3, <1>4, <1>5, <1>6, <1>7, <1>8, <1>9, <1>10 DEF Next

\* That a decoder began with another's stream is never forgotten.
LEMMA StaysCrossed ==
    ASSUME TypeOK, [Next]_vars, client.crossed
    PROVE  client'.crossed
<1>0. client \in Client
  BY DEF TypeOK
<1>1. ASSUME NEW c \in Client, NEW taken, c.crossed,
             Reconnect(c, taken) \/ Destroyed(c, taken) \/ Error(c, taken)
      PROVE  client'.crossed
  BY <1>1, FieldsLetGo DEF Reconnect, Destroyed, Error
<1>2. CASE Connected
  BY <1>0, <1>2 DEF Connected, Client
<1>3. CASE ReconnectTimeout
  BY <1>0, <1>3 DEF ReconnectTimeout, Connecting, Client
<1>4. CASE Heartbeat
  <2>1. client'.crossed \/ Reconnect(client, down)
    BY <1>0, <1>4 DEF Heartbeat, Client
  <2> QED BY <2>1, <1>0, <1>1
<1>5. CASE Destroy
  BY <1>0, <1>1, <1>5 DEF Destroy
<1>6. ASSUME NEW x \in Socket, Receive(x) PROVE client'.crossed
  <2> DEFINE p == Head(down[x])
             taken == [down EXCEPT ![x] = Tail(@)]
  <2>1. p \in Payload
    BY <1>6, Taken DEF Receive
  <2> HIDE DEF p, taken
  <2>2. CASE Loses(taken)
    BY <2>2, <1>0 DEF Loses, Disconnected, Client
  <2>3. CASE Error(client, taken) \/ Drops(client, taken)
    BY <2>3, <1>0, <1>1 DEF Drops
  <2>4. CASE Reconnect([client EXCEPT !.decoder = 0], taken)
    <3>1. PICK c : c = [client EXCEPT !.decoder = 0]
      OBVIOUS
    <3>2. c \in Client /\ c.crossed
      BY <3>1, <1>0 DEF Client
    <3> QED BY <2>4, <3>1, <3>2, <1>1
  <2>5. CASE Takes(Decoded(x), p, taken)
    <3>1. Decoded(x) \in Client /\ Decoded(x).crossed
      BY <1>0, DecodedFields
    <3> QED BY <2>1, <2>5, <3>1, TakesUncrossed
  <2> QED BY <2>2, <2>3, <2>4, <2>5, <1>6, Receives DEF p, taken
<1>7. CASE UNCHANGED client
  BY <1>7
<1> QED BY <1>2, <1>3, <1>4, <1>5, <1>6, <1>7
        DEF Next, vars, Close, FallSilent, Produce, AskReconnect, EndSession, Trouble,
            UnchangedClient

\* The invariant holds in every state until a decoder begins with another's
\* stream; the types do even then.
UntilCrossed == TypeOK /\ (client.crossed \/ GInv)

THEOREM GatewayInvariant == Spec => []UntilCrossed
<1>1. Init => UntilCrossed
  BY InitInv DEF UntilCrossed, GInv
<1>2. UntilCrossed /\ [Next]_vars => UntilCrossed'
  BY StepTyped, StepInv, StaysCrossed DEF UntilCrossed
<1> QED BY <1>1, <1>2, PTL DEF Spec

\* Every variable keeps its type: no event passes for one of a session that
\* was never started, nor is a payload read for one of another kind.
THEOREM GatewayTypeCorrect == Spec => []TypeOK
<1>1. UntilCrossed => TypeOK
  BY DEF UntilCrossed
<1> QED BY <1>1, GatewayInvariant, PTL

\* The listener gets every event of a session exactly once and in order,
\* across any number of lost connections, reconnects and resumes, until
\* destroy() is called or a decoder begins with another's stream (#onPayload
\* and #resumeOrIdentify).
THEOREM EventsAlwaysInOrder == Spec => []DispatchedInOrder
<1>1. UntilCrossed => DispatchedInOrder
  <2> SUFFICES ASSUME TypeOK, GInv, ~destroyed, NEW y \in Session, NEW k \in DOMAIN emitted[y]
               PROVE  emitted[y][k].s = k
    BY DEF DispatchedInOrder, UntilCrossed
  <2>1. k \in 1..Len(emitted[y])
    <3>1. emitted[y] \in Seq(Event)
      BY DEF TypeOK
    <3> QED BY <3>1, LenProperties
  <2> QED BY <2>1 DEF GInv, InOrder, EmittedInOrder
<1> QED BY <1>1, GatewayInvariant, PTL

\* An event that the server replays after a resume is never passed on as a
\* live one, even when destroy() raced with the connection, until a decoder
\* begins with another's stream (#live).
THEOREM ReplaysNeverLive == Spec => [](~client.crossed => ReplayNotLive)
<1>1. UntilCrossed => (~client.crossed => ReplayNotLive)
  BY DEF UntilCrossed, GInv
<1> QED BY <1>1, GatewayInvariant, PTL
=============================================================================
