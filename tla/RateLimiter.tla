---------------------------- MODULE RateLimiter ----------------------------
(***************************************************************************)
(* The class of src/src/util/rate-limiter.ts, which spaces out the REST    *)
(* requests of an account (49 a second) and the payloads sent through a    *)
(* gateway connection (120 a minute).                                      *)
(*                                                                         *)
(* Calls of whenFree are numbered in order; a call is granted when its     *)
(* promise resolves.  Time passes in units; a timer never fires early and  *)
(* may fire late when the event loop is busy.                              *)
(***************************************************************************)
EXTENDS Integers, Sequences

CONSTANTS
    Never,      \* the time of what is not due
    limit, interval,
    MaxCalls,   \* bound on the calls of whenFree
    LastCall,   \* bound on the time of the last call
    MaxLate     \* bound on how late a timer may fire

ASSUME RateAssumption ==
    /\ limit \in Nat \ {0} /\ interval \in Nat
    /\ {MaxCalls, LastCall, MaxLate} \subseteq Nat
    /\ Never \notin Nat

VARIABLES
    now,
    lastTimestamps,
    pending,        \* the calls that wait
    timer,          \* when the timeout for executeFirstPending is due, or Never
    calls,          \* how many calls there were
    granted         \* the calls granted, with their times, in order

rateVars == <<now, lastTimestamps, pending, timer, calls, granted>>

Grant == [call: Nat, at: Nat]

RateTypeOK ==
    /\ now \in Nat /\ calls \in Nat
    /\ lastTimestamps \in Seq(Nat)
    /\ pending \in Seq(Nat)
    /\ timer \in Nat \cup {Never}
    /\ granted \in Seq(Grant)

RateInit ==
    /\ now = 0 /\ calls = 0
    /\ lastTimestamps = <<>> /\ pending = <<>> /\ granted = <<>>
    /\ timer = Never

-----------------------------------------------------------------------------
\* The loop at the start of whenFree drops the first k timestamps.
Recent(k) == lastTimestamps[k] + interval >= now

Prunes(k) ==
    /\ \A j \in 1..k : ~Recent(j)
    /\ k < Len(lastTimestamps) => Recent(k + 1)

Rest(k) == SubSeq(lastTimestamps, k + 1, Len(lastTimestamps))

\* Mutant: a call may overtake those that wait.
WhenFreeOvertaking ==
    /\ calls < MaxCalls /\ now <= LastCall
    /\ calls' = calls + 1
    /\ \E k \in 0..Len(lastTimestamps) :
        /\ Prunes(k)
        /\ IF Len(Rest(k)) < limit
           THEN /\ lastTimestamps' = Append(Rest(k), now)
                /\ granted' = Append(granted, [call |-> calls', at |-> now])
                /\ UNCHANGED <<pending, timer>>
           ELSE /\ timer' = IF pending = <<>> THEN Head(Rest(k)) + interval ELSE timer
                /\ lastTimestamps' = IF pending = <<>> THEN Tail(Rest(k)) ELSE Rest(k)
                /\ pending' = Append(pending, calls')
                /\ UNCHANGED granted
    /\ UNCHANGED now

WhenFree ==
    /\ calls < MaxCalls /\ now <= LastCall
    /\ calls' = calls + 1
    /\ \E k \in 0..Len(lastTimestamps) :
        /\ Prunes(k)
        /\ \/ /\ Len(Rest(k)) < limit /\ pending = <<>>
              /\ lastTimestamps' = Append(Rest(k), now)
              /\ granted' = Append(granted, [call |-> calls', at |-> now])
              /\ UNCHANGED <<pending, timer>>
           \/ /\ Len(Rest(k)) >= limit /\ pending = <<>>
              /\ timer' = Head(Rest(k)) + interval
              /\ lastTimestamps' = Tail(Rest(k))
              /\ pending' = <<calls'>>
              /\ UNCHANGED granted
           \/ /\ pending # <<>>
              /\ lastTimestamps' = Rest(k)
              /\ pending' = Append(pending, calls')
              /\ UNCHANGED <<timer, granted>>
    /\ UNCHANGED now

\* Mutant: sets no timeout for the rest.
ExecuteFirstPendingOnce ==
    /\ timer # Never /\ timer <= now
    /\ granted' = Append(granted, [call |-> Head(pending), at |-> now])
    /\ pending' = Tail(pending)
    /\ timer' = Never
    /\ lastTimestamps' = Append(lastTimestamps, now)
    /\ UNCHANGED <<now, calls>>

\* Mutant: the interval is forgotten.
ExecuteFirstPendingAtOnce ==
    /\ timer # Never /\ timer <= now
    /\ granted' = Append(granted, [call |-> Head(pending), at |-> now])
    /\ pending' = Tail(pending)
    /\ timer' = IF pending' = <<>> THEN Never ELSE Head(lastTimestamps) - now
    /\ lastTimestamps' = Append(lastTimestamps, now)
    /\ UNCHANGED <<now, calls>>

\* #executeFirstPending
ExecuteFirstPending ==
    /\ timer # Never /\ timer <= now
    /\ granted' = Append(granted, [call |-> Head(pending), at |-> now])
    /\ pending' = Tail(pending)
    /\ LET timestamps == Append(lastTimestamps, now)
       IN IF pending' # <<>>
          THEN /\ timer' = Head(timestamps) + interval
               /\ lastTimestamps' = Tail(timestamps)
          ELSE /\ timer' = Never
               /\ lastTimestamps' = timestamps
    /\ UNCHANGED <<now, calls>>

Tick ==
    /\ timer # Never => now < timer + MaxLate
    /\ now' = now + 1
    /\ UNCHANGED <<lastTimestamps, pending, timer, calls, granted>>

-----------------------------------------------------------------------------
RateNext == WhenFree \/ ExecuteFirstPending \/ Tick

RateSpec == RateInit /\ [][RateNext]_rateVars

-----------------------------------------------------------------------------
(* The class comment: at most limit times every interval.  However late    *)
(* timers fire and whatever calls prune in the meantime, limit + 1 grants  *)
(* in a row span at least the interval.                                    *)
RateLimited ==
    \A k \in DOMAIN granted :
        k + limit \in DOMAIN granted => granted[k + limit].at >= granted[k].at + interval

(* The comment on whenFree: earlier calls are granted first, and a call    *)
(* that finds room does not overtake those that wait.                      *)
GrantedInOrder ==
    /\ \A k \in DOMAIN granted : granted[k].call = k
    /\ \A k \in DOMAIN pending : pending[k] = Len(granted) + k
============================================================================
