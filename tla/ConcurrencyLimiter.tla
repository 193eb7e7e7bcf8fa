------------------------- MODULE ConcurrencyLimiter -------------------------
(***************************************************************************)
(* The class of src/src/util/concurrency-limiter.ts: callbacks of which at *)
(* most maxOngoingOperations may have an unsettled promise, the others     *)
(* waiting in a queue from which an abort signal can remove them.          *)
(*                                                                         *)
(* #queue is a JavaScript Set, which iterates in insertion order: it is a  *)
(* set here, and turn tells the order in which runWhenFree was called.     *)
(* A promise settles in one step and its onSettled handler runs in a later *)
(* one, a microtask; any other call may come in between.                   *)
(***************************************************************************)
EXTENDS Integers, FiniteSets

CONSTANTS
    Op,                     \* the calls of runWhenFree
    maxOngoingOperations,
    Signal,                 \* abort signals
    SignalOf,               \* the signal passed in each call, or NoSignal
    NoSignal

ASSUME LimiterAssumption ==
    /\ IsFiniteSet(Op)
    /\ maxOngoingOperations \in Nat \ {0}
    /\ SignalOf \in [Op -> Signal \cup {NoSignal}]

VARIABLES
    ongoingOperations,
    queue,      \* the calls that wait
    state,      \* of each call
    turn,       \* the place of each call in the order of calls
    calls,      \* how many calls there were
    aborted     \* the signals that fired

limiterVars == <<ongoingOperations, queue, state, turn, calls, aborted>>

\* A running callback's promise is unsettled; the slot of a settled one is
\* still taken until onSettled has run.
Started == {"running", "settled", "over"}
State == {"idle", "queued", "dropped"} \cup Started

LimiterTypeOK ==
    /\ ongoingOperations \in 0..maxOngoingOperations
    /\ queue \subseteq Op
    /\ state \in [Op -> State]
    /\ turn \in [Op -> Nat]
    /\ calls \in Nat
    /\ aborted \subseteq Signal

Init ==
    /\ ongoingOperations = 0
    /\ queue = {}
    /\ state = [op \in Op |-> "idle"]
    /\ turn = [op \in Op |-> 0]
    /\ calls = 0
    /\ aborted = {}

-----------------------------------------------------------------------------
RunWhenFree(op) ==
    /\ state[op] = "idle"
    /\ turn' = [turn EXCEPT ![op] = calls]
    /\ calls' = calls + 1
    /\ \/ /\ ongoingOperations < maxOngoingOperations
          /\ ongoingOperations' = ongoingOperations + 1
          /\ state' = [state EXCEPT ![op] = "running"]
          /\ UNCHANGED queue
       \/ /\ ongoingOperations >= maxOngoingOperations
          /\ queue' = queue \cup {op}
          /\ state' = [state EXCEPT ![op] = "queued"]
          /\ UNCHANGED ongoingOperations
    /\ UNCHANGED aborted

\* The promise of the callback settles.
Settle(op) ==
    /\ state[op] = "running"
    /\ state' = [state EXCEPT ![op] = "settled"]
    /\ UNCHANGED <<ongoingOperations, queue, turn, calls, aborted>>

\* Mutant: the queue is a stack.
FirstIsLast(op) == op \in queue /\ \A other \in queue : turn[op] >= turn[other]

\* `this.#queue.values().next()`
First(op) == op \in queue /\ \A other \in queue : turn[op] <= turn[other]

\* Mutant: gives the slot back although the next operation got it.
OnSettledFreesTwice(op) ==
    /\ state[op] = "settled"
    /\ ongoingOperations' = ongoingOperations - 1
    /\ \/ \E next \in queue :
            /\ First(next)
            /\ queue' = queue \ {next}
            /\ state' = [state EXCEPT ![op] = "over", ![next] = "running"]
       \/ queue = {} /\ state' = [state EXCEPT ![op] = "over"] /\ UNCHANGED queue
    /\ UNCHANGED <<turn, calls, aborted>>

\* Mutant: does not look for the next operation.
OnSettledForgetsQueue(op) ==
    /\ state[op] = "settled"
    /\ state' = [state EXCEPT ![op] = "over"]
    /\ ongoingOperations' = ongoingOperations - 1
    /\ UNCHANGED <<queue, turn, calls, aborted>>

\* The slot goes to the first of the queue, or is given back.
OnSettled(op) ==
    /\ state[op] = "settled"
    /\ \/ \E next \in queue :
            /\ First(next)
            /\ queue' = queue \ {next}
            /\ state' = [state EXCEPT ![op] = "over", ![next] = "running"]
            /\ UNCHANGED ongoingOperations
       \/ /\ queue = {}
          /\ state' = [state EXCEPT ![op] = "over"]
          /\ ongoingOperations' = ongoingOperations - 1
          /\ UNCHANGED queue
    /\ UNCHANGED <<turn, calls, aborted>>

\* A signal fires once and takes the calls that wait with it off the queue;
\* their promises stay pending.
Abort(signal) ==
    LET dropped == {op \in queue : SignalOf[op] = signal}
    IN /\ signal \notin aborted
       /\ aborted' = aborted \cup {signal}
       /\ queue' = queue \ dropped
       /\ state' = [op \in Op |-> IF op \in dropped THEN "dropped" ELSE state[op]]
       /\ UNCHANGED <<ongoingOperations, turn, calls>>

Next ==
    \/ \E op \in Op : RunWhenFree(op) \/ Settle(op) \/ OnSettled(op)
    \/ \E signal \in Signal : Abort(signal)

Spec == Init /\ [][Next]_limiterVars

\* Node runs every microtask; that each callback's promise settles is up to
\* the callers, whose callbacks only wait for what is sure to come.
Fairness == \A op \in Op : WF_limiterVars(Settle(op)) /\ WF_limiterVars(OnSettled(op))

FairSpec == Spec /\ Fairness

-----------------------------------------------------------------------------
Busy == {op \in Op : state[op] \in {"running", "settled"}}

(* The counter is the number of operations that hold a slot, so never more *)
(* than maxOngoingOperations run: slots handed from one operation to the   *)
(* next, aborts and calls between a promise's settling and its handler     *)
(* neither leak a slot nor count one twice.                                *)
SlotsExact ==
    /\ ongoingOperations = Cardinality(Busy)
    /\ Cardinality(Busy) <= maxOngoingOperations

(* Nobody waits while a slot is free.                                      *)
NoIdleSlot == queue # {} => ongoingOperations = maxOngoingOperations

(* Calls start in the order they were made: none starts, from the queue or *)
(* right away, while an earlier one still waits.                           *)
FirstComeFirstServed ==
    \A early, late \in Op :
        state[early] = "queued" /\ state[late] \in Started => turn[late] < turn[early]

(* Every call that has to wait is started in the end, unless it is aborted. *)
EveryoneServed ==
    \A op \in Op : state[op] = "queued" ~> state[op] \in {"running", "dropped"}
=============================================================================
