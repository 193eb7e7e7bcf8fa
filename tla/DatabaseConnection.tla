------------------------- MODULE DatabaseConnection -------------------------
(***************************************************************************)
(* AsyncDatabaseConnection of src/src/db/index.ts and the worker thread of *)
(* src/src/db/worker.ts behind it: single requests, transactions and       *)
(* close(), the two message ports, the queue of promise callbacks, and the *)
(* SQLite transaction the worker keeps between two requests.               *)
(*                                                                         *)
(* A transaction's callback makes some requests and may await in between.  *)
(* A promise that is rejected kills the process, because no caller handles *)
(* the rejection and archiver/index.ts rethrows unhandled ones.            *)
(***************************************************************************)
EXTENDS Integers, FiniteSets, Sequences

CONSTANTS
    Null,
    Tx,          \* calls of transaction()
    Single,      \* requests made outside any transaction
    Closes,      \* calls of close(): SIGINT, SIGTERM and a lost last account
    Size,        \* bound on the requests in one transaction
    MaxFailures, \* bound on the requests that fail in the worker
    MayDie       \* whether callbacks may throw and the process be killed

ASSUME ConnectionAssumption ==
    /\ IsFiniteSet(Tx \cup Single \cup Closes)
    /\ Tx \cap (Single \cup Closes) = {} /\ Single \cap Closes = {}
    /\ Size \in Nat \ {0} /\ MaxFailures \in Nat /\ MayDie \in BOOLEAN

VARIABLES
    ongoingOperations, queue, state, turn, calls, aborted,  \* #transactionLimiter
    made,           \* how many requests each transaction or single request made
    callbackQueue,  \* requests whose promises are pending
    errored,        \* the connection is known to be closed
    inbox,          \* requests posted to the worker
    listening,      \* the worker still handles messages
    open,           \* SQLite: a transaction is open
    uncommitted,    \* SQLite: requests done in the open transaction
    durable,        \* SQLite: requests done and committed
    failed,         \* requests that threw in the worker
    outbox,         \* answers posted to the main thread
    process         \* the process runs, is about to die, or is dead

limiter == <<ongoingOperations, queue, state, turn, calls, aborted>>
main == <<made, callbackQueue, errored>>
database == <<open, uncommitted, durable, failed>>
vars == <<limiter, main, inbox, listening, database, outbox, process>>

Limiter == INSTANCE ConcurrencyLimiter WITH
    Op <- Tx \cup Closes, maxOngoingOperations <- 1,
    Signal <- {}, SignalOf <- [op \in Tx \cup Closes |-> Null], NoSignal <- Null

Request == [type: {"begin", "body", "commit", "close"},
            by: Tx \cup Single \cup Closes, n: 0..Size]
Req(type, by, n) == [type |-> type, by |-> by, n |-> n]

Answer == [to: Request, error: BOOLEAN]

TypeOK ==
    /\ Limiter!LimiterTypeOK
    /\ made \in [Tx \cup Single -> 0..Size]
    /\ callbackQueue \in Seq(Request) /\ inbox \in Seq(Request)
    /\ outbox \in Seq(Answer)
    /\ {errored, listening, open} \subseteq BOOLEAN
    /\ uncommitted \cup durable \cup failed \subseteq Request
    /\ process \in {"running", "dying", "dead"}

Init ==
    /\ Limiter!Init
    /\ made = [x \in Tx \cup Single |-> 0]
    /\ callbackQueue = <<>> /\ inbox = <<>> /\ outbox = <<>>
    /\ listening = TRUE /\ errored = FALSE /\ open = FALSE
    /\ uncommitted = {} /\ durable = {} /\ failed = {}
    /\ process = "running"

-----------------------------------------------------------------------------
(* The main thread. *)
Worker == <<listening, database, outbox>>

\* Mutant: the newest promise is the first in the queue.
PostFirst(req) ==
    IF errored
    THEN process' = "dying" /\ UNCHANGED <<callbackQueue, inbox>>
    ELSE /\ callbackQueue' = <<req>> \o callbackQueue
         /\ inbox' = Append(inbox, req)
         /\ UNCHANGED process

\* request()
Post(req) ==
    IF errored
    THEN process' = "dying" /\ UNCHANGED <<callbackQueue, inbox>>
    ELSE /\ callbackQueue' = Append(callbackQueue, req)
         /\ inbox' = Append(inbox, req)
         /\ UNCHANGED process

\* The limiter calls the callback of a transaction or a close: up to its
\* first await, it makes one request.
Enters(op) == state'[op] = "running" /\ state[op] # "running"

\* Mutant: no BEGIN.
EnterWithoutBegin ==
    \/ /\ \A op \in Closes : ~Enters(op)
       /\ UNCHANGED <<callbackQueue, inbox, process>>
    \/ \E op \in Closes : Enters(op) /\ Post(Req("close", op, 0))

Enter ==
    \/ /\ \A op \in Tx \cup Closes : ~Enters(op)
       /\ UNCHANGED <<callbackQueue, inbox, process>>
    \/ \E op \in Tx : Enters(op) /\ Post(Req("begin", op, 0))
    \/ \E op \in Closes : Enters(op) /\ Post(Req("close", op, 0))

\* Mutant: close() does not go through the limiter.
CallCloseNow(op) ==
    /\ process = "running"
    /\ \/ op \in Tx /\ Limiter!RunWhenFree(op)
       \/ /\ op \in Closes /\ state[op] = "idle"
          /\ turn' = [turn EXCEPT ![op] = calls] /\ calls' = calls + 1
          /\ state' = [state EXCEPT ![op] = "running"]
          /\ UNCHANGED <<ongoingOperations, queue, aborted>>
    /\ Enter
    /\ UNCHANGED <<made, errored, Worker>>

Call(op) ==
    /\ process = "running"
    /\ Limiter!RunWhenFree(op)
    /\ Enter
    /\ UNCHANGED <<made, errored, Worker>>

OnSettled(op) ==
    /\ process = "running"
    /\ Limiter!OnSettled(op)
    /\ Enter
    /\ UNCHANGED <<made, errored, Worker>>

\* The callback of a transaction makes its next request.
RequestInTransaction(t) ==
    /\ process = "running"
    /\ state[t] = "running" /\ made[t] < Size
    /\ made' = [made EXCEPT ![t] = @ + 1]
    /\ Post(Req("body", t, made[t] + 1))
    /\ UNCHANGED <<limiter, errored, Worker>>

\* The callback has ended.
Commit(t) ==
    /\ process = "running"
    /\ t \in Tx
    /\ Limiter!Settle(t)
    /\ Post(Req("commit", t, 0))
    /\ UNCHANGED <<made, errored, Worker>>

\* The callback of close() does not wait for its request.
CloseSettles(c) ==
    /\ process = "running"
    /\ c \in Closes
    /\ Limiter!Settle(c)
    /\ UNCHANGED <<main, inbox, process, Worker>>

RequestAlone(r) ==
    /\ process = "running"
    /\ made[r] = 0
    /\ made' = [made EXCEPT ![r] = 1]
    /\ Post(Req("body", r, 1))
    /\ UNCHANGED <<limiter, errored, Worker>>

\* The callback throws: there is no commit, and no rollback either.
CallbackThrows(t) ==
    /\ process = "running" /\ MayDie
    /\ state[t] = "running"
    /\ process' = "dying"
    /\ UNCHANGED <<limiter, main, inbox, Worker>>

\* The worker's "message" event: the answer settles the oldest promise.
Receive ==
    /\ process = "running" /\ outbox # <<>>
    /\ outbox' = Tail(outbox)
    /\ callbackQueue' = Tail(callbackQueue)
    /\ process' = IF Head(outbox).error THEN "dying" ELSE process
    /\ UNCHANGED <<limiter, made, errored, inbox, listening, database>>

\* The worker's "exit" event, after its last message: the promise of the
\* CLOSE request is resolved, those of later requests are rejected.
Exit ==
    /\ process = "running" /\ ~errored
    /\ ~listening /\ outbox = <<>>
    /\ errored' = TRUE
    /\ callbackQueue' = <<>>
    /\ process' = IF Len(callbackQueue) > 1 THEN "dying" ELSE process
    /\ UNCHANGED <<limiter, made, inbox, Worker>>

-----------------------------------------------------------------------------
(* The worker, which outlives the main thread's failure by a moment. *)
\* Mutant: an answer that is no error leaves the field null.
ReplyNoFlag(req, error) ==
    outbox' = Append(outbox, [to |-> req, error |-> IF error THEN TRUE ELSE Null])

Reply(req, error) == outbox' = Append(outbox, [to |-> req, error |-> error])

Begin(req) ==
    /\ req.type = "begin"
    /\ Reply(req, open)     \* SQLite knows no transaction in a transaction
    /\ open' = TRUE
    /\ UNCHANGED <<uncommitted, durable, failed, listening>>

CommitTransaction(req) ==
    /\ req.type = "commit"
    /\ Reply(req, ~open)
    /\ open' = FALSE
    /\ durable' = durable \cup uncommitted
    /\ uncommitted' = {}
    /\ UNCHANGED <<failed, listening>>

Execute(req) ==
    /\ req.type = "body"
    /\ \/ /\ Reply(req, FALSE)
          /\ IF open THEN uncommitted' = uncommitted \cup {req} /\ UNCHANGED durable
             ELSE durable' = durable \cup {req} /\ UNCHANGED uncommitted
          /\ UNCHANGED failed
       \/ /\ Cardinality(failed) < MaxFailures
          /\ Reply(req, TRUE)
          /\ failed' = failed \cup {req}
          /\ UNCHANGED <<uncommitted, durable>>
    /\ UNCHANGED <<open, listening>>

\* db.close() undoes an open transaction; there is no answer but the exit.
Close(req) ==
    /\ req.type = "close"
    /\ listening' = FALSE
    /\ open' = FALSE
    /\ uncommitted' = {}
    /\ UNCHANGED <<durable, failed, outbox>>

Work ==
    /\ process # "dead" /\ listening /\ inbox # <<>>
    /\ inbox' = Tail(inbox)
    /\ \/ Begin(Head(inbox)) \/ CommitTransaction(Head(inbox))
       \/ Execute(Head(inbox)) \/ Close(Head(inbox))
    /\ UNCHANGED <<limiter, main, process>>

\* The process ends, by an error or by a signal it cannot catch; SQLite
\* rolls back what was not committed.
Die ==
    /\ process = "dying" \/ (process = "running" /\ MayDie)
    /\ process' = "dead"
    /\ open' = FALSE
    /\ uncommitted' = {}
    /\ UNCHANGED <<limiter, main, inbox, listening, durable, failed, outbox>>

-----------------------------------------------------------------------------
Next ==
    \/ \E op \in Tx \cup Closes : Call(op) \/ OnSettled(op)
    \/ \E t \in Tx : RequestInTransaction(t) \/ Commit(t) \/ CallbackThrows(t)
    \/ \E c \in Closes : CloseSettles(c)
    \/ \E r \in Single : RequestAlone(r)
    \/ Receive \/ Exit \/ Work \/ Die

Spec == Init /\ [][Next]_vars

\* Both event loops go on, and callbacks end: the archiver's only make
\* requests, without awaiting anything.
Fairness ==
    /\ \A t \in Tx : WF_vars(Commit(t))
    /\ \A c \in Closes : WF_vars(CloseSettles(c))
    /\ \A op \in Tx \cup Closes : WF_vars(OnSettled(op))
    /\ WF_vars(Receive) /\ WF_vars(Exit) /\ WF_vars(Work)

FairSpec == Spec /\ Fairness

-----------------------------------------------------------------------------
(* The limiter inside the connection keeps to its own specification, so    *)
(* what is shown of it holds for transactions.                             *)
ImplementsLimiter == Limiter!Spec

(* Each answer reaches the promise of its own request: the pending         *)
(* promises are, in order, those of the answers and the requests under     *)
(* way, as long as the worker takes requests.                              *)
AnswersInOrder ==
    process = "running" /\ listening
    => callbackQueue = [k \in 1..Len(outbox) |-> outbox[k].to] \o inbox

Body(t) == {Req("body", t, n) : n \in 1..made[t]}

(* A transaction gets into the database as a whole or not at all, wherever *)
(* the process dies, but for the requests that failed in the worker.       *)
AllOrNothing ==
    \A t \in Tx :
        \/ Body(t) \cap durable = {}
        \/ state[t] \in {"settled", "over"} /\ Body(t) \ failed \subseteq durable

(* close() loses nothing: when the worker has closed the database, all     *)
(* transactions called before that close() are in it.                      *)
CloseKeepsEarlier ==
    ~listening =>
        \E c \in Closes :
            /\ state[c] \in Limiter!Started
            /\ \A t \in Tx : state[t] # "idle" /\ turn[t] < turn[c]
                             => Body(t) \ failed \subseteq durable

Requested(op) == state[op] # "idle"

(* A transaction called before any close() is committed in the end.        *)
TransactionsCommitted ==
    \A t \in Tx :
        Requested(t) /\ (\A c \in Closes : ~Requested(c))
        ~> \/ state[t] \in {"settled", "over"} /\ Body(t) \subseteq durable
           \/ process # "running"

(* close() closes: the connection ends although nobody answers CLOSE.      *)
CloseEnds ==
    \A c \in Closes : Requested(c) ~> errored \/ process # "running"
=============================================================================
