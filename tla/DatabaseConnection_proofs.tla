---------------------- MODULE DatabaseConnection_proofs ----------------------
(* Transactions are whole and answers reach their own requests, for any    *)
(* number of transactions, requests and calls of close().                  *)
EXTENDS DatabaseConnection, SequenceTheorems, FiniteSetTheorems, TLAPS

\* What is proved of the limiter, of the limiter in the connection.
LimiterFacts == INSTANCE ConcurrencyLimiter_proofs WITH
    Op <- Tx \cup Closes, maxOngoingOperations <- 1,
    Signal <- {}, SignalOf <- [op \in Tx \cup Closes |-> Null], NoSignal <- Null

-----------------------------------------------------------------------------
(* Only one operation of the limiter runs: when one has started, those     *)
(* called before it are over.                                              *)
OneAfterTheOther ==
    \A early, late \in Tx \cup Closes :
        /\ state[early] # "idle" /\ state[late] \in Limiter!Started
        /\ turn[early] < turn[late]
        => state[early] = "over"

NoneDropped == \A op \in Tx \cup Closes : state[op] # "dropped"

RequestsOfStarted == \A t \in Tx : made[t] > 0 => state[t] \in Limiter!Started

\* What the main thread knows after the worker's exit.
AfterExit ==
    /\ errored => ~listening /\ outbox = <<>>
    /\ process = "running" /\ ~listening /\ ~errored => Len(callbackQueue) > Len(outbox)

\* While the worker takes requests, every request that was made was posted.
Live == listening /\ process # "dead"

Posted(req) ==
    \/ req.type = "begin" /\ req.n = 0 /\ req.by \in Tx /\ state[req.by] \in Limiter!Started
    \/ req.type = "body" /\ req.by \in Tx \cup Single /\ req.n \in 1..made[req.by]
    \/ req.type = "commit" /\ req.n = 0 /\ req.by \in Tx /\ state[req.by] \in {"settled", "over"}
    \/ req.type = "close" /\ req.n = 0 /\ req.by \in Closes /\ state[req.by] \in Limiter!Started

Waiting(req) == \E k \in 1..Len(inbox) : inbox[k] = req
Done(req) == Posted(req) /\ ~Waiting(req)

\* The order in which the requests of the limiter's operations are made.
Stage(req) == IF req.type = "commit" THEN Size + 1 ELSE req.n
InLimiter(req) == req.by \in Tx \cup Closes
Before(p, q) ==
    /\ InLimiter(p) /\ InLimiter(q)
    /\ turn[p.by] < turn[q.by] \/ (p.by = q.by /\ Stage(p) < Stage(q))

InboxPosted == \A k \in 1..Len(inbox) : Posted(inbox[k])

InboxOrdered ==
    \A j, k \in 1..Len(inbox) :
        j < k /\ InLimiter(inbox[j]) /\ InLimiter(inbox[k]) => Before(inbox[j], inbox[k])

DoneInOrder ==
    \A p, q \in Request : Posted(p) /\ Posted(q) /\ Before(p, q) /\ Waiting(p) => Waiting(q)

Begun(t) == Done(Req("begin", t, 0))
Committed(t) == Done(Req("commit", t, 0))

\* What SQLite has of a transaction.
DatabaseState ==
    /\ \A t \in Tx : Begun(t) /\ ~Committed(t) => open
    /\ \A req \in Request : Posted(req) /\ req.type = "body" /\ req.by \in Tx =>
        /\ req \in uncommitted => Begun(req.by) /\ ~Committed(req.by)
        /\ req \in durable => Committed(req.by)
        /\ Done(req) => req \in uncommitted \cup durable \cup failed
        /\ Waiting(req) => req \notin uncommitted \cup durable

StoredWasMade ==
    \A req \in uncommitted \cup durable :
        req.by \in Tx => req.type = "body" /\ req.n \in 1..made[req.by]

LiveInv == Live => InboxPosted /\ InboxOrdered /\ DoneInOrder /\ DatabaseState

\* The inductive invariant.
DInv ==
    /\ TypeOK /\ LimiterFacts!LInv
    /\ NoneDropped /\ OneAfterTheOther /\ RequestsOfStarted /\ AfterExit /\ StoredWasMade
    /\ LiveInv
    /\ AnswersInOrder /\ AllOrNothing /\ CloseKeepsEarlier

-----------------------------------------------------------------------------
(* The assumptions of the limiter hold of the one in the connection. *)
LEMMA LimiterConstants == LimiterFacts!LimiterAssumption
<1>1. IsFiniteSet(Tx \cup Closes)
  <2>1. Tx \cup Closes \subseteq Tx \cup Single \cup Closes
    OBVIOUS
  <2> QED
    BY <2>1, ConnectionAssumption, FS_Subset
<1> QED
  BY <1>1 DEF LimiterFacts!LimiterAssumption, IsFiniteSet, LimiterFacts!IsFiniteSet

(* The invariant of the limiter holds of the one in the connection. *)
LEMMA LimiterStep ==
    LimiterFacts!LInv /\ [Limiter!Next]_limiter => LimiterFacts!LInv'
<1>1. LimiterFacts!LInv /\ [LimiterFacts!Next]_(LimiterFacts!limiterVars) => LimiterFacts!LInv'
  BY LimiterFacts!StepKeepsLInv, LimiterConstants
<1> QED
  BY <1>1 DEF limiter, LimiterFacts!limiterVars, Limiter!Next, LimiterFacts!Next,
     Limiter!RunWhenFree, LimiterFacts!RunWhenFree,
     Limiter!Settle, LimiterFacts!Settle, Limiter!OnSettled, LimiterFacts!OnSettled,
     Limiter!First, LimiterFacts!First, Limiter!Abort, LimiterFacts!Abort

(* Only one callback has an unsettled promise, calls are served in their   *)
(* order, and a free slot means that all calls are over.                   *)
LEMMA LimiterFactsHere ==
    ASSUME LimiterFacts!LInv
    PROVE  /\ ongoingOperations \in 0..1 /\ calls \in Nat
           /\ state \in [Tx \cup Closes -> Limiter!State]
           /\ turn \in [Tx \cup Closes -> Nat]
           /\ queue = {op \in Tx \cup Closes : state[op] = "queued"}
           /\ \A op \in Tx \cup Closes : state[op] # "idle" => turn[op] < calls
           /\ \A p, q \in Tx \cup Closes :
                state[p] # "idle" /\ state[q] # "idle" /\ turn[p] = turn[q] => p = q
           /\ \A early, late \in Tx \cup Closes :
                state[early] = "queued" /\ state[late] \in Limiter!Started
                => turn[late] < turn[early]
           /\ \A p, q \in Tx \cup Closes :
                {state[p], state[q]} \subseteq {"running", "settled"} => p = q
           /\ ongoingOperations < 1 => \A op \in Tx \cup Closes :
                state[op] \notin {"queued", "running", "settled"}
<1> USE DEF LimiterFacts!LInv
<1>1. /\ ongoingOperations \in 0..1 /\ calls \in Nat
      /\ state \in [Tx \cup Closes -> Limiter!State]
      /\ turn \in [Tx \cup Closes -> Nat]
      /\ queue = {op \in Tx \cup Closes : state[op] = "queued"}
  BY DEF LimiterFacts!LimiterTypeOK, LimiterFacts!QueueIsQueued,
         LimiterFacts!State, Limiter!State, LimiterFacts!Started, Limiter!Started
<1>2. /\ \A op \in Tx \cup Closes : state[op] # "idle" => turn[op] < calls
      /\ \A p, q \in Tx \cup Closes :
           state[p] # "idle" /\ state[q] # "idle" /\ turn[p] = turn[q] => p = q
  BY DEF LimiterFacts!TurnsDistinct
<1>3. \A early, late \in Tx \cup Closes :
         state[early] = "queued" /\ state[late] \in Limiter!Started
         => turn[late] < turn[early]
  BY DEF LimiterFacts!FirstComeFirstServed, LimiterFacts!Started, Limiter!Started
<1>4. \A p, q \in Tx \cup Closes :
         {state[p], state[q]} \subseteq {"running", "settled"} => p = q
  <2>1. \A p, q \in LimiterFacts!Busy : p = q
    BY LimiterConstants, LimiterFacts!OneSlotOneHolder
  <2> QED
    BY <2>1 DEF LimiterFacts!Busy
<1>5. ongoingOperations < 1 => \A op \in Tx \cup Closes :
         state[op] \notin {"queued", "running", "settled"}
  <2> SUFFICES ASSUME ongoingOperations = 0
               PROVE  LimiterFacts!Busy = {} /\ queue = {}
    BY <1>1 DEF LimiterFacts!Busy
  <2> QED
    BY LimiterConstants, LimiterFacts!NoSlotTaken
<1> QED
  BY <1>1, <1>2, <1>3, <1>4, <1>5

-----------------------------------------------------------------------------
(* The requests of a transaction. *)
LEMMA TransactionRequests ==
    ASSUME NEW t \in Tx
    PROVE  /\ Req("begin", t, 0) \in Request /\ Req("commit", t, 0) \in Request
           /\ \A n \in 1..Size : Req("body", t, n) \in Request
  BY ConnectionAssumption DEF Req, Request

(* No two requests come before each other. *)
LEMMA BeforeIsStrict ==
    ASSUME turn \in [Tx \cup Closes -> Nat], NEW p \in Request, NEW q \in Request,
           Before(p, q)
    PROVE  ~Before(q, p)
<1>1. Stage(p) \in Nat /\ Stage(q) \in Nat
  BY ConnectionAssumption DEF Stage, Request
<1>2. turn[p.by] \in Nat /\ turn[q.by] \in Nat
  BY DEF Before, InLimiter
<1> QED
  BY <1>1, <1>2 DEF Before

(* Appending a request to the inbox. *)
LEMMA AppendedWaits ==
    ASSUME NEW req \in Request, inbox \in Seq(Request), inbox' = Append(inbox, req),
           NEW p
    PROVE  Waiting(p)' <=> Waiting(p) \/ p = req
<1>1. /\ Len(inbox') = Len(inbox) + 1 /\ Len(inbox) \in Nat
      /\ \A k \in 1..Len(inbox) : inbox'[k] = inbox[k]
      /\ inbox'[Len(inbox) + 1] = req
  BY AppendProperties, LenProperties
<1> QED
  BY <1>1 DEF Waiting

(* The worker's half of the invariant is kept by a request that is posted  *)
(* after all those of the limiter's operations.                            *)
LEMMA PostKeepsLive ==
    ASSUME TypeOK, StoredWasMade, turn \in [Tx \cup Closes -> Nat],
           InboxPosted, InboxOrdered, DoneInOrder, DatabaseState,
           NEW req \in Request, inbox' = Append(inbox, req), ~Posted(req),
           \A p \in Request : Posted(p)' <=> Posted(p) \/ p = req,
           \A p, q \in Request : Posted(p) /\ Posted(q) => (Before(p, q)' <=> Before(p, q)),
           \A p \in Request :
                Posted(p) /\ InLimiter(p) /\ InLimiter(req) => Before(p, req)' /\ ~Before(req, p)',
           ~Before(req, req)',
           UNCHANGED <<open, uncommitted, durable, failed>>
    PROVE  (InboxPosted /\ InboxOrdered /\ DoneInOrder /\ DatabaseState)'
<1>0. inbox \in Seq(Request)
  BY DEF TypeOK
<1>1. /\ Len(inbox') = Len(inbox) + 1 /\ Len(inbox) \in Nat
      /\ \A k \in 1..Len(inbox) : inbox'[k] = inbox[k] /\ inbox[k] \in Request
      /\ inbox'[Len(inbox) + 1] = req
  BY <1>0, AppendProperties, LenProperties, ElementOfSeq
<1>2. \A p \in Request : Waiting(p)' <=> Waiting(p) \/ p = req
  BY <1>0, AppendedWaits
<1>3. \A p \in Request : Done(p)' <=> Done(p)
  BY <1>2 DEF Done
<1>4. InboxPosted'
  BY <1>1 DEF InboxPosted
<1>5. InboxOrdered'
  <2> SUFFICES ASSUME NEW j \in 1..Len(inbox'), NEW k \in 1..Len(inbox'), j < k,
                      InLimiter(inbox'[j]), InLimiter(inbox'[k])
               PROVE  Before(inbox[j], inbox[k])'
    BY DEF InboxOrdered, InLimiter
  <2>1. j \in 1..Len(inbox) /\ inbox'[j] = inbox[j] /\ inbox[j] \in Request /\ Posted(inbox[j])
    BY <1>1 DEF InboxPosted
  <2>2. CASE k \in 1..Len(inbox)
    <3>1. inbox'[k] = inbox[k] /\ inbox[k] \in Request /\ Posted(inbox[k])
      BY <1>1, <2>2 DEF InboxPosted
    <3>2. Before(inbox[j], inbox[k])
      BY <2>1, <2>2, <3>1 DEF InboxOrdered
    <3> QED
      BY <2>1, <3>1, <3>2
  <2>3. CASE k = Len(inbox) + 1
    BY <1>1, <2>1, <2>3
  <2> QED
    BY <1>1, <2>2, <2>3
<1>6. DoneInOrder'
  BY <1>2 DEF DoneInOrder, Before
<1>7. \A t \in Tx : (Begun(t)' <=> Begun(t)) /\ (Committed(t)' <=> Committed(t))
  BY <1>3, TransactionRequests DEF Begun, Committed
<1>8. req.by \in Tx /\ req.type = "body" => req \notin uncommitted \cup durable
  BY DEF StoredWasMade, Posted
<1>9. DatabaseState'
  <2>1. \A t \in Tx : (Begun(t) /\ ~Committed(t) => open)'
    BY <1>7 DEF DatabaseState
  <2>2. ASSUME NEW p \in Request, Posted(p)', p.type = "body", p.by \in Tx
        PROVE  (/\ p \in uncommitted => Begun(p.by) /\ ~Committed(p.by)
                /\ p \in durable => Committed(p.by)
                /\ Done(p) => p \in uncommitted \cup durable \cup failed
                /\ Waiting(p) => p \notin uncommitted \cup durable)'
    <3>1. CASE p = req
      BY <1>2, <1>8, <2>2, <3>1 DEF Done
    <3>2. CASE p # req
      BY <1>2, <1>3, <1>7, <2>2, <3>2 DEF DatabaseState
    <3> QED
      BY <3>1, <3>2
  <2> QED
    BY <2>1, <2>2 DEF DatabaseState
<1> QED
  BY <1>4, <1>5, <1>6, <1>9

(* A step of the main thread that posts nothing keeps the worker's half.   *)
LEMMA QuietKeepsLive ==
    ASSUME TypeOK, InboxPosted, InboxOrdered, DoneInOrder, DatabaseState,
           UNCHANGED <<inbox, open, uncommitted, durable, failed>>,
           \A p \in Request : Posted(p)' <=> Posted(p),
           \A p, q \in Request : Posted(p) /\ Posted(q) => (Before(p, q)' <=> Before(p, q))
    PROVE  (InboxPosted /\ InboxOrdered /\ DoneInOrder /\ DatabaseState)'
<1>1. \A k \in 1..Len(inbox) : inbox[k] \in Request /\ Posted(inbox[k])
  BY ElementOfSeq DEF TypeOK, InboxPosted
<1>2. \A p \in Request : (Waiting(p)' <=> Waiting(p)) /\ (Done(p)' <=> Done(p))
  BY DEF Waiting, Done
<1>3. InboxPosted'
  BY <1>1 DEF InboxPosted
<1>4. InboxOrdered'
  <2> SUFFICES ASSUME NEW j \in 1..Len(inbox), NEW k \in 1..Len(inbox), j < k,
                      InLimiter(inbox[j]), InLimiter(inbox[k])
               PROVE  Before(inbox[j], inbox[k])'
    BY DEF InboxOrdered, InLimiter
  <2> QED
    BY <1>1 DEF InboxOrdered
<1>5. DoneInOrder'
  BY <1>2 DEF DoneInOrder, Before
<1>6. \A t \in Tx : (Begun(t)' <=> Begun(t)) /\ (Committed(t)' <=> Committed(t))
  BY <1>2, TransactionRequests DEF Begun, Committed
<1>7. DatabaseState'
  BY <1>2, <1>6 DEF DatabaseState
<1> QED
  BY <1>3, <1>4, <1>5, <1>7

(* The worker takes the oldest request: all before it are done, all after  *)
(* it wait.                                                                *)
LEMMA HeadIsNext ==
    ASSUME inbox \in Seq(Request), turn \in [Tx \cup Closes -> Nat],
           InboxPosted, InboxOrdered, DoneInOrder,
           inbox # <<>>, inbox' = Tail(inbox), NEW req, req = Head(inbox)
    PROVE  /\ req \in Request /\ Posted(req) /\ Waiting(req)
           /\ \A p : Waiting(p) <=> p = req \/ Waiting(p)'
           /\ InLimiter(req) => ~Waiting(req)'
           /\ \A p \in Request : Posted(p) /\ Before(p, req) => ~Waiting(p)
           /\ \A p \in Request : Posted(p) /\ Before(req, p) => Waiting(p)
<1>1. /\ Len(inbox) \in Nat \ {0} /\ Len(inbox') = Len(inbox) - 1
      /\ \A k \in 1..Len(inbox') : inbox'[k] = inbox[k + 1]
      /\ req = inbox[1] /\ \A k \in 1..Len(inbox) : inbox[k] \in Request
  BY HeadTailProperties, EmptySeq, ElementOfSeq
<1>2. req \in Request /\ Posted(req) /\ Waiting(req)
  BY <1>1 DEF InboxPosted, Waiting
<1>3. \A p : Waiting(p)' <=> \E k \in 2..Len(inbox) : inbox[k] = p
  <2>1. ASSUME NEW k \in 2..Len(inbox) PROVE k - 1 \in 1..Len(inbox') /\ inbox'[k - 1] = inbox[k]
    BY <1>1
  <2> QED
    BY <1>1, <2>1 DEF Waiting
<1>4. \A p : Waiting(p) <=> p = req \/ Waiting(p)'
  BY <1>1, <1>3 DEF Waiting
<1>5. ASSUME InLimiter(req), NEW k \in 2..Len(inbox), InLimiter(inbox[k])
      PROVE  Before(req, inbox[k]) /\ ~Before(inbox[k], req)
  <2>1. Before(inbox[1], inbox[k])
    BY <1>1, <1>5 DEF InboxOrdered
  <2> QED
    BY <1>1, <2>1, BeforeIsStrict
<1>6. InLimiter(req) => ~Waiting(req)'
  BY <1>1, <1>2, <1>3, <1>5
<1>7. ASSUME NEW p \in Request, Posted(p), Before(p, req), Waiting(p)
      PROVE  FALSE
  <2>1. p # req
    BY <1>2, <1>7, BeforeIsStrict
  <2>2. PICK k \in 2..Len(inbox) : inbox[k] = p
    BY <1>3, <1>4, <1>7, <2>1
  <2> QED
    BY <1>5, <1>7, <2>2 DEF Before
<1> QED
  BY <1>2, <1>4, <1>6, <1>7 DEF DoneInOrder

(* The inbox stays in order when the worker takes a request from it.       *)
LEMMA TakingKeepsOrder ==
    ASSUME inbox \in Seq(Request), turn \in [Tx \cup Closes -> Nat],
           InboxPosted, InboxOrdered, DoneInOrder,
           inbox # <<>>, inbox' = Tail(inbox), UNCHANGED <<made, state, turn>>
    PROVE  (InboxPosted /\ InboxOrdered /\ DoneInOrder)'
<1>1. /\ Len(inbox) \in Nat \ {0} /\ Len(inbox') = Len(inbox) - 1
      /\ \A k \in 1..Len(inbox') : inbox'[k] = inbox[k + 1]
  BY HeadTailProperties, EmptySeq
<1>2. \A p : Posted(p)' <=> Posted(p)
  BY DEF Posted
<1>3. \A p, q : Before(p, q)' <=> Before(p, q)
  BY DEF Before, InLimiter
<1>4. InboxPosted'
  <2> SUFFICES ASSUME NEW k \in 1..Len(inbox') PROVE Posted(inbox[k])'
    BY DEF InboxPosted
  <2>1. k + 1 \in 1..Len(inbox) /\ inbox'[k] = inbox[k + 1]
    BY <1>1
  <2> QED
    BY <1>2, <2>1 DEF InboxPosted
<1>5. InboxOrdered'
  <2> SUFFICES ASSUME NEW j \in 1..Len(inbox'), NEW k \in 1..Len(inbox'), j < k,
                      InLimiter(inbox'[j]), InLimiter(inbox'[k])
               PROVE  Before(inbox[j], inbox[k])'
    BY DEF InboxOrdered, InLimiter
  <2>1. /\ j + 1 \in 1..Len(inbox) /\ inbox'[j] = inbox[j + 1]
        /\ k + 1 \in 1..Len(inbox) /\ inbox'[k] = inbox[k + 1] /\ j + 1 < k + 1
    BY <1>1
  <2>2. Before(inbox[j + 1], inbox[k + 1])
    BY <2>1 DEF InboxOrdered
  <2> QED
    BY <1>3, <2>1, <2>2
<1>6. DoneInOrder'
  <2>1. PICK req : req = Head(inbox)
    OBVIOUS
  <2>2. /\ req \in Request /\ Posted(req)
        /\ \A p : Waiting(p) <=> p = req \/ Waiting(p)'
        /\ \A p \in Request : Posted(p) /\ Before(p, req) => ~Waiting(p)
    BY <2>1, HeadIsNext
  <2> QED
    BY <1>2, <1>3, <2>2 DEF DoneInOrder
<1> QED
  BY <1>4, <1>5, <1>6

(* No two transactions are begun and not committed: when the worker takes  *)
(* a request of one, the transactions before it are committed and those    *)
(* after it not begun.                                                     *)
LEMMA OneTransactionOpen ==
    ASSUME turn \in [Tx \cup Closes -> Nat], OneAfterTheOther,
           \A p, q \in Tx \cup Closes :
                state[p] # "idle" /\ state[q] # "idle" /\ turn[p] = turn[q] => p = q,
           NEW req \in Request, Posted(req), InLimiter(req),
           state[req.by] \in Limiter!Started,
           \A p \in Request : Posted(p) /\ Before(p, req) => ~Waiting(p),
           \A p \in Request : Posted(p) /\ Before(req, p) => Waiting(p),
           NEW t \in Tx, Begun(t), ~Committed(t)
    PROVE  t = req.by
<1> SUFFICES ASSUME t # req.by PROVE FALSE
  OBVIOUS
<1>1. state[t] \in Limiter!Started /\ state[t] # "idle" /\ state[req.by] # "idle"
  BY DEF Begun, Done, Posted, Req, Limiter!Started
<1>2. turn[t] < turn[req.by] \/ turn[req.by] < turn[t]
  BY <1>1 DEF InLimiter
<1>3. CASE turn[t] < turn[req.by]
  <2>1. state[t] = "over"
    BY <1>1, <1>3 DEF OneAfterTheOther, InLimiter
  <2>2. Posted(Req("commit", t, 0)) /\ Before(Req("commit", t, 0), req)
    BY <1>3, <2>1 DEF Posted, Before, InLimiter, Req
  <2> QED
    BY <2>2, TransactionRequests DEF Committed, Done
<1>4. CASE turn[req.by] < turn[t]
  <2>1. Posted(Req("begin", t, 0)) /\ Before(req, Req("begin", t, 0))
    BY <1>4 DEF Begun, Done, Before, InLimiter, Req
  <2> QED
    BY <2>1, TransactionRequests DEF Begun, Done
<1> QED
  BY <1>2, <1>3, <1>4

(* Only operations that have started made requests. *)
LEMMA PostedHasStarted ==
    ASSUME TypeOK, RequestsOfStarted, NEW req, Posted(req), InLimiter(req)
    PROVE  state[req.by] \in Limiter!Started
<1>1. CASE req.by \in Tx /\ req.n \in 1..made[req.by]
  <2>1. made[req.by] \in Nat /\ made[req.by] > 0
    BY <1>1, ConnectionAssumption DEF TypeOK
  <2> QED
    BY <1>1, <2>1 DEF RequestsOfStarted
<1>2. CASE req.type # "body"
  BY <1>2 DEF Posted, Limiter!Started
<1> QED
  BY <1>1, <1>2, ConnectionAssumption DEF Posted, InLimiter

(* What the worker's taking of a request means for all others.             *)
LEMMA TakingARequest ==
    ASSUME DInv, Live, inbox # <<>>, inbox' = Tail(inbox), UNCHANGED <<limiter, main>>,
           NEW req, req = Head(inbox)
    PROVE  /\ req \in Request /\ Posted(req) /\ ~Done(req)
           /\ (InboxPosted /\ InboxOrdered /\ DoneInOrder)'
           /\ \A p : Posted(p)' <=> Posted(p)
           /\ \A p : Waiting(p)' => Waiting(p)
           /\ \A p : p # req => (Done(p)' <=> Done(p))
           /\ InLimiter(req) => Done(req)' /\ ~Waiting(req)'
           /\ InLimiter(req) => \A t \in Tx : Begun(t) /\ ~Committed(t) => t = req.by
           /\ \A p \in Request : Posted(p) /\ Before(p, req) => Done(p)
           /\ \A p \in Request : Posted(p) /\ Before(req, p) => ~Done(p)
<1>1. /\ inbox \in Seq(Request) /\ turn \in [Tx \cup Closes -> Nat]
      /\ InboxPosted /\ InboxOrdered /\ DoneInOrder /\ UNCHANGED <<made, state, turn>>
      /\ \A p, q \in Tx \cup Closes :
           state[p] # "idle" /\ state[q] # "idle" /\ turn[p] = turn[q] => p = q
      /\ OneAfterTheOther /\ RequestsOfStarted
  BY LimiterFactsHere DEF DInv, LiveInv, TypeOK, limiter, main
<1>2. (InboxPosted /\ InboxOrdered /\ DoneInOrder)'
  BY <1>1, TakingKeepsOrder
<1>3. /\ req \in Request /\ Posted(req) /\ Waiting(req)
      /\ \A p : Waiting(p) <=> p = req \/ Waiting(p)'
      /\ InLimiter(req) => ~Waiting(req)'
      /\ \A p \in Request : Posted(p) /\ Before(p, req) => ~Waiting(p)
      /\ \A p \in Request : Posted(p) /\ Before(req, p) => Waiting(p)
  BY <1>1, HeadIsNext
<1>4. \A p : Posted(p)' <=> Posted(p)
  BY <1>1 DEF Posted
<1>5. InLimiter(req) => \A t \in Tx : Begun(t) /\ ~Committed(t) => t = req.by
  <2>1. InLimiter(req) => state[req.by] \in Limiter!Started
    BY <1>1, <1>3, PostedHasStarted DEF DInv
  <2> QED
    BY <1>1, <1>3, <2>1, OneTransactionOpen
<1>6. \A p : p # req => (Done(p)' <=> Done(p))
  BY <1>3, <1>4 DEF Done
<1> QED
  BY <1>2, <1>3, <1>4, <1>5, <1>6 DEF Done

(* BEGIN opens SQLite's transaction.                                       *)
LEMMA BeginKeepsDatabase ==
    ASSUME DInv, Live, inbox # <<>>, inbox' = Tail(inbox), UNCHANGED <<limiter, main>>,
           Begin(Head(inbox))
    PROVE  DatabaseState'
<1>1. PICK req : req = Head(inbox)
  OBVIOUS
<1>2. /\ req.type = "begin" /\ open' = TRUE /\ UNCHANGED <<uncommitted, durable, failed>>
      /\ DatabaseState
  BY <1>1 DEF Begin, DInv, LiveInv
<1> DEFINE t == req.by
<1>3. /\ req \in Request /\ Posted(req)
      /\ \A p : Posted(p)' <=> Posted(p)
      /\ \A p : Waiting(p)' => Waiting(p)
      /\ \A p : p # req => (Done(p)' <=> Done(p))
      /\ InLimiter(req) => Done(req)' /\ ~Waiting(req)'
  BY <1>1, TakingARequest
<1>4. \A u \in Tx : (Begun(u) => Begun(u)') /\ (Committed(u)' <=> Committed(u))
  <2>1. \A u \in Tx : Req("commit", u, 0) # req
    BY <1>2 DEF Req
  <2>2. t \in Tx /\ InLimiter(req)
    BY <1>2, <1>3 DEF Posted, InLimiter
  <2> QED
    BY <1>3, <2>1, <2>2 DEF Begun, Committed
<1> QED
  BY <1>2, <1>3, <1>4 DEF DatabaseState

(* COMMIT ends the only transaction that is open.                          *)
LEMMA CommitKeepsDatabase ==
    ASSUME DInv, Live, inbox # <<>>, inbox' = Tail(inbox), UNCHANGED <<limiter, main>>,
           CommitTransaction(Head(inbox))
    PROVE  DatabaseState'
<1>1. PICK req : req = Head(inbox)
  OBVIOUS
<1> DEFINE t == req.by
<1>2. /\ req.type = "commit" /\ open' = FALSE
      /\ durable' = durable \cup uncommitted /\ uncommitted' = {} /\ failed' = failed
      /\ DatabaseState
  BY <1>1 DEF CommitTransaction, DInv, LiveInv
<1>3. /\ req \in Request /\ Posted(req)
      /\ \A p : Posted(p)' <=> Posted(p)
      /\ \A p : Waiting(p)' => Waiting(p)
      /\ \A p : p # req => (Done(p)' <=> Done(p))
      /\ InLimiter(req) => Done(req)' /\ ~Waiting(req)'
      /\ InLimiter(req) => \A u \in Tx : Begun(u) /\ ~Committed(u) => u = t
  BY <1>1, TakingARequest
<1>4. t \in Tx /\ req.n = 0 /\ InLimiter(req) /\ req = Req("commit", t, 0)
  BY <1>2, <1>3 DEF Posted, InLimiter, Req, Request
<1>5. /\ \A u \in Tx : (Begun(u)' <=> Begun(u)) /\ (Committed(u) => Committed(u)')
      /\ Committed(t)'
  <2>1. \A u \in Tx : Req("begin", u, 0) # req
    BY <1>2 DEF Req
  <2> QED
    BY <1>3, <1>4, <2>1 DEF Begun, Committed
<1>6. \A u \in Tx : Begun(u) /\ ~Committed(u) => u = t
  BY <1>3, <1>4
<1>7. \A u \in Tx : ~(Begun(u)' /\ ~Committed(u)')
  BY <1>4, <1>5, <1>6
<1>8. ASSUME NEW p \in Request, Posted(p), p.type = "body", p.by \in Tx
      PROVE  (/\ p \in uncommitted => Begun(p.by) /\ ~Committed(p.by)
              /\ p \in durable => Committed(p.by)
              /\ Done(p) => p \in uncommitted \cup durable \cup failed
              /\ Waiting(p) => p \notin uncommitted \cup durable)'
  <2>1. p # req
    BY <1>2, <1>8
  <2>2. p \in uncommitted => p.by = t
    BY <1>2, <1>6, <1>8 DEF DatabaseState
  <2> QED
    BY <1>2, <1>3, <1>5, <1>8, <2>1, <2>2 DEF DatabaseState
<1> QED
  BY <1>2, <1>3, <1>7, <1>8 DEF DatabaseState

(* A request of a transaction is executed in that transaction.             *)
LEMMA ExecuteKeepsDatabase ==
    ASSUME DInv, Live, inbox # <<>>, inbox' = Tail(inbox), UNCHANGED <<limiter, main>>,
           Execute(Head(inbox))
    PROVE  DatabaseState' /\ StoredWasMade'
<1>1. PICK req : req = Head(inbox)
  OBVIOUS
<1> DEFINE t == req.by
<1>2. /\ req.type = "body" /\ open' = open /\ DatabaseState /\ StoredWasMade
      /\ \/ /\ open /\ uncommitted' = uncommitted \cup {req}
            /\ UNCHANGED <<durable, failed>>
         \/ /\ ~open /\ durable' = durable \cup {req}
            /\ UNCHANGED <<uncommitted, failed>>
         \/ /\ failed' = failed \cup {req}
            /\ UNCHANGED <<uncommitted, durable>>
  BY <1>1 DEF Execute, DInv, LiveInv
<1>3. /\ req \in Request /\ Posted(req) /\ ~Done(req)
      /\ \A p : Posted(p)' <=> Posted(p)
      /\ \A p : Waiting(p)' => Waiting(p)
      /\ \A p : p # req => (Done(p)' <=> Done(p))
      /\ InLimiter(req) => Done(req)' /\ ~Waiting(req)'
      /\ \A p \in Request : Posted(p) /\ Before(p, req) => Done(p)
      /\ \A p \in Request : Posted(p) /\ Before(req, p) => ~Done(p)
  BY <1>1, TakingARequest
<1>4. \A u \in Tx : (Begun(u)' <=> Begun(u)) /\ (Committed(u)' <=> Committed(u))
  <2>1. \A u \in Tx : Req("begin", u, 0) # req /\ Req("commit", u, 0) # req
    BY <1>2 DEF Req
  <2> QED
    BY <1>3, <2>1 DEF Begun, Committed
<1>5. t \in Tx => InLimiter(req) /\ Begun(t) /\ ~Committed(t) /\ open
  <2> SUFFICES ASSUME t \in Tx PROVE InLimiter(req) /\ Begun(t) /\ ~Committed(t) /\ open
    OBVIOUS
  <2>1. req.n \in 1..Size /\ req.n \in 1..made[t] /\ made[t] \in Nat
    BY <1>2, <1>3, ConnectionAssumption DEF Posted, DInv, TypeOK
  <2>2. Posted(Req("begin", t, 0)) /\ Before(Req("begin", t, 0), req)
    <3>1. state[t] \in Limiter!Started
      BY <2>1 DEF DInv, RequestsOfStarted
    <3> QED
      BY <1>2, <2>1, <3>1 DEF Posted, Before, InLimiter, Req, Stage
  <2>3. Posted(Req("commit", t, 0)) => Before(req, Req("commit", t, 0))
    BY <1>2, <2>1, ConnectionAssumption DEF Before, InLimiter, Req, Stage
  <2>4. Begun(t) /\ ~Committed(t)
    BY <1>3, <2>2, <2>3, TransactionRequests DEF Begun, Committed, Done
  <2> QED
    BY <1>2, <2>4 DEF DatabaseState, InLimiter
<1>6. DatabaseState'
  <2>1. \A u \in Tx : (Begun(u) /\ ~Committed(u) => open)'
    BY <1>2, <1>4 DEF DatabaseState
  <2>2. ASSUME NEW p \in Request, Posted(p), p.type = "body", p.by \in Tx
        PROVE  (/\ p \in uncommitted => Begun(p.by) /\ ~Committed(p.by)
                /\ p \in durable => Committed(p.by)
                /\ Done(p) => p \in uncommitted \cup durable \cup failed
                /\ Waiting(p) => p \notin uncommitted \cup durable)'
    <3>1. CASE p = req
      <4>1. req \notin durable
        BY <1>2, <1>3, <1>5, <2>2, <3>1 DEF DatabaseState
      <4> QED
        BY <1>2, <1>3, <1>4, <1>5, <2>2, <3>1, <4>1 DEF DatabaseState
    <3>2. CASE p # req
      BY <1>2, <1>3, <1>4, <2>2, <3>2 DEF DatabaseState
    <3> QED
      BY <3>1, <3>2
  <2> QED
    BY <1>3, <2>1, <2>2 DEF DatabaseState
<1>7. StoredWasMade'
  <2>1. t \in Tx => req.type = "body" /\ req.n \in 1..made[t]
    BY <1>2, <1>3 DEF Posted
  <2>2. UNCHANGED made
    BY DEF main
  <2> QED
    BY <1>2, <2>1, <2>2 DEF StoredWasMade
<1> QED
  BY <1>6, <1>7

-----------------------------------------------------------------------------
(* A committed transaction is in the database, but for what failed.        *)
LEMMA CommittedIsStored ==
    ASSUME TypeOK, DoneInOrder, DatabaseState, NEW t \in Tx, Committed(t)
    PROVE  Body(t) \ failed \subseteq durable
<1> SUFFICES ASSUME NEW n \in 1..made[t], Req("body", t, n) \notin failed
             PROVE  Req("body", t, n) \in durable
  BY DEF Body
<1> DEFINE req == Req("body", t, n)
<1> DEFINE commit == Req("commit", t, 0)
<1>1. n \in 1..Size /\ made[t] \in 0..Size /\ n \in Nat
  BY ConnectionAssumption DEF TypeOK
<1>2. req \in Request /\ commit \in Request /\ Posted(commit) /\ ~Waiting(commit)
  BY <1>1, TransactionRequests DEF Committed, Done
<1>3. Posted(req) /\ Before(req, commit) /\ req.type = "body" /\ req.by = t
  BY <1>1, ConnectionAssumption DEF Posted, Before, InLimiter, Stage, Req
<1>4. ~Waiting(req)
  BY <1>2, <1>3 DEF DoneInOrder
<1> HIDE DEF req, commit
<1>5. req \in durable
  BY <1>2, <1>3, <1>4 DEF DatabaseState, Done, req
<1> QED
  BY <1>5 DEF req

(* While the worker takes requests, a transaction is whole or absent.      *)
LEMMA WholeWhileLive == TypeOK /\ Live /\ LiveInv => AllOrNothing
<1> SUFFICES ASSUME TypeOK, Live, LiveInv, NEW t \in Tx, NEW n \in 1..made[t],
                    Req("body", t, n) \in durable
             PROVE  state[t] \in {"settled", "over"} /\ Body(t) \ failed \subseteq durable
  BY DEF AllOrNothing, Body
<1> DEFINE req == Req("body", t, n)
<1>1. made[t] \in 0..Size /\ n \in 1..Size
  BY ConnectionAssumption DEF TypeOK
<1>2. req \in Request /\ Posted(req) /\ req.type = "body" /\ req.by = t
  BY <1>1, TransactionRequests DEF Posted, Req
<1> HIDE DEF req
<1>3. Committed(t)
  BY <1>2 DEF LiveInv, DatabaseState, req
<1>4. state[t] \in {"settled", "over"}
  BY <1>3 DEF Committed, Done, Posted, Req
<1> QED
  BY <1>3, <1>4, CommittedIsStored DEF LiveInv

\* The requests whose promises should be pending.
Expected(answers, requests) == [k \in 1..Len(answers) |-> answers[k].to] \o requests

(* They are the requests answered, then those under way. *)
LEMMA ExpectedIsSeq ==
    ASSUME NEW o \in Seq(Answer), NEW i \in Seq(Request)
    PROVE  /\ Expected(o, i) \in Seq(Request)
           /\ Len(Expected(o, i)) = Len(o) + Len(i) /\ Len(o) \in Nat /\ Len(i) \in Nat
           /\ \A k \in 1..Len(o) + Len(i) :
                Expected(o, i)[k] = IF k <= Len(o) THEN o[k].to ELSE i[k - Len(o)]
<1> DEFINE m == [k \in 1..Len(o) |-> o[k].to]
<1>1. Len(o) \in Nat /\ Len(i) \in Nat /\ \A k \in 1..Len(o) : o[k].to \in Request
  <2>1. \A k \in 1..Len(o) : o[k] \in Answer
    BY ElementOfSeq
  <2> QED
    BY <2>1, LenProperties DEF Answer
<1>2. m \in Seq(Request) /\ Len(m) = Len(o)
  BY <1>1, IsASeq
<1> QED
  BY <1>1, <1>2, ConcatProperties DEF Expected

(* An answer takes the place of its request. *)
LEMMA ExpectedReply ==
    ASSUME NEW o \in Seq(Answer), NEW i \in Seq(Request), i # <<>>,
           NEW answer \in Answer, answer.to = Head(i)
    PROVE  Expected(Append(o, answer), Tail(i)) = Expected(o, i)
<1> DEFINE o2 == Append(o, answer)
<1> DEFINE i2 == Tail(i)
<1>1. /\ o2 \in Seq(Answer) /\ Len(o2) = Len(o) + 1 /\ o2[Len(o) + 1] = answer
      /\ \A k \in 1..Len(o) : o2[k] = o[k]
  BY AppendProperties
<1>2. /\ i2 \in Seq(Request) /\ Len(i2) = Len(i) - 1 /\ Head(i) = i[1]
      /\ \A k \in 1..Len(i2) : i2[k] = i[k + 1]
  BY HeadTailProperties
<1>3. Len(o) \in Nat /\ Len(i) \in Nat \ {0}
  BY LenProperties, EmptySeq
<1> HIDE DEF o2, i2
<1>4. /\ Expected(o2, i2) \in Seq(Request)
      /\ Len(Expected(o2, i2)) = Len(o2) + Len(i2)
      /\ \A k \in 1..Len(o2) + Len(i2) :
           Expected(o2, i2)[k] = IF k <= Len(o2) THEN o2[k].to ELSE i2[k - Len(o2)]
  BY <1>1, <1>2, ExpectedIsSeq
<1>5. /\ Expected(o, i) \in Seq(Request)
      /\ Len(Expected(o, i)) = Len(o) + Len(i)
      /\ \A k \in 1..Len(o) + Len(i) :
           Expected(o, i)[k] = IF k <= Len(o) THEN o[k].to ELSE i[k - Len(o)]
  BY ExpectedIsSeq
<1>6. \A k \in 1..Len(o) + Len(i) : Expected(o2, i2)[k] = Expected(o, i)[k]
  <2> TAKE k \in 1..Len(o) + Len(i)
  <2>1. /\ Expected(o2, i2)[k] = IF k <= Len(o2) THEN o2[k].to ELSE i2[k - Len(o2)]
        /\ Expected(o, i)[k] = IF k <= Len(o) THEN o[k].to ELSE i[k - Len(o)]
    BY <1>1, <1>2, <1>3, <1>4, <1>5
  <2>2. CASE k <= Len(o)
    BY <1>1, <1>3, <2>1, <2>2
  <2>3. CASE k = Len(o) + 1
    BY <1>1, <1>2, <1>3, <2>1, <2>3
  <2>4. CASE k > Len(o) + 1
    <3>1. k - Len(o2) \in 1..Len(i2) /\ k - Len(o2) + 1 = k - Len(o)
      BY <1>1, <1>2, <1>3, <2>4
    <3>2. i2[k - Len(o2)] = i[k - Len(o)]
      BY <1>2, <3>1
    <3> QED
      BY <1>1, <1>3, <2>1, <2>4, <3>2
  <2> QED
    BY <1>3, <2>2, <2>3, <2>4
<1>7. Expected(o2, i2) = Expected(o, i)
  BY <1>1, <1>2, <1>3, <1>6, <1>4, <1>5, SeqEqual
<1> QED
  BY <1>7 DEF o2, i2

(* The oldest answer is for the oldest promise. *)
LEMMA ExpectedReceive ==
    ASSUME NEW o \in Seq(Answer), NEW i \in Seq(Request), o # <<>>
    PROVE  Expected(o, i) # <<>> /\ Expected(Tail(o), i) = Tail(Expected(o, i))
<1> DEFINE o2 == Tail(o)
<1> DEFINE e == Expected(o, i)
<1>1. /\ o2 \in Seq(Answer) /\ Len(o2) = Len(o) - 1 /\ Len(o) \in Nat \ {0}
      /\ \A k \in 1..Len(o2) : o2[k] = o[k + 1]
  BY HeadTailProperties, EmptySeq
<1>2. Len(i) \in Nat
  BY LenProperties
<1>3. e \in Seq(Request) /\ Len(e) = Len(o) + Len(i) /\ e # <<>>
  BY <1>1, <1>2, ExpectedIsSeq, EmptySeq
<1>4. /\ Tail(e) \in Seq(Request) /\ Len(Tail(e)) = Len(e) - 1
      /\ \A k \in 1..Len(Tail(e)) : Tail(e)[k] = e[k + 1]
  BY <1>3, HeadTailProperties
<1> HIDE DEF o2, e
<1>5. /\ Expected(o2, i) \in Seq(Request)
      /\ Len(Expected(o2, i)) = Len(o2) + Len(i)
      /\ \A k \in 1..Len(o2) + Len(i) :
           Expected(o2, i)[k] = IF k <= Len(o2) THEN o2[k].to ELSE i[k - Len(o2)]
  BY <1>1, ExpectedIsSeq
<1>6. \A k \in 1..Len(o) + Len(i) : e[k] = IF k <= Len(o) THEN o[k].to ELSE i[k - Len(o)]
  BY ExpectedIsSeq DEF e
<1>7. \A k \in 1..Len(o2) + Len(i) : Expected(o2, i)[k] = Tail(e)[k]
  <2> TAKE k \in 1..Len(o2) + Len(i)
  <2>1. /\ Expected(o2, i)[k] = IF k <= Len(o2) THEN o2[k].to ELSE i[k - Len(o2)]
        /\ e[k + 1] = IF k + 1 <= Len(o) THEN o[k + 1].to ELSE i[k + 1 - Len(o)]
    BY <1>1, <1>2, <1>5, <1>6
  <2> QED
    BY <1>1, <1>2, <1>3, <1>4, <2>1
<1>8. Expected(o2, i) = Tail(e)
  BY <1>1, <1>2, <1>3, <1>4, <1>7, <1>5, SeqEqual
<1> QED
  BY <1>3, <1>8 DEF o2, e

(* A new request's promise is the newest. *)
LEMMA ExpectedPost ==
    ASSUME NEW o \in Seq(Answer), NEW i \in Seq(Request), NEW req \in Request
    PROVE  Expected(o, Append(i, req)) = Append(Expected(o, i), req)
<1> DEFINE m == [k \in 1..Len(o) |-> o[k].to]
<1>1. Len(o) \in Nat /\ \A k \in 1..Len(o) : o[k].to \in Request
  <2>1. \A k \in 1..Len(o) : o[k] \in Answer
    BY ElementOfSeq
  <2> QED
    BY <2>1, LenProperties DEF Answer
<1>2. m \in Seq(Request)
  BY <1>1, IsASeq
<1> HIDE DEF m
<1>3. <<req>> \in Seq(Request) /\ m \o i \in Seq(Request)
  BY <1>2, ConcatProperties
<1>4. m \o Append(i, req) = Append(m \o i, req)
  BY <1>2, <1>3, AppendIsConcat, ConcatAssociative
<1> QED
  BY <1>4 DEF Expected, m

-----------------------------------------------------------------------------
(* A step of the limiter gives a place in the order to new calls only, and *)
(* starts a call only when those before it are over.                       *)
LEMMA LimiterEvolves ==
    ASSUME LimiterFacts!LInv, NoneDropped, OneAfterTheOther, [Limiter!Next]_limiter
    PROVE  /\ LimiterFacts!LInv' /\ Limiter!LimiterTypeOK'
           /\ NoneDropped' /\ OneAfterTheOther'
           /\ \A op \in Tx \cup Closes :
                /\ state[op] # "idle" => state'[op] # "idle" /\ turn'[op] = turn[op]
                /\ state[op] = "idle" /\ state'[op] # "idle" => turn'[op] = calls
                /\ state[op] \in Limiter!Started => state'[op] \in Limiter!Started
                /\ state[op] \in {"settled", "over"} => state'[op] \in {"settled", "over"}
<1> DEFINE Op == Tx \cup Closes
<1>1. LimiterFacts!LInv'
  BY LimiterStep
<1>2. Limiter!LimiterTypeOK'
  BY <1>1 DEF LimiterFacts!LInv, LimiterFacts!LimiterTypeOK, Limiter!LimiterTypeOK,
              LimiterFacts!State, Limiter!State, LimiterFacts!Started, Limiter!Started
<1>3. /\ ongoingOperations \in 0..1 /\ calls \in Nat
      /\ state \in [Op -> Limiter!State] /\ turn \in [Op -> Nat]
      /\ queue = {op \in Op : state[op] = "queued"}
      /\ \A op \in Op : state[op] # "idle" => turn[op] < calls
      /\ \A p, q \in Op : state[p] # "idle" /\ state[q] # "idle" /\ turn[p] = turn[q] => p = q
      /\ \A early, late \in Op :
           state[early] = "queued" /\ state[late] \in Limiter!Started => turn[late] < turn[early]
      /\ \A p, q \in Op : {state[p], state[q]} \subseteq {"running", "settled"} => p = q
      /\ ongoingOperations < 1 =>
           \A op \in Op : state[op] \notin {"queued", "running", "settled"}
  BY LimiterFactsHere
<1> DEFINE Evolves ==
      /\ NoneDropped' /\ OneAfterTheOther'
      /\ \A op \in Op :
           /\ state[op] # "idle" => state'[op] # "idle" /\ turn'[op] = turn[op]
           /\ state[op] = "idle" /\ state'[op] # "idle" => turn'[op] = calls
           /\ state[op] \in Limiter!Started => state'[op] \in Limiter!Started
           /\ state[op] \in {"settled", "over"} => state'[op] \in {"settled", "over"}
<1>4. ASSUME NEW op \in Op, Limiter!RunWhenFree(op) PROVE Evolves
  <2>1. CASE ongoingOperations < 1 /\ state' = [state EXCEPT ![op] = "running"]
    <3>1. \A early \in Op \ {op} : state[early] # "idle" => state[early] = "over"
      BY <1>3, <2>1 DEF NoneDropped, Limiter!State, Limiter!Started
    <3> QED
      BY <1>3, <1>4, <2>1, <3>1
         DEF Limiter!RunWhenFree, NoneDropped, OneAfterTheOther, Limiter!Started
  <2>2. CASE state' = [state EXCEPT ![op] = "queued"]
    BY <1>3, <1>4, <2>2 DEF Limiter!RunWhenFree, NoneDropped, OneAfterTheOther, Limiter!Started
  <2> QED
    BY <1>4, <2>1, <2>2 DEF Limiter!RunWhenFree
<1>5. ASSUME NEW op \in Op, Limiter!Settle(op) PROVE Evolves
  BY <1>3, <1>5 DEF Limiter!Settle, NoneDropped, OneAfterTheOther, Limiter!Started
<1>6. ASSUME NEW op \in Op, Limiter!OnSettled(op) PROVE Evolves
  <2>1. ASSUME NEW next \in queue, Limiter!First(next),
               state' = [state EXCEPT ![op] = "over", ![next] = "running"]
        PROVE  Evolves
    <3>1. next \in Op /\ state[next] = "queued" /\ state[op] = "settled" /\ next # op
      BY <1>3, <1>6 DEF Limiter!OnSettled
    <3>2. /\ turn' = turn /\ state'[op] = "over" /\ state'[next] = "running"
          /\ \A other \in Op \ {op, next} : state'[other] = state[other]
      BY <1>3, <1>6, <2>1, <3>1 DEF Limiter!OnSettled
    <3>3. ASSUME NEW early \in Op, state[early] # "idle", turn[early] < turn[next]
          PROVE  state[early] = "over" \/ early = op
      <4>1. state[early] # "queued"
        BY <1>3, <2>1, <3>1, <3>3 DEF Limiter!First
      <4> QED
        BY <1>3, <3>1, <3>3, <4>1 DEF NoneDropped, Limiter!State, Limiter!Started
    <3>4. OneAfterTheOther'
      <4> SUFFICES ASSUME NEW early \in Op, NEW late \in Op, state'[early] # "idle",
                          state'[late] \in Limiter!Started, turn[early] < turn[late]
                   PROVE  state'[early] = "over"
        BY <3>2 DEF OneAfterTheOther
      <4>1. state[early] # "idle"
        BY <3>1, <3>2
      <4>2. CASE late = next
        BY <3>1, <3>2, <3>3, <4>1, <4>2
      <4>3. CASE late # next
        <5>1. state[late] \in Limiter!Started
          BY <3>1, <3>2, <4>3 DEF Limiter!Started
        <5>2. state[early] = "over"
          BY <4>1, <5>1 DEF OneAfterTheOther
        <5> QED
          BY <3>1, <3>2, <5>2
      <4> QED
        BY <4>2, <4>3
    <3> QED
      BY <3>1, <3>2, <3>4 DEF NoneDropped, Limiter!Started
  <2>2. CASE state' = [state EXCEPT ![op] = "over"]
    BY <1>3, <1>6, <2>2 DEF Limiter!OnSettled, NoneDropped, OneAfterTheOther, Limiter!Started
  <2> QED
    BY <1>6, <2>1, <2>2 DEF Limiter!OnSettled
<1>7. ASSUME UNCHANGED limiter PROVE Evolves
  BY <1>7 DEF limiter, NoneDropped, OneAfterTheOther
<1>8. Evolves
  BY <1>4, <1>5, <1>6, <1>7 DEF Limiter!Next
<1> QED
  BY <1>1, <1>2, <1>8

(* Once the database is closed, or nothing is worked, what is in it stays: *)
(* a transaction stays whole or absent.                                    *)
LEMMA FrozenStaysWhole ==
    ASSUME TypeOK, AllOrNothing, StoredWasMade, UNCHANGED <<durable, failed>>,
           \A t \in Tx : state[t] \in {"settled", "over"}
                         => state'[t] \in {"settled", "over"} /\ made'[t] = made[t]
    PROVE  AllOrNothing'
<1> SUFFICES ASSUME NEW t \in Tx
             PROVE  \/ Body(t)' \cap durable = {}
                    \/ state'[t] \in {"settled", "over"} /\ Body(t)' \ failed \subseteq durable
  BY DEF AllOrNothing
<1>1. CASE Body(t) \cap durable = {}
  <2>1. ASSUME NEW req \in durable, req \in Body(t)' PROVE req \in Body(t)
    <3>1. req.by = t /\ req = Req("body", t, req.n)
      BY <2>1 DEF Body, Req
    <3>2. req.n \in 1..made[t]
      BY <3>1 DEF StoredWasMade
    <3> QED
      BY <3>1, <3>2 DEF Body
  <2> QED
    BY <1>1, <2>1
<1>2. CASE state[t] \in {"settled", "over"} /\ Body(t) \ failed \subseteq durable
  BY <1>2 DEF Body
<1> QED
  BY <1>1, <1>2 DEF AllOrNothing

(* What a close() had to wait for stays in the closed database.            *)
LEMMA ClosedKeepsEarlier ==
    ASSUME LimiterFacts!LInv, OneAfterTheOther, CloseKeepsEarlier,
           [Limiter!Next]_limiter, NoneDropped,
           UNCHANGED <<listening, durable, failed>>,
           \A t \in Tx : state[t] = "over" => made'[t] = made[t]
    PROVE  CloseKeepsEarlier'
<1> SUFFICES ASSUME ~listening PROVE CloseKeepsEarlier'
  BY DEF CloseKeepsEarlier
<1>1. PICK c \in Closes :
         /\ state[c] \in Limiter!Started
         /\ \A t \in Tx : state[t] # "idle" /\ turn[t] < turn[c]
                          => Body(t) \ failed \subseteq durable
  BY DEF CloseKeepsEarlier
<1>2. state'[c] \in Limiter!Started /\ turn'[c] = turn[c]
  BY <1>1, LimiterEvolves DEF Limiter!Started
<1>3. turn[c] < calls /\ turn[c] \in Nat /\ calls \in Nat
  BY <1>1, LimiterFactsHere DEF Limiter!Started
<1>4. ASSUME NEW t \in Tx, state'[t] # "idle", turn'[t] < turn'[c]
      PROVE  Body(t)' \ failed \subseteq durable
  <2>1. state[t] # "idle" /\ turn'[t] = turn[t]
    BY <1>2, <1>3, <1>4, LimiterEvolves
  <2>2. state[t] = "over"
    BY <1>1, <1>2, <1>4, <2>1 DEF OneAfterTheOther
  <2>3. Body(t)' = Body(t)
    BY <2>2 DEF Body
  <2> QED
    BY <1>1, <1>2, <1>4, <2>1, <2>3
<1> QED
  BY <1>2, <1>4 DEF CloseKeepsEarlier

-----------------------------------------------------------------------------
\* The next request is new, and comes after all the others of the limiter.
Adds(req) ==
    /\ req \in Request /\ ~Posted(req)
    /\ \A p \in Request : Posted(p)' <=> Posted(p) \/ p = req
    /\ \A p \in Request : Posted(p) /\ InLimiter(p) /\ InLimiter(req) =>
        \/ turn'[p.by] < turn'[req.by]
        \/ p.by = req.by /\ Stage(p) < Stage(req)

\* What every step of the main thread but Receive and Exit does.
MainStep ==
    /\ process = "running"
    /\ [Limiter!Next]_limiter
    /\ UNCHANGED <<errored, Worker>>
    /\ made' \in [Tx \cup Single -> 0..Size]
    /\ \A t \in Tx : made'[t] > 0 => state'[t] \in Limiter!Started
    /\ \A x \in Tx \cup Single : made[x] <= made'[x]
    /\ \A t \in Tx : state[t] \in {"settled", "over"} => made'[t] = made[t]

(* The parts of the invariant that do not speak of the inbox.              *)
LEMMA MainStepKeeps ==
    ASSUME DInv, MainStep
    PROVE  /\ LimiterFacts!LInv' /\ Limiter!LimiterTypeOK'
           /\ NoneDropped' /\ OneAfterTheOther' /\ RequestsOfStarted' /\ StoredWasMade'
           /\ AllOrNothing' /\ CloseKeepsEarlier'
           /\ made' \in [Tx \cup Single -> 0..Size]
           /\ \A p, q \in Request : Posted(p) /\ Posted(q) => (Before(p, q)' <=> Before(p, q))
<1>1. /\ LimiterFacts!LInv' /\ Limiter!LimiterTypeOK' /\ NoneDropped' /\ OneAfterTheOther'
      /\ \A op \in Tx \cup Closes :
            /\ state[op] # "idle" => turn'[op] = turn[op]
            /\ state[op] \in {"settled", "over"} => state'[op] \in {"settled", "over"}
  BY LimiterEvolves DEF DInv, MainStep
<1>2. RequestsOfStarted'
  BY DEF MainStep, RequestsOfStarted
<1>3. StoredWasMade'
  <2> SUFFICES ASSUME NEW req \in uncommitted \cup durable, req.by \in Tx
               PROVE  req.type = "body" /\ req.n \in 1..made'[req.by]
    BY DEF StoredWasMade, MainStep, Worker, database
  <2>1. req.type = "body" /\ req.n \in 1..made[req.by]
    BY DEF DInv, StoredWasMade
  <2>2. made[req.by] \in Nat /\ made'[req.by] \in Nat /\ made[req.by] <= made'[req.by]
    BY ConnectionAssumption DEF DInv, TypeOK, MainStep
  <2> QED
    BY <2>1, <2>2
<1>4. AllOrNothing'
  BY <1>1, FrozenStaysWhole DEF DInv, MainStep, Worker, database
<1>5. CloseKeepsEarlier'
  BY ClosedKeepsEarlier DEF DInv, MainStep, Worker, database
<1>6. ASSUME NEW p \in Request, NEW q \in Request, Posted(p), Posted(q)
      PROVE  Before(p, q)' <=> Before(p, q)
  <2>1. ASSUME NEW r \in {p, q}, InLimiter(r) PROVE turn'[r.by] = turn[r.by]
    <3>1. state[r.by] # "idle"
      BY <1>6, <2>1, PostedHasStarted DEF DInv, Limiter!Started
    <3> QED
      BY <1>1, <2>1, <3>1 DEF InLimiter
  <2> QED
    BY <2>1 DEF Before, InLimiter, Stage
<1> QED
  BY <1>1, <1>2, <1>3, <1>4, <1>5, <1>6 DEF MainStep

(* A step of the main thread that makes no request keeps the invariant.    *)
LEMMA MainQuiet ==
    ASSUME DInv, MainStep, UNCHANGED <<callbackQueue, inbox>>,
           process' \in {"running", "dying"},
           \A p \in Request : Posted(p)' <=> Posted(p)
    PROVE  DInv'
<1>1. /\ LimiterFacts!LInv' /\ Limiter!LimiterTypeOK'
      /\ NoneDropped' /\ OneAfterTheOther' /\ RequestsOfStarted' /\ StoredWasMade'
      /\ AllOrNothing' /\ CloseKeepsEarlier'
      /\ made' \in [Tx \cup Single -> 0..Size]
      /\ \A p, q \in Request : Posted(p) /\ Posted(q) => (Before(p, q)' <=> Before(p, q))
  BY MainStepKeeps
<1>2. UNCHANGED <<errored, listening, open, uncommitted, durable, failed, outbox>>
  BY DEF MainStep, Worker, database
<1>3. TypeOK'
  BY <1>1, <1>2 DEF DInv, TypeOK
<1>4. LiveInv'
  BY <1>1, <1>2, QuietKeepsLive DEF DInv, LiveInv, Live, MainStep
<1>5. AfterExit'
  BY <1>2 DEF DInv, AfterExit, MainStep
<1>6. AnswersInOrder'
  <2>1. process = "running" /\ AnswersInOrder
    BY DEF DInv, MainStep
  <2> QED
    BY <1>2, <2>1 DEF AnswersInOrder
<1> QED
  BY <1>1, <1>3, <1>4, <1>5, <1>6 DEF DInv

(* A step of the main thread that makes a request keeps the invariant.     *)
LEMMA MainPosts ==
    ASSUME DInv, MainStep, NEW req, Adds(req), Post(req)
    PROVE  DInv'
<1>1. /\ LimiterFacts!LInv' /\ Limiter!LimiterTypeOK'
      /\ NoneDropped' /\ OneAfterTheOther' /\ RequestsOfStarted' /\ StoredWasMade'
      /\ AllOrNothing' /\ CloseKeepsEarlier'
      /\ made' \in [Tx \cup Single -> 0..Size]
      /\ \A p, q \in Request : Posted(p) /\ Posted(q) => (Before(p, q)' <=> Before(p, q))
  BY MainStepKeeps
<1>2. /\ UNCHANGED <<errored, listening, open, uncommitted, durable, failed, outbox>>
      /\ process = "running" /\ req \in Request
      /\ callbackQueue \in Seq(Request) /\ inbox \in Seq(Request) /\ outbox \in Seq(Answer)
  BY DEF MainStep, Worker, database, Adds, DInv, TypeOK
<1>3. CASE errored
  <2>1. process' = "dying" /\ UNCHANGED <<callbackQueue, inbox>> /\ ~listening
    BY <1>3 DEF Post, DInv, AfterExit
  <2>2. TypeOK'
    BY <1>1, <1>2, <2>1 DEF DInv, TypeOK
  <2>3. LiveInv' /\ AnswersInOrder' /\ AfterExit'
    BY <1>2, <2>1 DEF DInv, LiveInv, Live, AnswersInOrder, AfterExit
  <2> QED
    BY <1>1, <2>2, <2>3 DEF DInv
<1>4. CASE ~errored
  <2>1. /\ callbackQueue' = Append(callbackQueue, req)
        /\ inbox' = Append(inbox, req) /\ process' = process
    BY <1>4 DEF Post
  <2>2. callbackQueue' \in Seq(Request) /\ inbox' \in Seq(Request)
        /\ Len(callbackQueue') = Len(callbackQueue) + 1 /\ Len(callbackQueue) \in Nat
        /\ Len(outbox) \in Nat
    BY <1>2, <2>1, AppendProperties, LenProperties
  <2>3. TypeOK'
    BY <1>1, <1>2, <2>1, <2>2 DEF DInv, TypeOK
  <2>4. AfterExit'
    BY <1>2, <1>4, <2>1, <2>2 DEF DInv, AfterExit
  <2>5. AnswersInOrder'
    <3>1. AnswersInOrder <=> (process = "running" /\ listening
                              => callbackQueue = Expected(outbox, inbox))
      BY DEF AnswersInOrder, Expected
    <3>2. AnswersInOrder' <=> (process' = "running" /\ listening'
                               => callbackQueue' = Expected(outbox', inbox'))
      BY DEF AnswersInOrder, Expected
    <3>3. Expected(outbox, Append(inbox, req)) = Append(Expected(outbox, inbox), req)
      BY <1>2, ExpectedPost
    <3> QED
      BY <1>2, <2>1, <3>1, <3>2, <3>3 DEF DInv
  <2>6. LiveInv'
    <3> SUFFICES ASSUME Live'
                 PROVE  (InboxPosted /\ InboxOrdered /\ DoneInOrder /\ DatabaseState)'
      BY DEF LiveInv
    <3>1. /\ TypeOK /\ StoredWasMade /\ turn \in [Tx \cup Closes -> Nat]
          /\ InboxPosted /\ InboxOrdered /\ DoneInOrder /\ DatabaseState
      BY <1>2, LimiterFactsHere DEF DInv, LiveInv, Live
    <3>2. turn' \in [Tx \cup Closes -> Nat]
      BY <1>1 DEF Limiter!LimiterTypeOK
    <3>3. ~Before(req, req)'
      <4>1. Stage(req) \in Nat
        BY <1>2, ConnectionAssumption DEF Stage, Request
      <4> QED
        BY <3>2, <4>1 DEF Before, InLimiter, Stage
    <3>4. ASSUME NEW p \in Request, Posted(p), InLimiter(p), InLimiter(req)
          PROVE  Before(p, req)' /\ ~Before(req, p)'
      <4>1. Stage(req) \in Nat /\ Stage(p) \in Nat
        BY <1>2, ConnectionAssumption DEF Stage, Request
      <4>2. turn'[p.by] \in Nat /\ turn'[req.by] \in Nat
        BY <3>2, <3>4 DEF InLimiter
      <4>3. \/ turn'[p.by] < turn'[req.by]
            \/ p.by = req.by /\ Stage(p) < Stage(req)
        BY <3>4 DEF Adds
      <4> QED
        BY <3>4, <4>1, <4>2, <4>3 DEF Before, InLimiter, Stage
    <3>5. /\ ~Posted(req) /\ \A p \in Request : Posted(p)' <=> Posted(p) \/ p = req
      BY DEF Adds
    <3> QED
      BY <1>1, <1>2, <2>1, <3>1, <3>3, <3>4, <3>5, PostKeepsLive
  <2> QED
    BY <1>1, <2>3, <2>4, <2>5, <2>6 DEF DInv
<1> QED
  BY <1>3, <1>4

(* A step that leaves the counts of requests alone is one of MainStep.     *)
LEMMA UncountedIsMainStep ==
    ASSUME DInv, process = "running", [Limiter!Next]_limiter, UNCHANGED <<made, errored, Worker>>
    PROVE  MainStep
<1>1. /\ made \in [Tx \cup Single -> 0..Size]
      /\ \A t \in Tx : made[t] > 0 => state[t] \in Limiter!Started
  BY DEF DInv, TypeOK, RequestsOfStarted
<1>2. \A t \in Tx : state[t] \in Limiter!Started => state'[t] \in Limiter!Started
  BY LimiterEvolves DEF DInv
<1>3. \A x \in Tx \cup Single : made[x] \in Nat
  BY <1>1, ConnectionAssumption
<1> QED
  BY <1>1, <1>2, <1>3 DEF MainStep

(* The first request of an operation that starts comes after all others.   *)
LEMMA StartAdds ==
    ASSUME DInv, MainStep, UNCHANGED made,
           NEW op \in Tx \cup Closes, state[op] \in {"idle", "queued"}, state'[op] = "running",
           \A x \in Tx \cup Closes : x # op => \/ state'[x] = state[x]
                                               \/ state[x] = "settled" /\ state'[x] = "over"
                                               \/ {state[x], state'[x]} \subseteq {"idle", "queued"}
    PROVE  /\ op \in Tx => Adds(Req("begin", op, 0))
           /\ op \in Closes => Adds(Req("close", op, 0))
<1>1. \A x \in Tx \cup Closes :
         /\ state[x] # "idle" => turn'[x] = turn[x]
         /\ state[x] = "idle" /\ state'[x] # "idle" => turn'[x] = calls
  BY LimiterEvolves DEF DInv, MainStep
<1>2. ASSUME NEW p \in Request, Posted(p), InLimiter(p) PROVE turn'[p.by] < turn'[op]
  <2>1. state[p.by] \in Limiter!Started
    BY <1>2, PostedHasStarted DEF DInv
  <2>2. turn[p.by] < calls /\ (state[op] = "queued" => turn[p.by] < turn[op])
    BY <1>2, <2>1, LimiterFactsHere DEF DInv, InLimiter, Limiter!Started
  <2> QED
    BY <1>1, <1>2, <2>1, <2>2 DEF InLimiter, Limiter!Started
<1>3. ASSUME NEW type \in {"begin", "close"}, type = "begin" => op \in Tx,
             type = "close" => op \in Closes
      PROVE  Adds(Req(type, op, 0))
  <2> DEFINE req == Req(type, op, 0)
  <2>1. /\ req \in Request /\ req.type = type /\ req.by = op /\ req.n = 0
    BY <1>3, ConnectionAssumption DEF Req, Request
  <2>2. ~Posted(req)
    BY <1>3, <2>1 DEF Posted, Limiter!Started
  <2>3. ASSUME NEW p \in Request PROVE Posted(p)' <=> Posted(p) \/ p = req
    <3>1. p.by = op /\ p.n = 0 /\ p.type = type <=> p = req
      BY <2>1 DEF Request, Req
    <3>2. CASE p.by # op \/ p.by \notin Tx \cup Closes
      BY <1>3, <2>1, <3>2 DEF Posted, Limiter!Started
    <3>3. CASE p.by = op /\ op \in Tx
      <4>1. op \notin Single \cup Closes /\ type = "begin" /\ made[op] = 0
        BY <1>3, <3>3, ConnectionAssumption
           DEF DInv, RequestsOfStarted, TypeOK, Limiter!Started
      <4> QED
        BY <3>1, <3>3, <4>1 DEF Posted, Limiter!Started
    <3>4. CASE p.by = op /\ op \in Closes
      <4>1. op \notin Single \cup Tx /\ type = "close"
        BY <1>3, <3>4, ConnectionAssumption
      <4> QED
        BY <3>1, <3>4, <4>1 DEF Posted, Limiter!Started
    <3> QED
      BY <3>2, <3>3, <3>4
  <2> HIDE DEF req
  <2> QED
    BY <1>2, <2>1, <2>2, <2>3 DEF Adds, req
<1> QED
  BY <1>3

(* transaction() and close(), whether they start at once or wait.          *)
LEMMA CallKeeps ==
    ASSUME DInv, NEW op \in Tx \cup Closes, Call(op)
    PROVE  DInv'
<1>1. MainStep /\ UNCHANGED made
  BY UncountedIsMainStep DEF Call, Limiter!Next
<1>2. state \in [Tx \cup Closes -> Limiter!State] /\ state[op] = "idle"
  BY LimiterFactsHere DEF DInv, Call, Limiter!RunWhenFree
<1>3. CASE state' = [state EXCEPT ![op] = "running"]
  <2>1. \E req : Adds(req) /\ Post(req)
    <3>1. /\ op \in Tx => Adds(Req("begin", op, 0))
          /\ op \in Closes => Adds(Req("close", op, 0))
      BY <1>1, <1>2, <1>3, StartAdds
    <3>2. /\ Enters(op) /\ \A x \in Tx \cup Closes : Enters(x) => x = op
      BY <1>2, <1>3 DEF Enters
    <3> QED
      BY <3>1, <3>2 DEF Call, Enter
  <2> QED
    BY <1>1, <2>1, MainPosts
<1>4. CASE state' = [state EXCEPT ![op] = "queued"]
  <2>1. \A x \in Tx \cup Closes : ~Enters(x)
    BY <1>2, <1>4 DEF Enters
  <2>2. UNCHANGED <<callbackQueue, inbox, process>>
    BY <2>1 DEF Call, Enter
  <2>3. \A p \in Request : Posted(p)' <=> Posted(p)
    BY <1>1, <1>2, <1>4 DEF Posted, Limiter!Started
  <2> QED
    BY <1>1, <2>2, <2>3, MainQuiet DEF MainStep
<1> QED
  BY <1>3, <1>4 DEF Call, Limiter!RunWhenFree

(* The limiter's onSettled starts the next call, if there is one.          *)
LEMMA OnSettledKeepsDInv ==
    ASSUME DInv, NEW op \in Tx \cup Closes, OnSettled(op)
    PROVE  DInv'
<1>1. MainStep /\ UNCHANGED made
  BY UncountedIsMainStep DEF OnSettled, Limiter!Next
<1>2. /\ state \in [Tx \cup Closes -> Limiter!State] /\ state[op] = "settled"
      /\ queue = {x \in Tx \cup Closes : state[x] = "queued"}
  BY LimiterFactsHere DEF DInv, OnSettled, Limiter!OnSettled
<1>3. ASSUME NEW next \in queue, state' = [state EXCEPT ![op] = "over", ![next] = "running"]
      PROVE  DInv'
  <2>1. next \in Tx \cup Closes /\ state[next] = "queued" /\ next # op
    BY <1>2
  <2>2. \E req : Adds(req) /\ Post(req)
    <3>1. /\ next \in Tx => Adds(Req("begin", next, 0))
          /\ next \in Closes => Adds(Req("close", next, 0))
      BY <1>1, <1>2, <1>3, <2>1, StartAdds
    <3>2. /\ Enters(next) /\ \A x \in Tx \cup Closes : Enters(x) => x = next
      BY <1>2, <1>3, <2>1 DEF Enters
    <3> QED
      BY <2>1, <3>1, <3>2 DEF OnSettled, Enter
  <2> QED
    BY <1>1, <2>2, MainPosts
<1>4. CASE state' = [state EXCEPT ![op] = "over"]
  <2>1. \A x \in Tx \cup Closes : ~Enters(x)
    BY <1>2, <1>4 DEF Enters
  <2>2. UNCHANGED <<callbackQueue, inbox, process>>
    BY <2>1 DEF OnSettled, Enter
  <2>3. \A p \in Request : Posted(p)' <=> Posted(p)
    BY <1>1, <1>2, <1>4 DEF Posted, Limiter!Started
  <2> QED
    BY <1>1, <2>2, <2>3, MainQuiet DEF MainStep
<1> QED
  BY <1>3, <1>4 DEF OnSettled, Limiter!OnSettled

(* The running transaction is the last that started.                       *)
LEMMA RunningIsLast ==
    ASSUME DInv, NEW t \in Tx, state[t] = "running",
           NEW p \in Request, Posted(p), InLimiter(p)
    PROVE  p.by = t \/ turn[p.by] < turn[t]
<1>1. state[p.by] \in Limiter!Started /\ p.by \in Tx \cup Closes
  BY PostedHasStarted DEF DInv, InLimiter
<1>2. p.by = t \/ turn[p.by] < turn[t] \/ turn[t] < turn[p.by]
  BY <1>1, LimiterFactsHere DEF DInv, Limiter!Started
<1>3. ~(turn[t] < turn[p.by])
  BY <1>1 DEF DInv, OneAfterTheOther
<1> QED
  BY <1>2, <1>3

(* Each request of a transaction comes after its earlier ones.             *)
LEMMA RequestInTransactionKeeps ==
    ASSUME DInv, NEW t \in Tx, RequestInTransaction(t)
    PROVE  DInv'
<1> DEFINE req == Req("body", t, made[t] + 1)
<1>1. /\ process = "running" /\ state[t] = "running" /\ made[t] < Size
      /\ made' = [made EXCEPT ![t] = made[t] + 1] /\ Post(req)
      /\ UNCHANGED <<limiter, errored, Worker>>
  BY DEF RequestInTransaction
<1>2. made \in [Tx \cup Single -> 0..Size] /\ t \notin Single \cup Closes
  BY ConnectionAssumption DEF DInv, TypeOK
<1>3. MainStep
  <2>1. made' \in [Tx \cup Single -> 0..Size]
    BY <1>1, <1>2, ConnectionAssumption
  <2>2. \A u \in Tx : made'[u] > 0 => state'[u] \in Limiter!Started
    BY <1>1, <1>2 DEF DInv, RequestsOfStarted, limiter, Limiter!Started
  <2>3. \A x \in Tx \cup Single : made[x] <= made'[x]
    BY <1>1, <1>2, ConnectionAssumption
  <2>4. \A u \in Tx : state[u] \in {"settled", "over"} => made'[u] = made[u]
    BY <1>1, <1>2
  <2> QED
    BY <1>1, <2>1, <2>2, <2>3, <2>4 DEF MainStep
<1>4. Adds(req)
  <2>1. /\ req \in Request /\ req.type = "body" /\ req.by = t /\ req.n = made[t] + 1
        /\ made[t] \in Nat
    BY <1>1, <1>2, ConnectionAssumption DEF Req, Request
  <2>2. ~Posted(req)
    BY <2>1 DEF Posted
  <2>3. ASSUME NEW p \in Request PROVE Posted(p)' <=> Posted(p) \/ p = req
    <3>1. p.type = "body" /\ p.by = t /\ p.n = made[t] + 1 <=> p = req
      BY <2>1 DEF Request, Req
    <3>2. CASE p.type # "body" \/ p.by # t
      BY <1>1, <1>2, <2>1, <3>2 DEF Posted, limiter
    <3>3. CASE p.type = "body" /\ p.by = t
      <4>1. Posted(p)' <=> p.n \in 1..made[t] + 1
        BY <1>1, <1>2, <3>3 DEF Posted
      <4>2. Posted(p) <=> p.n \in 1..made[t]
        BY <1>2, <3>3 DEF Posted
      <4> QED
        BY <2>1, <3>1, <3>3, <4>1, <4>2
    <3> QED
      BY <3>2, <3>3
  <2>4. ASSUME NEW p \in Request, Posted(p), InLimiter(p)
        PROVE  turn[p.by] < turn[t] \/ (p.by = t /\ Stage(p) < Stage(req))
    <3>1. CASE p.by = t
      BY <1>1, <1>2, <2>1, <2>4, <3>1 DEF Posted, Stage
    <3> QED
      BY <1>1, <2>4, <3>1, RunningIsLast
  <2> HIDE DEF req
  <2> QED
    BY <1>1, <2>1, <2>2, <2>3, <2>4 DEF Adds, limiter
<1> QED
  BY <1>1, <1>3, <1>4, MainPosts

(* COMMIT comes after all requests of its transaction.                     *)
LEMMA CommitKeeps ==
    ASSUME DInv, NEW t \in Tx, Commit(t)
    PROVE  DInv'
<1> DEFINE req == Req("commit", t, 0)
<1>1. MainStep /\ UNCHANGED made
  BY UncountedIsMainStep DEF Commit, Limiter!Next
<1>2. /\ state \in [Tx \cup Closes -> Limiter!State] /\ state[t] = "running" /\ turn' = turn
      /\ state' = [state EXCEPT ![t] = "settled"] /\ Post(req)
      /\ made \in [Tx \cup Single -> 0..Size] /\ t \notin Single \cup Closes
  BY LimiterFactsHere, ConnectionAssumption DEF DInv, TypeOK, Commit, Limiter!Settle
<1>3. Adds(req)
  <2>1. req \in Request /\ req.type = "commit" /\ req.by = t /\ req.n = 0
    BY ConnectionAssumption DEF Req, Request
  <2>2. ~Posted(req)
    BY <1>2, <2>1 DEF Posted
  <2>3. ASSUME NEW p \in Request PROVE Posted(p)' <=> Posted(p) \/ p = req
    <3>1. p.type = "commit" /\ p.by = t /\ p.n = 0 <=> p = req
      BY <2>1 DEF Request, Req
    <3>2. CASE p.by # t
      BY <1>1, <1>2, <2>1, <3>2 DEF Posted
    <3>3. CASE p.by = t
      BY <1>1, <1>2, <3>1, <3>3 DEF Posted, Limiter!Started
    <3> QED
      BY <3>2, <3>3
  <2>4. ASSUME NEW p \in Request, Posted(p), InLimiter(p)
        PROVE  turn[p.by] < turn[t] \/ (p.by = t /\ Stage(p) < Stage(req))
    <3>1. CASE p.by = t
      <4>1. made[t] \in 0..Size /\ p.type # "commit"
        BY <1>2, <2>4, <3>1, ConnectionAssumption DEF Posted
      <4> QED
        BY <1>2, <2>1, <2>4, <3>1, <4>1, ConnectionAssumption DEF Posted, Stage
    <3> QED
      BY <1>2, <2>4, <3>1, RunningIsLast
  <2> HIDE DEF req
  <2> QED
    BY <1>2, <2>1, <2>2, <2>3, <2>4 DEF Adds
<1> QED
  BY <1>1, <1>2, <1>3, MainPosts

(* close() does not wait for the answer to its request.                    *)
LEMMA CloseSettlesKeeps ==
    ASSUME DInv, NEW c \in Closes, CloseSettles(c)
    PROVE  DInv'
<1>1. /\ UNCHANGED <<made, errored, Worker, callbackQueue, inbox, process>>
      /\ process = "running" /\ [Limiter!Next]_limiter
  BY DEF CloseSettles, Limiter!Next, main
<1>2. MainStep
  BY <1>1, UncountedIsMainStep
<1>3. /\ state \in [Tx \cup Closes -> Limiter!State] /\ state[c] = "running"
      /\ state' = [state EXCEPT ![c] = "settled"] /\ c \notin Tx
  BY LimiterFactsHere, ConnectionAssumption DEF DInv, CloseSettles, Limiter!Settle
<1>4. \A p \in Request : Posted(p)' <=> Posted(p)
  BY <1>1, <1>3 DEF Posted, Limiter!Started
<1> QED
  BY <1>1, <1>2, <1>4, MainQuiet

(* Requests outside the transactions may come anywhere.                    *)
LEMMA RequestAloneKeeps ==
    ASSUME DInv, NEW r \in Single, RequestAlone(r)
    PROVE  DInv'
<1> DEFINE req == Req("body", r, 1)
<1>1. /\ process = "running" /\ made[r] = 0
      /\ made' = [made EXCEPT ![r] = 1] /\ Post(req)
      /\ UNCHANGED <<limiter, errored, Worker>>
  BY DEF RequestAlone
<1>2. made \in [Tx \cup Single -> 0..Size] /\ r \notin Tx \cup Closes
  BY ConnectionAssumption DEF DInv, TypeOK
<1>3. MainStep
  <2>1. made' \in [Tx \cup Single -> 0..Size]
    BY <1>1, <1>2, ConnectionAssumption
  <2>2. \A u \in Tx : made'[u] = made[u]
    BY <1>1, <1>2
  <2>3. \A x \in Tx \cup Single : made[x] <= made'[x]
    BY <1>1, <1>2, ConnectionAssumption
  <2> QED
    BY <1>1, <2>1, <2>2, <2>3 DEF MainStep, DInv, RequestsOfStarted, limiter
<1>4. Adds(req)
  <2>1. /\ req \in Request /\ req.type = "body" /\ req.by = r /\ req.n = 1
        /\ ~InLimiter(req)
    BY <1>2, ConnectionAssumption DEF Req, Request, InLimiter
  <2>2. ~Posted(req)
    BY <1>1, <2>1 DEF Posted
  <2>3. ASSUME NEW p \in Request PROVE Posted(p)' <=> Posted(p) \/ p = req
    <3>1. p.type = "body" /\ p.by = r /\ p.n = 1 <=> p = req
      BY <2>1 DEF Request, Req
    <3>2. p.by # r \/ p.type # "body" => (Posted(p)' <=> Posted(p))
      BY <1>1, <1>2 DEF Posted, limiter
    <3>3. p.by = r /\ p.type = "body" => (Posted(p)' <=> p.n = 1) /\ ~Posted(p)
      BY <1>1, <1>2 DEF Posted, Request
    <3> QED
      BY <2>1, <3>1, <3>2, <3>3
  <2> HIDE DEF req
  <2> QED
    BY <2>1, <2>2, <2>3 DEF Adds
<1> QED
  BY <1>1, <1>3, <1>4, MainPosts

(* A callback that throws leaves everything as it is, and the process to   *)
(* die.                                                                    *)
LEMMA CallbackThrowsKeeps ==
    ASSUME DInv, NEW t \in Tx, CallbackThrows(t)
    PROVE  DInv'
<1>1. /\ UNCHANGED <<limiter, made, errored, Worker, callbackQueue, inbox>>
      /\ process = "running" /\ process' = "dying"
  BY DEF CallbackThrows, main
<1>2. MainStep
  BY <1>1, UncountedIsMainStep
<1>3. \A p \in Request : Posted(p)' <=> Posted(p)
  BY <1>1 DEF Posted, limiter
<1> QED
  BY <1>1, <1>2, <1>3, MainQuiet

(* An answer settles the oldest promise, which is its own.                 *)
LEMMA ReceiveKeeps ==
    ASSUME DInv, Receive
    PROVE  DInv'
<1>1. /\ process = "running" /\ outbox # <<>> /\ outbox' = Tail(outbox)
      /\ callbackQueue' = Tail(callbackQueue) /\ process' \in {"running", "dying"}
      /\ UNCHANGED <<limiter, made, errored, inbox, listening, database>>
  BY DEF Receive
<1>2. /\ callbackQueue \in Seq(Request) /\ inbox \in Seq(Request) /\ outbox \in Seq(Answer)
      /\ AnswersInOrder /\ AfterExit
  BY DEF DInv, TypeOK
<1>3. ~errored /\ Len(outbox) \in Nat \ {0}
  BY <1>1, <1>2, EmptySeq DEF AfterExit
<1>4. /\ Expected(outbox, inbox) # <<>>
      /\ Expected(outbox', inbox) = Tail(Expected(outbox, inbox))
  BY <1>1, <1>2, ExpectedReceive
<1>5. listening => callbackQueue = Expected(outbox, inbox)
  BY <1>1, <1>2 DEF AnswersInOrder, Expected
<1>6. callbackQueue # <<>>
  <2>1. CASE listening
    BY <1>4, <1>5, <2>1
  <2>2. CASE ~listening
    <3>1. Len(callbackQueue) > 0
      BY <1>1, <1>2, <1>3, <2>2 DEF AfterExit
    <3> QED
      BY <3>1
  <2> QED
    BY <1>2, <2>1, <2>2 DEF DInv, TypeOK
<1>7. /\ callbackQueue' \in Seq(Request) /\ Len(callbackQueue') = Len(callbackQueue) - 1
      /\ outbox' \in Seq(Answer) /\ Len(outbox') = Len(outbox) - 1
      /\ Len(callbackQueue) \in Nat
  BY <1>1, <1>2, <1>6, HeadTailProperties, LenProperties
<1>8. TypeOK'
  <2>1. Limiter!LimiterTypeOK'
    BY <1>1, LimiterEvolves DEF DInv
  <2> QED
    BY <1>1, <1>7, <2>1 DEF DInv, TypeOK, database
<1>9. AfterExit'
  BY <1>1, <1>2, <1>3, <1>7 DEF AfterExit
<1>10. AnswersInOrder'
  <2>1. listening => callbackQueue' = Expected(outbox', inbox)
    BY <1>1, <1>4, <1>5
  <2> QED
    BY <1>1, <2>1 DEF AnswersInOrder, Expected
<1>11. LiveInv'
  <2>1. \A p \in Request : Posted(p)' <=> Posted(p)
    BY <1>1 DEF Posted, limiter
  <2>2. \A p, q \in Request : Before(p, q)' <=> Before(p, q)
    BY <1>1 DEF Before, InLimiter, limiter
  <2>3. UNCHANGED <<inbox, open, uncommitted, durable, failed, listening>>
    BY <1>1 DEF database
  <2> QED
    BY <1>1, <2>1, <2>2, <2>3, QuietKeepsLive DEF DInv, LiveInv, Live
<1>12. AllOrNothing'
  BY <1>1, FrozenStaysWhole DEF DInv, limiter, database
<1>13. CloseKeepsEarlier'
  BY <1>1, ClosedKeepsEarlier DEF DInv, limiter, database
<1>14. /\ LimiterFacts!LInv' /\ NoneDropped' /\ OneAfterTheOther'
  BY <1>1, LimiterEvolves DEF DInv
<1>15. RequestsOfStarted' /\ StoredWasMade'
  BY <1>1 DEF DInv, RequestsOfStarted, StoredWasMade, limiter, database
<1> QED
  BY <1>8, <1>9, <1>10, <1>11, <1>12, <1>13, <1>14, <1>15 DEF DInv

(* The exit empties the queue of promises of a worker that listens no more. *)
LEMMA ExitKeeps ==
    ASSUME DInv, Exit
    PROVE  DInv'
<1>1. /\ process = "running" /\ ~listening /\ outbox = <<>> /\ errored' = TRUE
      /\ callbackQueue' = <<>> /\ process' \in {"running", "dying"}
      /\ UNCHANGED <<limiter, made, inbox, Worker>>
  BY DEF Exit
<1>2. UNCHANGED <<listening, open, uncommitted, durable, failed, outbox>>
  BY <1>1 DEF Worker, database
<1>3. /\ LimiterFacts!LInv' /\ NoneDropped' /\ OneAfterTheOther' /\ Limiter!LimiterTypeOK'
  BY <1>1, LimiterEvolves DEF DInv
<1>4. TypeOK'
  BY <1>1, <1>2, <1>3, EmptySeq DEF DInv, TypeOK
<1>5. AfterExit' /\ AnswersInOrder' /\ LiveInv'
  BY <1>1, <1>2 DEF AfterExit, AnswersInOrder, LiveInv, Live
<1>6. AllOrNothing'
  BY <1>1, <1>2, FrozenStaysWhole DEF DInv, limiter
<1>7. CloseKeepsEarlier'
  BY <1>1, <1>2, ClosedKeepsEarlier DEF DInv, limiter
<1>8. RequestsOfStarted' /\ StoredWasMade'
  BY <1>1, <1>2 DEF DInv, RequestsOfStarted, StoredWasMade, limiter
<1> QED
  BY <1>3, <1>4, <1>5, <1>6, <1>7, <1>8 DEF DInv

(* What is not committed is lost with the process, and nothing else.       *)
LEMMA DieKeeps ==
    ASSUME DInv, Die
    PROVE  DInv'
<1>1. /\ process' = "dead" /\ open' = FALSE /\ uncommitted' = {}
      /\ UNCHANGED <<limiter, made, callbackQueue, errored, inbox, listening, durable,
                     failed, outbox>>
  BY DEF Die, main
<1>2. /\ LimiterFacts!LInv' /\ NoneDropped' /\ OneAfterTheOther' /\ Limiter!LimiterTypeOK'
  BY <1>1, LimiterEvolves DEF DInv
<1>3. TypeOK'
  BY <1>1, <1>2 DEF DInv, TypeOK
<1>4. AfterExit' /\ AnswersInOrder' /\ LiveInv'
  BY <1>1 DEF DInv, AfterExit, AnswersInOrder, LiveInv, Live
<1>5. AllOrNothing'
  BY <1>1, FrozenStaysWhole DEF DInv, limiter
<1>6. CloseKeepsEarlier'
  BY <1>1, ClosedKeepsEarlier DEF DInv, limiter
<1>7. RequestsOfStarted' /\ StoredWasMade'
  BY <1>1 DEF DInv, RequestsOfStarted, StoredWasMade, limiter
<1> QED
  BY <1>2, <1>3, <1>4, <1>5, <1>6, <1>7 DEF DInv

-----------------------------------------------------------------------------
(* When the worker closes the database, the transactions called before     *)
(* that close() are committed.                                             *)
LEMMA CloseClosesAfterEarlier ==
    ASSUME DInv, Live, inbox # <<>>, inbox' = Tail(inbox), UNCHANGED <<limiter, main>>,
           Close(Head(inbox))
    PROVE  CloseKeepsEarlier'
<1>1. PICK req : req = Head(inbox)
  OBVIOUS
<1> DEFINE c == req.by
<1>2. /\ req.type = "close" /\ UNCHANGED <<durable, failed, made, state, turn>>
  BY <1>1 DEF Close, limiter, main
<1>3. /\ req \in Request /\ Posted(req)
      /\ \A p \in Request : Posted(p) /\ Before(p, req) => Done(p)
  BY <1>1, TakingARequest
<1>4. c \in Closes /\ state[c] \in Limiter!Started
  BY <1>2, <1>3 DEF Posted
<1>5. ASSUME NEW t \in Tx, state[t] # "idle", turn[t] < turn[c]
      PROVE  Body(t) \ failed \subseteq durable
  <2>1. state[t] = "over"
    BY <1>4, <1>5 DEF DInv, OneAfterTheOther
  <2>2. Posted(Req("commit", t, 0)) /\ Before(Req("commit", t, 0), req)
    BY <1>4, <1>5, <2>1 DEF Posted, Before, InLimiter, Req
  <2>3. Committed(t)
    BY <1>3, <2>2, TransactionRequests DEF Committed
  <2> QED
    BY <2>3, CommittedIsStored DEF DInv, LiveInv
<1>6. \A t \in Tx : Body(t)' = Body(t)
  BY <1>2 DEF Body
<1> QED
  BY <1>2, <1>4, <1>5, <1>6 DEF CloseKeepsEarlier

(* An answer to the request that is taken keeps the promises in order.     *)
LEMMA ReplyKeepsAnswers ==
    ASSUME DInv, Live, inbox # <<>>, inbox' = Tail(inbox), UNCHANGED <<limiter, main, process>>,
           NEW error \in BOOLEAN, Reply(Head(inbox), error), listening' = listening
    PROVE  AnswersInOrder' /\ AfterExit' /\ outbox' \in Seq(Answer)
<1>1. /\ inbox \in Seq(Request) /\ outbox \in Seq(Answer) /\ listening
      /\ UNCHANGED <<callbackQueue, errored, process>>
  BY DEF DInv, TypeOK, Live, main
<1>2. PICK answer : answer = [to |-> Head(inbox), error |-> error]
  OBVIOUS
<1>3. answer \in Answer /\ answer.to = Head(inbox) /\ outbox' = Append(outbox, answer)
  BY <1>1, <1>2, HeadTailProperties DEF Answer, Reply
<1>4. Expected(outbox', inbox') = Expected(outbox, inbox) /\ outbox' \in Seq(Answer)
  BY <1>1, <1>3, ExpectedReply, AppendProperties
<1>5. AnswersInOrder'
  <2>1. process = "running" => callbackQueue = Expected(outbox, inbox)
    BY <1>1 DEF DInv, AnswersInOrder, Expected
  <2>2. process' = "running" => callbackQueue' = Expected(outbox', inbox')
    BY <1>1, <1>4, <2>1
  <2> QED
    BY <2>2 DEF AnswersInOrder, Expected
<1>6. AfterExit'
  BY <1>1 DEF DInv, AfterExit
<1> QED
  BY <1>4, <1>5, <1>6

(* The worker's handling of a message keeps the invariant.                 *)
LEMMA WorkKeeps ==
    ASSUME DInv, Work
    PROVE  DInv'
<1>1. /\ Live /\ inbox # <<>> /\ inbox' = Tail(inbox) /\ UNCHANGED <<limiter, main, process>>
      /\ \/ Begin(Head(inbox)) \/ CommitTransaction(Head(inbox))
         \/ Execute(Head(inbox)) \/ Close(Head(inbox))
  BY DEF Work, Live
<1>2. /\ LimiterFacts!LInv' /\ NoneDropped' /\ OneAfterTheOther' /\ Limiter!LimiterTypeOK'
  BY <1>1, LimiterEvolves DEF DInv
<1>3. PICK req : req = Head(inbox)
  OBVIOUS
<1>4. req \in Request /\ inbox' \in Seq(Request)
  BY <1>1, <1>3, HeadTailProperties DEF DInv, TypeOK
<1>5. (InboxPosted /\ InboxOrdered /\ DoneInOrder)'
  BY <1>1, <1>3, TakingARequest
<1>6. UNCHANGED <<made, state, callbackQueue, errored>> /\ RequestsOfStarted'
  BY <1>1 DEF DInv, RequestsOfStarted, limiter, main
<1>7. CASE listening' = listening
  <2>1. \/ Begin(Head(inbox)) \/ CommitTransaction(Head(inbox)) \/ Execute(Head(inbox))
    BY <1>1, <1>7 DEF Close, Live
  <2>2. \E error \in BOOLEAN : Reply(Head(inbox), error)
    BY <2>1 DEF Begin, CommitTransaction, Execute, DInv, TypeOK
  <2>3. AnswersInOrder' /\ AfterExit' /\ outbox' \in Seq(Answer)
    BY <1>1, <1>7, <2>2, ReplyKeepsAnswers
  <2>4. CloseKeepsEarlier'
    BY <1>1, <1>7 DEF CloseKeepsEarlier, Live
  <2>5. TypeOK'
    <3>1. /\ open' \in BOOLEAN
          /\ uncommitted' \cup durable' \cup failed' \subseteq Request
      BY <1>3, <1>4, <2>1 DEF Begin, CommitTransaction, Execute, DInv, TypeOK
    <3> QED
      BY <1>1, <1>2, <1>4, <1>6, <1>7, <2>3, <3>1 DEF DInv, TypeOK
  <2>6. StoredWasMade' /\ DatabaseState'
    <3>1. CASE Begin(Head(inbox))
      BY <1>1, <1>6, <3>1, BeginKeepsDatabase DEF Begin, DInv, StoredWasMade
    <3>2. CASE CommitTransaction(Head(inbox))
      BY <1>1, <1>6, <3>2, CommitKeepsDatabase DEF CommitTransaction, DInv, StoredWasMade
    <3>3. CASE Execute(Head(inbox))
      BY <1>1, <3>3, ExecuteKeepsDatabase
    <3> QED
      BY <2>1, <3>1, <3>2, <3>3
  <2>7. LiveInv' /\ Live'
    BY <1>1, <1>5, <1>7, <2>6 DEF LiveInv, Live
  <2>8. AllOrNothing'
    BY <2>5, <2>7, WholeWhileLive, PTL
  <2> QED
    BY <1>2, <1>6, <2>3, <2>4, <2>5, <2>6, <2>7, <2>8 DEF DInv
<1>8. CASE Close(Head(inbox))
  <2>1. /\ listening' = FALSE /\ open' = FALSE /\ uncommitted' = {}
        /\ UNCHANGED <<durable, failed, outbox>>
    BY <1>8 DEF Close
  <2>2. CloseKeepsEarlier'
    BY <1>1, <1>8, CloseClosesAfterEarlier
  <2>3. TypeOK'
    BY <1>1, <1>2, <1>4, <1>6, <2>1 DEF DInv, TypeOK
  <2>4. LiveInv' /\ AnswersInOrder'
    BY <2>1 DEF LiveInv, Live, AnswersInOrder
  <2>5. AfterExit'
    <3>1. /\ inbox \in Seq(Request) /\ outbox \in Seq(Answer) /\ listening /\ ~errored
          /\ Len(inbox) \in Nat \ {0}
      BY <1>1, EmptySeq DEF DInv, TypeOK, Live, AfterExit
    <3>2. process = "running" => callbackQueue = Expected(outbox, inbox)
      BY <3>1 DEF DInv, AnswersInOrder, Expected
    <3>3. Len(Expected(outbox, inbox)) > Len(outbox)
      BY <3>1, ExpectedIsSeq
    <3> QED
      BY <1>1, <1>6, <2>1, <3>1, <3>2, <3>3 DEF AfterExit
  <2>6. AllOrNothing'
    BY <1>6, <2>1, FrozenStaysWhole DEF DInv
  <2>7. StoredWasMade'
    BY <1>6, <2>1 DEF DInv, StoredWasMade
  <2> QED
    BY <1>2, <1>6, <2>2, <2>3, <2>4, <2>5, <2>6, <2>7 DEF DInv
<1> QED
  BY <1>1, <1>7, <1>8 DEF Begin, CommitTransaction, Execute

-----------------------------------------------------------------------------
(* Nothing was called or requested yet. *)
LEMMA InitDInv == Init => DInv
<1> SUFFICES ASSUME Init PROVE DInv
  OBVIOUS
<1>1. LimiterFacts!LInv
  <2>1. LimiterFacts!Init
    BY DEF Init, Limiter!Init, LimiterFacts!Init
  <2> QED
    BY <2>1, LimiterFacts!InitLInv, LimiterConstants
<1>2. /\ state = [op \in Tx \cup Closes |-> "idle"] /\ Limiter!LimiterTypeOK
  BY DEF Init, Limiter!Init, Limiter!LimiterTypeOK, Limiter!State
<1>3. /\ made = [x \in Tx \cup Single |-> 0]
      /\ callbackQueue = <<>> /\ inbox = <<>> /\ outbox = <<>>
      /\ listening = TRUE /\ errored = FALSE /\ open = FALSE
      /\ uncommitted = {} /\ durable = {} /\ failed = {} /\ process = "running"
  BY DEF Init
<1>4. TypeOK
  <2>1. made \in [Tx \cup Single -> 0..Size]
    BY <1>3, ConnectionAssumption
  <2>2. <<>> \in Seq(Request) /\ <<>> \in Seq(Answer)
    BY EmptySeq
  <2> QED
    BY <1>2, <1>3, <2>1, <2>2 DEF TypeOK
<1>5. NoneDropped /\ OneAfterTheOther /\ RequestsOfStarted /\ AfterExit /\ StoredWasMade
  BY <1>2, <1>3 DEF NoneDropped, OneAfterTheOther, RequestsOfStarted, AfterExit,
                    StoredWasMade, Limiter!Started
<1>6. Len(inbox) = 0 /\ \A req : ~Waiting(req)
  BY <1>3, EmptySeq DEF Waiting
<1>7. LiveInv
  <2>1. \A req \in Request : req.by \in Tx => ~Posted(req)
    BY <1>2, <1>3 DEF Posted, Limiter!Started
  <2>2. \A t \in Tx : ~Begun(t)
    BY <2>1, TransactionRequests DEF Begun, Done, Req
  <2> QED
    BY <1>6, <2>1, <2>2 DEF LiveInv, InboxPosted, InboxOrdered, DoneInOrder, DatabaseState
<1>8. AnswersInOrder
  <2>1. Expected(outbox, inbox) \in Seq(Request) /\ Len(Expected(outbox, inbox)) = 0
    <3>1. /\ outbox \in Seq(Answer) /\ inbox \in Seq(Request)
          /\ Len(outbox) = 0 /\ Len(inbox) = 0
      BY <1>3, <1>4, EmptySeq DEF TypeOK
    <3>2. /\ Expected(outbox, inbox) \in Seq(Request)
          /\ Len(Expected(outbox, inbox)) = Len(outbox) + Len(inbox)
      BY <3>1, ExpectedIsSeq
    <3> QED
      BY <3>1, <3>2
  <2>2. Expected(outbox, inbox) = <<>>
    BY <2>1, EmptySeq
  <2> QED
    BY <1>3, <2>2 DEF AnswersInOrder, Expected
<1>9. AllOrNothing /\ CloseKeepsEarlier
  BY <1>3 DEF AllOrNothing, CloseKeepsEarlier
<1> QED
  BY <1>1, <1>4, <1>5, <1>7, <1>8, <1>9 DEF DInv

(* Every step of the main thread and of the worker keeps the invariant.    *)
LEMMA NextDInv == DInv /\ [Next]_vars => DInv'
<1> SUFFICES ASSUME DInv, [Next]_vars PROVE DInv'
  OBVIOUS
<1>1. ASSUME NEW op \in Tx \cup Closes, Call(op) \/ OnSettled(op) PROVE DInv'
  BY <1>1, CallKeeps, OnSettledKeepsDInv
<1>2. ASSUME NEW t \in Tx, RequestInTransaction(t) \/ Commit(t) \/ CallbackThrows(t)
      PROVE  DInv'
  BY <1>2, RequestInTransactionKeeps, CommitKeeps, CallbackThrowsKeeps
<1>3. ASSUME NEW c \in Closes, CloseSettles(c) PROVE DInv'
  BY <1>3, CloseSettlesKeeps
<1>4. ASSUME NEW r \in Single, RequestAlone(r) PROVE DInv'
  BY <1>4, RequestAloneKeeps
<1>5. CASE Receive \/ Exit \/ Work \/ Die
  BY <1>5, ReceiveKeeps, ExitKeeps, WorkKeeps, DieKeeps
<1>6. CASE UNCHANGED vars
  <2>1. /\ UNCHANGED <<limiter, made, callbackQueue, errored, inbox, listening, open,
                       uncommitted, durable, failed, outbox, process>>
    BY <1>6 DEF vars, main, database
  <2>2. /\ LimiterFacts!LInv' /\ NoneDropped' /\ OneAfterTheOther' /\ Limiter!LimiterTypeOK'
    BY <2>1, LimiterEvolves DEF DInv
  <2>3. TypeOK'
    BY <2>1, <2>2 DEF DInv, TypeOK
  <2>4. LiveInv'
    <3>1. \A p : Posted(p)' <=> Posted(p)
      BY <2>1 DEF Posted, limiter
    <3>2. \A p, q : Before(p, q)' <=> Before(p, q)
      BY <2>1 DEF Before, InLimiter, limiter
    <3> QED
      BY <2>1, <3>1, <3>2, QuietKeepsLive DEF DInv, LiveInv, Live
  <2>5. AllOrNothing'
    BY <2>1, FrozenStaysWhole DEF DInv, limiter
  <2>6. CloseKeepsEarlier'
    BY <2>1, ClosedKeepsEarlier DEF DInv, limiter
  <2>7. RequestsOfStarted' /\ StoredWasMade' /\ AfterExit'
    BY <2>1 DEF DInv, RequestsOfStarted, StoredWasMade, AfterExit, limiter
  <2>8. AnswersInOrder'
    BY <2>1 DEF DInv, AnswersInOrder
  <2> QED
    BY <2>2, <2>3, <2>4, <2>5, <2>6, <2>7, <2>8 DEF DInv
<1> QED
  BY <1>1, <1>2, <1>3, <1>4, <1>5, <1>6 DEF Next

(* The inductive invariant holds of the connection in every state.         *)
LEMMA ConnectionInvariant == Spec => []DInv
  BY InitDInv, NextDInv, PTL DEF Spec

(* The connection's fields, the messages and the database have their       *)
(* types: an answer always finds a promise to settle.                      *)
THEOREM ConnectionTypeCorrect == Spec => []TypeOK
  BY ConnectionInvariant, PTL DEF DInv

(* Each answer settles the promise of its own request, whatever requests   *)
(* are made inside and outside transactions.                               *)
THEOREM AnswersAlwaysInOrder == Spec => []AnswersInOrder
  BY ConnectionInvariant, PTL DEF DInv

(* A transaction is in the database as a whole or not at all, whenever the *)
(* process dies.                                                           *)
THEOREM TransactionsWhole == Spec => []AllOrNothing
  BY ConnectionInvariant, PTL DEF DInv

(* When the database is closed, all transactions called before the close() *)
(* are in it.                                                              *)
THEOREM CloseLosesNothing == Spec => []CloseKeepsEarlier
  BY ConnectionInvariant, PTL DEF DInv

(* Every step of the connection is one of its limiter, or leaves it alone. *)
LEMMA StepOfLimiter == [Next]_vars => [Limiter!Next]_(Limiter!limiterVars)
<1> SUFFICES ASSUME [Next]_vars PROVE [Limiter!Next]_(Limiter!limiterVars)
  OBVIOUS
<1>1. ASSUME NEW op \in Tx \cup Closes, Call(op) \/ OnSettled(op) PROVE Limiter!Next
  BY <1>1 DEF Call, OnSettled, Limiter!Next
<1>2. ASSUME NEW t \in Tx, Commit(t) PROVE Limiter!Next
  BY <1>2 DEF Commit, Limiter!Next
<1>3. ASSUME NEW c \in Closes, CloseSettles(c) PROVE Limiter!Next
  BY <1>3 DEF CloseSettles, Limiter!Next
<1>4. ASSUME \/ \E t \in Tx : RequestInTransaction(t) \/ CallbackThrows(t)
             \/ \E r \in Single : RequestAlone(r)
             \/ Receive \/ Exit \/ Work \/ Die \/ UNCHANGED vars
      PROVE  UNCHANGED Limiter!limiterVars
  BY <1>4 DEF RequestInTransaction, CallbackThrows, RequestAlone, Receive, Exit, Work, Die,
              vars, limiter, Limiter!limiterVars
<1> QED
  BY <1>1, <1>2, <1>3, <1>4 DEF Next

(* The connection runs its transactions as the limiter's specification     *)
(* says, so that all that is proved of the limiter holds of them.          *)
THEOREM ConnectionUsesLimiter == Spec => ImplementsLimiter
<1>1. Init => Limiter!Init
  BY DEF Init
<1>2. Spec => Limiter!Init /\ [][Limiter!Next]_(Limiter!limiterVars)
  BY <1>1, StepOfLimiter, PTL DEF Spec
<1> QED
  BY <1>2 DEF ImplementsLimiter, Limiter!Spec
=============================================================================
