----------------------------- MODULE RestClient -----------------------------
(***************************************************************************)
(* The REST requests of one account: the loop of apiReq                    *)
(* (src/src/discord-api/rest.ts) with its retries, delays and abort        *)
(* signals (src/src/util/abort.ts), behind the account's RateLimiter       *)
(* (the function request of src/src/archiver/index.ts), for downloads that *)
(* each request one page after the other, and the users of the reactions   *)
(* of a page before they store it.                                         *)
(*                                                                         *)
(* Time passes as in RateLimiter.  An aborted fetch rejects whether it     *)
(* waits for the response or for its body.  A rejected promise that nobody *)
(* awaits ends the process.                                                *)
(***************************************************************************)
EXTENDS RateLimiter

CONSTANTS
    Sync,                   \* the downloads
    ServerWait, LongWait,   \* 2 and 60 seconds
    RetryAfters,            \* what retry_after may say
    Resets,                 \* what X-RateLimit-Reset-After may say
    MaxTroubles             \* bound on failed attempts

ASSUME RestAssumption ==
    /\ {ServerWait, LongWait, MaxTroubles} \subseteq Nat
    /\ RetryAfters \cup Resets \subseteq Nat

VARIABLES
    syncs,
    process,    \* "up" or "dead"
    troubles    \* how many attempts have failed

limiter == <<lastTimestamps, pending, timer, calls, granted>>
restVars == <<rateVars, syncs, process, troubles>>

\* queued: for the limiter; fetching: for the headers; reading: the body;
\* waiting: for the next attempt; pausing, resetting: for the rate limit, before
\* a request about reactions or a page; storing: for the database; next: about
\* to request.
Phase == {"idle", "queued", "fetching", "reading", "waiting", "pausing", "storing",
          "resetting", "next", "hung", "ended"}
Time == Nat \cup {Never}

RestTypeOK ==
    /\ RateTypeOK
    /\ syncs \in [Sync -> [phase: Phase,
                           call: Nat,        \* the call of whenFree
                           listing: BOOLEAN, \* the request is about reactions
                           interval: Nat,    \* before the next attempt but one
                           due: Time,        \* when what is waited for resolves
                           made: Time,       \* the rateLimitReset being returned
                           reset: Time,      \* the one of the page
                           lost: Time,       \* the last that nobody will await
                           until: Nat,       \* history: the page's reset
                           said: Nat,        \* history: that of the last headers
                           aborted: BOOLEAN]]
    /\ process \in {"up", "dead"}
    /\ troubles \in 0..MaxTroubles

Idle == [phase |-> "idle", call |-> 0, listing |-> FALSE, interval |-> 0,
         due |-> Never, made |-> Never, reset |-> Never, lost |-> Never,
         until |-> 0, said |-> 0, aborted |-> FALSE]

RestInit ==
    /\ RateInit
    /\ syncs = [s \in Sync |-> Idle]
    /\ process = "up" /\ troubles = 0

Larger(a, b) == IF a > b THEN a ELSE b
Later(a, b) == IF a = Never THEN b ELSE IF b = Never THEN a ELSE Larger(a, b)

-----------------------------------------------------------------------------
In(s, phase) ==
    /\ process = "up" /\ syncs[s].phase = phase
    /\ UNCHANGED now

\* An await that an abort would have rejected.
Awaiting(s, phase) == In(s, phase) /\ ~syncs[s].aborted

\* account.request begins; whenFree takes no abort signal.
Request(s) ==
    /\ WhenFree
    /\ syncs' = [syncs EXCEPT ![s].phase = "queued", ![s].call = calls']
    /\ UNCHANGED <<process, troubles>>

\* A download begins, or goes on.
Begin(s) == In(s, "idle") /\ Request(s)
GoOn(s) == In(s, "next") /\ Request(s)

\* whenFree has resolved, and apiReq makes its first attempt.
Granted(s) ==
    /\ In(s, "queued")
    /\ \E k \in DOMAIN granted : granted[k].call = syncs[s].call
    /\ syncs' = [syncs EXCEPT ![s].phase = "fetching", ![s].call = 0, ![s].interval = 0]
    /\ UNCHANGED <<limiter, process, troubles>>

\* The waits before the next attempt: after a 429 response as long as it says,
\* if its body can be read; after a server or network error the interval.
Waits(wait) == RetryAfters \cup {Larger(wait, ServerWait), wait}

FailedAttempt(s) ==
    /\ Awaiting(s, "fetching") /\ troubles < MaxTroubles
    /\ troubles' = troubles + 1
    /\ \E w \in Waits(syncs[s].interval) :
        syncs' = [syncs EXCEPT ![s].phase = "waiting", ![s].due = now + w,
                               ![s].interval = Larger(w + ServerWait, LongWait)]
    /\ UNCHANGED <<limiter, process>>

Retry(s) ==
    /\ Awaiting(s, "waiting") /\ syncs[s].due <= now
    /\ syncs' = [syncs EXCEPT ![s].phase = "fetching", ![s].due = Never]
    /\ UNCHANGED <<limiter, process, troubles>>

\* The headers, with which rateLimitReset is made if no request remains.
Headers(s) ==
    /\ Awaiting(s, "fetching")
    /\ \E announced \in {now + r : r \in Resets} \cup {Never} :
        syncs' = [syncs EXCEPT ![s].phase = "reading", ![s].made = announced,
                               ![s].said = IF announced = Never THEN 0 ELSE announced]
    /\ UNCHANGED <<limiter, process, troubles>>

\* A network error in the body: the next attempt has its own rateLimitReset, and
\* comes after the interval, which is 0 at first.
BodyFailed(s) ==
    /\ Awaiting(s, "reading") /\ troubles < MaxTroubles
    /\ troubles' = troubles + 1
    /\ syncs' = [syncs EXCEPT
            ![s].phase = "waiting", ![s].due = now + syncs[s].interval,
            ![s].interval = Larger(@ + ServerWait, LongWait),
            ![s].made = Never, ![s].lost = Later(@, syncs[s].made)]
    /\ UNCHANGED <<limiter, process>>

\* A body that is not JSON leaves no data, which the download does not expect.
Malformed(s) ==
    /\ Awaiting(s, "reading")
    /\ process' = "dead"
    /\ UNCHANGED <<limiter, syncs, troubles>>

End(s) == syncs' = [syncs EXCEPT ![s] = [Idle EXCEPT !.phase = "ended", !.aborted = syncs[s].aborted]]

AwaitsReset(reset) == IF reset = Never THEN "next" ELSE "resetting"

\* Mutant: rateLimitReset is not kept for the end of the page.
ReceivePageUnlimited(s) ==
    /\ Awaiting(s, "reading") /\ ~syncs[s].listing
    /\ \E phase \in {"storing", "next"} :
        syncs' = [syncs EXCEPT ![s].phase = phase, ![s].listing = phase = "next",
                               ![s].made = Never, ![s].until = syncs[s].said, ![s].said = 0]
    /\ UNCHANGED <<limiter, process, troubles>>

\* A page: nothing follows, or it is stored, after its reactions have been
\* requested (at once: their rateLimitReset is another variable), or a list of
\* threads, which nobody waits for.
ReceivePage(s) ==
    /\ Awaiting(s, "reading") /\ ~syncs[s].listing
    /\ \/ End(s)
       \/ \E phase \in {"storing", AwaitsReset(syncs[s].made)}, reactions \in BOOLEAN :
            syncs' = [syncs EXCEPT
                ![s].phase = IF reactions THEN "next" ELSE phase, ![s].listing = reactions,
                ![s].reset = syncs[s].made, ![s].made = Never,
                ![s].until = syncs[s].said, ![s].said = 0]
    /\ UNCHANGED <<limiter, process, troubles>>

\* Users who reacted: there are more requests about this page, which await
\* rateLimitReset, or the page is stored, and nobody will.
ReceiveReactions(s) ==
    /\ Awaiting(s, "reading") /\ syncs[s].listing
    /\ \/ syncs' = [syncs EXCEPT ![s].phase = IF syncs[s].made = Never THEN "next" ELSE "pausing",
                                 ![s].due = syncs[s].made, ![s].made = Never]
       \/ syncs' = [syncs EXCEPT ![s].phase = "storing", ![s].listing = FALSE,
                                 ![s].made = Never, ![s].lost = Later(@, syncs[s].made)]
    /\ UNCHANGED <<limiter, process, troubles>>

\* The inner rateLimitReset has resolved.
Resume(s) ==
    /\ Awaiting(s, "pausing") /\ syncs[s].due <= now
    /\ syncs' = [syncs EXCEPT ![s].phase = "next", ![s].due = Never]
    /\ UNCHANGED <<limiter, process, troubles>>

\* An error status ends the download, 403 and 404 make it wait for an abort,
\* with the rateLimitReset of this response.
Refused(s) ==
    /\ Awaiting(s, "fetching")
    /\ \/ End(s)
       \/ \E announced \in {now + r : r \in Resets} \cup {Never} :
            syncs' = [syncs EXCEPT ![s].phase = "hung", ![s].lost = Later(@, announced)]
    /\ UNCHANGED <<limiter, process, troubles>>

\* The page is stored; it was the last, or its rateLimitReset is awaited.
Stored(s) ==
    /\ In(s, "storing")
    /\ End(s) \/ syncs' = [syncs EXCEPT ![s].phase = AwaitsReset(syncs[s].reset)]
    /\ UNCHANGED <<limiter, process, troubles>>

\* The timeout of the page's rateLimitReset, awaited or not.
Reset(s) ==
    /\ process = "up" /\ ~syncs[s].aborted
    /\ syncs[s].reset # Never /\ syncs[s].reset <= now
    /\ syncs' = [syncs EXCEPT ![s].phase = IF @ = "resetting" THEN "next" ELSE @,
                              ![s].reset = Never]
    /\ UNCHANGED <<now, limiter, process, troubles>>

\* The timeouts of promises that nobody awaits yet, or ever.
Unawaited(s) ==
    /\ process = "up"
    /\ \/ /\ syncs[s].made # Never /\ syncs[s].made <= now
          /\ syncs' = [syncs EXCEPT ![s].made = Never]
       \/ /\ syncs[s].lost # Never /\ syncs[s].lost <= now
          /\ syncs' = [syncs EXCEPT ![s].lost = Never]
    /\ UNCHANGED <<now, limiter, process, troubles>>

\* A rateLimitReset that nobody awaits.
Loose(s) ==
    \/ syncs[s].made # Never \/ syncs[s].lost # Never
    \/ syncs[s].reset # Never /\ syncs[s].phase # "resetting"

\* The abort signals of these downloads, which reject those without a handler.
Aborting(ss) == syncs' = [s \in Sync |-> IF s \in ss THEN [syncs[s] EXCEPT !.aborted = TRUE]
                                         ELSE syncs[s]]
Rejected(ss) == IF \E s \in ss : Loose(s) THEN "dead" ELSE "up"

Ongoing == {s \in Sync : syncs[s].phase \notin {"idle", "ended"}}

\* One lost its permission, or stop() was called.
Abort ==
    /\ process = "up"
    /\ \E ss \in {{s} : s \in Ongoing} \cup {Ongoing} :
        (\E s \in ss : ~syncs[s].aborted) /\ Aborting(ss) /\ process' = Rejected(ss)
    /\ UNCHANGED <<now, limiter, troubles>>

\* 401: the account is disconnected, which aborts this download as well, with
\* the rateLimitReset of this response.
Unauthorized(s) ==
    /\ Awaiting(s, "fetching")
    /\ Aborting(Ongoing)
    /\ process' \in {"dead", Rejected(Ongoing)}
    /\ UNCHANGED <<limiter, troubles>>

\* Mutant: the wait before the next attempt does not listen to the signal.
AbortedInFetch(s) ==
    /\ syncs[s].aborted /\ \E phase \in {"fetching", "reading", "resetting", "hung"} : In(s, phase)
    /\ End(s)
    /\ UNCHANGED <<limiter, process, troubles>>

\* abortError ends the download.
Aborted(s) ==
    /\ syncs[s].aborted
    /\ \E phase \in {"fetching", "reading", "waiting", "pausing", "resetting", "hung"} :
        In(s, phase)
    /\ End(s)
    /\ UNCHANGED <<limiter, process, troubles>>

-----------------------------------------------------------------------------
FirstPending ==
    /\ process = "up" /\ ExecuteFirstPending
    /\ UNCHANGED <<syncs, process, troubles>>

Timers == ({timer} \cup UNION {{syncs[s].due, syncs[s].made, syncs[s].reset, syncs[s].lost} :
                              s \in Sync}) \ {Never}

PassTime ==
    /\ process = "up"
    /\ IF Timers = {} THEN now <= LastCall ELSE \A t \in Timers : now < t + MaxLate
    /\ Tick
    /\ UNCHANGED <<syncs, process, troubles>>

Step(s) ==
    \/ GoOn(s) \/ Granted(s) \/ Retry(s) \/ Resume(s) \/ Stored(s) \/ Reset(s)
    \/ Unawaited(s) \/ Aborted(s)

Answer(s) ==
    \/ FailedAttempt(s) \/ Headers(s) \/ BodyFailed(s) \/ Malformed(s) \/ ReceivePage(s)
    \/ ReceiveReactions(s) \/ Refused(s) \/ Unauthorized(s)

RestNext ==
    \/ Abort \/ FirstPending \/ PassTime
    \/ \E s \in Sync : Begin(s) \/ Answer(s) \/ Step(s)

RestSpec == RestInit /\ [][RestNext]_restVars

\* Time passes, timers fire, promises settle and the database answers; the
\* network need not.
RestFairness ==
    /\ WF_restVars(PassTime) /\ WF_restVars(FirstPending)
    /\ \A s \in Sync : WF_restVars(Step(s))

RestFairSpec == RestSpec /\ RestFairness

-----------------------------------------------------------------------------
(* Everybody gets a turn, in a limiter with one timeout for all that wait. *)
AllGranted == \A n \in 1..MaxCalls :
    calls = n ~> (Len(granted) >= n \/ process = "dead")

(* A download requests no page before the time at which, as the answer     *)
(* with its last page said, the rate limit is reset, and no reactions      *)
(* before the time said by the last answer about reactions of the same     *)
(* page: however long reactions and the database took, and whether the     *)
(* timeouts fired before or after, or late.  It says no more, and the code *)
(* does no more: a page's reset does not hold back its reactions, the last *)
(* answer about reactions does not hold back the next page, and a body     *)
(* that could not be read does not hold back the next attempt.             *)
ResetRespected ==
    \A s \in Sync :
        /\ syncs[s].phase \in {"queued", "fetching"} /\ ~syncs[s].listing =>
                now >= syncs[s].until
        /\ syncs[s].phase = "queued" /\ syncs[s].listing => now >= syncs[s].said

NoMoreCalls == calls = MaxCalls \/ now > LastCall

(* An aborted download ends, wherever the abort finds it: waiting for its  *)
(* turn, for a response, a retry, the database or the rate limit, or hung  *)
(* (as long as the bounds let it make the one request that rejects).       *)
AbortedEnds ==
    \A s \in Sync : syncs[s].aborted ~>
        (syncs[s].phase = "ended" \/ process = "dead" \/ NoMoreCalls)
=============================================================================
