---------------------------- MODULE MCRestClient ----------------------------
(* RestClient for TLC.  A behaviour is about the calls of the limiter, or  *)
(* about what becomes of a few requests.                                   *)
EXTENDS RestClient

VARIABLE scope

Scope(downloads, phases, reactions, failures, time, late) ==
    [downloads |-> downloads, phases |-> phases, reactions |-> reactions,
     failures |-> failures, time |-> time, late |-> late]

Calls == Scope(1..4, {"idle", "queued"}, FALSE, 0, 8, 2)
One == Scope(1..1, Phase, TRUE, 1, 0, 0)
Two == Scope(1..2, Phase, FALSE, 0, 0, 0)

\* Downloads begin in the order of their numbers, and only the first requests
\* more than one page.
Within ==
    /\ UNCHANGED scope
    /\ troubles' <= scope.failures
    /\ now' # now => IF Timers = {} THEN now <= scope.time
                     ELSE \A t \in Timers : now < t + scope.late
    /\ \A s \in Sync :
        /\ syncs'[s].phase \in scope.phases
        /\ syncs'[s].aborted => scope.phases = Phase
        /\ syncs'[s].listing => scope.reactions
        /\ syncs'[s].phase \in {"next", "resetting"} => s = 1
        /\ syncs'[s].phase # "idle" =>
            s \in scope.downloads /\ \A r \in 1..(s - 1) : syncs[r].phase # "idle"

MCInit == RestInit /\ scope \in {Calls, One, Two}
MCNext == RestNext /\ Within
MCVars == <<restVars, scope>>

\* All of this comes to an end, so that it is enough that it goes on.
MCSpec ==
    /\ MCInit /\ [][MCNext]_MCVars
    /\ WF_MCVars((PassTime \/ FirstPending \/ \E s \in Sync : Step(s)) /\ Within)
=============================================================================
