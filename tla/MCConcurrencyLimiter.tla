------------------------ MODULE MCConcurrencyLimiter ------------------------
(* ConcurrencyLimiter on a few calls, for TLC. *)
EXTENDS ConcurrencyLimiter

CONSTANTS o1, o2, o3, o4, s1, s2

\* o2 and o3 can be aborted together, o4 alone.
MCSignalOf ==
    [op \in Op |-> CASE op \in {o2, o3} -> s1 [] op = o4 -> s2 [] OTHER -> NoSignal]
=============================================================================
