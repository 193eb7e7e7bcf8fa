--------------------------- MODULE MCMessageSync ---------------------------
(* MessageSync on a channel of a few messages and pages of two, for TLC. *)
EXTENDS MessageSync

\* Sets of messages: those with reactions, those that change.
Nobody == {}
Second == {2}
EverySecond == {2, 4}
Everyone == Id

\* In a quiet behaviour nobody posts while the archiver runs.
VARIABLE quiet

MCInit == Init /\ quiet \in BOOLEAN
MCNext == Next /\ (quiet /\ alive => posted' = posted) /\ UNCHANGED quiet
MCSpec == MCInit /\ [][MCNext]_<<vars, quiet>> /\ Fairness

(* index.ts says messages are added from oldest to newest so that what has *)
(* to be archived can be told from the last archived message alone: as     *)
(* long as nobody posts while the archiver runs, and whatever is deleted,  *)
(* aborted or killed meanwhile, the last stored ID hides no missing one.   *)
QuietLastIDSuffices == quiet => LastIDSuffices
=============================================================================
