------------------------ MODULE MCDatabaseConnection ------------------------
(* DatabaseConnection on a few calls, for TLC.  One transaction may make   *)
(* more requests than the others; a behaviour has a request outside the    *)
(* transactions, or a second close(), but not both.                        *)
EXTENDS DatabaseConnection

CONSTANTS t1, t2, r1, c1, c2

MCNext ==
    /\ Next
    /\ made'[t2] <= 1
    /\ made'[r1] = 0 \/ state'[c2] = "idle"
MCSpec == Init /\ [][MCNext]_vars /\ Fairness
=============================================================================
