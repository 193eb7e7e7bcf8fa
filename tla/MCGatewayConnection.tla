------------------------ MODULE MCGatewayConnection ------------------------
(* GatewayConnection with few sockets, sessions and events, for TLC.       *)
EXTENDS GatewayConnection

\* destroy() is called only when neither the network nor the server made
\* trouble, as the close it may race with needs none of theirs.
MCNext == Next /\ (destroyed' => trouble' = 0)
MCSpec == Init /\ [][MCNext]_vars /\ Fairness
=============================================================================
