---------------------------- MODULE MCChannelSyncs ----------------------------
(* ChannelSyncs for TLC.  A behaviour is about the threads, and the kinds  *)
(* of changes, of one scope.                                               *)
EXTENDS ChannelSyncs

CONSTANTS c1, t1, t2, t3, r1   \* a channel, its threads, a role

VARIABLE scope

\* The threads there are, whether roles change, and the operations started.
Scope(threads, roles, most) == [threads |-> threads, roles |-> roles, most |-> most]
PublicThread == Scope({t1}, FALSE, 5)
PrivateThread == Scope({t2}, FALSE, 5)
ActiveThread == Scope({t3}, FALSE, 5)
Roles == Scope({}, TRUE, 5)

MCFlag == {"Administrator", "ViewChannel", "ReadMessageHistory", "ManageThreads"}
Reader == {"ViewChannel", "ReadMessageHistory"}

MCParentOf == [t \in Thread |-> c1]

\* No overwrites; @everyone may not view the channel but the role may, and
\* manage its threads.
Closed == [i \in {Everyone, r1} |->
              IF i = r1 THEN [allow |-> MCFlag \ {"Administrator"}, deny |-> {}]
              ELSE [allow |-> {}, deny |-> {"ViewChannel"}]]
MCOverwrites == {[i \in {} |-> Null], Closed}
MCGrants == {Reader, {}}

MCInit ==
    /\ Init /\ scope \in {PublicThread, PrivateThread, ActiveThread, Roles}
    /\ world.threads = scope.threads
    /\ world.permissions[Everyone] = Reader
    /\ world.permissions[r1] \in IF scope.roles THEN {{}, Null} ELSE {{}}
MCNext ==
    /\ Next /\ UNCHANGED scope
    /\ world'.permissions # world.permissions => scope.roles
    /\ Len(syncs'.ops) <= scope.most
MCSpec == MCInit /\ [][MCNext]_<<vars, scope>>
=============================================================================
