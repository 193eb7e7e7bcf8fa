----------------------------- MODULE MCGuildSync -----------------------------
(* GuildSync for TLC.  Roles and channels, and members, do not influence   *)
(* each other, so a behaviour is about the changes of one scope.           *)
EXTENDS GuildSync, TLC

CONSTANTS g1, c1, r1, m1, m2, u1   \* objects
CONSTANTS left, p1, p2             \* column values
CONSTANTS a1, a2                   \* accounts

VARIABLE scope

\* What befalls the system, changes in Discord, crashes and troubles, is at
\* most budget in all, until time.
Scope(objects, as, budget, time) ==
    [objects |-> objects, accounts |-> as, budget |-> budget, time |-> time]

Channels == Scope({c1}, {a1, a2}, 3, 3)
Roles == Scope({g1, r1}, {a1}, 3, 3)
Members == Scope({m1, m2}, {a1}, 2, 2)

\* Nothing tells the accounts apart.
Symmetry == Permutations(Account)

MCKindOf ==
    [o \in Object |->
        CASE o = g1 -> "guild"
          [] o = c1 -> "channel"
          [] o = r1 -> "role"
          [] o \in {m1, m2} -> "member"
          [] o = u1 -> "user"]
MCParent == [o \in Object |-> IF o \in {g1, u1} THEN Null ELSE g1]
MCUserOf == [m \in {m1, m2} |-> u1]
MCChunks == <<{m1}, {m2}>>

\* Objects out of scope do not change, and all of them but the guild and the
\* user do not exist.
MCInit ==
    /\ Init /\ scope \in {Channels, Roles, Members}
    /\ \A o \in Object : world[o] = p1 \/ world[o] = Null
    /\ \A o \in Object \ scope.objects : Exists(o) => KindOf[o] \in {"guild", "user"}
MCNext ==
    /\ Next /\ UNCHANGED scope
    /\ \A o \in Object \ scope.objects : world'[o] = world[o]
    /\ allReady' => scope = Members
    /\ accounts' \in {{}, scope.accounts}
    /\ changes' + crashes' + troubles' <= scope.budget /\ now' <= scope.time
MCSpec == MCInit /\ [][MCNext]_<<vars, scope>>
=============================================================================
