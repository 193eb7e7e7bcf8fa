----------------------------- MODULE Permissions -----------------------------
(***************************************************************************)
(* src/src/archiver/permissions.ts.  A permission bitfield is the set of   *)
(* its flags; the overwrites of a channel are a partial function from the  *)
(* IDs of roles and members to the flags they allow and deny.              *)
(***************************************************************************)
EXTENDS Naturals

CONSTANTS
    Flag,      \* the permission flags
    Everyone,  \* the ID of the @everyone role, which is the guild's
    Self       \* the ID of the account's user

ASSUME FlagAssumption ==
    {"Administrator", "ViewChannel", "ReadMessageHistory", "ManageThreads"} \subseteq Flag

Overwrite == [allow: SUBSET Flag, deny: SUBSET Flag]

computeGuildPermissions(isOwner, rolePermissions, roles) ==
    LET granted == UNION {rolePermissions[r] : r \in roles \cup {Everyone}}
    IN IF isOwner \/ "Administrator" \in granted THEN Flag ELSE granted

\* What the overwrites of these IDs say together.
Denied(overwrites, ids) == UNION {overwrites[i].deny : i \in ids \cap DOMAIN overwrites}
Allowed(overwrites, ids) == UNION {overwrites[i].allow : i \in ids \cap DOMAIN overwrites}

Overwritten(permissions, overwrites, ids) ==
    (permissions \ Denied(overwrites, ids)) \cup Allowed(overwrites, ids)

computeChannelPermissions(guildPermissions, roles, overwrites) ==
    IF "Administrator" \in guildPermissions THEN Flag
    ELSE Overwritten(
            Overwritten(
                Overwritten(guildPermissions, overwrites, {Everyone}),
                overwrites, roles),
            overwrites, {Self})

hasChannelPermissions(permissions, flags) ==
    "ViewChannel" \in permissions /\ flags \subseteq permissions
=============================================================================
