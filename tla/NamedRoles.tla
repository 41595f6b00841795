----------------------------- MODULE NamedRoles -----------------------------
(* Named permission bundles of a chat: internal/groups/roles.go.                                  *)
(*                                                                                                *)
(* One chat and its named roles; one more role that belongs to another chat.  Every request is    *)
(* authorised on the member's permissions as they are then and carried out in a later statement,  *)
(* while other requests rewrite, delete and hand out the same roles.                              *)
EXTENDS Naturals, FiniteSets

CONSTANTS
    RoleNames,       \* the roles the chat may define, by id
    Alien,           \* a role of another chat
    RoleMembers,     \* members, by built-in role: "owner", "admin", "member"
    RoleHandlers,    \* requests in progress at once
    MaxRolesPerChat  \* maxRolesPerChat

VARIABLES
    rlDef,     \* role -> its name and bundle, or Undefined
    rlHeld,    \* member -> custom_role_id, or "none"
    rlIn,      \* the members who have not left
    rlReq,     \* handler -> the request it has authorised
    rlWanted   \* member -> the role last given to them by an accepted request and not deleted since

rlVars == <<rlDef, rlHeld, rlIn, rlReq, rlWanted>>

Perms == {"manage", "ban"}
Bundle(name, on, off) == [name |-> name, on |-> on, off |-> off]
Bundles == {Bundle("x", {"manage"}, {}), Bundle("y", {"ban"}, {"manage"})}
Undefined == Bundle("none", {"none"}, {})
Idle == [at |-> "idle", role |-> "none", target |-> "none", bundle |-> Undefined]
In(h, at) == rlReq[h].at = at
Rest(h) == rlReq' = [rlReq EXCEPT ![h] = Idle]
Defined == {r \in RoleNames : rlDef[r] # Undefined}
Taken(name, r) == \E s \in Defined \ {r} : rlDef[s].name = name

Init ==
    /\ rlDef = [r \in RoleNames |-> Undefined]
    /\ rlHeld = [m \in RoleMembers |-> "none"]
    /\ rlIn = RoleMembers
    /\ rlReq = [h \in RoleHandlers |-> Idle]
    /\ rlWanted = [m \in RoleMembers |-> "none"]

-----------------------------------------------------------------------------
(* Who may *)

rank == [owner |-> 0, admin |-> 1, member |-> 3]

PermissionsForRole == [owner |-> Perms, admin |-> {"ban"}, member |-> {}]

\* The bundle sits on top of what the built-in role grants.
applyOverrides(base, bundle) == (base \cup bundle.on) \ bundle.off

PermissionsOf(m) ==
    IF rlHeld[m] \in Defined THEN applyOverrides(PermissionsForRole[m], rlDef[rlHeld[m]])
    ELSE PermissionsForRole[m]

authorize(m) == m \in rlIn /\ "manage" \in PermissionsOf(m)

\* Nobody defines a bundle that carries more than they hold.
withinOwnGrant(bundle, m) == bundle.on \subseteq PermissionsOf(m)

Accept(h, at, r, target, bundle) ==
    /\ In(h, "idle")
    /\ rlReq' = [rlReq EXCEPT ![h] = [at |-> at, role |-> r, target |-> target, bundle |-> bundle]]
    /\ UNCHANGED <<rlDef, rlHeld, rlIn, rlWanted>>

-----------------------------------------------------------------------------
(* Defining *)

\* The roles are counted, those there are locked, before one is written.
BelowLimit == Cardinality(Defined) < MaxRolesPerChat

createRole(h, m, r, bundle) ==
    /\ authorize(m) /\ withinOwnGrant(bundle, m)
    /\ BelowLimit
    /\ Accept(h, "create", r, "none", bundle)

\* A new row, unless the name is taken in the chat.
CreateRole(h) ==
    /\ In(h, "create")
    /\ rlDef' = IF rlReq[h].role \in Defined \/ Taken(rlReq[h].bundle.name, rlReq[h].role) THEN rlDef
                ELSE [rlDef EXCEPT ![rlReq[h].role] = rlReq[h].bundle]
    /\ Rest(h)
    /\ UNCHANGED <<rlHeld, rlIn, rlWanted>>

updateRole(h, m, r, bundle) ==
    /\ authorize(m) /\ withinOwnGrant(bundle, m)
    /\ Accept(h, "update", r, "none", bundle)

\* Everyone who holds it is affected at once; a new name must not be another role's.
UpdateRole(h) ==
    /\ In(h, "update")
    /\ rlDef' = IF rlReq[h].role \in Defined /\ ~Taken(rlReq[h].bundle.name, rlReq[h].role)
                THEN [rlDef EXCEPT ![rlReq[h].role] = rlReq[h].bundle] ELSE rlDef
    /\ Rest(h)
    /\ UNCHANGED <<rlHeld, rlIn, rlWanted>>

deleteRole(h, m, r) ==
    /\ authorize(m)
    /\ Accept(h, "delete", r, "none", Undefined)

Without(held, r) == [m \in RoleMembers |-> IF held[m] = r THEN "none" ELSE held[m]]

\* Who held it falls back to the built-in role; a request that named its id names no role of the
\* chat any more: a role defined later gets an id of its own.
DeleteRole(h) ==
    LET r == rlReq[h].role IN
    /\ In(h, "delete")
    /\ rlDef' = [n \in RoleNames |-> IF n = r THEN Undefined ELSE rlDef[n]]
    /\ rlHeld' = Without(rlHeld, r)
    /\ rlWanted' = Without(rlWanted, r)
    /\ rlReq' = [g \in RoleHandlers |->
                    CASE g = h -> Idle
                      [] g # h /\ rlReq[g].role = r /\ rlReq[g].at # "create" -> [rlReq[g] EXCEPT !.role = Alien]
                      [] OTHER -> rlReq[g]]
    /\ UNCHANGED rlIn

-----------------------------------------------------------------------------
(* Handing out *)

\* Only to who stands below, or to oneself.
assignRole(h, m, target, r) ==
    /\ authorize(m)
    /\ target \in rlIn /\ (target # m => rank[target] > rank[m])
    /\ Accept(h, "assign", r, target, Undefined)

Assignable(target, r) == target \in rlIn /\ r \in Defined \cup {"none"}

\* A form that computes the new value from the chat's own roles, and so writes none for another's.
AssignScoped(target, r) ==
    rlHeld' = IF target \in rlIn THEN [rlHeld EXCEPT ![target] = IF r \in Defined THEN r ELSE "none"] ELSE rlHeld

\* The role has to be this chat's when it is written; a refusal leaves things as they were.
AssignRole(target, r) ==
    rlHeld' = IF Assignable(target, r) THEN [rlHeld EXCEPT ![target] = r] ELSE rlHeld

writeRole(h) ==
    LET q == rlReq[h] IN
    /\ In(h, "assign")
    /\ AssignRole(q.target, q.role)
    /\ rlWanted' = IF Assignable(q.target, q.role) THEN [rlWanted EXCEPT ![q.target] = q.role] ELSE rlWanted
    /\ Rest(h)
    /\ UNCHANGED <<rlDef, rlIn>>

\* A plain member leaves, and comes back to the row with the named role in it.
LeaveOrReturn(m) ==
    /\ m = "member"
    /\ rlIn' = IF m \in rlIn THEN rlIn \ {m} ELSE rlIn \cup {m}
    /\ UNCHANGED <<rlDef, rlHeld, rlReq, rlWanted>>

Next ==
    \/ \E m \in RoleMembers :
        \/ LeaveOrReturn(m)
        \/ \E h \in RoleHandlers, r \in RoleNames :
            \/ deleteRole(h, m, r)
            \/ \E bundle \in Bundles : createRole(h, m, r, bundle) \/ updateRole(h, m, r, bundle)
        \/ \E h \in RoleHandlers, target \in RoleMembers, r \in RoleNames \cup {Alien, "none"} :
            assignRole(h, m, target, r)
    \/ \E h \in RoleHandlers : CreateRole(h) \/ UpdateRole(h) \/ DeleteRole(h) \/ writeRole(h)

Spec == Init /\ [][Next]_rlVars

-----------------------------------------------------------------------------
(* Properties *)

\* A member holds exactly the role last given to them by an accepted request, never one that was
\* deleted or is another chat's, and a refused request takes nothing away, while roles are renamed,
\* rewritten and deleted; no two roles have one name; and the limit is passed by no more than the
\* requests that counted together (AssignRole, DeleteRole, CreateRole, UpdateRole).
HeldAsGiven ==
    /\ rlHeld = rlWanted
    /\ \A m \in RoleMembers : rlHeld[m] \in Defined \cup {"none"}
    /\ \A r, s \in Defined : rlDef[r].name = rlDef[s].name => r = s
    /\ Cardinality(Defined) < MaxRolesPerChat + Cardinality(RoleHandlers)

-----------------------------------------------------------------------------
(* What the repository says of this code and the code does not do *)

\* roles.go:91 speaks of "enforcing the per-chat limit inside the transaction": the roles there are
\* get locked and not the one another request is about to write.
RoleLimitHolds == Cardinality(Defined) <= MaxRolesPerChat
=============================================================================
