---------------------------- MODULE GroupMembership ----------------------------
(***************************************************************************)
(* Membership, roles, invite links and join requests of one group or       *)
(* channel: groups.Service and groups.Repository (backend/internal/groups) *)
(* and the account erasure of datarights that also ends memberships.       *)
(*                                                                         *)
(* A handler reads the caller's membership with ChatContextFor, decides,   *)
(* and then writes in a transaction of its own, so anything may happen     *)
(* between the two: every read is a step, and every transaction is one.  A *)
(* transaction is a single step because it either locks the chat row       *)
(* before it reads anything, or touches each membership row with one       *)
(* UPDATE whose WHERE clause is evaluated again on the locked row.  The    *)
(* exception is AddMember: the statement that locks the chat also reads    *)
(* the member limit, from a row that is not locked and so as it was when   *)
(* the statement began to wait.                                            *)
(***************************************************************************)
EXTENDS Integers, FiniteSets

CONSTANTS
    Users,
    Creator,         \* who created the chat
    Requests,        \* handlers that may run at the same time
    Operations,      \* the operations this instance performs
    ChatType,        \* "group" or "channel"
    GrantedRoles,    \* the roles SetRole hands out
    MemberLimits,    \* values of chat_settings.max_members
    LinkLimit,       \* member_limit of the invite link
    MaxCount         \* bound on chats.member_count, which approvals may raise for ever

AllOperations == {"add", "remove", "leave", "role", "transfer", "settings", "delete",
                  "invite", "link", "public", "approve", "reject", "erase"}

ASSUME GroupCreator == Creator \in Users
ASSUME GroupOperations == Operations \subseteq AllOperations
ASSUME GroupRoles == GrantedRoles \subseteq {"admin", "moderator", "member", "restricted"}
ASSUME GroupLimits == MemberLimits \subseteq Nat /\ MemberLimits # {}
ASSUME GroupLink == LinkLimit \in Nat
ASSUME GroupBound == MaxCount \in Nat

VARIABLES
    role,          \* chat_members.role, "none" where the user has no row
    here,          \* users whose row has left_at IS NULL
    grants,        \* users whose override grants manage_admins
    memberCount,   \* chats.member_count
    deleted,       \* chats.deleted_at IS NOT NULL
    settings,      \* chat_settings: max_members, join_requires_approval
    link,          \* the invite link: live, and its usage_count
    joinRequest,   \* chat_join_requests.status: "pending", or "closed": resolved or no row
    req            \* handler -> what it has read so far

chat == <<memberCount, deleted, settings>>
vars == <<role, here, grants, chat, link, joinRequest, req>>

Roles == {"owner", "admin", "moderator", "member", "restricted"}

\* A handler between two of its steps: the operation, where it stands, who
\* calls, whom it is about, and the values it has read or was given.
Handler ==
    [op : AllOperations \cup {"none"},
     at : {"idle", "authorized", "checked", "locking", "removed", "joined"},
     actor : Users, target : Users, todo : SUBSET Users,
     newRole : Roles, grant : BOOLEAN, limit : MemberLimits, flag : BOOLEAN,
     sawRole : Roles \cup {"none"}]

Idle == [op |-> "none", at |-> "idle", actor |-> Creator, target |-> Creator, todo |-> {},
         newRole |-> "member", grant |-> FALSE, limit |-> CHOOSE n \in MemberLimits : TRUE,
         flag |-> FALSE, sawRole |-> "none"]

\* The order of the roles: the smaller number outranks the larger.
rank(r) ==
    CASE r = "owner" -> 0 [] r = "admin" -> 1 [] r = "moderator" -> 2
      [] r = "member" -> 3 [] OTHER -> 4

\* What a role may do before any override; a channel's subscribers may add nobody.
PermissionsForRole(r) ==
    CASE r = "owner" -> {"add_members", "remove_members", "edit_group", "manage_admins",
                         "manage_invites"}
      [] r = "admin" -> {"add_members", "remove_members", "edit_group", "manage_invites"}
      [] r = "moderator" -> {"remove_members"}
      [] r = "member" -> IF ChatType = "group" THEN {"add_members"} ELSE {}
      [] OTHER -> {}

Permissions(u) ==
    PermissionsForRole(role[u]) \cup (IF u \in grants THEN {"manage_admins"} ELSE {})

\* authorize: the chat is there, the caller is in it, and may do this.
Authorized(u, permission) ==
    /\ ~deleted
    /\ u \in here
    /\ permission \in Permissions(u)

\* CreateChat writes the chat, its owner and its settings; Create then adds the
\* initial members one transaction at a time, without asking again.
Init ==
    /\ role = [u \in Users |-> IF u = Creator THEN "owner" ELSE "none"]
    /\ here = {Creator}
    /\ grants = {}
    /\ memberCount = 1
    /\ deleted = FALSE
    /\ \E n \in MemberLimits, a \in BOOLEAN : settings = [max |-> n, approval |-> a]
    /\ link = [live |-> "invite" \in Operations, used |-> 0]
    /\ joinRequest = [u \in Users |-> "closed"]
    /\ \E r \in Requests, seed \in SUBSET (Users \ {Creator}) :
          req = [q \in Requests |->
                   IF q = r /\ seed # {}
                   THEN [Idle EXCEPT !.op = "add", !.at = "checked", !.todo = seed]
                   ELSE Idle]

--------------------------------------------------------------------------------
(* Transactions of groups.Repository.                                        *)

\* Admitting u with the chat row locked: refused when the chat is gone or, going by
\* the limit that was read, full, or when u is in it already.  A departed member gets
\* the row back, as `as`.
CanAddTwice(u, max) == ~deleted /\ memberCount < max
CanAddOneMore(u, max) == ~deleted /\ memberCount <= max /\ u \notin here

CanAdd(u, max) == ~deleted /\ memberCount < max /\ u \notin here

AddMember(u, as, max) ==
    /\ CanAdd(u, max)
    /\ role' = [role EXCEPT ![u] = as]
    /\ here' = here \cup {u}
    /\ memberCount' = memberCount + 1
    /\ UNCHANGED <<grants, deleted, settings>>

GoneBy(n) == IF n > 0 THEN n - 1 ELSE 0

RemoveRow(u) ==
    /\ u \in here
    /\ here' = here \ {u}
    /\ memberCount' = GoneBy(memberCount)
    /\ UNCHANGED <<role, grants, deleted, settings>>

rows == <<role, here, grants, chat>>

TransferUnguarded(from, to) == from \in here /\ to \in here

\* The row `from` must still hold the role when it is demoted.
TransferGuard(from, to) == role[from] = "owner" /\ from \in here /\ to \in here

Transferred(from, to) == [[role EXCEPT ![from] = "admin"] EXCEPT ![to] = "owner"]

--------------------------------------------------------------------------------
(* Handlers.  Begin(r, q) starts one; a request that is refused changes        *)
(* nothing and is not a step.                                                  *)

Begin(r, q) == req[r] = Idle /\ req' = [req EXCEPT ![r] = q]
Finish(r) == req' = [req EXCEPT ![r] = Idle]
At(r, op, place) == req[r].op = op /\ req[r].at = place
Goto(r, place) == req' = [req EXCEPT ![r].at = place]

\* AddMember's first statement begins: from here on the limit is what it was now.
LockFor(r, u) ==
    req' = [req EXCEPT ![r].at = "locking", ![r].target = u, ![r].limit = settings.max]

AddMembersCheck(r) ==
    /\ "add" \in Operations
    /\ \E a \in Users, s \in SUBSET Users :
          /\ Authorized(a, "add_members") /\ s # {}
          /\ Begin(r, [Idle EXCEPT !.op = "add", !.at = "checked", !.todo = s])
    /\ UNCHANGED <<rows, link, joinRequest>>

\* One transaction per user; the ones that cannot be added are reported and passed over.
AddMembersNext(r) ==
    /\ At(r, "add", "checked")
    /\ \E u \in req[r].todo : LockFor(r, u)
    /\ UNCHANGED <<rows, link, joinRequest>>

AddMembersLocked(r) ==
    /\ At(r, "add", "locking")
    /\ LET u == req[r].target  max == req[r].limit
       IN  /\ IF CanAdd(u, max) THEN AddMember(u, "member", max) ELSE UNCHANGED rows
           /\ IF req[r].todo = {u} THEN Finish(r)
              ELSE req' = [req EXCEPT ![r] = [Idle EXCEPT !.op = "add", !.at = "checked",
                                                         !.todo = req[r].todo \ {u}]]
    /\ UNCHANGED <<link, joinRequest>>

RemoveMemberAuthorize(r) ==
    /\ "remove" \in Operations
    /\ \E a, t \in Users :
          /\ Authorized(a, "remove_members")
          /\ Begin(r, [Idle EXCEPT !.op = "remove", !.at = "authorized", !.target = t,
                                   !.sawRole = role[a]])
    /\ UNCHANGED <<rows, link, joinRequest>>

\* An administrator may not remove someone at or above their own rank.
Outranks(a, b) == rank(a) < rank(b)

RemoveMemberCheck(r) ==
    /\ At(r, "remove", "authorized")
    /\ IF ~deleted /\ req[r].target \in here /\ Outranks(req[r].sawRole, role[req[r].target])
       THEN req' = [req EXCEPT ![r].at = "checked", ![r].sawRole = "none"] ELSE Finish(r)
    /\ UNCHANGED <<rows, link, joinRequest>>

RemoveMember(r) ==
    /\ At(r, "remove", "checked")
    /\ IF req[r].target \in here THEN RemoveRow(req[r].target) ELSE UNCHANGED rows
    /\ Finish(r)
    /\ UNCHANGED <<link, joinRequest>>

\* The owner of a chat with other members must transfer it first.
LeaveCheck(r) ==
    /\ "leave" \in Operations
    /\ \E u \in Users :
          /\ ~deleted /\ u \in here
          /\ ~(role[u] = "owner" /\ memberCount > 1)
          /\ Begin(r, [Idle EXCEPT !.op = "leave", !.at = "checked", !.actor = u,
                                   !.flag = (memberCount <= 1)])
    /\ UNCHANGED <<rows, link, joinRequest>>

LeaveRemove(r) ==
    /\ At(r, "leave", "checked")
    /\ LET u == req[r].actor
       IN  IF u \in here
           THEN /\ RemoveRow(u)
                /\ IF req[r].flag THEN Goto(r, "removed") ELSE Finish(r)
           ELSE UNCHANGED rows /\ Finish(r)
    /\ UNCHANGED <<link, joinRequest>>

\* A chat the last member leaves is deleted, going by the count read at the start.
LeaveDelete(r) ==
    /\ At(r, "leave", "removed")
    /\ deleted' = TRUE
    /\ Finish(r)
    /\ UNCHANGED <<role, here, grants, memberCount, settings, link, joinRequest>>

\* Nobody may grant a rank they do not hold; the target's own rank is not looked at.
SetRoleCheck(r) ==
    /\ "role" \in Operations
    /\ \E a, t \in Users, n \in GrantedRoles, g \in BOOLEAN :
          /\ Authorized(a, "manage_admins")
          /\ rank(n) >= rank(role[a])
          /\ Begin(r, [Idle EXCEPT !.op = "role", !.at = "checked", !.actor = a, !.target = t,
                                   !.newRole = n, !.grant = g, !.sawRole = role[a]])
    /\ UNCHANGED <<rows, link, joinRequest>>

SetRole(r) ==
    /\ At(r, "role", "checked")
    /\ LET t == req[r].target
       IN  IF t \in here
           THEN /\ role' = [role EXCEPT ![t] = req[r].newRole]
                /\ grants' = IF req[r].grant THEN grants \cup {t} ELSE grants \ {t}
           ELSE UNCHANGED <<role, grants>>
    /\ Finish(r)
    /\ UNCHANGED <<here, chat, link, joinRequest>>

TransferCheck(r) ==
    /\ "transfer" \in Operations
    /\ \E a, t \in Users :
          /\ ~deleted /\ a \in here /\ role[a] = "owner"
          /\ Begin(r, [Idle EXCEPT !.op = "transfer", !.at = "checked", !.actor = a, !.target = t])
    /\ UNCHANGED <<rows, link, joinRequest>>

TransferOwnership(r) ==
    /\ At(r, "transfer", "checked")
    /\ LET a == req[r].actor  t == req[r].target
       IN  IF TransferGuard(a, t)
           THEN role' = Transferred(a, t) /\ grants' = grants \ {t}
           ELSE UNCHANGED <<role, grants>>
    /\ Finish(r)
    /\ UNCHANGED <<here, chat, link, joinRequest>>

UpdateSettingsCheck(r) ==
    /\ "settings" \in Operations
    /\ \E a \in Users, n \in MemberLimits, approval \in BOOLEAN :
          /\ Authorized(a, "edit_group")
          /\ Begin(r, [Idle EXCEPT !.op = "settings", !.at = "checked", !.limit = n,
                                   !.flag = approval])
    /\ UNCHANGED <<rows, link, joinRequest>>

UpdateSettings(r) ==
    /\ At(r, "settings", "checked")
    /\ settings' = [max |-> req[r].limit, approval |-> req[r].flag]
    /\ Finish(r)
    /\ UNCHANGED <<role, here, grants, memberCount, deleted, link, joinRequest>>

DeleteCheck(r) ==
    /\ "delete" \in Operations
    /\ \E a \in Users :
          /\ ~deleted /\ a \in here /\ role[a] = "owner"
          /\ Begin(r, [Idle EXCEPT !.op = "delete", !.at = "checked"])
    /\ UNCHANGED <<rows, link, joinRequest>>

DeleteChat(r) ==
    /\ At(r, "delete", "checked")
    /\ deleted' = TRUE
    /\ Finish(r)
    /\ UNCHANGED <<role, here, grants, memberCount, settings, link, joinRequest>>

--------------------------------------------------------------------------------
(* Invite links, public joins and join requests.                             *)

RevokeInviteLink(r) ==
    /\ "link" \in Operations
    /\ link.live /\ req[r] = Idle
    /\ \E a \in Users : Authorized(a, "manage_invites")
    /\ link' = [link EXCEPT !.live = FALSE]
    /\ UNCHANGED <<rows, joinRequest, req>>

\* ResolveInvite: a link that is live and not used up, of a chat that is there;
\* what it says about approval is used later.
ResolveInvite(r) ==
    /\ "invite" \in Operations
    /\ link.live /\ link.used < LinkLimit /\ ~deleted
    /\ \E u \in Users :
          Begin(r, [Idle EXCEPT !.op = "invite", !.at = "checked", !.actor = u,
                                !.flag = settings.approval])
    /\ UNCHANGED <<rows, link, joinRequest>>

\* JoinPublic: members are answered at once; the settings are a second read.
JoinPublicCheck(r) ==
    /\ "public" \in Operations
    /\ \E u \in Users :
          /\ ~deleted /\ u \notin here
          /\ Begin(r, [Idle EXCEPT !.op = "public", !.at = "authorized", !.actor = u])
    /\ UNCHANGED <<rows, link, joinRequest>>

JoinPublicSettings(r) ==
    /\ At(r, "public", "authorized")
    /\ req' = [req EXCEPT ![r].at = "checked", ![r].flag = settings.approval]
    /\ UNCHANGED <<rows, link, joinRequest>>

\* CreateJoinRequest: a resolved request is opened again, a pending one is left alone.
JoinRequested(u) == [joinRequest EXCEPT ![u] = "pending"]

Join(r) ==
    /\ req[r].op \in {"invite", "public"} /\ req[r].at = "checked"
    /\ \/ /\ req[r].flag
          /\ joinRequest' = JoinRequested(req[r].actor)
          /\ Finish(r)
       \/ /\ ~req[r].flag
          /\ LockFor(r, req[r].actor)
          /\ UNCHANGED joinRequest
    /\ UNCHANGED <<rows, link>>

JoinLocked(r) ==
    /\ req[r].op \in {"invite", "public"} /\ req[r].at = "locking"
    /\ LET u == req[r].target  max == req[r].limit
       IN  \/ /\ CanAdd(u, max)
              /\ AddMember(u, "member", max)
              /\ IF req[r].op = "invite" THEN Goto(r, "joined") ELSE Finish(r)
           \/ /\ ~CanAdd(u, max)
              /\ Finish(r)
              /\ UNCHANGED rows
    /\ UNCHANGED <<link, joinRequest>>

CountInviteUse(r) ==
    /\ At(r, "invite", "joined")
    /\ link' = [link EXCEPT !.used = @ + 1]
    /\ Finish(r)
    /\ UNCHANGED <<rows, joinRequest>>

ResolveCheck(r) ==
    /\ \E a, t \in Users, op \in {"approve", "reject"} \cap Operations :
          /\ Authorized(a, "add_members")
          /\ Begin(r, [Idle EXCEPT !.op = op, !.at = "checked", !.target = t])
    /\ UNCHANGED <<rows, link, joinRequest>>

\* Approval: the row is inserted as a member or given back as it was, and the
\* counters move, whether or not the user was in the chat already.
Approved(u) ==
    /\ memberCount < MaxCount
    /\ role' = [role EXCEPT ![u] = IF @ = "none" THEN "member" ELSE @]
    /\ here' = here \cup {u}
    /\ memberCount' = memberCount + 1
    /\ UNCHANGED <<grants, deleted, settings>>

ResolveJoinRequest(r) ==
    /\ req[r].op \in {"approve", "reject"} /\ req[r].at = "checked"
    /\ LET t == req[r].target
       IN  \/ /\ joinRequest[t] = "pending" /\ req[r].op = "approve"
              /\ joinRequest' = [joinRequest EXCEPT ![t] = "closed"]
              /\ Approved(t)
           \/ /\ joinRequest[t] = "pending" /\ req[r].op = "reject"
              /\ joinRequest' = [joinRequest EXCEPT ![t] = "closed"]
              /\ UNCHANGED rows
           \/ /\ joinRequest[t] # "pending"
              /\ UNCHANGED <<rows, joinRequest>>
    /\ Finish(r)
    /\ UNCHANGED link

\* datarights.Delete ends every membership of the account and moves no counter.
EraseAccount ==
    /\ "erase" \in Operations
    /\ \E u \in here : here' = here \ {u}
    /\ UNCHANGED <<role, grants, chat, link, joinRequest, req>>

--------------------------------------------------------------------------------
Administer(r) ==
    \/ AddMembersCheck(r) \/ AddMembersNext(r) \/ AddMembersLocked(r)
    \/ RemoveMemberAuthorize(r) \/ RemoveMemberCheck(r) \/ RemoveMember(r)
    \/ LeaveCheck(r) \/ LeaveRemove(r) \/ LeaveDelete(r)
    \/ SetRoleCheck(r) \/ SetRole(r)
    \/ TransferCheck(r) \/ TransferOwnership(r)
    \/ UpdateSettingsCheck(r) \/ UpdateSettings(r)
    \/ DeleteCheck(r) \/ DeleteChat(r)

Enter(r) ==
    \/ RevokeInviteLink(r) \/ ResolveInvite(r)
    \/ JoinPublicCheck(r) \/ JoinPublicSettings(r)
    \/ Join(r) \/ JoinLocked(r) \/ CountInviteUse(r)
    \/ ResolveCheck(r) \/ ResolveJoinRequest(r)

Next == (\E r \in Requests : Administer(r) \/ Enter(r)) \/ EraseAccount

Spec == Init /\ [][Next]_vars

--------------------------------------------------------------------------------
(* Properties                                                                *)

\* The tables hold only values their CHECK constraints allow, and a departed
\* member keeps a row.
TypeOK ==
    /\ role \in [Users -> Roles \cup {"none"}]
    /\ here \subseteq {u \in Users : role[u] # "none"}
    /\ grants \subseteq Users
    /\ memberCount \in Nat
    /\ deleted \in BOOLEAN
    /\ settings \in [max : MemberLimits, approval : BOOLEAN]
    /\ link \in [live : BOOLEAN, used : Nat]
    /\ joinRequest \in [Users -> {"closed", "pending"}]
    /\ req \in [Requests -> Handler]

\* TransferOwnership moves the role: no two rows of a chat ever carry it, those
\* of departed members included, however transfers, role changes, removals,
\* rejoins and approvals that read the chat earlier overlap.
AtMostOneOwner ==
    \A u, v \in Users : role[u] = "owner" /\ role[v] = "owner" => u = v

\* bumpMemberCount keeps chats.member_count consistent with the rows: it is the
\* number of members, whatever joins, removals and departures overlap.
CountsMatch == memberCount = Cardinality(here)

\* Two concurrent joins cannot both slip past a full chat: nobody comes in
\* while the chat already has max_members members.  It takes a limit nobody
\* changes: a join that waits for the chat goes by the limit of before.
JoinsRespectLimit ==
    [][\A u \in here' \ here : Cardinality(here) < settings.max]_vars

\* A chat that has been deleted takes no newcomers, not even those whose
\* handler found it alive.
ClosedToNewcomers == [][deleted => here' \subseteq here]_vars

\* Nobody comes into a chat that is gone, or that has as many members as the
\* limit was when the statement that admits them began (AddMember); one
\* handler admits one member, and that is who it was about.
GuardsEntry ==
    /\ \A u \in here' \ here : \E r \in Requests :
          /\ req[r].at = "locking" /\ req[r].target = u
          /\ Cardinality(here) < req[r].limit
          /\ here' = here \cup {u}
    /\ deleted => here' \subseteq here

EntryIsGuarded == [][GuardsEntry]_vars

-----------------------------------------------------------------------------
\* What the repository says of this code and the code does not do. These
\* formulas are violated; README.md says under which constants.

\* A chat that is not deleted has its owner in it: TransferOwnership never leaves
\* zero owners, and Leave makes the owner hand over first.
NeverOwnerless == deleted \/ \E u \in here : role[u] = "owner"

\* Nobody is demoted by someone they administer: a role change lowers only the
\* caller or someone the caller outranked.
HierarchyHolds ==
    [][\A r \in Requests :
          /\ At(r, "role", "checked") /\ req'[r] = Idle
          /\ rank(role[req[r].target]) < rank(role'[req[r].target])
          => \/ req[r].target = req[r].actor
             \/ Outranks(req[r].sawRole, role[req[r].target])]_vars

\* Leaving deletes the chat only behind its last member.
DeletedOnlyWhenEmpty ==
    [][\A r \in Requests :
          At(r, "leave", "removed") /\ req'[r] = Idle => here = {}]_vars
================================================================================
