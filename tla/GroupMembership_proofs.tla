------------------------- MODULE GroupMembership_proofs -------------------------
(***************************************************************************)
(* Theorems about GroupMembership, for every set of users and handlers and *)
(* every member limit.                                                     *)
(***************************************************************************)
EXTENDS GroupMembership, FiniteSetTheorems, TLAPS

-----------------------------------------------------------------------------
(* Type correctness.  The invariant adds what the handlers may carry: no   *)
(* handler is about to grant the owner role.                               *)

NoOwnerGranted == \A r \in Requests : req[r].newRole # "owner"

TypeInv == TypeOK /\ NoOwnerGranted

\* A handler that has nothing to do is a handler.
LEMMA IdleType == Idle \in Handler /\ Idle.newRole = "member" /\ Idle.op = "none"
<1>1. (CHOOSE n \in MemberLimits : TRUE) \in MemberLimits
  BY GroupLimits
<1> QED
  BY <1>1, GroupCreator DEF Idle, Handler, Roles, AllOperations

\* Starting a handler with a well-typed record keeps the table of handlers typed.
LEMMA BeginType ==
    ASSUME TypeInv, NEW r \in Requests, NEW q \in Handler, q.newRole # "owner", Begin(r, q)
    PROVE  req' \in [Requests -> Handler] /\ NoOwnerGranted'
BY DEF TypeInv, TypeOK, NoOwnerGranted, Begin

\* So does ending one.
LEMMA FinishType ==
    ASSUME TypeInv, NEW r \in Requests, Finish(r)
    PROVE  req' \in [Requests -> Handler] /\ NoOwnerGranted'
BY IdleType DEF TypeInv, TypeOK, NoOwnerGranted, Finish

\* And moving one to its next step.
LEMMA GotoType ==
    ASSUME TypeInv, NEW r \in Requests,
           NEW place \in {"idle", "authorized", "checked", "removed", "joined"}, Goto(r, place)
    PROVE  req' \in [Requests -> Handler] /\ NoOwnerGranted'
BY DEF TypeInv, TypeOK, NoOwnerGranted, Goto, Handler

\* And letting one begin to wait for the chat.
LEMMA LockForType ==
    ASSUME TypeInv, NEW r \in Requests, NEW u \in Users, LockFor(r, u)
    PROVE  req' \in [Requests -> Handler] /\ NoOwnerGranted'
<1> DEFINE q == [req[r] EXCEPT !.at = "locking", !.target = u, !.limit = settings.max]
<1>0. req[r] \in Handler /\ req[r].newRole # "owner" /\ settings.max \in MemberLimits
  BY DEF TypeInv, TypeOK, NoOwnerGranted
<1>1. q \in Handler /\ q.newRole # "owner"
  BY <1>0 DEF Handler
<1>2. req' = [req EXCEPT ![r] = q]
  BY DEF LockFor, TypeInv, TypeOK
<1> QED
  BY <1>1, <1>2 DEF TypeInv, TypeOK, NoOwnerGranted

\* The transactions write well-typed rows.
LEMMA AddMemberType ==
    ASSUME TypeInv, NEW u \in Users, NEW max, AddMember(u, "member", max)
    PROVE  /\ role' \in [Users -> Roles \cup {"none"}]
           /\ here' \subseteq {v \in Users : role'[v] # "none"}
           /\ grants' \subseteq Users /\ memberCount' \in Nat /\ deleted' \in BOOLEAN
           /\ settings' \in [max : MemberLimits, approval : BOOLEAN]
BY DEF TypeInv, TypeOK, AddMember, Roles

LEMMA RemoveRowType ==
    ASSUME TypeInv, NEW u \in Users, RemoveRow(u)
    PROVE  /\ role' \in [Users -> Roles \cup {"none"}]
           /\ here' \subseteq {v \in Users : role'[v] # "none"}
           /\ grants' \subseteq Users /\ memberCount' \in Nat /\ deleted' \in BOOLEAN
           /\ settings' \in [max : MemberLimits, approval : BOOLEAN]
BY DEF TypeInv, TypeOK, RemoveRow, GoneBy

LEMMA InitType == Init => TypeInv
<1> SUFFICES ASSUME Init PROVE TypeInv
  OBVIOUS
<1>1. PICK r \in Requests, seed \in SUBSET (Users \ {Creator}) :
          req = [q \in Requests |->
                   IF q = r /\ seed # {}
                   THEN [Idle EXCEPT !.op = "add", !.at = "checked", !.todo = seed]
                   ELSE Idle]
  BY DEF Init
<1>2. [Idle EXCEPT !.op = "add", !.at = "checked", !.todo = seed] \in Handler
  BY IdleType DEF Handler, AllOperations
<1>3. [Idle EXCEPT !.op = "add", !.at = "checked", !.todo = seed].newRole = "member"
  BY IdleType DEF Handler
<1>4. req \in [Requests -> Handler] /\ NoOwnerGranted
  BY <1>1, <1>2, <1>3, IdleType DEF NoOwnerGranted
<1>5. settings \in [max : MemberLimits, approval : BOOLEAN]
  BY DEF Init
<1>6. link \in [live : BOOLEAN, used : Nat]
  <2>1. ("invite" \in Operations) \in BOOLEAN
    OBVIOUS
  <2>2. link = [live |-> "invite" \in Operations, used |-> 0]
    BY DEF Init
  <2> HIDE DEF Init
  <2>3. \A b \in BOOLEAN : [live |-> b, used |-> 0] \in [live : BOOLEAN, used : Nat]
    OBVIOUS
  <2> QED  BY <2>1, <2>2, <2>3, Zenon
<1>7. /\ role \in [Users -> Roles \cup {"none"}]
      /\ here \subseteq {u \in Users : role[u] # "none"}
      /\ grants \subseteq Users /\ memberCount \in Nat /\ deleted \in BOOLEAN
      /\ joinRequest \in [Users -> {"closed", "pending"}]
  BY GroupCreator DEF Init, Roles
<1> QED
  BY <1>4, <1>5, <1>6, <1>7 DEF TypeInv, TypeOK

\* The steps that only read: the tables stay, and the new handler is well typed.
LEMMA ReadStepType ==
    ASSUME TypeInv, NEW r \in Requests,
           \/ AddMembersCheck(r) \/ RemoveMemberAuthorize(r) \/ RemoveMemberCheck(r)
           \/ LeaveCheck(r) \/ SetRoleCheck(r) \/ TransferCheck(r) \/ UpdateSettingsCheck(r)
           \/ DeleteCheck(r) \/ ResolveInvite(r) \/ JoinPublicCheck(r)
           \/ JoinPublicSettings(r) \/ ResolveCheck(r)
    PROVE  TypeInv'
<1>1. UNCHANGED <<rows, link, joinRequest>>
  BY DEF AddMembersCheck, RemoveMemberAuthorize, RemoveMemberCheck, LeaveCheck, SetRoleCheck,
         TransferCheck, UpdateSettingsCheck, DeleteCheck, ResolveInvite, JoinPublicCheck,
         JoinPublicSettings, ResolveCheck
<1>2. req' \in [Requests -> Handler] /\ NoOwnerGranted'
  <2>1. CASE AddMembersCheck(r)
    <3>1. PICK s \in SUBSET Users :
              Begin(r, [Idle EXCEPT !.op = "add", !.at = "checked", !.todo = s])
      BY <2>1 DEF AddMembersCheck
    <3>2. [Idle EXCEPT !.op = "add", !.at = "checked", !.todo = s] \in Handler
      BY IdleType DEF Handler, AllOperations
    <3> QED  BY <3>1, <3>2, IdleType, BeginType DEF Handler
  <2>2. CASE RemoveMemberAuthorize(r)
    <3>1. PICK a \in Users, t \in Users :
              Begin(r, [Idle EXCEPT !.op = "remove", !.at = "authorized", !.target = t,
                                    !.sawRole = role[a]])
      BY <2>2 DEF RemoveMemberAuthorize
    <3>2. [Idle EXCEPT !.op = "remove", !.at = "authorized", !.target = t,
                       !.sawRole = role[a]] \in Handler
      BY IdleType DEF Handler, AllOperations, TypeInv, TypeOK
    <3> QED  BY <3>1, <3>2, IdleType, BeginType DEF Handler
  <2>3. CASE RemoveMemberCheck(r)
    <3>1. CASE Finish(r)
      BY <3>1, FinishType
    <3>2. CASE req' = [req EXCEPT ![r].at = "checked", ![r].sawRole = "none"]
      <4>0. req[r] \in Handler /\ "none" \in Roles \cup {"none"}
        BY DEF TypeInv, TypeOK
      <4>1. [req[r] EXCEPT !.at = "checked", !.sawRole = "none"] \in Handler
        BY <4>0 DEF Handler
      <4>2. [req[r] EXCEPT !.at = "checked", !.sawRole = "none"].newRole # "owner"
        BY DEF TypeInv, TypeOK, NoOwnerGranted, Handler
      <4>3. req' = [req EXCEPT ![r] = [req[r] EXCEPT !.at = "checked", !.sawRole = "none"]]
        BY <3>2 DEF TypeInv, TypeOK
      <4> QED  BY <4>1, <4>2, <4>3 DEF TypeInv, TypeOK, NoOwnerGranted
    <3> QED  BY <2>3, <3>1, <3>2 DEF RemoveMemberCheck
  <2>4. CASE LeaveCheck(r)
    <3>1. PICK u \in Users :
              Begin(r, [Idle EXCEPT !.op = "leave", !.at = "checked", !.actor = u,
                                    !.flag = (memberCount <= 1)])
      BY <2>4 DEF LeaveCheck
    <3>2. [Idle EXCEPT !.op = "leave", !.at = "checked", !.actor = u,
                       !.flag = (memberCount <= 1)] \in Handler
      <4>1. \A b \in BOOLEAN : [Idle EXCEPT !.op = "leave", !.at = "checked", !.actor = u,
                                           !.flag = b] \in Handler
        BY IdleType DEF Handler, AllOperations
      <4>2. (memberCount <= 1) \in BOOLEAN
        OBVIOUS
      <4> QED  BY <4>1, <4>2, Zenon
    <3> QED  BY <3>1, <3>2, IdleType, BeginType DEF Handler
  <2>5. CASE SetRoleCheck(r)
    <3>1. PICK a \in Users, t \in Users, n \in GrantedRoles, g \in BOOLEAN :
              Begin(r, [Idle EXCEPT !.op = "role", !.at = "checked", !.actor = a, !.target = t,
                                    !.newRole = n, !.grant = g, !.sawRole = role[a]])
      BY <2>5 DEF SetRoleCheck
    <3>2. [Idle EXCEPT !.op = "role", !.at = "checked", !.actor = a, !.target = t,
                       !.newRole = n, !.grant = g, !.sawRole = role[a]] \in Handler
      BY IdleType, GroupRoles, ZenonT(30) DEF Handler, AllOperations, Roles, TypeInv, TypeOK
    <3> QED  BY <3>1, <3>2, IdleType, GroupRoles, BeginType DEF Handler
  <2>6. CASE TransferCheck(r)
    <3>1. PICK a \in Users, t \in Users :
              Begin(r, [Idle EXCEPT !.op = "transfer", !.at = "checked", !.actor = a,
                                    !.target = t])
      BY <2>6 DEF TransferCheck
    <3>2. [Idle EXCEPT !.op = "transfer", !.at = "checked", !.actor = a, !.target = t]
              \in Handler
      BY IdleType DEF Handler, AllOperations
    <3> QED  BY <3>1, <3>2, IdleType, BeginType DEF Handler
  <2>7. CASE UpdateSettingsCheck(r)
    <3>1. PICK n \in MemberLimits, approval \in BOOLEAN :
              Begin(r, [Idle EXCEPT !.op = "settings", !.at = "checked", !.limit = n,
                                    !.flag = approval])
      BY <2>7 DEF UpdateSettingsCheck
    <3>2. [Idle EXCEPT !.op = "settings", !.at = "checked", !.limit = n, !.flag = approval]
              \in Handler
      BY IdleType DEF Handler, AllOperations
    <3> QED  BY <3>1, <3>2, IdleType, BeginType DEF Handler
  <2>8. CASE DeleteCheck(r)
    <3>1. [Idle EXCEPT !.op = "delete", !.at = "checked"] \in Handler
      BY IdleType DEF Handler, AllOperations
    <3> QED  BY <2>8, <3>1, IdleType, BeginType DEF Handler, DeleteCheck
  <2>9. CASE ResolveInvite(r)
    <3>1. PICK u \in Users :
              Begin(r, [Idle EXCEPT !.op = "invite", !.at = "checked", !.actor = u,
                                    !.flag = settings.approval])
      BY <2>9 DEF ResolveInvite
    <3>2. [Idle EXCEPT !.op = "invite", !.at = "checked", !.actor = u,
                       !.flag = settings.approval] \in Handler
      <4>1. \A b \in BOOLEAN : [Idle EXCEPT !.op = "invite", !.at = "checked", !.actor = u,
                                           !.flag = b] \in Handler
        BY IdleType DEF Handler, AllOperations
      <4>2. settings.approval \in BOOLEAN
        BY DEF TypeInv, TypeOK
      <4> QED  BY <4>1, <4>2, Zenon
    <3> QED  BY <3>1, <3>2, IdleType, BeginType DEF Handler
  <2>10. CASE JoinPublicCheck(r)
    <3>1. PICK u \in Users :
              Begin(r, [Idle EXCEPT !.op = "public", !.at = "authorized", !.actor = u])
      BY <2>10 DEF JoinPublicCheck
    <3>2. [Idle EXCEPT !.op = "public", !.at = "authorized", !.actor = u] \in Handler
      BY IdleType DEF Handler, AllOperations
    <3> QED  BY <3>1, <3>2, IdleType, BeginType DEF Handler
  <2>11. CASE JoinPublicSettings(r)
    <3> DEFINE q == [req[r] EXCEPT !.at = "checked", !.flag = settings.approval]
    <3>0. req[r] \in Handler /\ settings.approval \in BOOLEAN
      BY DEF TypeInv, TypeOK
    <3>1. q \in Handler
      <4>1. \A h \in Handler, b \in BOOLEAN : [h EXCEPT !.at = "checked", !.flag = b] \in Handler
        BY DEF Handler
      <4> QED  BY <3>0, <4>1, Zenon
    <3>2. q.newRole # "owner"
      BY <3>0 DEF NoOwnerGranted, TypeInv, Handler
    <3>3. req' = [req EXCEPT ![r] = q]
      BY <2>11 DEF JoinPublicSettings, TypeInv, TypeOK
    <3> QED  BY <3>1, <3>2, <3>3 DEF TypeInv, TypeOK, NoOwnerGranted
  <2>12. CASE ResolveCheck(r)
    <3>1. PICK t \in Users, op \in {"approve", "reject"} :
              Begin(r, [Idle EXCEPT !.op = op, !.at = "checked", !.target = t])
      BY <2>12 DEF ResolveCheck
    <3>2. [Idle EXCEPT !.op = op, !.at = "checked", !.target = t] \in Handler
      BY IdleType DEF Handler, AllOperations
    <3> QED  BY <3>1, <3>2, IdleType, BeginType DEF Handler
  <2> QED
    BY <2>1, <2>2, <2>3, <2>4, <2>5, <2>6, <2>7, <2>8, <2>9, <2>10, <2>11, <2>12
<1> QED
  BY <1>1, <1>2 DEF TypeInv, TypeOK, rows, chat

\* The steps that write a membership, the chat, the link or a join request.
LEMMA WriteStepType ==
    ASSUME TypeInv, NEW r \in Requests,
           \/ AddMembersNext(r) \/ AddMembersLocked(r)
           \/ RemoveMember(r) \/ LeaveRemove(r) \/ LeaveDelete(r)
           \/ SetRole(r) \/ TransferOwnership(r) \/ UpdateSettings(r) \/ DeleteChat(r)
           \/ RevokeInviteLink(r) \/ Join(r) \/ JoinLocked(r)
           \/ CountInviteUse(r) \/ ResolveJoinRequest(r)
    PROVE  TypeInv'
<1> DEFINE RowsTyped ==
             /\ role \in [Users -> Roles \cup {"none"}]
             /\ here \subseteq {v \in Users : role[v] # "none"}
             /\ grants \subseteq Users /\ memberCount \in Nat /\ deleted \in BOOLEAN
             /\ settings \in [max : MemberLimits, approval : BOOLEAN]
           ReqTyped == req \in [Requests -> Handler] /\ NoOwnerGranted
           LinkTyped == link \in [live : BOOLEAN, used : Nat]
           JoinTyped == joinRequest \in [Users -> {"closed", "pending"}]
<1>0. /\ req[r] \in Handler /\ req[r].newRole # "owner"
      /\ req[r].actor \in Users /\ req[r].target \in Users /\ req[r].todo \subseteq Users
      /\ req[r].newRole \in Roles /\ req[r].limit \in MemberLimits /\ req[r].flag \in BOOLEAN
  BY DEF TypeInv, TypeOK, NoOwnerGranted, Handler
<1>s. UNCHANGED rows => RowsTyped'
  BY DEF TypeInv, TypeOK, rows, chat
<1>l. UNCHANGED link => LinkTyped'
  BY DEF TypeInv, TypeOK
<1>j. UNCHANGED joinRequest => JoinTyped'
  BY DEF TypeInv, TypeOK
<1>f. Finish(r) => ReqTyped'
  BY FinishType
<1>g. Goto(r, "removed") \/ Goto(r, "joined") => ReqTyped'
  BY GotoType
<1>k. \A u \in Users : LockFor(r, u) => ReqTyped'
  BY LockForType
<1>a. \A u \in Users : \A max : AddMember(u, "member", max) => RowsTyped'
  BY AddMemberType
<1>d. \A u \in Users : RemoveRow(u) => RowsTyped'
  BY RemoveRowType
<1>1. CASE AddMembersNext(r)
  BY <1>1, <1>0, <1>s, <1>k, <1>l, <1>j DEF TypeInv, TypeOK, AddMembersNext
<1>13. CASE AddMembersLocked(r)
  <2> DEFINE u == req[r].target
             q == [Idle EXCEPT !.op = "add", !.at = "checked", !.todo = req[r].todo \ {u}]
  <2>1. RowsTyped'
    BY <1>13, <1>0, <1>a, <1>s DEF AddMembersLocked
  <2>2. q \in Handler /\ q.newRole # "owner"
    BY <1>0, IdleType DEF Handler, AllOperations
  <2>3. Finish(r) \/ req' = [req EXCEPT ![r] = q]
    BY <1>13 DEF AddMembersLocked
  <2> HIDE DEF q
  <2>5. ASSUME req' = [req EXCEPT ![r] = q] PROVE ReqTyped'
    BY <2>2, <2>5 DEF TypeInv, TypeOK, NoOwnerGranted
  <2>4. ReqTyped'
    BY <2>3, <2>5, <1>f
  <2> QED  BY <2>1, <2>4, <1>l, <1>j, <1>13 DEF TypeInv, TypeOK, AddMembersLocked
<1>2. CASE RemoveMember(r)
  BY <1>2, <1>0, <1>s, <1>d, <1>f, <1>l, <1>j DEF TypeInv, TypeOK, RemoveMember
<1>3. CASE LeaveRemove(r)
  BY <1>3, <1>0, <1>s, <1>d, <1>f, <1>g, <1>l, <1>j DEF TypeInv, TypeOK, LeaveRemove
<1>4. CASE LeaveDelete(r)
  BY <1>4, <1>f, <1>l, <1>j DEF TypeInv, TypeOK, LeaveDelete
<1>5. CASE SetRole(r)
  <2>1. RowsTyped'
    BY <1>5, <1>0 DEF SetRole, TypeInv, TypeOK, Roles, chat
  <2> QED  BY <2>1, <1>5, <1>f, <1>l, <1>j DEF TypeInv, TypeOK, SetRole
<1>6. CASE TransferOwnership(r)
  <2>1. RowsTyped'
    BY <1>6, <1>0 DEF TransferOwnership, TransferGuard, Transferred, TypeInv, TypeOK, Roles, chat
  <2> QED  BY <2>1, <1>6, <1>f, <1>l, <1>j DEF TypeInv, TypeOK, TransferOwnership
<1>7. CASE UpdateSettings(r)
  BY <1>7, <1>0, <1>f, <1>l, <1>j DEF TypeInv, TypeOK, UpdateSettings
<1>8. CASE DeleteChat(r)
  BY <1>8, <1>f, <1>l, <1>j DEF TypeInv, TypeOK, DeleteChat
<1>9. CASE RevokeInviteLink(r)
  BY <1>9, <1>s, <1>j DEF TypeInv, TypeOK, RevokeInviteLink, NoOwnerGranted
<1>10. CASE Join(r)
  <2>1. RowsTyped' /\ ReqTyped'
    BY <1>10, <1>0, <1>s, <1>f, <1>k DEF Join
  <2>2. JoinTyped'
    BY <1>10, <1>0, <1>j DEF Join, JoinRequested, TypeInv, TypeOK
  <2> QED  BY <2>1, <2>2, <1>l, <1>10 DEF TypeInv, TypeOK, Join
<1>14. CASE JoinLocked(r)
  <2>1. RowsTyped' /\ ReqTyped'
    BY <1>14, <1>0, <1>s, <1>a, <1>f, <1>g DEF JoinLocked
  <2> QED  BY <2>1, <1>j, <1>l, <1>14 DEF TypeInv, TypeOK, JoinLocked
<1>11. CASE CountInviteUse(r)
  <2>1. LinkTyped'
    BY <1>11 DEF CountInviteUse, TypeInv, TypeOK
  <2> QED  BY <2>1, <1>11, <1>s, <1>f, <1>j DEF TypeInv, TypeOK, CountInviteUse
<1>12. CASE ResolveJoinRequest(r)
  <2>1. RowsTyped'
    BY <1>12, <1>0, <1>s DEF ResolveJoinRequest, Approved, TypeInv, TypeOK, Roles
  <2>2. JoinTyped'
    BY <1>12, <1>0, <1>j DEF ResolveJoinRequest, TypeInv, TypeOK
  <2> QED  BY <2>1, <2>2, <1>f, <1>l, <1>12 DEF TypeInv, TypeOK, ResolveJoinRequest
<1> QED
  BY <1>1, <1>2, <1>3, <1>4, <1>5, <1>6, <1>7, <1>8, <1>9, <1>10, <1>11, <1>12, <1>13, <1>14

LEMMA NextType == TypeInv /\ [Next]_vars => TypeInv'
<1> SUFFICES ASSUME TypeInv, [Next]_vars PROVE TypeInv'
  OBVIOUS
<1>1. CASE UNCHANGED vars
  BY <1>1 DEF TypeInv, TypeOK, NoOwnerGranted, vars, chat
<1>2. CASE EraseAccount
  BY <1>2 DEF TypeInv, TypeOK, NoOwnerGranted, EraseAccount, chat
<1>3. ASSUME NEW r \in Requests, Administer(r) \/ Enter(r) PROVE TypeInv'
  BY <1>3, ReadStepType, WriteStepType DEF Administer, Enter
<1> QED
  BY <1>1, <1>2, <1>3 DEF Next

\* Every handler step keeps the rows within what the tables allow, and no
\* handler ever carries a grant of the owner role.
THEOREM GroupTypes == Spec => []TypeOK
<1>1. Spec => []TypeInv
  BY InitType, NextType, PTL DEF Spec
<1> QED
  BY <1>1, PTL DEF TypeInv

-----------------------------------------------------------------------------
(* One owner row at most.  Only TransferOwnership writes the role, and it  *)
(* takes it from a row that still has it, so the number of such rows never *)
(* grows: what a handler read earlier does not matter.                     *)

LEMMA OwnerInit == Init => AtMostOneOwner
BY DEF Init, AtMostOneOwner

LEMMA OwnerNext == TypeInv /\ AtMostOneOwner /\ [Next]_vars => AtMostOneOwner'
<1> SUFFICES ASSUME TypeInv, AtMostOneOwner, [Next]_vars PROVE AtMostOneOwner'
  OBVIOUS
<1>s. UNCHANGED role => AtMostOneOwner'
  BY DEF AtMostOneOwner
<1>w. ASSUME NEW u \in Users, NEW x, x # "owner", role' = [role EXCEPT ![u] = x]
      PROVE  AtMostOneOwner'
  BY <1>w DEF AtMostOneOwner, TypeInv, TypeOK
<1>1. CASE UNCHANGED vars \/ EraseAccount
  BY <1>1, <1>s DEF vars, EraseAccount
<1>2. ASSUME NEW r \in Requests, Administer(r) \/ Enter(r) PROVE AtMostOneOwner'
  <2>0. /\ req[r].target \in Users /\ req[r].actor \in Users /\ req[r].todo \subseteq Users
        /\ req[r].newRole # "owner"
    BY DEF TypeInv, TypeOK, NoOwnerGranted, Handler
  <2>1. CASE AddMembersLocked(r)
    BY <2>1, <2>0, <1>s, <1>w DEF AddMembersLocked, AddMember, rows
  <2>2. CASE SetRole(r)
    BY <2>2, <2>0, <1>s, <1>w DEF SetRole
  <2>3. CASE TransferOwnership(r)
    BY <2>3, <2>0, <1>s DEF TransferOwnership, TransferGuard, Transferred, AtMostOneOwner,
       TypeInv, TypeOK
  <2>4. CASE JoinLocked(r)
    BY <2>4, <2>0, <1>s, <1>w DEF JoinLocked, AddMember, rows
  <2>5. CASE ResolveJoinRequest(r)
    <3>1. ASSUME Approved(req[r].target) PROVE AtMostOneOwner'
      <4>1. CASE role[req[r].target] = "none"
        BY <3>1, <4>1, <2>0, <1>w DEF Approved
      <4>2. CASE role[req[r].target] # "none"
        BY <3>1, <4>2, <2>0, <1>s DEF Approved, TypeInv, TypeOK
      <4> QED  BY <4>1, <4>2
    <3> QED  BY <2>5, <3>1, <1>s DEF ResolveJoinRequest, rows
  <2>6. CASE RemoveMember(r) \/ LeaveRemove(r)
    BY <2>6, <1>s DEF RemoveMember, LeaveRemove, RemoveRow, rows
  <2>7. CASE \/ AddMembersCheck(r) \/ AddMembersNext(r) \/ Join(r)
             \/ RemoveMemberAuthorize(r) \/ RemoveMemberCheck(r)
             \/ LeaveCheck(r) \/ LeaveDelete(r) \/ SetRoleCheck(r) \/ TransferCheck(r)
             \/ UpdateSettingsCheck(r) \/ UpdateSettings(r) \/ DeleteCheck(r) \/ DeleteChat(r)
             \/ RevokeInviteLink(r) \/ ResolveInvite(r) \/ JoinPublicCheck(r)
             \/ JoinPublicSettings(r) \/ CountInviteUse(r) \/ ResolveCheck(r)
    BY <2>7, <1>s DEF AddMembersCheck, AddMembersNext, Join, RemoveMemberAuthorize,
       RemoveMemberCheck, LeaveCheck, LeaveDelete, SetRoleCheck, TransferCheck, UpdateSettingsCheck, UpdateSettings, DeleteCheck,
       DeleteChat, RevokeInviteLink, ResolveInvite, JoinPublicCheck, JoinPublicSettings,
       CountInviteUse, ResolveCheck, rows
  <2> QED
    BY <1>2, <2>1, <2>2, <2>3, <2>4, <2>5, <2>6, <2>7 DEF Administer, Enter
<1> QED
  BY <1>1, <1>2 DEF Next

\* A chat never has two owner rows, however the handlers of
\* groups.Service overlap.
THEOREM NeverTwoOwners == Spec => []AtMostOneOwner
<1>1. Spec => [](TypeInv /\ AtMostOneOwner)
  BY InitType, NextType, OwnerInit, OwnerNext, PTL DEF Spec
<1> QED
  BY <1>1, PTL

-----------------------------------------------------------------------------
(* The counters.  Where neither an approval nor an erasure runs,           *)
(* member_count is the number of rows with left_at NULL at every commit,   *)
(* so the limit that AddMember checks on the locked row is the real one.   *)

Uncounted == {"approve", "erase"}

NoApproval == \A r \in Requests : req[r].op # "approve"

CountInv == TypeInv /\ NoApproval /\ IsFiniteSet(here) /\ CountsMatch

LEMMA CountInit == Init => NoApproval /\ IsFiniteSet(here) /\ CountsMatch
<1> SUFFICES ASSUME Init PROVE NoApproval /\ IsFiniteSet(here) /\ CountsMatch
  OBVIOUS
<1>1. IsFiniteSet({Creator}) /\ Cardinality({Creator}) = 1
  BY FS_Singleton
<1>2. \A s \in SUBSET Users :
         [Idle EXCEPT !.op = "add", !.at = "checked", !.todo = s].op # "approve"
  BY IdleType DEF Handler
<1>3. NoApproval
  BY <1>2, IdleType DEF Init, NoApproval
<1> QED
  BY <1>1, <1>3 DEF Init, CountsMatch

\* Each transaction moves the counter with the row.
LEMMA AddCounts ==
    ASSUME CountInv, NEW u \in Users, NEW max, AddMember(u, "member", max)
    PROVE  IsFiniteSet(here') /\ CountsMatch'
<1>1. /\ IsFiniteSet(here \cup {u})
      /\ Cardinality(here \cup {u}) = Cardinality(here) + 1
  BY FS_AddElement DEF CountInv, AddMember, CanAdd
<1> QED
  BY <1>1 DEF CountInv, AddMember, CountsMatch

LEMMA RemoveCounts ==
    ASSUME CountInv, NEW u \in Users, RemoveRow(u)
    PROVE  IsFiniteSet(here') /\ CountsMatch'
<1>1. /\ IsFiniteSet(here \ {u})
      /\ Cardinality(here \ {u}) = Cardinality(here) - 1
  BY FS_RemoveElement DEF CountInv, RemoveRow
<1>2. Cardinality(here \ {u}) \in Nat /\ Cardinality(here) \in Nat
  BY <1>1, FS_CardinalityType DEF CountInv
<1> QED
  BY <1>1, <1>2 DEF CountInv, RemoveRow, CountsMatch, GoneBy

LEMMA CountNext ==
    ASSUME Operations \cap Uncounted = {}
    PROVE  CountInv /\ [Next]_vars => CountInv'
<1> SUFFICES ASSUME CountInv, [Next]_vars PROVE CountInv'
  OBVIOUS
<1>t. TypeInv'
  BY NextType DEF CountInv
<1>o. "approve" \notin Operations /\ "erase" \notin Operations
  BY DEF Uncounted
<1>s. UNCHANGED <<here, memberCount>> => IsFiniteSet(here') /\ CountsMatch'
  BY DEF CountInv, CountsMatch
<1>1. CASE UNCHANGED vars
  BY <1>1, <1>t, <1>s DEF CountInv, NoApproval, vars, chat
<1>2. CASE EraseAccount
  BY <1>2, <1>o DEF EraseAccount
<1>3. ASSUME NEW r \in Requests, Administer(r) \/ Enter(r) PROVE CountInv'
  <2>0. /\ req[r].actor \in Users /\ req[r].target \in Users /\ req[r].todo \subseteq Users
        /\ req[r].op # "approve" /\ req \in [Requests -> Handler]
    BY DEF CountInv, TypeInv, TypeOK, NoApproval, Handler
  <2>a. \A u \in Users : \A max : AddMember(u, "member", max) => IsFiniteSet(here') /\ CountsMatch'
    BY AddCounts
  <2>d. \A u \in Users : RemoveRow(u) => IsFiniteSet(here') /\ CountsMatch'
    BY RemoveCounts
  <2>r. UNCHANGED rows => IsFiniteSet(here') /\ CountsMatch'
    BY <1>s DEF rows, chat
  <2>f. Finish(r) => NoApproval'
    BY <2>0, IdleType DEF Finish, CountInv, NoApproval
  <2>g. \A place : Goto(r, place) => NoApproval'
    BY <2>0 DEF Goto, CountInv, NoApproval, Handler
  <2>1. NoApproval'
    <3>b. ASSUME NEW q, q.op # "approve", Begin(r, q) PROVE NoApproval'
      BY <3>b, <2>0 DEF Begin, CountInv, NoApproval
    <3>i. Idle \in Handler
      BY IdleType
    <3>1. CASE AddMembersCheck(r)
      BY <3>1, <3>i, <3>b DEF AddMembersCheck, Handler
    <3>2. CASE RemoveMemberAuthorize(r) \/ LeaveCheck(r)
      BY <3>2, <3>i, <3>b DEF RemoveMemberAuthorize, LeaveCheck, Handler
    <3>3. CASE SetRoleCheck(r) \/ TransferCheck(r)
      BY <3>3, <3>i, <3>b DEF SetRoleCheck, TransferCheck, Handler
    <3>4. CASE UpdateSettingsCheck(r) \/ DeleteCheck(r)
      BY <3>4, <3>i, <3>b DEF UpdateSettingsCheck, DeleteCheck, Handler
    <3>5. CASE ResolveInvite(r) \/ JoinPublicCheck(r)
      BY <3>5, <3>i, <3>b DEF ResolveInvite, JoinPublicCheck, Handler
    <3>6. CASE ResolveCheck(r)
      <4>1. PICK t \in Users, op \in {"approve", "reject"} \cap Operations :
                Begin(r, [Idle EXCEPT !.op = op, !.at = "checked", !.target = t])
        BY <3>6 DEF ResolveCheck
      <4>2. [Idle EXCEPT !.op = op, !.at = "checked", !.target = t].op # "approve"
        BY <4>1, <1>o, <3>i DEF Handler
      <4> QED  BY <4>1, <4>2, <3>b
    <3>7. CASE \/ RemoveMember(r) \/ LeaveRemove(r) \/ LeaveDelete(r) \/ SetRole(r)
               \/ TransferOwnership(r) \/ UpdateSettings(r) \/ DeleteChat(r) \/ JoinLocked(r)
               \/ CountInviteUse(r) \/ ResolveJoinRequest(r)
      BY <3>7, <2>f, <2>g DEF RemoveMember, LeaveRemove, LeaveDelete, SetRole,
         TransferOwnership, UpdateSettings, DeleteChat, JoinLocked, CountInviteUse,
         ResolveJoinRequest
    <3>8. CASE RevokeInviteLink(r)
      BY <3>8 DEF RevokeInviteLink, CountInv, NoApproval
    <3>9. CASE RemoveMemberCheck(r) \/ JoinPublicSettings(r)
      BY <3>9, <2>0, <2>f DEF RemoveMemberCheck, JoinPublicSettings, CountInv, NoApproval, Handler
    <3>11. CASE AddMembersNext(r) \/ Join(r)
      <4>1. ASSUME NEW u, LockFor(r, u) PROVE NoApproval'
        BY <4>1, <2>0 DEF LockFor, CountInv, NoApproval, Handler
      <4> QED  BY <3>11, <4>1, <2>f DEF AddMembersNext, Join
    <3>10. CASE AddMembersLocked(r)
      <4>1. \A t \in SUBSET Users :
               [Idle EXCEPT !.op = "add", !.at = "checked", !.todo = t].op # "approve"
        BY <3>i DEF Handler
      <4>2. Finish(r) \/ \E t \in SUBSET Users :
               req' = [req EXCEPT ![r] = [Idle EXCEPT !.op = "add", !.at = "checked", !.todo = t]]
        BY <3>10, <2>0 DEF AddMembersLocked
      <4> QED  BY <4>1, <4>2, <2>0, <2>f DEF CountInv, NoApproval
    <3> QED
      BY <1>3, <3>1, <3>2, <3>3, <3>4, <3>5, <3>6, <3>7, <3>8, <3>9, <3>10,
         <3>11
         DEF Administer, Enter
  <2>2. IsFiniteSet(here') /\ CountsMatch'
    <3>1. CASE AddMembersLocked(r)
      BY <3>1, <2>0, <2>a, <2>r DEF AddMembersLocked
    <3>2. CASE RemoveMember(r) \/ LeaveRemove(r)
      BY <3>2, <2>0, <2>d, <2>r DEF RemoveMember, LeaveRemove
    <3>3. CASE JoinLocked(r)
      BY <3>3, <2>0, <2>a, <2>r DEF JoinLocked
    <3>4. CASE ResolveJoinRequest(r)
      BY <3>4, <2>0, <2>r DEF ResolveJoinRequest
    <3>5. CASE \/ AddMembersCheck(r) \/ AddMembersNext(r) \/ Join(r) \/ RemoveMemberAuthorize(r) \/ RemoveMemberCheck(r)
               \/ LeaveCheck(r) \/ LeaveDelete(r) \/ SetRoleCheck(r) \/ SetRole(r)
               \/ TransferCheck(r) \/ TransferOwnership(r) \/ UpdateSettingsCheck(r)
               \/ UpdateSettings(r) \/ DeleteCheck(r) \/ DeleteChat(r) \/ RevokeInviteLink(r)
               \/ ResolveInvite(r) \/ JoinPublicCheck(r) \/ JoinPublicSettings(r)
               \/ CountInviteUse(r) \/ ResolveCheck(r)
      BY <3>5, <1>s DEF AddMembersCheck, AddMembersNext, Join, RemoveMemberAuthorize, RemoveMemberCheck, LeaveCheck,
         LeaveDelete, SetRoleCheck, SetRole, TransferCheck, TransferOwnership,
         UpdateSettingsCheck, UpdateSettings, DeleteCheck, DeleteChat, RevokeInviteLink,
         ResolveInvite, JoinPublicCheck, JoinPublicSettings, CountInviteUse, ResolveCheck, rows, chat
    <3> QED
      BY <1>3, <3>1, <3>2, <3>3, <3>4, <3>5 DEF Administer, Enter
  <2> QED  BY <1>t, <2>1, <2>2 DEF CountInv
<1> QED
  BY <1>1, <1>2, <1>3 DEF Next

\* Without approvals and erasures, chats.member_count is the number of members.
THEOREM CountersExact ==
    ASSUME Operations \cap Uncounted = {}
    PROVE  Spec => []CountsMatch
<1>1. Init => CountInv
  BY InitType, CountInit DEF CountInv
<1>2. CountInv /\ [Next]_vars => CountInv'
  BY CountNext
<1>3. Spec => []CountInv
  BY <1>1, <1>2, PTL DEF Spec
<1> QED
  BY <1>3, PTL DEF CountInv

\* Who comes in, comes in through AddMember, one at a time, on a chat that is there and not full
\* by the limit the handler has read.
LEMMA NewcomersAreAdmitted ==
    ASSUME CountInv, Next, NEW u \in here' \ here
    PROVE  /\ ~deleted
           /\ \E r \in Requests : /\ req[r].at = "locking" /\ req[r].target = u
                                  /\ memberCount < req[r].limit /\ here' = here \cup {u}
<1>1. PICK r \in Requests : Administer(r) \/ Enter(r)
  BY DEF Next, EraseAccount
<1>0. req[r].op # "approve"
  BY DEF CountInv, NoApproval
<1>2. CASE AddMembersLocked(r)
  BY <1>2 DEF AddMembersLocked, At, AddMember, CanAdd, rows
<1>3. CASE JoinLocked(r)
  BY <1>3 DEF JoinLocked, AddMember, CanAdd, rows
<1>4. CASE ResolveJoinRequest(r)
  BY <1>4, <1>0 DEF ResolveJoinRequest, rows
<1>5. CASE RemoveMember(r) \/ LeaveRemove(r)
  BY <1>5 DEF RemoveMember, LeaveRemove, RemoveRow, rows
<1>6. CASE \/ AddMembersCheck(r) \/ AddMembersNext(r) \/ Join(r) \/ RemoveMemberAuthorize(r)
           \/ RemoveMemberCheck(r)
           \/ LeaveCheck(r) \/ LeaveDelete(r) \/ SetRoleCheck(r) \/ SetRole(r)
           \/ TransferCheck(r) \/ TransferOwnership(r) \/ UpdateSettingsCheck(r)
           \/ UpdateSettings(r) \/ DeleteCheck(r) \/ DeleteChat(r) \/ RevokeInviteLink(r)
           \/ ResolveInvite(r) \/ JoinPublicCheck(r) \/ JoinPublicSettings(r)
           \/ CountInviteUse(r) \/ ResolveCheck(r)
  BY <1>6 DEF AddMembersCheck, AddMembersNext, Join, RemoveMemberAuthorize, RemoveMemberCheck,
     LeaveCheck, LeaveDelete, SetRoleCheck, SetRole, TransferCheck, TransferOwnership,
     UpdateSettingsCheck, UpdateSettings, DeleteCheck, DeleteChat, RevokeInviteLink,
     ResolveInvite, JoinPublicCheck, JoinPublicSettings, CountInviteUse, ResolveCheck, rows
<1> QED
  BY <1>1, <1>2, <1>3, <1>4, <1>5, <1>6 DEF Administer, Enter

\* Where nobody changes the settings, the limit a handler has read is the limit.
LimitIsRead ==
    \A r \in Requests : /\ req[r].op # "settings"
                        /\ req[r].at = "locking" => req[r].limit = settings.max

LEMMA LimitInit == Init => LimitIsRead
<1>1. \A s \in SUBSET Users :
         /\ [Idle EXCEPT !.op = "add", !.at = "checked", !.todo = s].op = "add"
         /\ [Idle EXCEPT !.op = "add", !.at = "checked", !.todo = s].at = "checked"
  BY IdleType DEF Handler
<1>2. Idle.at = "idle"
  BY DEF Idle
<1> QED
  BY <1>1, <1>2, IdleType DEF Init, LimitIsRead

LEMMA LimitNext ==
    ASSUME "settings" \notin Operations
    PROVE  TypeInv /\ LimitIsRead /\ [Next]_vars => LimitIsRead'
<1> SUFFICES ASSUME TypeInv, LimitIsRead, [Next]_vars PROVE LimitIsRead'
  OBVIOUS
<1>i. Idle \in Handler /\ Idle.op = "none" /\ Idle.at = "idle"
  BY IdleType DEF Idle
<1>1. CASE UNCHANGED vars \/ EraseAccount
  BY <1>1 DEF vars, chat, EraseAccount, LimitIsRead
<1>2. ASSUME NEW r \in Requests, Administer(r) \/ Enter(r) PROVE LimitIsRead'
  <2>0. req \in [Requests -> Handler] /\ req[r] \in Handler /\ req[r].op # "settings"
    BY DEF TypeInv, TypeOK, LimitIsRead
  <2>s. settings' = settings
    BY <1>2, <2>0 DEF Administer, Enter, AddMembersCheck, AddMembersNext, AddMembersLocked,
       RemoveMemberAuthorize, RemoveMemberCheck, RemoveMember, LeaveCheck, LeaveRemove, LeaveDelete,
       SetRoleCheck, SetRole, TransferCheck, TransferOwnership, UpdateSettingsCheck,
       UpdateSettings, At, DeleteCheck, DeleteChat, RevokeInviteLink, ResolveInvite, JoinPublicCheck,
       JoinPublicSettings, Join, JoinLocked, CountInviteUse, ResolveCheck, ResolveJoinRequest,
       Approved, AddMember, RemoveRow, rows, chat
  <2>b. ASSUME NEW q, q.op # "settings", q.at # "locking", req' = [req EXCEPT ![r] = q]
        PROVE  LimitIsRead'
    BY <2>0, <2>b, <2>s DEF LimitIsRead
  <2>f. Finish(r) => LimitIsRead'
    BY <1>i, <2>b DEF Finish
  <2>g. ASSUME NEW place \in {"removed", "joined"}, Goto(r, place) PROVE LimitIsRead'
    <3>1. [req[r] EXCEPT !.at = place].op # "settings" /\ [req[r] EXCEPT !.at = place].at # "locking"
      BY <2>0 DEF Handler
    <3>2. req' = [req EXCEPT ![r] = [req[r] EXCEPT !.at = place]]
      BY <2>0, <2>g DEF Goto
    <3> QED  BY <3>1, <3>2, <2>b
  <2>k. ASSUME NEW u, LockFor(r, u) PROVE LimitIsRead'
    BY <2>0, <2>k, <2>s DEF LockFor, LimitIsRead, Handler
  <2>1. CASE AddMembersCheck(r) \/ RemoveMemberAuthorize(r)
    BY <2>1, <1>i, <2>b DEF AddMembersCheck, RemoveMemberAuthorize, Begin, Handler
  <2>2. CASE LeaveCheck(r) \/ TransferCheck(r)
    BY <2>2, <1>i, <2>b DEF LeaveCheck, TransferCheck, Begin, Handler
  <2>3. CASE SetRoleCheck(r)
    BY <2>3, <1>i, <2>b DEF SetRoleCheck, Begin, Handler
  <2>4. CASE DeleteCheck(r) \/ ResolveInvite(r)
    BY <2>4, <1>i, <2>b DEF DeleteCheck, ResolveInvite, Begin, Handler
  <2>5. CASE JoinPublicCheck(r) \/ ResolveCheck(r)
    BY <2>5, <1>i, <2>b DEF JoinPublicCheck, ResolveCheck, Begin, Handler
  <2>6. CASE UpdateSettingsCheck(r)
    BY <2>6 DEF UpdateSettingsCheck
  <2>7. CASE \/ RemoveMember(r) \/ LeaveRemove(r) \/ LeaveDelete(r) \/ SetRole(r)
             \/ TransferOwnership(r) \/ UpdateSettings(r) \/ DeleteChat(r) \/ JoinLocked(r)
             \/ CountInviteUse(r) \/ ResolveJoinRequest(r)
    BY <2>7, <2>f, <2>g DEF RemoveMember, LeaveRemove, LeaveDelete, SetRole, TransferOwnership,
       UpdateSettings, DeleteChat, JoinLocked, CountInviteUse, ResolveJoinRequest
  <2>8. CASE RevokeInviteLink(r)
    BY <2>8, <2>s DEF RevokeInviteLink, LimitIsRead
  <2>9. CASE AddMembersNext(r) \/ Join(r)
    BY <2>9, <2>k, <2>f DEF AddMembersNext, Join
  <2>10. CASE AddMembersLocked(r)
    <3>1. \A t : /\ [Idle EXCEPT !.op = "add", !.at = "checked", !.todo = t].op = "add"
                 /\ [Idle EXCEPT !.op = "add", !.at = "checked", !.todo = t].at = "checked"
      BY <1>i DEF Handler
    <3> QED  BY <2>10, <3>1, <2>b, <2>f DEF AddMembersLocked
  <2>11. CASE RemoveMemberCheck(r) \/ JoinPublicSettings(r)
    BY <2>11, <2>0, <2>s, <2>f DEF RemoveMemberCheck, JoinPublicSettings, LimitIsRead, Handler
  <2> QED
    BY <1>2, <2>1, <2>2, <2>3, <2>4, <2>5, <2>6, <2>7, <2>8, <2>9, <2>10, <2>11
       DEF Administer, Enter
<1> QED
  BY <1>1, <1>2 DEF Next

\* Without approvals and erasures, and under a limit nobody changes, nobody enters a chat that
\* already has max_members members, however many joins overlap.
THEOREM LimitHolds ==
    ASSUME Operations \cap Uncounted = {}, "settings" \notin Operations
    PROVE  Spec => JoinsRespectLimit
<1>1. Init => CountInv /\ LimitIsRead
  BY InitType, CountInit, LimitInit DEF CountInv
<1>2. CountInv /\ LimitIsRead /\ [Next]_vars => (CountInv /\ LimitIsRead)'
  BY CountNext, LimitNext DEF CountInv
<1>3. CountInv /\ LimitIsRead /\ [Next]_vars
         => [\A u \in here' \ here : Cardinality(here) < settings.max]_vars
  BY NewcomersAreAdmitted DEF CountInv, CountsMatch, LimitIsRead, vars, chat
<1> QED
  BY <1>1, <1>2, <1>3, PTL DEF Spec, JoinsRespectLimit

\* Without approvals and erasures, a deleted chat takes no newcomers.
THEOREM DeletedIsClosed ==
    ASSUME Operations \cap Uncounted = {}
    PROVE  Spec => ClosedToNewcomers
<1>1. Init => CountInv
  BY InitType, CountInit DEF CountInv
<1>2. CountInv /\ [Next]_vars => CountInv'
  BY CountNext
<1>3. CountInv /\ [Next]_vars => [deleted => here' \subseteq here]_vars
  BY NewcomersAreAdmitted DEF vars, chat
<1> QED
  BY <1>1, <1>2, <1>3, PTL DEF Spec, ClosedToNewcomers

\* Both guards together, as the runs check them: without approvals and erasures, nobody comes into
\* a chat that is gone, or full by the limit that held when the join's statement began.
THEOREM EntryGuarded ==
    ASSUME Operations \cap Uncounted = {}
    PROVE  Spec => EntryIsGuarded
<1>1. Init => CountInv
  BY InitType, CountInit DEF CountInv
<1>2. CountInv /\ [Next]_vars => CountInv'
  BY CountNext
<1>3. CountInv /\ [Next]_vars => [GuardsEntry]_vars
  BY NewcomersAreAdmitted DEF CountInv, CountsMatch, GuardsEntry, vars, chat
<1> QED
  BY <1>1, <1>2, <1>3, PTL DEF Spec, EntryIsGuarded
================================================================================
