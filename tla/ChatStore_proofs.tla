--------------------------- MODULE ChatStore_proofs ---------------------------
(***************************************************************************)
(* Theorems about ChatStore, for every set of users, chats, keys and       *)
(* handlers and every bound.                                               *)
(***************************************************************************)
EXTENDS ChatStore, FiniteSetTheorems, WellFoundedInduction, TLAPS

-----------------------------------------------------------------------------
(* Type correctness.  MarkRead counts a snapshot, so the invariant also    *)
(* says that the message tables and the snapshots are finite; a one-sided  *)
(* clear locks its caller's counter, so a clear always has a caller.       *)

Finite == /\ \A c \in Chats : IsFiniteSet(messages[c])
          /\ \A p \in Handlers : IsFiniteSet(req[p].snapshot)

ClearHasCaller ==
    \A p \in Handlers : req[p].op \in {"clear_all", "clear_self"} => req[p].user \in Users

TypeInv == TypeOK /\ Finite /\ ClearHasCaller

\* A read is asked for by a user, in a chat.
LEMMA ReadsNamed ==
    ASSUME NEW r \in Reads
    PROVE  r[1] \in Chats /\ r[2] \in Users /\ r[3] \in Nat
BY ReadsAssumption

\* The empty request is a request.
LEMMA NoRequestType ==
    NoRequest \in Request /\ NoRequest.snapshot = {} /\ NoRequest.op = "read"
BY NonEmptyAssumption DEF NoRequest, Request, NoUser

\* Rolling back or committing leaves the bookkeeping well typed.
LEMMA ReleaseType ==
    ASSUME TypeInv, NEW p \in Handlers, Release(p)
    PROVE  /\ pc' \in [Handlers -> Steps]
           /\ req' \in [Handlers -> Request]
           /\ new_seq' \in [Handlers -> Nat]
           /\ todo' \in [Handlers -> SUBSET Users]
           /\ bumped' \in [Handlers -> [Users -> Nat]]
           /\ \A q \in Handlers : IsFiniteSet(req'[q].snapshot)
           /\ ClearHasCaller'
BY NoRequestType, FS_EmptySet DEF TypeInv, TypeOK, Finite, ClearHasCaller, Release, Steps,
    NothingHeld

\* The events a commit writes are events.
LEMMA CommitEventsType ==
    ASSUME TypeInv, NEW p \in Handlers, NEW type \in EventTypes, NEW version \in Nat,
           CommitEvents(p, type, version)
    PROVE  /\ event_last_seq' \in [Users -> Nat]
           /\ user_events' \in [Users -> SUBSET Event]
<1>1. \A u \in Users : EventOf(p, u, type, version) \in Event
  BY DEF TypeInv, TypeOK, EventOf, Event, Request
<1> QED
  BY <1>1 DEF TypeInv, TypeOK, CommitEvents, Recipients

\* Opening a transaction leaves the state well typed.
LEMMA StartType ==
    ASSUME TypeInv, NEW p \in Handlers, NEW step \in Steps, NEW r \in Request,
           NEW s \in Nat, IsFiniteSet(r.snapshot),
           r.op \in {"clear_all", "clear_self"} => r.user \in Users,
           Start(p, step, r, s), UNCHANGED acks
    PROVE  TypeInv'
BY DEF TypeInv, TypeOK, Finite, ClearHasCaller, Start, rows

\* Replacing a message by an edited or tombstoned one keeps the table finite.
LEMMA TombstoneFinite ==
    ASSUME NEW S, IsFiniteSet(S), NEW w
    PROVE  IsFiniteSet(TombstoneUpTo(S, w))
<1> DEFINE f == [m \in S |-> IF m.seq <= w THEN Tombstone(m) ELSE m]
<1>1. f \in Surjection(S, TombstoneUpTo(S, w))
  BY DEF Surjection, TombstoneUpTo
<1> QED
  BY <1>1, FS_Surjection

\* Every step of an open transaction keeps the state well typed.
LEMMA AdvanceType ==
    ASSUME TypeInv, NEW p \in Handlers, Advance(p)
    PROVE  TypeInv'
<1> USE DEF TypeInv
<1>0. /\ req[p] \in Request /\ new_seq[p] \in Nat /\ req[p].chat \in Chats
      /\ req[p].user \in Users \cup {NoUser}
  BY DEF TypeOK, Request
<1>1. CASE SendInsert(p)
  <2>1. CASE Release(p)
    BY <1>1, <2>1, <1>0, ReleaseType DEF SendInsert, rows, TypeOK, Finite, ClearHasCaller, Ack, Written,
       Message, Request, IndexAllows
  <2>2. CASE ~ Release(p)
    <3>1. /\ pc' = [pc EXCEPT ![p] = "lock_rows"]
          /\ new_seq' = [new_seq EXCEPT ![p] = last_seq[req[p].chat] + 1]
          /\ req' = [req EXCEPT ![p].fan = MemberCount(req[p].chat) <= FanoutThreshold]
          /\ UNCHANGED <<rows, todo, bumped, acks>>
      BY <1>1, <2>2 DEF SendInsert
    <3>2. (MemberCount(req[p].chat) <= FanoutThreshold) \in BOOLEAN
      OBVIOUS
    <3>3. /\ req' \in [Handlers -> Request]
          /\ \A q \in Handlers : IsFiniteSet(req'[q].snapshot)
      BY <1>0, <3>1, <3>2 DEF TypeOK, Finite, Request
    <3> QED
      BY <1>0, <3>1, <3>3 DEF TypeOK, Finite, ClearHasCaller, rows, Steps
  <2> QED
    BY <2>1, <2>2
<1>2. CASE SendRows(p)
  BY <1>2 DEF SendRows, ThenEvents, Joined, rows, TypeOK, Finite, ClearHasCaller, Steps
<1>3. CASE SendCommit(p)
  <2> DEFINE c == req[p].chat
             new == [seq |-> new_seq[p], sender |-> req[p].user, cmid |-> req[p].cmid,
                     version |-> 0, deleted |-> FALSE, fanned_out |-> req[p].fan]
  <2>1. new \in Message
    BY <1>0 DEF Message, Request
  <2>2. /\ messages' \in [Chats -> SUBSET Message]
        /\ \A d \in Chats : IsFiniteSet(messages'[d])
    <3>1. IsFiniteSet(messages[c] \cup {new})
      BY <1>0, FS_AddElement DEF Finite
    <3>2. messages' = [messages EXCEPT ![c] = @ \cup {new}]
      BY <1>3 DEF SendCommit
    <3> QED
      BY <1>0, <2>1, <3>1, <3>2 DEF TypeOK, Finite
  <2>3. /\ event_last_seq' \in [Users -> Nat]
        /\ user_events' \in [Users -> SUBSET Event]
    BY <1>3, CommitEventsType DEF SendCommit, EventTypes
  <2>4. members' \in [Chats -> [Users -> Member]]
    <3>1. \A row \in Member, own, fan \in BOOLEAN : Sent(row, own, fan, new_seq[p]) \in Member
      BY <1>0 DEF Sent, Member
    <3>2. \A v \in Users : members[c][v] \in Member
      BY <1>0 DEF TypeOK
    <3>3. req[p].fan \in BOOLEAN
      BY <1>0 DEF Request
    <3>4. \A v \in Users :
            Sent(members[c][v], v = req[p].user, req[p].fan, new_seq[p]) \in Member
      BY <3>1, <3>2, <3>3
    <3> QED
      BY <1>0, <1>3, <3>4 DEF SendCommit, TypeOK
  <2>5. last_seq' \in [Chats -> Nat]
    BY <1>0, <1>3 DEF SendCommit, TypeOK
  <2>6. acks' \subseteq [chat : Chats, user : Users \cup {NoUser}, cmid : ClientIds, seq : Nat]
    BY <1>0, <1>3 DEF SendCommit, TypeOK, Ack, Request
  <2>7. Release(p)
    BY <1>3 DEF SendCommit
  <2> QED
    BY <2>2, <2>3, <2>4, <2>5, <2>6, <2>7, ReleaseType DEF TypeOK, Finite
<1>4. CASE LockMessage(p)
  BY <1>4, ReleaseType, ZenonT(30) DEF LockMessage, ThenEvents, Joined, rows, TypeOK, Finite, ClearHasCaller, Steps
<1>5. CASE EditCommit(p)
  <2> DEFINE c == req[p].chat
  <2>1. PICK m \in messages[c] :
          /\ messages' = [messages EXCEPT ![c] = (@ \ {m}) \cup {Edited(m)}]
          /\ CommitEvents(p, "edited", m.version + 1)
    BY <1>5 DEF EditCommit
  <2>2. Edited(m) \in Message /\ m.version + 1 \in Nat
    <3>1. m \in Message
      BY <1>0, <2>1 DEF TypeOK
    <3> QED
      BY <3>1 DEF Edited, Message
  <2>3. /\ messages' \in [Chats -> SUBSET Message]
        /\ \A d \in Chats : IsFiniteSet(messages'[d])
    <3>1. IsFiniteSet((messages[c] \ {m}) \cup {Edited(m)})
      BY <1>0, FS_AddElement, FS_RemoveElement DEF Finite
    <3> QED
      BY <1>0, <2>1, <2>2, <3>1 DEF TypeOK, Finite
  <2>4. /\ event_last_seq' \in [Users -> Nat]
        /\ user_events' \in [Users -> SUBSET Event]
    BY <2>1, <2>2, CommitEventsType DEF EventTypes
  <2> QED
    BY <1>5, <2>3, <2>4, ReleaseType DEF EditCommit, TypeOK, Finite
<1>6. CASE DeleteCommit(p)
  <2> DEFINE c == req[p].chat
  <2>1. PICK m \in messages[c] :
          messages' = [messages EXCEPT ![c] = (@ \ {m}) \cup {Tombstone(m)}]
    BY <1>6 DEF DeleteCommit
  <2>2. Tombstone(m) \in Message
    <3>1. m \in Message
      BY <1>0, <2>1 DEF TypeOK
    <3> QED
      BY <3>1 DEF Tombstone, Message
  <2>3. /\ messages' \in [Chats -> SUBSET Message]
        /\ \A d \in Chats : IsFiniteSet(messages'[d])
    <3>1. IsFiniteSet((messages[c] \ {m}) \cup {Tombstone(m)})
      BY <1>0, FS_AddElement, FS_RemoveElement DEF Finite
    <3> QED
      BY <1>0, <2>1, <2>2, <3>1 DEF TypeOK, Finite
  <2>4. /\ event_last_seq' \in [Users -> Nat]
        /\ user_events' \in [Users -> SUBSET Event]
    BY <1>6, CommitEventsType DEF EventTypes, DeleteCommit
  <2> QED
    BY <1>6, <2>3, <2>4, ReleaseType DEF DeleteCommit, TypeOK, Finite
<1>7. CASE ClearLock(p)
  BY <1>0, <1>7 DEF ClearLock, rows, TypeOK, Finite, ClearHasCaller, Steps
<1>8. CASE ClearRows(p)
  <2>1. CASE Release(p)
    BY <1>8, <2>1, ReleaseType DEF ClearRows, rows, TypeOK, Finite, ClearHasCaller
  <2>2. CASE ~ Release(p)
    <3>1. /\ req[p].op = "clear_self" => req[p].user \in Users
          /\ ThenEvents(p, IF req[p].op = "clear_all" THEN Joined(req[p].chat)
                                                     ELSE {req[p].user})
          /\ UNCHANGED <<rows, req, new_seq, bumped, acks>>
      BY <1>0, <1>8, <2>2 DEF ClearRows, ClearHasCaller
    <3>2. req[p].op \in {"clear_all", "clear_self"}
      BY <1>8 DEF ClearRows
    <3>3. pc' \in [Handlers -> Steps] /\ todo' \in [Handlers -> SUBSET Users]
      BY <3>1, <3>2 DEF ThenEvents, Joined, TypeOK, Steps
    <3> QED
      BY <3>1, <3>3 DEF rows, TypeOK, Finite, ClearHasCaller
  <2> QED
    BY <2>1, <2>2
<1>9. CASE \E op \in {"clear_all", "clear_self"} : ClearCommit(p, op)
  <2>1. PICK op \in {"clear_all", "clear_self"} : ClearCommit(p, op)
    BY <1>9
  <2> DEFINE c == req[p].chat
             w == new_seq[p]
  <2>2. TombstoneUpTo(messages[c], w) \subseteq Message
    <3>1. \A m \in messages[c] : m \in Message
      BY <1>0 DEF TypeOK
    <3>2. \A m \in Message : Tombstone(m) \in Message
      BY DEF Tombstone, Message
    <3> QED
      BY <3>1, <3>2 DEF TombstoneUpTo
  <2>3. /\ messages' \in [Chats -> SUBSET Message]
        /\ \A d \in Chats : IsFiniteSet(messages'[d])
    BY <1>0, <2>1, <2>2, TombstoneFinite DEF ClearCommit, TypeOK, Finite
  <2>4. \A row \in Member : Cleared(row, w) \in Member
    BY <1>0 DEF Cleared, Greatest, Member
  <2>5. members' \in [Chats -> [Users -> Member]]
    BY <1>0, <2>1, <2>4 DEF ClearCommit, TypeOK
  <2>6. /\ event_last_seq' \in [Users -> Nat]
        /\ user_events' \in [Users -> SUBSET Event]
    BY <2>1, CommitEventsType DEF ClearCommit, EventTypes
  <2> QED
    BY <2>1, <2>3, <2>5, <2>6, ReleaseType DEF ClearCommit, TypeOK, Finite
<1>10. CASE LockCounter(p)
  <2> DEFINE u == NextCounter(p)
  <2>1. /\ bumped' = [bumped EXCEPT ![p][u] = event_last_seq[u] + 1]
        /\ todo' = [todo EXCEPT ![p] = @ \ {u}]
        /\ UNCHANGED <<rows, pc, req, new_seq, acks>>
    BY <1>10 DEF LockCounter
  <2>2. bumped' \in [Handlers -> [Users -> Nat]]
    <3>1. CASE u \in Users
      BY <2>1, <3>1, event_last_seq[u] + 1 \in Nat DEF TypeOK
    <3>2. CASE u \notin Users
      BY <2>1, <3>2 DEF TypeOK
    <3> QED
      BY <3>1, <3>2
  <2> QED
    BY <2>1, <2>2 DEF rows, TypeOK, Finite, ClearHasCaller
<1>11. CASE PublishCommit(p)
  BY <1>11, CommitEventsType, ReleaseType DEF PublishCommit, EventTypes, TypeOK, Finite
<1>12. CASE MarkReadApply(p)
  <2> DEFINE c == req[p].chat
             u == req[p].user
             row == ReadUpTo(members[c][u], new_seq[p], req[p].snapshot)
  <2>1. ASSUME NEW r \in Member PROVE ReadUpTo(r, new_seq[p], req[p].snapshot) \in Member
    <3> DEFINE cursor == Greatest(r.last_read_seq, new_seq[p])
               above == {m \in req[p].snapshot : m.seq > cursor /\ ~ m.deleted}
    <3>1. cursor \in Nat
      BY <1>0 DEF Greatest, Member
    <3>2. IsFiniteSet(req[p].snapshot) /\ above \in SUBSET req[p].snapshot
      BY DEF Finite
    <3>3. Cardinality(above) \in Nat
      BY <3>2, FS_Subset, FS_CardinalityType
    <3> HIDE DEF cursor, above
    <3>4. [r EXCEPT !.last_read_seq = cursor, !.unread_count = Cardinality(above)] \in Member
      BY <3>1, <3>3 DEF Member
    <3> QED
      BY <3>4 DEF ReadUpTo, cursor, above
  <2>2. \A v \in Users : members[c][v] \in Member
    BY <1>0 DEF TypeOK
  <2>3. u \in Users => row \in Member
    BY <2>1, <2>2
  <2>4. \/ members' = members
        \/ members' = [members EXCEPT ![c][u] = row]
    BY <1>12 DEF MarkReadApply
  <2> HIDE DEF row
  <2>5. members' \in [Chats -> [Users -> Member]]
    <3>1. [members[c] EXCEPT ![u] = row] \in [Users -> Member]
      BY <1>0, <2>2, <2>3 DEF TypeOK
    <3>2. members' = members \/ members' = [members EXCEPT ![c] = [members[c] EXCEPT ![u] = row]]
      BY <2>4
    <3> QED
      BY <1>0, <3>1, <3>2 DEF TypeOK
  <2> QED
    BY <1>12, <2>5, ReleaseType DEF MarkReadApply, TypeOK, Finite
<1> QED
  BY <1>1, <1>2, <1>3, <1>4, <1>5, <1>6, <1>7, <1>8, <1>9, <1>10, <1>11, <1>12 DEF Advance

\* Accepting a request keeps the state well typed.
LEMMA AcceptType ==
    ASSUME TypeInv, NEW p \in Handlers, Accept(p)
    PROVE  TypeInv'
<1>0. ASSUME NEW op \in {"send", "edit", "delete", "clear_all", "clear_self", "read"},
             NEW c \in Chats, NEW u \in Users
      PROVE  LET r == [NoRequest EXCEPT !.op = op, !.chat = c, !.user = u] IN
             /\ r \in Request /\ IsFiniteSet(r.snapshot) /\ r.user \in Users
             /\ r.op = op
  BY NoRequestType, FS_EmptySet DEF Request
<1>1. ASSUME NEW c \in Chats, NEW u \in Users \cup {NoUser}, NEW k \in ClientIds
      PROVE  /\ SendRequest(c, u, k) \in Request
             /\ SendRequest(c, u, k).op = "send"
             /\ SendRequest(c, u, k).snapshot = {}
             /\ SendRequest(c, u, k).chat = c
             /\ SendRequest(c, u, k).user = u
             /\ SendRequest(c, u, k).cmid = k
  BY NoRequestType DEF SendRequest, Request
<1>2. CASE \E c \in Chats, u \in Users, k \in ClientIds : SendCheck(p, c, u, k)
  <2>1. PICK c \in Chats, u \in Users, k \in ClientIds : SendCheck(p, c, u, k)
    BY <1>2
  <2>2. CASE Start(p, "lock_chat", SendRequest(c, u, k), 0) /\ UNCHANGED acks
    <3>1. /\ SendRequest(c, u, k) \in Request /\ IsFiniteSet(SendRequest(c, u, k).snapshot)
          /\ SendRequest(c, u, k).op = "send"
      BY <1>1, FS_EmptySet
    <3> QED
      BY <2>2, <3>1, StartType, "lock_chat" \in Steps DEF Steps
  <2>3. CASE \E m \in Written(c, u, k) :
               /\ Ack(SendRequest(c, u, k), m.seq)
               /\ UNCHANGED <<rows, pc, req, new_seq, todo, bumped>>
    <3>1. PICK m \in messages[c] :
               /\ Ack(SendRequest(c, u, k), m.seq)
               /\ UNCHANGED <<rows, pc, req, new_seq, todo, bumped>>
      BY <2>3 DEF Written
    <3>2. m.seq \in Nat
      BY <3>1 DEF TypeInv, TypeOK, Message
    <3>3. acks' \subseteq [chat : Chats, user : Users \cup {NoUser}, cmid : ClientIds, seq : Nat]
      BY <1>1, <3>1, <3>2 DEF TypeInv, TypeOK, Ack
    <3> QED
      BY <3>1, <3>3 DEF TypeInv, TypeOK, Finite, ClearHasCaller, rows
  <2> QED
    BY <2>1, <2>2, <2>3 DEF SendCheck
<1>3. CASE \E c \in Chats, k \in ClientIds : SendAsChat(p, c, k)
  <2>1. PICK c \in Chats, k \in ClientIds : SendAsChat(p, c, k)
    BY <1>3
  <2>2. /\ SendRequest(c, NoUser, k) \in Request
        /\ IsFiniteSet(SendRequest(c, NoUser, k).snapshot)
        /\ SendRequest(c, NoUser, k).op = "send"
    <3>1. /\ SendRequest(c, NoUser, k) \in Request
          /\ SendRequest(c, NoUser, k).op = "send"
          /\ SendRequest(c, NoUser, k).snapshot = {}
      BY <2>1, NoRequestType DEF SendRequest, Request
    <3> QED
      BY <3>1, FS_EmptySet
  <2>3. Start(p, "lock_chat", SendRequest(c, NoUser, k), 0) /\ UNCHANGED acks
    BY <2>1 DEF SendAsChat
  <2> QED
    BY <2>2, <2>3, StartType, "lock_chat" \in Steps DEF Steps
<1>4. CASE \E c \in Chats, u \in Users : EditCheck(p, c, u) \/ DeleteCheck(p, c, u)
  <2>1. PICK c \in Chats, u \in Users, op \in {"edit", "delete"} :
             \E m \in messages[c] : Rewrite(p, op, c, u, m)
    BY <1>4 DEF EditCheck, DeleteCheck
  <2>3. PICK m \in messages[c] : Rewrite(p, op, c, u, m)
    BY <2>1
  <2>2. m.seq \in Nat
    BY <2>3 DEF TypeInv, TypeOK, Message
  <2> DEFINE r == [NoRequest EXCEPT !.op = op, !.chat = c, !.user = u]
  <2>4. r \in Request /\ IsFiniteSet(r.snapshot) /\ r.user \in Users
    BY <1>0
  <2>5. Start(p, "lock_message", r, m.seq) /\ UNCHANGED acks
    BY <2>3 DEF Rewrite
  <2> HIDE DEF r
  <2> QED
    BY <2>2, <2>4, <2>5, StartType, "lock_message" \in Steps DEF Steps
<1>5. CASE \E c \in Chats, u \in Users :
             ClearCheck(p, c, u, "clear_all") \/ ClearCheck(p, c, u, "clear_self")
  <2>1. PICK c \in Chats, u \in Users, op \in {"clear_all", "clear_self"} :
             ClearCheck(p, c, u, op)
    BY <1>5
  <2> DEFINE r == [NoRequest EXCEPT !.op = op, !.chat = c, !.user = u]
  <2>2. r \in Request /\ IsFiniteSet(r.snapshot) /\ r.user \in Users
    BY <1>0
  <2>3. Start(p, "lock_chat", r, 0) /\ UNCHANGED acks
    BY <2>1 DEF ClearCheck
  <2> HIDE DEF r
  <2> QED
    BY <2>2, <2>3, StartType, "lock_chat" \in Steps DEF Steps
<1>6. CASE \E u \in Users : PublishStart(p, u)
  <2>1. PICK u \in Users : PublishStart(p, u)
    BY <1>6
  <2> DEFINE r == [NoRequest EXCEPT !.op = "publish", !.user = u]
  <2>2. r \in Request /\ r.snapshot = {} /\ r.op = "publish"
    BY NoRequestType DEF Request
  <2> HIDE DEF r
  <2>3. req' = [req EXCEPT ![p] = r]
    BY <2>1 DEF PublishStart, r
  <2>4. /\ pc' \in [Handlers -> Steps] /\ todo' \in [Handlers -> SUBSET Users]
        /\ UNCHANGED <<rows, new_seq, bumped, acks>>
    BY <2>1 DEF PublishStart, ThenEvents, TypeInv, TypeOK, Steps
  <2>5. req' \in [Handlers -> Request] /\ ClearHasCaller'
    BY <2>2, <2>3 DEF TypeInv, TypeOK, ClearHasCaller
  <2>6. \A q \in Handlers : IsFiniteSet(req'[q].snapshot)
    BY <2>2, <2>3, FS_EmptySet DEF TypeInv, TypeOK, Finite
  <2> QED
    BY <2>4, <2>5, <2>6 DEF TypeInv, TypeOK, Finite, rows
<1>7. CASE \E r \in Reads : MarkReadStart(p, r[1], r[2], r[3])
  <2>1. PICK c \in Chats, u \in Users, s \in Nat : MarkReadStart(p, c, u, s)
    BY <1>7, ReadsNamed
  <2> DEFINE r == [NoRequest EXCEPT !.op = "read", !.chat = c, !.user = u,
                                    !.snapshot = messages[c]]
  <2>2. r \in Request /\ r.snapshot = messages[c] /\ r.op = "read" /\ s \in Nat
    BY NoRequestType DEF Request, TypeInv, TypeOK
  <2>3. IsFiniteSet(r.snapshot)
    BY <2>2 DEF TypeInv, Finite
  <2> QED
    BY <2>1, <2>2, <2>3, StartType DEF MarkReadStart, Steps
<1> QED
  BY <1>2, <1>3, <1>4, <1>5, <1>6, <1>7 DEF Accept

\* The initial state is well typed.
LEMMA TypeInit == Init => TypeInv
<1> SUFFICES ASSUME Init PROVE TypeInv
  OBVIOUS
<1>1. TypeOK
  BY NoRequestType, MembersAssumption
  DEF Init, TypeOK, Member, Steps, NothingHeld
<1> QED
  BY <1>1, NoRequestType, FS_EmptySet DEF Init, TypeInv, Finite, ClearHasCaller

\* Every step keeps the state well typed.
LEMMA TypeStep == TypeInv /\ [Next]_vars => TypeInv'
<1> SUFFICES ASSUME TypeInv, [Next]_vars PROVE TypeInv'
  OBVIOUS
<1>1. ASSUME NEW p \in Handlers, Accept(p) \/ Advance(p) PROVE TypeInv'
  BY <1>1, AcceptType, AdvanceType
<1>2. ASSUME NEW p \in Handlers, Rollback(p) PROVE TypeInv'
  BY <1>2, ReleaseType DEF Rollback, rows, TypeInv, TypeOK, Finite
<1>3. ASSUME NEW c \in Chats, NEW u \in Movers, AddMember(c, u) \/ RemoveMember(c, u)
      PROVE  TypeInv'
  <2>1. members' \in [Chats -> [Users -> Member]]
    <3>1. u \in Users /\ members[c] \in [Users -> Member] /\ last_seq[c] \in Nat
      BY MoversAssumption DEF TypeInv, TypeOK
    <3>2. /\ [members[c][u] EXCEPT !.joined = TRUE, !.joined_at = last_seq[c]] \in Member
          /\ [members[c][u] EXCEPT !.joined = FALSE] \in Member
      BY <3>1 DEF Member
    <3>3. PICK row \in Member : members' = [members EXCEPT ![c][u] = row]
      BY <1>3, <3>2 DEF AddMember, RemoveMember
    <3> QED
      BY <3>1, <3>3 DEF TypeInv, TypeOK
  <2> QED
    BY <1>3, <2>1 DEF AddMember, RemoveMember, TypeInv, TypeOK, Finite, ClearHasCaller
<1>4. CASE UNCHANGED vars
  BY <1>4 DEF vars, TypeInv, TypeOK, Finite, ClearHasCaller
<1> QED
  BY <1>1, <1>2, <1>3, <1>4 DEF Next

\* The types and the finiteness hold in every reachable state.
LEMMA TypeInvariant == Spec => []TypeInv
BY TypeInit, TypeStep, PTL DEF Spec

\* Type correctness of the store: no interleaving of transactions, rollbacks
\* and membership changes leaves the shapes the tables have.
THEOREM TypeCorrect == Spec => []TypeOK
<1>1. TypeInv => TypeOK
  BY DEF TypeInv
<1> QED
  BY <1>1, TypeInvariant, PTL

-----------------------------------------------------------------------------
(* The sync log.  LogGapFree is not inductive by itself: it needs that a   *)
(* counter is held by one transaction at a time, and that the value a      *)
(* transaction took is still the next one when it commits.                 *)

CountersHeldOnce ==
    \A p, q \in Handlers, u \in Users : bumped[p][u] # 0 /\ bumped[q][u] # 0 => p = q

CountersFresh ==
    \A p \in Handlers, u \in Users :
        bumped[p][u] # 0 => bumped[p][u] = event_last_seq[u] + 1

LogInv == CountersHeldOnce /\ CountersFresh /\ LogGapFree

\* A commit turns each counter value it holds into one event on top of the log.
LEMMA CommitGrows ==
    ASSUME TypeInv, LogInv, NEW p \in Handlers, NEW type, NEW version,
           CommitEvents(p, type, version), NEW u \in Users
    PROVE  \/ /\ bumped[p][u] = 0
              /\ event_last_seq'[u] = event_last_seq[u]
              /\ user_events'[u] = user_events[u]
           \/ /\ bumped[p][u] # 0
              /\ event_last_seq'[u] = event_last_seq[u] + 1
              /\ \E e \in user_events'[u] :
                    /\ e.seq = event_last_seq[u] + 1
                    /\ user_events'[u] = user_events[u] \cup {e}
<1>1. CASE bumped[p][u] = 0
  BY <1>1 DEF CommitEvents, Recipients
<1>2. CASE bumped[p][u] # 0
  <2>1. /\ event_last_seq'[u] = bumped[p][u]
        /\ user_events'[u] = user_events[u] \cup {EventOf(p, u, type, version)}
    BY <1>2 DEF CommitEvents, Recipients
  <2>2. bumped[p][u] = event_last_seq[u] + 1
    BY <1>2 DEF LogInv, CountersFresh
  <2>3. EventOf(p, u, type, version).seq = event_last_seq[u] + 1
    BY <2>2 DEF EventOf
  <2> QED
    BY <1>2, <2>1, <2>2, <2>3
<1> QED
  BY <1>1, <1>2

\* A commit keeps the log invariant: nobody else holds the counters it moves.
LEMMA CommitKeepsLog ==
    ASSUME TypeInv, LogInv, NEW p \in Handlers, NEW type, NEW version,
           CommitEvents(p, type, version), Release(p)
    PROVE  LogInv'
<1>1. \A q \in Handlers, u \in Users :
        bumped'[q][u] = IF q = p THEN 0 ELSE bumped[q][u]
  BY DEF Release, NothingHeld, TypeInv, TypeOK
<1>2. CountersHeldOnce'
  BY <1>1 DEF LogInv, CountersHeldOnce
<1>3. ASSUME NEW q \in Handlers, NEW u \in Users, bumped'[q][u] # 0
      PROVE  bumped'[q][u] = event_last_seq'[u] + 1
  <2>1. q # p /\ bumped[q][u] # 0 /\ bumped'[q][u] = bumped[q][u]
    BY <1>1, <1>3
  <2>2. bumped[p][u] = 0
    BY <2>1 DEF LogInv, CountersHeldOnce
  <2>3. event_last_seq'[u] = event_last_seq[u]
    BY <2>2, CommitGrows
  <2> QED
    BY <2>1, <2>3 DEF LogInv, CountersFresh
<1>4. ASSUME NEW u \in Users
      PROVE  /\ Numbers(user_events'[u]) = 1..event_last_seq'[u]
             /\ \A e, f \in user_events'[u] : e.seq = f.seq => e = f
  <2>0. /\ Numbers(user_events[u]) = 1..event_last_seq[u]
        /\ \A e, f \in user_events[u] : e.seq = f.seq => e = f
        /\ event_last_seq[u] \in Nat
    BY DEF LogInv, LogGapFree, TypeInv, TypeOK
  <2>1. CASE bumped[p][u] = 0
    BY <2>0, <2>1, CommitGrows
  <2>2. CASE bumped[p][u] # 0
    <3>1. event_last_seq'[u] = event_last_seq[u] + 1
      BY <2>2, CommitGrows
    <3>2. PICK e \in user_events'[u] : /\ e.seq = event_last_seq[u] + 1
                                       /\ user_events'[u] = user_events[u] \cup {e}
      BY <2>2, CommitGrows
    <3>3. \A f \in user_events[u] : f.seq \in 1..event_last_seq[u]
      BY <2>0 DEF Numbers
    <3>4. Numbers(user_events'[u]) = Numbers(user_events[u]) \cup {e.seq}
      BY <3>2 DEF Numbers
    <3>5. 1..event_last_seq'[u] = (1..event_last_seq[u]) \cup {event_last_seq[u] + 1}
      BY <2>0, <3>1
    <3>6. \A f, g \in user_events'[u] : f.seq = g.seq => f = g
      BY <2>0, <3>2, <3>3
    <3> QED
      BY <2>0, <3>2, <3>4, <3>5, <3>6
  <2> QED
    BY <2>1, <2>2
<1> QED
  BY <1>2, <1>3, <1>4 DEF LogInv, CountersFresh, LogGapFree

\* What a step can do to the logs: commit, take one counter, let counters go,
\* or leave them alone.
LEMMA StepOnLog ==
    ASSUME [Next]_vars
    PROVE  \/ \E p \in Handlers : \E type, version :
                 CommitEvents(p, type, version) /\ Release(p)
           \/ \E p \in Handlers : LockCounter(p)
           \/ /\ UNCHANGED <<event_last_seq, user_events>>
              /\ UNCHANGED bumped \/ \E p \in Handlers : Release(p)
<1>1. ASSUME NEW p \in Handlers, Accept(p)
      PROVE  UNCHANGED <<event_last_seq, user_events, bumped>>
  BY <1>1 DEF Accept, SendCheck, SendAsChat, EditCheck, DeleteCheck, Rewrite, ClearCheck,
     PublishStart, MarkReadStart, Start, rows
<1>2. ASSUME NEW p \in Handlers, Advance(p), ~ LockCounter(p)
      PROVE  \/ \E type, version : CommitEvents(p, type, version) /\ Release(p)
             \/ /\ UNCHANGED <<event_last_seq, user_events>>
                /\ UNCHANGED bumped \/ Release(p)
  <2>1. CASE SendInsert(p) \/ SendRows(p) \/ LockMessage(p) \/ ClearLock(p) \/ ClearRows(p)
             \/ MarkReadApply(p)
    BY <2>1 DEF SendInsert, SendRows, LockMessage, ClearLock, ClearRows, MarkReadApply, rows
  <2>2. CASE SendCommit(p) \/ DeleteCommit(p) \/ PublishCommit(p)
    BY <2>2 DEF SendCommit, DeleteCommit, PublishCommit
  <2>3. CASE EditCommit(p)
    BY <2>3 DEF EditCommit
  <2>4. CASE ClearCommit(p, "clear_all") \/ ClearCommit(p, "clear_self")
    BY <2>4 DEF ClearCommit
  <2> QED
    BY <1>2, <2>1, <2>2, <2>3, <2>4 DEF Advance
<1>3. ASSUME NEW p \in Handlers, Rollback(p)
      PROVE  UNCHANGED <<event_last_seq, user_events>> /\ Release(p)
  BY <1>3 DEF Rollback, rows
<1>4. ASSUME NEW c \in Chats, NEW u \in Movers, AddMember(c, u) \/ RemoveMember(c, u)
      PROVE  UNCHANGED <<event_last_seq, user_events, bumped>>
  BY <1>4 DEF AddMember, RemoveMember
<1>5. CASE UNCHANGED vars
  BY <1>5 DEF vars
<1> QED
  BY <1>1, <1>2, <1>3, <1>4, <1>5 DEF Next

\* Taking a free counter keeps the log invariant.
LEMMA LockKeepsLog ==
    ASSUME TypeInv, LogInv, NEW p \in Handlers, LockCounter(p)
    PROVE  LogInv'
<1> DEFINE u == NextCounter(p)
<1>1. /\ \A q \in Handlers : bumped[q][u] = 0
      /\ bumped' = [bumped EXCEPT ![p][u] = event_last_seq[u] + 1]
      /\ UNCHANGED <<event_last_seq, user_events>>
  BY DEF LockCounter, CounterLocked, rows
<1> HIDE DEF u
<1>2. \A q \in Handlers, v \in Users :
        bumped'[q][v] = IF q = p /\ v = u THEN event_last_seq[u] + 1 ELSE bumped[q][v]
  BY <1>1 DEF TypeInv, TypeOK
<1>3. CountersHeldOnce'
  BY <1>1, <1>2 DEF LogInv, CountersHeldOnce
<1>4. CountersFresh'
  BY <1>1, <1>2 DEF LogInv, CountersFresh
<1>5. LogGapFree'
  BY <1>1 DEF LogInv, LogGapFree
<1> QED
  BY <1>3, <1>4, <1>5 DEF LogInv

\* The log invariant is inductive.
LEMMA LogStep == TypeInv /\ LogInv /\ [Next]_vars => LogInv'
<1> SUFFICES ASSUME TypeInv, LogInv, [Next]_vars PROVE LogInv'
  OBVIOUS
<1>1. CASE \E p \in Handlers : \E type, version : CommitEvents(p, type, version) /\ Release(p)
  BY <1>1, CommitKeepsLog
<1>2. CASE \E p \in Handlers : LockCounter(p)
  BY <1>2, LockKeepsLog
<1>3. CASE /\ UNCHANGED <<event_last_seq, user_events>>
           /\ UNCHANGED bumped \/ \E p \in Handlers : Release(p)
  <2>1. \A q \in Handlers, u \in Users : bumped'[q][u] = 0 \/ bumped'[q][u] = bumped[q][u]
    <3>1. CASE UNCHANGED bumped
      BY <3>1
    <3>2. ASSUME NEW p \in Handlers, Release(p)
          PROVE  \A q \in Handlers, u \in Users :
                    bumped'[q][u] = 0 \/ bumped'[q][u] = bumped[q][u]
      BY <3>2 DEF Release, NothingHeld, TypeInv, TypeOK
    <3> QED
      BY <1>3, <3>1, <3>2
  <2>2. CountersHeldOnce'
    BY <2>1 DEF LogInv, CountersHeldOnce
  <2>3. CountersFresh'
    BY <1>3, <2>1 DEF LogInv, CountersFresh
  <2>4. LogGapFree'
    BY <1>3 DEF LogInv, LogGapFree
  <2> QED
    BY <2>2, <2>3, <2>4 DEF LogInv
<1> QED
  BY <1>1, <1>2, <1>3, StepOnLog

\* The log invariant holds at the start.
LEMMA LogInit == Init => LogInv
<1> SUFFICES ASSUME Init PROVE LogInv
  OBVIOUS
<1>1. CountersHeldOnce /\ CountersFresh
  BY DEF Init, NothingHeld, CountersHeldOnce, CountersFresh
<1>2. LogGapFree
  BY DEF Init, LogGapFree, Numbers
<1> QED
  BY <1>1, <1>2 DEF LogInv

\* The log invariant holds throughout.
LEMMA LogInvariant == Spec => []LogInv
BY LogInit, LogStep, TypeInvariant, PTL DEF Spec

\* Whatever transactions overlap or roll back, the events a reader of a user's
\* log can see are 1..n, each once: EventsSince never skips an event that
\* commits later below the reader's cursor.
THEOREM SyncLogGapFree == Spec => []LogGapFree
<1>1. LogInv => LogGapFree
  BY DEF LogInv
<1> QED
  BY <1>1, LogInvariant, PTL

\* The transactions of the store implement the sync log the devices rely on:
\* every step appends one event on top of each log it touches, and no event
\* changes or disappears.
THEOREM StoreImplementsEventLog == Spec => ImplementsEventLog
<1>1. Init => Log!Init
  BY DEF Init, Log!Init
<1>2. TypeInv /\ LogInv /\ [Next]_vars => [Log!Append]_(Log!logvars)
  <2> SUFFICES ASSUME TypeInv, LogInv, [Next]_vars
               PROVE  Log!Append \/ UNCHANGED <<event_last_seq, user_events>>
    BY DEF Log!logvars
  <2>1. CASE \E p \in Handlers : \E type, version :
               CommitEvents(p, type, version) /\ Release(p)
    <3>1. \A u \in Users : Log!Keeps(u) \/ Log!Grows(u)
      BY <2>1, CommitGrows DEF Log!Keeps, Log!Grows
    <3> QED
      BY <3>1 DEF Log!Append
  <2>2. CASE \E p \in Handlers : LockCounter(p)
    BY <2>2 DEF LockCounter, rows
  <2> QED
    BY <2>1, <2>2, StepOnLog
<1> QED
  BY <1>1, <1>2, LogInvariant, TypeInvariant, PTL DEF Spec, ImplementsEventLog, Log!Spec

-----------------------------------------------------------------------------
(* The messages of a chat.  The chat lock makes the number a send took,    *)
(* and the absence of its idempotency key, still true when it commits.     *)

ChatHeldOnce ==
    \A p, q \in Handlers :
        HoldsChat(p) /\ HoldsChat(q) /\ req[p].chat = req[q].chat => p = q

Sending(p) == HoldsChat(p) /\ req[p].op = "send"

SendFresh ==
    \A p \in Handlers : Sending(p) =>
        /\ new_seq[p] = last_seq[req[p].chat] + 1
        /\ req[p].user # NoUser => Written(req[p].chat, req[p].user, req[p].cmid) = {}

ChatInv == ChatHeldOnce /\ SendFresh /\ ChatGapFree /\ OneMessagePerKey

\* The columns of a message that no operation rewrites.
SameIdentity(S, T) ==
    /\ \A m \in S : \E n \in T : n.seq = m.seq /\ n.sender = m.sender /\ n.cmid = m.cmid
    /\ \A n \in T : \E m \in S : n.seq = m.seq /\ n.sender = m.sender /\ n.cmid = m.cmid
    /\ \A m, n \in T : m.seq = n.seq => m = n

\* Rewriting one message keeps the identities.
LEMMA RewriteKeepsIdentity ==
    ASSUME NEW S \in SUBSET Message, \A x, y \in S : x.seq = y.seq => x = y,
           NEW m \in S, NEW n \in Message,
           n.seq = m.seq, n.sender = m.sender, n.cmid = m.cmid
    PROVE  SameIdentity(S, (S \ {m}) \cup {n})
BY DEF SameIdentity

\* Tombstoning a prefix keeps the identities.
LEMMA TombstoneKeepsIdentity ==
    ASSUME NEW S \in SUBSET Message, \A x, y \in S : x.seq = y.seq => x = y,
           NEW w \in Nat
    PROVE  SameIdentity(S, TombstoneUpTo(S, w))
<1> DEFINE F(m) == IF m.seq <= w THEN Tombstone(m) ELSE m
<1>1. \A m \in S : F(m).seq = m.seq /\ F(m).sender = m.sender /\ F(m).cmid = m.cmid
  BY DEF Tombstone, Message
<1>2. TombstoneUpTo(S, w) = {F(m) : m \in S}
  BY DEF TombstoneUpTo
<1> HIDE DEF F
<1> QED
  BY <1>1, <1>2 DEF SameIdentity

\* Keeping the identities of every chat's messages keeps the chat invariant,
\* as long as no transaction enters the sending phase.
LEMMA IdentityKeepsChat ==
    ASSUME TypeInv, ChatInv, messages' \in [Chats -> SUBSET Message],
           \A c \in Chats : SameIdentity(messages[c], messages'[c]),
           UNCHANGED last_seq,
           \A p \in Handlers : HoldsChat(p)' =>
              HoldsChat(p) /\ UNCHANGED <<req[p], new_seq[p]>>
    PROVE  ChatInv'
<1>1. ChatHeldOnce'
  BY DEF ChatInv, ChatHeldOnce
<1>2. \A c \in Chats : Numbers(messages'[c]) = Numbers(messages[c])
  BY DEF Numbers, SameIdentity
<1>3. ChatGapFree'
  BY <1>2 DEF ChatInv, ChatGapFree, SameIdentity
<1>4. OneMessagePerKey'
  <2> SUFFICES ASSUME NEW c \in Chats, NEW m \in messages'[c], NEW n \in messages'[c],
                      m.sender # NoUser, m.sender = n.sender, m.cmid = n.cmid
               PROVE  m = n
    BY DEF OneMessagePerKey
  <2>1. PICK a \in messages[c] : a.seq = m.seq /\ a.sender = m.sender /\ a.cmid = m.cmid
    BY DEF SameIdentity
  <2>2. PICK b \in messages[c] : b.seq = n.seq /\ b.sender = n.sender /\ b.cmid = n.cmid
    BY DEF SameIdentity
  <2>3. a = b
    BY <2>1, <2>2 DEF ChatInv, OneMessagePerKey
  <2> QED
    BY <2>1, <2>2, <2>3 DEF SameIdentity
<1>5. SendFresh'
  <2> SUFFICES ASSUME NEW p \in Handlers, Sending(p)'
               PROVE  /\ new_seq'[p] = last_seq'[req'[p].chat] + 1
                      /\ req'[p].user # NoUser =>
                            {m \in messages'[req'[p].chat] :
                               m.sender = req'[p].user /\ m.cmid = req'[p].cmid} = {}
    BY DEF SendFresh, Written
  <2>1. Sending(p) /\ req'[p] = req[p] /\ new_seq'[p] = new_seq[p] /\ req[p].chat \in Chats
    BY DEF Sending, TypeInv, TypeOK, Request
  <2>2. new_seq'[p] = last_seq'[req'[p].chat] + 1
    BY <2>1 DEF ChatInv, SendFresh
  <2>3. \A n \in messages'[req[p].chat] : \E m \in messages[req[p].chat] :
            n.sender = m.sender /\ n.cmid = m.cmid
    BY <2>1 DEF SameIdentity
  <2>4. req[p].user # NoUser => Written(req[p].chat, req[p].user, req[p].cmid) = {}
    BY <2>1 DEF ChatInv, SendFresh
  <2> QED
    BY <2>1, <2>2, <2>3, <2>4 DEF Written
<1> QED
  BY <1>1, <1>3, <1>4, <1>5 DEF ChatInv

\* A transaction that gets the chat keeps the chat invariant: nobody else has
\* it, and what it reads under the lock is what it will commit on.
LEMMA GainKeepsChat ==
    ASSUME TypeInv, ChatInv, NEW p \in Handlers, UNCHANGED <<messages, last_seq>>,
           ~ ChatLocked(req[p].chat),
           req'[p].chat = req[p].chat,
           \A q \in Handlers \ {p} : UNCHANGED <<pc[q], req[q], new_seq[q]>>,
           Sending(p)' => /\ new_seq'[p] = last_seq[req[p].chat] + 1
                          /\ req'[p].user = req[p].user /\ req'[p].cmid = req[p].cmid
                          /\ IndexAllows(req[p].chat, req[p].user, req[p].cmid)
    PROVE  ChatInv'
<1>1. \A q \in Handlers \ {p} : HoldsChat(q)' => HoldsChat(q) /\ req[q].chat # req[p].chat
  BY DEF HoldsChat, ChatLocked
<1>2. ChatHeldOnce'
  BY <1>1 DEF ChatInv, ChatHeldOnce
<1>3. \A q \in Handlers \ {p} : Sending(q)' =>
          Sending(q) /\ req'[q] = req[q] /\ new_seq'[q] = new_seq[q]
  BY DEF Sending, HoldsChat
<1>4. SendFresh'
  <2> SUFFICES ASSUME NEW q \in Handlers, Sending(q)'
               PROVE  /\ new_seq'[q] = last_seq'[req'[q].chat] + 1
                      /\ req'[q].user # NoUser =>
                            {m \in messages'[req'[q].chat] :
                               m.sender = req'[q].user /\ m.cmid = req'[q].cmid} = {}
    BY DEF SendFresh, Written
  <2>1. CASE q = p
    BY <2>1 DEF IndexAllows, Written
  <2>2. CASE q # p
    BY <1>3, <2>2 DEF ChatInv, SendFresh, Written
  <2> QED
    BY <2>1, <2>2
<1>5. (ChatGapFree /\ OneMessagePerKey)'
  BY DEF ChatInv, ChatGapFree, OneMessagePerKey
<1> QED
  BY <1>2, <1>4, <1>5 DEF ChatInv

\* The commit of a send keeps the chat invariant.
LEMMA SendKeepsChat ==
    ASSUME TypeInv, ChatInv, NEW p \in Handlers, SendCommit(p)
    PROVE  ChatInv'
<1> DEFINE c == req[p].chat
           s == new_seq[p]
           new == [seq |-> s, sender |-> req[p].user, cmid |-> req[p].cmid,
                   version |-> 0, deleted |-> FALSE, fanned_out |-> req[p].fan]
<1>1. /\ messages' = [messages EXCEPT ![c] = @ \cup {new}]
      /\ last_seq' = [last_seq EXCEPT ![c] = s]
      /\ Sending(p)
      /\ Release(p)
  BY DEF SendCommit, Committing, Sending, HoldsChat
<1>2. /\ c \in Chats /\ last_seq[c] \in Nat /\ messages[c] \subseteq Message
      /\ messages \in [Chats -> SUBSET Message] /\ last_seq \in [Chats -> Nat]
  BY DEF TypeInv, TypeOK, Request
<1>3. /\ s = last_seq[c] + 1
      /\ req[p].user # NoUser => Written(c, req[p].user, req[p].cmid) = {}
  BY <1>1 DEF ChatInv, SendFresh
<1>4. \A q \in Handlers : HoldsChat(q)' =>
        q # p /\ HoldsChat(q) /\ req'[q] = req[q] /\ new_seq'[q] = new_seq[q]
  BY <1>1, NoRequestType DEF Release, HoldsChat, TypeInv, TypeOK
<1>5. \A q \in Handlers : HoldsChat(q)' => req[q].chat # c
  BY <1>1, <1>4 DEF ChatInv, ChatHeldOnce, Sending
<1>6. \A d \in Chats : d # c => messages'[d] = messages[d] /\ last_seq'[d] = last_seq[d]
  BY <1>1, <1>2
<1>7. messages'[c] = messages[c] \cup {new} /\ last_seq'[c] = s
  BY <1>1, <1>2
<1>8. new.seq = s /\ new.sender = req[p].user /\ new.cmid = req[p].cmid
  OBVIOUS
<1> HIDE DEF new
<1>9. \A m \in messages[c] : m.seq \in 1..last_seq[c]
  BY <1>2 DEF ChatInv, ChatGapFree, Numbers
<1>10. ChatGapFree'
  <2>1. Numbers(messages'[c]) = Numbers(messages[c]) \cup {s}
    BY <1>7, <1>8 DEF Numbers
  <2>2. 1..s = (1..last_seq[c]) \cup {s}
    BY <1>2, <1>3
  <2>3. Numbers(messages[c]) = 1..last_seq[c]
    BY <1>2 DEF ChatInv, ChatGapFree
  <2>4. \A m, n \in messages'[c] : m.seq = n.seq => m = n
    BY <1>2, <1>3, <1>7, <1>8, <1>9 DEF ChatInv, ChatGapFree
  <2>5. Numbers(messages'[c]) = 1..last_seq'[c]
    BY <1>7, <2>1, <2>2, <2>3
  <2> QED
    BY <1>6, <2>4, <2>5 DEF ChatInv, ChatGapFree
<1>11. OneMessagePerKey'
  <2>1. \A m \in messages[c] :
           ~ (m.sender # NoUser /\ m.sender = new.sender /\ m.cmid = new.cmid)
    BY <1>3, <1>8 DEF Written
  <2>2. \A m, n \in messages'[c] :
           m.sender # NoUser /\ m.sender = n.sender /\ m.cmid = n.cmid => m = n
    BY <1>2, <1>7, <2>1 DEF ChatInv, OneMessagePerKey
  <2> QED
    BY <1>6, <2>2 DEF ChatInv, OneMessagePerKey
<1>12. ChatHeldOnce'
  BY <1>4 DEF ChatInv, ChatHeldOnce
<1>13. SendFresh'
  <2> SUFFICES ASSUME NEW q \in Handlers, Sending(q)'
               PROVE  /\ new_seq'[q] = last_seq'[req'[q].chat] + 1
                      /\ req'[q].user # NoUser =>
                            {m \in messages'[req'[q].chat] :
                               m.sender = req'[q].user /\ m.cmid = req'[q].cmid} = {}
    BY DEF SendFresh, Written
  <2>1. Sending(q) /\ req'[q] = req[q] /\ new_seq'[q] = new_seq[q] /\ req[q].chat # c
    BY <1>4, <1>5 DEF Sending
  <2>2. req[q].chat \in Chats
    BY DEF TypeInv, TypeOK, Request
  <2>3. messages'[req[q].chat] = messages[req[q].chat]
        /\ last_seq'[req[q].chat] = last_seq[req[q].chat]
    BY <1>6, <2>1, <2>2
  <2> QED
    BY <2>1, <2>3 DEF ChatInv, SendFresh, Written
<1> QED
  BY <1>10, <1>11, <1>12, <1>13 DEF ChatInv

\* A transaction that opens does not have the chat yet.
LEMMA AcceptTakesNoChat ==
    ASSUME TypeInv, NEW p \in Handlers, Accept(p)
    PROVE  /\ UNCHANGED <<messages, last_seq>>
           /\ \A q \in Handlers : HoldsChat(q)' =>
                 HoldsChat(q) /\ UNCHANGED <<req[q], new_seq[q]>>
<1> USE DEF TypeInv, TypeOK, rows
<1>1. ASSUME NEW step \in {"lock_chat", "lock_message", "statement"}, NEW r, NEW s,
             Start(p, step, r, s)
      PROVE  /\ UNCHANGED <<messages, last_seq>>
             /\ \A q \in Handlers : HoldsChat(q)' =>
                   HoldsChat(q) /\ UNCHANGED <<req[q], new_seq[q]>>
  BY <1>1 DEF Start, HoldsChat
<1>2. ASSUME NEW c \in Chats, NEW u \in Users, NEW k \in ClientIds, SendCheck(p, c, u, k)
      PROVE  /\ UNCHANGED <<messages, last_seq>>
             /\ \A q \in Handlers : HoldsChat(q)' =>
                   HoldsChat(q) /\ UNCHANGED <<req[q], new_seq[q]>>
  <2>1. CASE Start(p, "lock_chat", SendRequest(c, u, k), 0)
    BY <1>1, <2>1
  <2>2. CASE UNCHANGED <<rows, pc, req, new_seq, todo, bumped>>
    BY <2>2 DEF HoldsChat
  <2> QED
    BY <1>2, <2>1, <2>2 DEF SendCheck
<1>3. ASSUME NEW u \in Users, PublishStart(p, u)
      PROVE  /\ UNCHANGED <<messages, last_seq>>
             /\ \A q \in Handlers : HoldsChat(q)' =>
                   HoldsChat(q) /\ UNCHANGED <<req[q], new_seq[q]>>
  <2>1. req'[p].op = "publish"
    BY <1>3, NoRequestType DEF PublishStart, NoRequest
  <2>2. \A q \in Handlers \ {p} : UNCHANGED <<pc[q], req[q], new_seq[q]>>
    BY <1>3 DEF PublishStart, ThenEvents
  <2>3. ~ HoldsChat(p)'
    BY <1>3, <2>1 DEF PublishStart, ThenEvents, HoldsChat
  <2> QED
    BY <1>3, <2>2, <2>3 DEF PublishStart, HoldsChat
<1>4. ASSUME NEW c \in Chats, NEW k \in ClientIds, SendAsChat(p, c, k)
      PROVE  \E r, s : Start(p, "lock_chat", r, s)
  BY <1>4 DEF SendAsChat
<1>5. ASSUME NEW c \in Chats, NEW u \in Users, EditCheck(p, c, u) \/ DeleteCheck(p, c, u)
      PROVE  \E r, s : Start(p, "lock_message", r, s)
  BY <1>5 DEF EditCheck, DeleteCheck, Rewrite
<1>6. ASSUME NEW c \in Chats, NEW u \in Users, NEW op, ClearCheck(p, c, u, op)
      PROVE  \E r, s : Start(p, "lock_chat", r, s)
  BY <1>6 DEF ClearCheck
<1>7. ASSUME NEW c \in Chats, NEW u \in Users, NEW upto, MarkReadStart(p, c, u, upto)
      PROVE  \E r, s : Start(p, "statement", r, s)
  BY <1>7 DEF MarkReadStart
<1> QED
  BY <1>1, <1>2, <1>3, <1>4, <1>5, <1>6, <1>7, ReadsNamed DEF Accept

\* Only an edit or a delete waits for a message row without the chat.
RewriteWaits == \A p \in Handlers : pc[p] = "lock_message" => req[p].op \in {"edit", "delete"}

\* That is so throughout.
LEMMA RewriteWaitsInvariant == Spec => []RewriteWaits
<1>1. Init => RewriteWaits
  BY DEF Init, RewriteWaits
<1>2. TypeInv /\ RewriteWaits /\ [Next]_vars => RewriteWaits'
  <2> SUFFICES ASSUME TypeInv, RewriteWaits, [Next]_vars PROVE RewriteWaits'
    OBVIOUS
  <2> USE DEF TypeInv, TypeOK, RewriteWaits
  <2>1. ASSUME NEW p \in Handlers, Release(p) PROVE RewriteWaits'
    BY <2>1 DEF Release
  <2>2. ASSUME NEW p \in Handlers, NEW step \in {"lock_chat", "statement"}, NEW r, NEW s,
               Start(p, step, r, s)
        PROVE  RewriteWaits'
    BY <2>2 DEF Start
  <2>3. ASSUME NEW p \in Handlers, NEW c \in Chats, NEW u \in Users,
               EditCheck(p, c, u) \/ DeleteCheck(p, c, u)
        PROVE  RewriteWaits'
    <3>1. PICK op \in {"edit", "delete"}, m \in messages[c] : Rewrite(p, op, c, u, m)
      BY <2>3 DEF EditCheck, DeleteCheck
    <3>2. req'[p].op = op
      BY <3>1, NoRequestType DEF Rewrite, Start, NoRequest
    <3> QED
      BY <3>1, <3>2 DEF Rewrite, Start
  <2>4. ASSUME NEW p \in Handlers, Accept(p) PROVE RewriteWaits'
    <3>1. ASSUME NEW c \in Chats, NEW u \in Users, NEW k \in ClientIds, SendCheck(p, c, u, k)
          PROVE  RewriteWaits'
      BY <2>2, <3>1 DEF SendCheck
    <3>2. ASSUME NEW c \in Chats, NEW k \in ClientIds, SendAsChat(p, c, k)
          PROVE  RewriteWaits'
      BY <2>2, <3>2 DEF SendAsChat
    <3>3. ASSUME NEW c \in Chats, NEW u \in Users, NEW op, ClearCheck(p, c, u, op)
          PROVE  RewriteWaits'
      BY <2>2, <3>3 DEF ClearCheck
    <3>4. ASSUME NEW u \in Users, PublishStart(p, u) PROVE RewriteWaits'
      BY <3>4 DEF PublishStart, ThenEvents
    <3>5. ASSUME NEW c \in Chats, NEW u \in Users, NEW s, MarkReadStart(p, c, u, s)
          PROVE  RewriteWaits'
      BY <2>2, <3>5 DEF MarkReadStart
    <3> QED
      BY <2>3, <2>4, <3>1, <3>2, <3>3, <3>4, <3>5, ReadsNamed DEF Accept
  <2>5. ASSUME NEW p \in Handlers, Advance(p) PROVE RewriteWaits'
    <3>1. CASE SendInsert(p)
      BY <2>1, <3>1 DEF SendInsert
    <3>2. CASE SendRows(p) \/ ClearLock(p) \/ LockCounter(p)
      BY <3>2 DEF SendRows, ClearLock, LockCounter, ThenEvents
    <3>3. CASE LockMessage(p) \/ ClearRows(p)
      BY <2>1, <3>3 DEF LockMessage, ClearRows, ThenEvents
    <3> QED
      BY <2>1, <2>5, <3>1, <3>2, <3>3 DEF Advance, SendCommit, EditCommit, DeleteCommit,
         ClearCommit, PublishCommit, MarkReadApply
  <2>6. ASSUME NEW c \in Chats, NEW u \in Movers, AddMember(c, u) \/ RemoveMember(c, u)
        PROVE  RewriteWaits'
    BY <2>6 DEF AddMember, RemoveMember
  <2>7. CASE UNCHANGED vars
    BY <2>7 DEF vars
  <2> QED
    BY <2>1, <2>4, <2>5, <2>6, <2>7 DEF Next, Rollback
<1> QED
  BY <1>1, <1>2, TypeInvariant, PTL DEF Spec

\* Every step keeps the chat invariant.
LEMMA ChatStep == TypeInv /\ TypeInv' /\ RewriteWaits /\ ChatInv /\ [Next]_vars => ChatInv'
<1> SUFFICES ASSUME TypeInv, TypeInv', RewriteWaits, ChatInv, [Next]_vars
             PROVE  ChatInv'
  OBVIOUS
<1> USE DEF rows
<1>1. messages' \in [Chats -> SUBSET Message] /\ messages \in [Chats -> SUBSET Message]
  BY DEF TypeInv, TypeOK
<1>2. \A c \in Chats : SameIdentity(messages[c], messages[c])
  BY <1>1 DEF SameIdentity, ChatInv, ChatGapFree
<1>3. ASSUME UNCHANGED <<messages, last_seq>>,
             \A q \in Handlers : HoldsChat(q)' =>
                HoldsChat(q) /\ UNCHANGED <<req[q], new_seq[q]>>
      PROVE  ChatInv'
  BY <1>1, <1>2, <1>3, IdentityKeepsChat
<1>4. ASSUME NEW p \in Handlers, Release(p)
      PROVE  \A q \in Handlers : HoldsChat(q)' =>
                HoldsChat(q) /\ UNCHANGED <<req[q], new_seq[q]>>
  BY <1>4 DEF Release, HoldsChat, TypeInv, TypeOK
<1>5. ASSUME NEW p \in Handlers, Accept(p) PROVE ChatInv'
  BY <1>3, <1>5, AcceptTakesNoChat
<1>6. ASSUME NEW p \in Handlers, Rollback(p) PROVE ChatInv'
  BY <1>3, <1>4, <1>6 DEF Rollback
<1>7. ASSUME NEW p \in Handlers, SendInsert(p) PROVE ChatInv'
  <2>1. CASE Release(p) /\ UNCHANGED rows
    BY <1>3, <1>4, <2>1
  <2>2. CASE /\ IndexAllows(req[p].chat, req[p].user, req[p].cmid)
             /\ pc' = [pc EXCEPT ![p] = "lock_rows"]
             /\ new_seq' = [new_seq EXCEPT ![p] = last_seq[req[p].chat] + 1]
             /\ req' = [req EXCEPT ![p].fan = MemberCount(req[p].chat) <= FanoutThreshold]
             /\ UNCHANGED rows
    <3>1. /\ req'[p].chat = req[p].chat /\ req'[p].user = req[p].user
          /\ req'[p].cmid = req[p].cmid
          /\ new_seq'[p] = last_seq[req[p].chat] + 1
      BY <2>2 DEF TypeInv, TypeOK, Request
    <3>2. \A q \in Handlers \ {p} : UNCHANGED <<pc[q], req[q], new_seq[q]>>
      BY <2>2 DEF TypeInv, TypeOK
    <3>3. ~ ChatLocked(req[p].chat)
      BY <1>7 DEF SendInsert
    <3>4. UNCHANGED <<messages, last_seq>>
      BY <2>2
    <3> QED
      BY <2>2, <3>1, <3>2, <3>3, <3>4, GainKeepsChat
  <2> QED
    BY <1>7, <2>1, <2>2 DEF SendInsert
<1>8. ASSUME NEW p \in Handlers, ClearLock(p) PROVE ChatInv'
  <2>1. req'[p] = req[p] /\ ~ ChatLocked(req[p].chat) /\ UNCHANGED <<messages, last_seq>>
        /\ req[p].op # "send"
    BY <1>8 DEF ClearLock
  <2>2. \A q \in Handlers \ {p} : UNCHANGED <<pc[q], req[q], new_seq[q]>>
    BY <1>8 DEF ClearLock, TypeInv, TypeOK
  <2>3. ~ Sending(p)'
    BY <2>1 DEF Sending
  <2> QED
    BY <2>1, <2>2, <2>3, GainKeepsChat
<1>9. ASSUME NEW p \in Handlers, SendRows(p) PROVE ChatInv'
  <2>1. \A q \in Handlers : HoldsChat(q)' =>
           HoldsChat(q) /\ UNCHANGED <<req[q], new_seq[q]>>
    BY <1>9 DEF SendRows, ThenEvents, HoldsChat, TypeInv, TypeOK
  <2> QED
    BY <1>3, <1>9, <2>1 DEF SendRows
<1>10. ASSUME NEW p \in Handlers, LockMessage(p) PROVE ChatInv'
  <2>1. CASE Release(p)
    BY <1>3, <1>4, <1>10, <2>1 DEF LockMessage
  <2>2. CASE ThenEvents(p, Joined(req[p].chat)) /\ UNCHANGED <<req, new_seq>>
    <3>1. req[p].op \notin {"send", "clear_all", "clear_self"}
      BY <1>10 DEF LockMessage, RewriteWaits
    <3>2. \A q \in Handlers : HoldsChat(q)' =>
             HoldsChat(q) /\ UNCHANGED <<req[q], new_seq[q]>>
      BY <2>2, <3>1 DEF ThenEvents, HoldsChat, TypeInv, TypeOK
    <3> QED
      BY <1>3, <1>10, <3>2 DEF LockMessage
  <2> QED
    BY <1>10, <2>1, <2>2 DEF LockMessage
<1>11. ASSUME NEW p \in Handlers, ClearRows(p) PROVE ChatInv'
  <2>1. CASE Release(p)
    BY <1>3, <1>4, <1>11, <2>1 DEF ClearRows
  <2>2. CASE ~ Release(p)
    <3>1. \A q \in Handlers : HoldsChat(q)' =>
             HoldsChat(q) /\ UNCHANGED <<req[q], new_seq[q]>>
      BY <1>11, <2>2 DEF ClearRows, ThenEvents, HoldsChat, TypeInv, TypeOK
    <3> QED
      BY <1>3, <1>11, <3>1 DEF ClearRows
  <2> QED
    BY <2>1, <2>2
<1>12. ASSUME NEW p \in Handlers, LockCounter(p) PROVE ChatInv'
  BY <1>3, <1>12 DEF LockCounter, HoldsChat
<1>13. ASSUME NEW p \in Handlers, PublishCommit(p) \/ MarkReadApply(p) PROVE ChatInv'
  BY <1>3, <1>4, <1>13 DEF PublishCommit, MarkReadApply
<1>14. ASSUME NEW p \in Handlers, EditCommit(p) \/ DeleteCommit(p) PROVE ChatInv'
  <2>1. PICK m \in messages[req[p].chat] : \E n \in {Edited(m), Tombstone(m)} :
           messages' = [messages EXCEPT ![req[p].chat] =
                           (messages[req[p].chat] \ {m}) \cup {n}]
    BY <1>14 DEF EditCommit, DeleteCommit
  <2>a. PICK n \in {Edited(m), Tombstone(m)} :
           messages' = [messages EXCEPT ![req[p].chat] =
                           (messages[req[p].chat] \ {m}) \cup {n}]
    BY <2>1
  <2>2. req[p].chat \in Chats /\ m \in Message
    BY <1>1 DEF TypeInv, TypeOK, Request
  <2>3. n \in Message /\ n.seq = m.seq /\ n.sender = m.sender /\ n.cmid = m.cmid
    <3>1. CASE n = Edited(m)
      BY <2>2, <3>1 DEF Edited, Message
    <3>2. CASE n = Tombstone(m)
      BY <2>2, <3>2 DEF Tombstone, Message
    <3> QED
      BY <3>1, <3>2
  <2>4. \A c \in Chats : SameIdentity(messages[c], messages'[c])
    <3>1. SameIdentity(messages[req[p].chat], messages'[req[p].chat])
      <4>1. messages'[req[p].chat] = (messages[req[p].chat] \ {m}) \cup {n}
        BY <1>1, <2>a, <2>2
      <4>2. \A x, y \in messages[req[p].chat] : x.seq = y.seq => x = y
        BY <2>2 DEF ChatInv, ChatGapFree
      <4> QED
        BY <1>1, <2>2, <2>3, <4>1, <4>2, RewriteKeepsIdentity
    <3> QED
      BY <1>1, <1>2, <2>a, <3>1
  <2>5. Release(p) /\ UNCHANGED last_seq
    BY <1>14 DEF EditCommit, DeleteCommit
  <2> QED
    BY <1>1, <1>4, <2>4, <2>5, IdentityKeepsChat
<1>15. ASSUME NEW p \in Handlers, NEW op, ClearCommit(p, op) PROVE ChatInv'
  <2>1. req[p].chat \in Chats /\ new_seq[p] \in Nat
    BY DEF TypeInv, TypeOK, Request
  <2>2. messages'[req[p].chat] \in {TombstoneUpTo(messages[req[p].chat], new_seq[p]),
                                    messages[req[p].chat]}
        /\ \A c \in Chats : c # req[p].chat => messages'[c] = messages[c]
    BY <1>1, <1>15, <2>1 DEF ClearCommit
  <2>3. \A x, y \in messages[req[p].chat] : x.seq = y.seq => x = y
    BY <2>1 DEF ChatInv, ChatGapFree
  <2>4. SameIdentity(messages[req[p].chat], TombstoneUpTo(messages[req[p].chat], new_seq[p]))
    BY <1>1, <2>1, <2>3, TombstoneKeepsIdentity
  <2>5. \A c \in Chats : SameIdentity(messages[c], messages'[c])
    BY <1>2, <2>1, <2>2, <2>4
  <2>6. Release(p) /\ UNCHANGED last_seq
    BY <1>15 DEF ClearCommit
  <2> QED
    BY <1>1, <1>4, <2>5, <2>6, IdentityKeepsChat
<1>16. ASSUME NEW p \in Handlers, Advance(p) PROVE ChatInv'
  BY <1>7, <1>8, <1>9, <1>10, <1>11, <1>12, <1>13, <1>14, <1>15, <1>16, SendKeepsChat
     DEF Advance
<1>17. ASSUME NEW c \in Chats, NEW u \in Movers, AddMember(c, u) \/ RemoveMember(c, u)
       PROVE  ChatInv'
  BY <1>3, <1>17 DEF AddMember, RemoveMember, HoldsChat
<1>18. CASE UNCHANGED vars
  BY <1>3, <1>18 DEF vars, HoldsChat
<1> QED
  BY <1>5, <1>6, <1>16, <1>17, <1>18 DEF Next

\* The empty store satisfies the chat invariant.
LEMMA ChatInit == Init => ChatInv
<1> SUFFICES ASSUME Init PROVE ChatInv
  OBVIOUS
<1>1. \A p \in Handlers : ~ HoldsChat(p)
  BY DEF Init, HoldsChat
<1>2. ChatGapFree /\ OneMessagePerKey
  BY DEF Init, ChatGapFree, OneMessagePerKey, Numbers
<1> QED
  BY <1>1, <1>2 DEF ChatInv, ChatHeldOnce, SendFresh, Sending

\* The chat invariant holds throughout.
LEMMA ChatInvariant == Spec => []ChatInv
BY ChatInit, ChatStep, TypeInvariant, RewriteWaitsInvariant, PTL DEF Spec

\* The committed messages of every chat are numbered 1..last_seq, each once,
\* however sends, edits, deletes, clears and rollbacks overlap.
THEOREM ChatNumbersGapFree == Spec => []ChatGapFree
<1>1. ChatInv => ChatGapFree
  BY DEF ChatInv
<1> QED
  BY <1>1, ChatInvariant, PTL

\* However often and however concurrently a client repeats a send, the store
\* keeps one message for its client_message_id.
THEOREM SendsIdempotent == Spec => []OneMessagePerKey
<1>1. ChatInv => OneMessagePerKey
  BY DEF ChatInv
<1> QED
  BY <1>1, ChatInvariant, PTL

-----------------------------------------------------------------------------
(* The steps of the store by what they do to the handlers and the rows:    *)
(* the invariants below look only at this much of them.                    *)

Others(p) == \A q \in Handlers \ {p} :
    /\ pc'[q] = pc[q] /\ req'[q] = req[q] /\ new_seq'[q] = new_seq[q]
    /\ todo'[q] = todo[q] /\ bumped'[q] = bumped[q]

Quiet == UNCHANGED <<rows, pc, req, new_seq, todo, bumped>>

\* A request is taken; the only one that goes straight to the counters is a publish.
Opens(p) ==
    /\ UNCHANGED rows /\ Others(p)
    /\ pc[p] = "idle" /\ bumped'[p] = bumped[p]
    /\ \/ pc'[p] \in {"lock_chat", "lock_message", "statement"} /\ todo'[p] = todo[p]
       \/ pc'[p] = "lock_counters" /\ req'[p].op = "publish"

\* A free chat row is locked, and its last_seq read under the lock.
Gains(p) ==
    /\ UNCHANGED <<rows, todo, bumped>> /\ Others(p)
    /\ pc[p] = "lock_chat" /\ pc'[p] = "lock_rows"
    /\ ~ ChatLocked(req[p].chat)
    /\ req'[p].op = req[p].op /\ req'[p].chat = req[p].chat
    /\ req[p].op \in {"clear_all", "clear_self"} => new_seq'[p] = last_seq[req[p].chat]

\* The rows are locked and the users to tell are named.
Names(p) ==
    /\ UNCHANGED <<rows, req, new_seq, bumped>> /\ Others(p)
    /\ pc[p] \in {"lock_rows", "lock_message"} /\ pc'[p] = "lock_counters"
    /\ \/ /\ pc[p] = "lock_rows" /\ req[p].op = "send"
          /\ todo'[p] = IF req[p].fan THEN Joined(req[p].chat) ELSE {}
       \/ /\ pc[p] = "lock_rows" /\ req[p].op = "clear_self"
       \/ /\ pc[p] = "lock_rows" /\ req[p].op = "clear_all"
          /\ todo'[p] = Joined(req[p].chat)
          /\ \A m \in messages[req[p].chat] : ~ MessageLocked(req[p].chat, m.seq)
       \/ /\ pc[p] = "lock_message" /\ req[p].op \in {"edit", "delete"}
          /\ todo'[p] = Joined(req[p].chat)
          /\ ~ MessageLocked(req[p].chat, new_seq[p])
          /\ \E m \in messages[req[p].chat] : m.seq = new_seq[p] /\ ~ m.deleted

\* A transaction ends and the rows stay as they were.
GivesUp(p) == Release(p) /\ UNCHANGED rows

\* A step of a handler other than the ones that write rows.
Silent(p) == Opens(p) \/ Gains(p) \/ Names(p) \/ LockCounter(p) \/ GivesUp(p)

\* A step that writes rows.
Writes(p) == SendCommit(p) \/ EditCommit(p) \/ DeleteCommit(p) \/ ClearCommit(p, "clear_all")
             \/ ClearCommit(p, "clear_self") \/ PublishCommit(p) \/ MarkReadApply(p)

Moves(c, u) == AddMember(c, u) \/ RemoveMember(c, u)

\* What a handler has after it let go of everything.
LEMMA ReleaseFrame ==
    ASSUME TypeInv, NEW p \in Handlers, Release(p)
    PROVE  /\ Others(p)
           /\ pc'[p] = "idle" /\ req'[p] = NoRequest /\ new_seq'[p] = 0 /\ todo'[p] = {}
           /\ bumped'[p] = NothingHeld
BY DEF TypeInv, TypeOK, Release, Others

\* Locking a counter touches one handler.
LEMMA LockCounterFrame ==
    ASSUME TypeInv, NEW p \in Handlers, LockCounter(p)
    PROVE  /\ Others(p) /\ UNCHANGED <<rows, pc, req, new_seq, acks>>
           /\ todo'[p] = todo[p] \ {NextCounter(p)}
           /\ bumped'[p] = [bumped[p] EXCEPT ![NextCounter(p)] = event_last_seq[NextCounter(p)] + 1]
<1> DEFINE u == NextCounter(p)
<1>1. /\ bumped' = [bumped EXCEPT ![p][u] = event_last_seq[u] + 1]
      /\ todo' = [todo EXCEPT ![p] = @ \ {u}]
      /\ UNCHANGED <<rows, pc, req, new_seq, acks>>
  BY DEF LockCounter
<1> HIDE DEF u
<1>2. bumped \in [Handlers -> [Users -> Nat]] /\ todo \in [Handlers -> SUBSET Users]
  BY DEF TypeInv, TypeOK
<1>3. bumped' = [bumped EXCEPT ![p] = [bumped[p] EXCEPT ![u] = event_last_seq[u] + 1]]
  BY <1>1
<1>4. bumped'[p] = [bumped[p] EXCEPT ![u] = event_last_seq[u] + 1] /\ todo'[p] = todo[p] \ {u}
      /\ Others(p)
  BY <1>1, <1>2, <1>3 DEF Others
<1> QED
  BY <1>1, <1>4 DEF u

\* Taking a request is one of the silent steps, or an answer from the fast path.
LEMMA AcceptKind ==
    ASSUME TypeInv, NEW p \in Handlers, Accept(p)
    PROVE  Opens(p) \/ Quiet
<1>0. pc[p] = "idle"
  BY DEF Accept
<1>1. ASSUME NEW step \in {"lock_chat", "lock_message"}, NEW r, NEW s, Start(p, step, r, s)
      PROVE  Opens(p)
  BY <1>0, <1>1 DEF Start, Opens, Others, TypeInv, TypeOK
<1>2. ASSUME NEW c \in Chats, NEW u \in Users, NEW k \in ClientIds, SendCheck(p, c, u, k)
      PROVE  Opens(p) \/ Quiet
  BY <1>1, <1>2 DEF SendCheck, Quiet
<1>3. ASSUME NEW u \in Users, PublishStart(p, u) PROVE Opens(p)
  <2>1. req'[p].op = "publish"
    BY <1>3, NoRequestType DEF PublishStart, NoRequest, TypeInv, TypeOK
  <2> QED
    BY <1>0, <1>3, <2>1 DEF PublishStart, ThenEvents, Opens, Others, TypeInv, TypeOK
<1>4. ASSUME NEW c \in Chats, NEW u \in Users, NEW s, MarkReadStart(p, c, u, s) PROVE Opens(p)
  <2> DEFINE r == [NoRequest EXCEPT !.op = "read", !.chat = c, !.user = u, !.snapshot = messages[c]]
  <2> HIDE DEF r
  <2>1. Start(p, "statement", r, s)
    BY <1>4 DEF MarkReadStart, r
  <2> QED
    BY <1>0, <2>1 DEF Start, Opens, Others, TypeInv, TypeOK
<1>5. ASSUME NEW c \in Chats, NEW k \in ClientIds, SendAsChat(p, c, k) PROVE Opens(p)
  BY <1>1, <1>5 DEF SendAsChat
<1>6. ASSUME NEW c \in Chats, NEW u \in Users, EditCheck(p, c, u) \/ DeleteCheck(p, c, u)
      PROVE  Opens(p)
  BY <1>1, <1>6 DEF EditCheck, DeleteCheck, Rewrite
<1>7. ASSUME NEW c \in Chats, NEW u \in Users, NEW op, ClearCheck(p, c, u, op) PROVE Opens(p)
  BY <1>1, <1>7 DEF ClearCheck
<1> QED
  BY <1>2, <1>3, <1>4, <1>5, <1>6, <1>7, ReadsNamed DEF Accept

\* Every step is of one of these kinds.
LEMMA StepKinds ==
    ASSUME TypeInv, RewriteWaits, [Next]_vars
    PROVE  \/ Quiet
           \/ \E p \in Handlers : Silent(p) \/ Writes(p)
           \/ \E c \in Chats, u \in Movers : Moves(c, u)
<1>1. ASSUME NEW p \in Handlers, SendInsert(p) PROVE Silent(p)
  <2>1. CASE Release(p) /\ UNCHANGED rows
    BY <2>1 DEF Silent, GivesUp
  <2>2. CASE ~ (Release(p) /\ UNCHANGED rows)
    <3>1. /\ pc[p] = "lock_chat" /\ req[p].op = "send" /\ ~ ChatLocked(req[p].chat)
          /\ pc' = [pc EXCEPT ![p] = "lock_rows"]
          /\ new_seq' = [new_seq EXCEPT ![p] = last_seq[req[p].chat] + 1]
          /\ req' = [req EXCEPT ![p].fan = MemberCount(req[p].chat) <= FanoutThreshold]
          /\ UNCHANGED <<rows, todo, bumped>>
      BY <1>1, <2>2 DEF SendInsert
    <3>2. req'[p].op = "send" /\ req'[p].chat = req[p].chat
      BY <3>1 DEF TypeInv, TypeOK, Request
    <3>3. Others(p) /\ pc'[p] = "lock_rows"
      BY <3>1 DEF Others, TypeInv, TypeOK
    <3> QED
      BY <3>1, <3>2, <3>3 DEF Silent, Gains
  <2> QED
    BY <2>1, <2>2
<1>2. ASSUME NEW p \in Handlers, ClearLock(p) PROVE Silent(p)
  BY <1>2 DEF ClearLock, Silent, Gains, Others, TypeInv, TypeOK
<1>3. ASSUME NEW p \in Handlers, SendRows(p) PROVE Silent(p)
  BY <1>3 DEF SendRows, ThenEvents, Silent, Names, Others, TypeInv, TypeOK
<1>4. ASSUME NEW p \in Handlers, LockMessage(p) PROVE Silent(p)
  <2>1. CASE Release(p) /\ UNCHANGED rows
    BY <2>1 DEF Silent, GivesUp
  <2>2. CASE ~ (Release(p) /\ UNCHANGED rows)
    <3>1. req[p].op \in {"edit", "delete"}
      BY <1>4 DEF LockMessage, RewriteWaits
    <3> QED
      BY <1>4, <2>2, <3>1 DEF LockMessage, ThenEvents, Silent, Names, Others, TypeInv, TypeOK
  <2> QED
    BY <2>1, <2>2
<1>5. ASSUME NEW p \in Handlers, ClearRows(p) PROVE Silent(p)
  <2>1. CASE Release(p) /\ UNCHANGED rows
    BY <2>1 DEF Silent, GivesUp
  <2>2. CASE ~ (Release(p) /\ UNCHANGED rows)
    BY <1>5, <2>2 DEF ClearRows, ThenEvents, Silent, Names, Others, TypeInv, TypeOK
  <2> QED
    BY <2>1, <2>2
<1>6. ASSUME NEW p \in Handlers, Advance(p) PROVE Silent(p) \/ Writes(p)
  BY <1>1, <1>2, <1>3, <1>4, <1>5, <1>6 DEF Advance, Silent, Writes
<1>7. ASSUME NEW p \in Handlers, Rollback(p) PROVE Silent(p)
  BY <1>7 DEF Rollback, Silent, GivesUp
<1>8. ASSUME NEW p \in Handlers, Accept(p) PROVE Silent(p) \/ Quiet
  BY <1>8, AcceptKind DEF Silent
<1>9. CASE UNCHANGED vars
  BY <1>9 DEF vars, rows, Quiet
<1> QED
  BY <1>6, <1>7, <1>8, <1>9 DEF Next, Moves

-----------------------------------------------------------------------------
(* Cursors and watermarks.  A clear works with the last_seq of the chat it *)
(* has locked, so no watermark is ever ahead of the chat; a read cursor,   *)
(* which takes any number a client names, may be.                          *)

Clearing(p) == HoldsChat(p) /\ req[p].op \in {"clear_all", "clear_self"}

CursorsBounded ==
    \A c \in Chats, u \in Users : members[c][u].history_cleared_seq <= last_seq[c]

WatermarksHold ==
    \A p \in Handlers : Clearing(p) => new_seq[p] = last_seq[req[p].chat]

\* A read cursor goes forward, or from beyond the newest message to the newest.
ReadOnward(old, new, newest) == new >= old \/ (old > newest /\ new = newest)

\* Only the commit of a send moves last_seq, by one, and only for its chat.
LEMMA LastSeqMoves ==
    ASSUME TypeInv, RewriteWaits, ChatInv, [Next]_vars, NEW c \in Chats
    PROVE  \/ last_seq'[c] = last_seq[c]
           \/ /\ last_seq'[c] = last_seq[c] + 1
              /\ \E p \in Handlers : SendCommit(p) /\ Sending(p) /\ req[p].chat = c
<1> USE DEF rows
<1>1. CASE Quiet
  BY <1>1 DEF Quiet
<1>2. ASSUME NEW p \in Handlers, Silent(p) PROVE last_seq' = last_seq
  BY <1>2, LockCounterFrame DEF Silent, Opens, Gains, Names, GivesUp
<1>3. ASSUME NEW p \in Handlers, Writes(p), ~ SendCommit(p) PROVE last_seq' = last_seq
  BY <1>3 DEF Writes, EditCommit, DeleteCommit, ClearCommit, PublishCommit, MarkReadApply
<1>4. ASSUME NEW p \in Handlers, SendCommit(p)
      PROVE  \/ last_seq'[c] = last_seq[c]
             \/ last_seq'[c] = last_seq[c] + 1 /\ Sending(p) /\ req[p].chat = c
  <2>1. Sending(p) /\ last_seq' = [last_seq EXCEPT ![req[p].chat] = new_seq[p]]
    BY <1>4 DEF SendCommit, Committing, Sending, HoldsChat
  <2>2. new_seq[p] = last_seq[req[p].chat] + 1
    BY <2>1 DEF ChatInv, SendFresh
  <2> QED
    BY <2>1, <2>2 DEF TypeInv, TypeOK
<1>5. ASSUME NEW d \in Chats, NEW u \in Movers, Moves(d, u) PROVE last_seq' = last_seq
  BY <1>5 DEF Moves, AddMember, RemoveMember
<1> QED
  BY <1>1, <1>2, <1>3, <1>4, <1>5, StepKinds

\* A writing step ends its transaction.
LEMMA WritesRelease ==
    ASSUME NEW p \in Handlers, Writes(p)
    PROVE  Release(p)
BY DEF Writes, SendCommit, EditCommit, DeleteCommit, ClearCommit, PublishCommit, MarkReadApply

\* How the place of a handler can change: whoever holds the chat, rewrites a message or reads
\* either did so before with the same request, or has just got there.
LEMMA HandlerMoves ==
    ASSUME TypeInv, RewriteWaits, [Next]_vars, NEW q \in Handlers
    PROVE  \/ /\ pc'[q] = pc[q] /\ req'[q] = req[q] /\ new_seq'[q] = new_seq[q]
              /\ \/ todo'[q] = todo[q] /\ bumped'[q] = bumped[q]
                 \/ LockCounter(q)
           \/ Opens(q) \/ Gains(q) \/ Names(q)
           \/ pc'[q] = "idle" /\ todo'[q] = {} /\ bumped'[q] = NothingHeld
<1>1. CASE Quiet
  BY <1>1 DEF Quiet
<1>2. ASSUME NEW p \in Handlers, Others(p), p # q
      PROVE  /\ pc'[q] = pc[q] /\ req'[q] = req[q] /\ new_seq'[q] = new_seq[q]
             /\ todo'[q] = todo[q] /\ bumped'[q] = bumped[q]
  BY <1>2 DEF Others
<1>3. ASSUME NEW p \in Handlers, Silent(p) \/ Writes(p) PROVE Others(p)
  BY <1>3, WritesRelease, ReleaseFrame, LockCounterFrame
     DEF Silent, Opens, Gains, Names, GivesUp
<1>4. CASE Silent(q) \/ Writes(q)
  BY <1>4, WritesRelease, ReleaseFrame, LockCounterFrame DEF Silent, GivesUp
<1>5. ASSUME NEW d \in Chats, NEW u \in Movers, Moves(d, u)
      PROVE  UNCHANGED <<pc, req, new_seq, todo, bumped>>
  BY <1>5 DEF Moves, AddMember, RemoveMember
<1> QED
  BY <1>1, <1>2, <1>3, <1>4, <1>5, StepKinds

\* The watermarks hold: nobody else moves last_seq while a clear holds the chat.
LEMMA WatermarksStep ==
    ASSUME TypeInv, RewriteWaits, ChatInv, WatermarksHold, [Next]_vars
    PROVE  WatermarksHold'
<1> SUFFICES ASSUME NEW q \in Handlers
             PROVE  Clearing(q)' => new_seq'[q] = last_seq'[req'[q].chat]
  BY DEF WatermarksHold
<1>0. req[q].chat \in Chats /\ last_seq[req[q].chat] \in Nat /\ new_seq[q] \in Nat
  BY DEF TypeInv, TypeOK, Request
<1>1. CASE pc'[q] = pc[q] /\ req'[q] = req[q] /\ new_seq'[q] = new_seq[q]
  <2>1. Clearing(q)' => Clearing(q)
    BY <1>1 DEF Clearing, HoldsChat
  <2>2. ASSUME Clearing(q) PROVE last_seq'[req[q].chat] = last_seq[req[q].chat]
    BY <1>0, <2>2, LastSeqMoves DEF ChatInv, ChatHeldOnce, Sending, Clearing
  <2> QED
    BY <1>0, <1>1, <2>1, <2>2 DEF WatermarksHold
<1>2. CASE Opens(q)
  BY <1>2 DEF Opens, rows, Clearing, HoldsChat
<1>3. CASE Gains(q)
  BY <1>3 DEF Gains, rows, Clearing, HoldsChat
<1>4. CASE Names(q)
  BY <1>4 DEF Names, rows, Clearing, HoldsChat, WatermarksHold
<1>5. CASE pc'[q] = "idle"
  BY <1>5 DEF Clearing, HoldsChat
<1> QED
  BY <1>1, <1>2, <1>3, <1>4, <1>5, HandlerMoves

\* What each write does to a membership row: the watermark moves forward, up to last_seq at most,
\* the read cursor onward, and nobody joins or leaves.
LEMMA RowMoves ==
    ASSUME TypeInv, RewriteWaits, ChatInv, CursorsBounded, WatermarksHold,
           NEW p \in Handlers, Writes(p), NEW c \in Chats, NEW u \in Users
    PROVE  /\ members'[c][u].joined = members[c][u].joined
           /\ members'[c][u].joined_at = members[c][u].joined_at
           /\ ReadOnward(members[c][u].last_read_seq, members'[c][u].last_read_seq, last_seq'[c])
           /\ members'[c][u].history_cleared_seq \in
                 members[c][u].history_cleared_seq .. last_seq'[c]
<1> DEFINE d == req[p].chat
           row == members[c][u]
           Good(r) == /\ r.joined = row.joined /\ r.joined_at = row.joined_at
                      /\ ReadOnward(row.last_read_seq, r.last_read_seq, last_seq'[c])
                      /\ r.history_cleared_seq \in row.history_cleared_seq .. last_seq'[c]
<1>0. /\ row \in Member /\ d \in Chats /\ last_seq[c] \in Nat /\ new_seq[p] \in Nat
      /\ row.history_cleared_seq <= last_seq[c]
  BY DEF TypeInv, TypeOK, Request, CursorsBounded
<1>t. /\ row.last_read_seq \in Nat /\ row.history_cleared_seq \in Nat /\ row.joined_at \in Nat
  BY <1>0 DEF Member
<1>m. members \in [Chats -> [Users -> Member]] /\ last_seq \in [Chats -> Nat]
  BY DEF TypeInv, TypeOK
<1> USE DEF ReadOnward
<1> SUFFICES Good(members'[c][u])
  OBVIOUS
<1> HIDE DEF row
<1>1. CASE last_seq' = last_seq /\ members'[c][u] = row
  BY <1>0, <1>t, <1>1
<1>2. CASE SendCommit(p)
  <2>0. Sending(p) /\ last_seq' = [last_seq EXCEPT ![d] = new_seq[p]]
        /\ members' = [members EXCEPT ![d] =
              [v \in Users |-> Sent(members[d][v], v = req[p].user, req[p].fan, new_seq[p])]]
    BY <1>2 DEF SendCommit, Committing, Sending, HoldsChat
  <2>1. new_seq[p] = last_seq[d] + 1
    BY <2>0 DEF ChatInv, SendFresh
  <2>2. CASE c # d
    <3>1. members'[c][u] = row /\ last_seq'[c] = last_seq[c]
      BY <1>0, <1>m, <2>0, <2>2 DEF row
    <3> QED
      BY <1>0, <1>t, <3>1
  <2>3. CASE c = d
    <3>1. members'[c][u] = Sent(row, u = req[p].user, req[p].fan, new_seq[p])
          /\ last_seq'[c] = last_seq[c] + 1
      BY <1>0, <1>m, <2>0, <2>1, <2>3 DEF row
    <3>2. CASE u = req[p].user
      <4>1. Sent(row, u = req[p].user, req[p].fan, new_seq[p]) =
                [row EXCEPT !.last_read_seq = new_seq[p]]
        BY <3>2 DEF Sent
      <4> QED
        BY <1>0, <1>t, <2>1, <2>3, <3>1, <4>1 DEF Member
    <3>3. CASE u # req[p].user /\ req[p].fan /\ row.joined
      <4>1. Sent(row, u = req[p].user, req[p].fan, new_seq[p]) =
                [row EXCEPT !.unread_count = row.unread_count + 1]
        BY <3>3 DEF Sent
      <4> QED
        BY <1>0, <1>t, <3>1, <4>1 DEF Member
    <3>4. CASE u # req[p].user /\ ~ (req[p].fan /\ row.joined)
      <4>1. Sent(row, u = req[p].user, req[p].fan, new_seq[p]) = row
        BY <3>4 DEF Sent
      <4> QED
        BY <1>0, <1>t, <3>1, <4>1
    <3> QED
      BY <3>2, <3>3, <3>4
  <2> QED
    BY <2>2, <2>3
<1>3. ASSUME NEW op \in {"clear_all", "clear_self"}, ClearCommit(p, op)
      PROVE  Good(members'[c][u])
  <2>0. /\ Clearing(p) /\ last_seq' = last_seq
        /\ members' = [members EXCEPT ![d] = [v \in Users |->
              IF v = req[p].user \/ (op = "clear_all" /\ members[d][v].joined)
              THEN Cleared(members[d][v], new_seq[p]) ELSE members[d][v]]]
    BY <1>3 DEF ClearCommit, Committing, Clearing, HoldsChat
  <2>1. new_seq[p] = last_seq[d]
    BY <2>0 DEF WatermarksHold
  <2>2. members'[c][u] = row \/ (c = d /\ members'[c][u] = Cleared(row, new_seq[p]))
    BY <1>0, <1>m, <2>0 DEF row
  <2>3. CASE c = d /\ members'[c][u] = Cleared(row, new_seq[p])
    <3>1. /\ Cleared(row, new_seq[p]).joined = row.joined
          /\ Cleared(row, new_seq[p]).joined_at = row.joined_at
          /\ Cleared(row, new_seq[p]).last_read_seq = Greatest(row.last_read_seq, new_seq[p])
          /\ Cleared(row, new_seq[p]).history_cleared_seq =
                Greatest(row.history_cleared_seq, new_seq[p])
      BY <1>0 DEF Cleared, Member
    <3>2. last_seq'[c] = last_seq[c] /\ new_seq[p] <= last_seq[c]
      BY <1>0, <2>0, <2>1, <2>3
    <3>3. /\ Greatest(row.history_cleared_seq, new_seq[p])
                 \in row.history_cleared_seq .. last_seq[c]
          /\ Greatest(row.last_read_seq, new_seq[p]) >= row.last_read_seq
      BY <1>0, <1>t, <3>2 DEF Greatest
    <3> QED
      BY <1>0, <1>t, <2>3, <3>1, <3>2, <3>3
  <2> QED
    BY <1>1, <2>0, <2>2, <2>3
<1>4. CASE MarkReadApply(p)
  <2>0. pc[p] = "statement" /\ last_seq' = last_seq
        /\ members' = IF members[d][req[p].user].joined
                      THEN [members EXCEPT ![d][req[p].user] =
                              ReadUpTo(members[d][req[p].user], new_seq[p], req[p].snapshot)]
                      ELSE members
    BY <1>4 DEF MarkReadApply
  <2>2. members'[c][u] = row
        \/ (c = d /\ members'[c][u] = ReadUpTo(row, new_seq[p], req[p].snapshot))
    BY <1>0, <1>m, <2>0 DEF row
  <2>3. CASE c = d /\ members'[c][u] = ReadUpTo(row, new_seq[p], req[p].snapshot)
    <3>1. /\ members'[c][u].joined = row.joined
          /\ members'[c][u].joined_at = row.joined_at
          /\ members'[c][u].last_read_seq = Greatest(row.last_read_seq, new_seq[p])
          /\ members'[c][u].history_cleared_seq = row.history_cleared_seq
      BY <1>0, <2>3 DEF ReadUpTo, Member
    <3>2. last_seq'[c] = last_seq[c] /\ Greatest(row.last_read_seq, new_seq[p]) >= row.last_read_seq
      BY <1>0, <1>t, <2>0 DEF Greatest
    <3> QED
      BY <1>0, <1>t, <2>3, <3>1, <3>2
  <2> QED
    BY <1>1, <2>0, <2>2, <2>3
<1>5. CASE EditCommit(p) \/ DeleteCommit(p) \/ PublishCommit(p)
  <2>1. last_seq' = last_seq /\ members' = members
    BY <1>5 DEF EditCommit, DeleteCommit, PublishCommit
  <2> QED
    BY <1>1, <2>1 DEF row
<1> QED
  BY <1>2, <1>3, <1>4, <1>5 DEF Writes

\* In every step the watermark moves forward, up to last_seq at most, and the read cursor onward.
LEMMA CursorsMove ==
    ASSUME TypeInv, RewriteWaits, ChatInv, CursorsBounded, WatermarksHold,
           [Next]_vars, NEW c \in Chats, NEW u \in Users
    PROVE  /\ ReadOnward(members[c][u].last_read_seq, members'[c][u].last_read_seq, last_seq'[c])
           /\ members'[c][u].history_cleared_seq \in
                 members[c][u].history_cleared_seq .. last_seq'[c]
<1> USE DEF ReadOnward
<1>0. /\ members[c][u] \in Member /\ last_seq[c] \in Nat
      /\ members[c][u].history_cleared_seq <= last_seq[c]
  BY DEF TypeInv, TypeOK, CursorsBounded
<1>t. members[c][u].last_read_seq \in Nat /\ members[c][u].history_cleared_seq \in Nat
  BY <1>0 DEF Member
<1>1. CASE last_seq' = last_seq /\ members' = members
  BY <1>0, <1>t, <1>1
<1>2. ASSUME NEW p \in Handlers, Silent(p) PROVE last_seq' = last_seq /\ members' = members
  BY <1>2, LockCounterFrame DEF rows, Silent, Opens, Gains, Names, GivesUp
<1>3. ASSUME NEW d \in Chats, NEW v \in Movers, Moves(d, v)
      PROVE  /\ last_seq' = last_seq
             /\ members'[c][u].last_read_seq = members[c][u].last_read_seq
             /\ members'[c][u].history_cleared_seq = members[c][u].history_cleared_seq
  <2>0. members \in [Chats -> [Users -> Member]] /\ v \in Users /\ last_seq' = last_seq
    BY <1>3, MoversAssumption DEF TypeInv, TypeOK, Moves, AddMember, RemoveMember
  <2>1. CASE AddMember(d, v)
    <3>1. members'[c][u] = members[c][u] \/
          members'[c][u] = [members[c][u] EXCEPT !.joined = TRUE, !.joined_at = last_seq[d]]
      BY <2>0, <2>1 DEF AddMember
    <3> QED
      BY <1>0, <2>0, <3>1 DEF Member
  <2>2. CASE RemoveMember(d, v)
    <3>1. members'[c][u] = members[c][u] \/
          members'[c][u] = [members[c][u] EXCEPT !.joined = FALSE]
      BY <2>0, <2>2 DEF RemoveMember
    <3> QED
      BY <1>0, <2>0, <3>1 DEF Member
  <2> QED
    BY <1>3, <2>1, <2>2 DEF Moves
<1>4. CASE \E d \in Chats, v \in Movers : Moves(d, v)
  BY <1>0, <1>t, <1>3, <1>4
<1>5. CASE \E p \in Handlers : Silent(p)
  BY <1>1, <1>2, <1>5
<1>6. CASE \E p \in Handlers : Writes(p)
  BY <1>6, RowMoves
<1>7. CASE Quiet
  BY <1>1, <1>7 DEF Quiet, rows
<1> QED
  BY <1>4, <1>5, <1>6, <1>7, StepKinds

-----------------------------------------------------------------------------
(* What a clear takes.  An event about messages never points past the      *)
(* chat, so a message sent after a clear is above its watermark; and no    *)
(* write brings a deleted message back.                                    *)

MessageTypes == {"new", "edited", "deleted", "clear_all"}

EventsBounded ==
    \A u \in Users : \A e \in user_events[u] :
        e.type \in MessageTypes => e.mseq <= last_seq[e.chat]

\* An event in the log of u after the step that p took and not before.
Announced(p, u, e) ==
    /\ e.seq = event_last_seq[u] + 1 /\ e.chat = req[p].chat /\ e.mseq = new_seq[p]
    /\ \/ e.type = "new" /\ e.version = 0 /\ SendCommit(p)
       \/ e.type = "edited" /\ EditCommit(p)
       \/ e.type = "deleted" /\ DeleteCommit(p)
       \/ e.type = "clear_all" /\ ClearCommit(p, "clear_all")
       \/ e.type = "clear_self" /\ ClearCommit(p, "clear_self")
       \/ e.type = "other" /\ PublishCommit(p)

\* A commit appends one event to the log of each user whose counter it holds.
LEMMA CommitAppends ==
    ASSUME TypeInv, LogInv, NEW p \in Handlers, NEW type, NEW version,
           CommitEvents(p, type, version), NEW u \in Users
    PROVE  \/ bumped[p][u] = 0 /\ user_events'[u] = user_events[u]
           \/ /\ bumped[p][u] # 0
              /\ user_events'[u] = user_events[u] \cup {EventOf(p, u, type, version)}
              /\ EventOf(p, u, type, version).seq = event_last_seq[u] + 1
BY DEF CommitEvents, Recipients, EventOf, LogInv, CountersFresh

\* A step of the store appends at most one event to a log, and it says what the step did.
LEMMA EventsStep ==
    ASSUME TypeInv, RewriteWaits, LogInv, [Next]_vars, NEW u \in Users
    PROVE  \/ user_events'[u] = user_events[u]
           \/ \E p \in Handlers, e \in user_events'[u] :
                 /\ Announced(p, u, e) /\ bumped[p][u] # 0
                 /\ user_events'[u] = user_events[u] \cup {e}
<1> USE DEF rows
<1>1. CASE Quiet
  BY <1>1 DEF Quiet
<1>2. ASSUME NEW p \in Handlers, Silent(p) \/ MarkReadApply(p) PROVE user_events' = user_events
  BY <1>2, LockCounterFrame DEF Silent, Opens, Gains, Names, GivesUp, MarkReadApply
<1>3. ASSUME NEW d \in Chats, NEW v \in Movers, Moves(d, v) PROVE user_events' = user_events
  BY <1>3 DEF Moves, AddMember, RemoveMember
<1>4. ASSUME NEW p \in Handlers, NEW type, NEW version, CommitEvents(p, type, version),
             \/ type = "new" /\ version = 0 /\ SendCommit(p)
             \/ type = "edited" /\ EditCommit(p)
             \/ type = "deleted" /\ DeleteCommit(p)
             \/ type = "clear_all" /\ ClearCommit(p, "clear_all")
             \/ type = "clear_self" /\ ClearCommit(p, "clear_self")
             \/ type = "other" /\ PublishCommit(p)
      PROVE  \/ user_events'[u] = user_events[u]
             \/ \E e \in user_events'[u] :
                   /\ Announced(p, u, e) /\ bumped[p][u] # 0
                   /\ user_events'[u] = user_events[u] \cup {e}
  <2>1. CASE bumped[p][u] = 0
    BY <1>4, <2>1, CommitAppends
  <2>2. CASE bumped[p][u] # 0
    <3>1. PICK e : e = EventOf(p, u, type, version)
      OBVIOUS
    <3>2. user_events'[u] = user_events[u] \cup {e} /\ e.seq = event_last_seq[u] + 1
      BY <1>4, <2>2, <3>1, CommitAppends
    <3>3. e.chat = req[p].chat /\ e.mseq = new_seq[p] /\ e.type = type /\ e.version = version
      BY <3>1 DEF EventOf
    <3>4. Announced(p, u, e)
      BY <1>4, <3>2, <3>3 DEF Announced
    <3> QED
      BY <2>2, <3>2, <3>4
  <2> QED
    BY <2>1, <2>2
<1>5. ASSUME NEW p \in Handlers, Writes(p), ~ MarkReadApply(p)
      PROVE  \/ user_events'[u] = user_events[u]
             \/ \E e \in user_events'[u] :
                   /\ Announced(p, u, e) /\ bumped[p][u] # 0
                   /\ user_events'[u] = user_events[u] \cup {e}
  <2>1. CASE SendCommit(p)
    BY <1>4, <2>1 DEF SendCommit
  <2>2. CASE EditCommit(p)
    <3>1. PICK version : CommitEvents(p, "edited", version)
      BY <2>2 DEF EditCommit
    <3> QED
      BY <1>4, <2>2, <3>1
  <2>3. CASE DeleteCommit(p)
    BY <1>4, <2>3 DEF DeleteCommit
  <2>4. CASE ClearCommit(p, "clear_all")
    BY <1>4, <2>4 DEF ClearCommit
  <2>5. CASE ClearCommit(p, "clear_self")
    BY <1>4, <2>5 DEF ClearCommit
  <2>6. CASE PublishCommit(p)
    BY <1>4, <2>6 DEF PublishCommit
  <2> QED
    BY <1>5, <2>1, <2>2, <2>3, <2>4, <2>5, <2>6 DEF Writes
<1> QED
  BY <1>1, <1>2, <1>3, <1>5, StepKinds

\* n is m after a write: the same message, and no less deleted.
Succeeds(n, m) ==
    /\ n.seq = m.seq /\ n.sender = m.sender /\ n.cmid = m.cmid /\ n.fanned_out = m.fanned_out
    /\ m.deleted => n.deleted

\* Edits and tombstones succeed what they rewrite.
LEMMA RewritesSucceed ==
    ASSUME NEW m \in Message
    PROVE  Succeeds(m, m) /\ Succeeds(Edited(m), m) /\ Succeeds(Tombstone(m), m)
BY DEF Succeeds, Edited, Tombstone, Message

\* Rewriting one row of a table.
LEMMA RewriteSucceeds ==
    ASSUME NEW S \in SUBSET Message, NEW x \in S, NEW y, Succeeds(y, x)
    PROVE  /\ \A m \in S : \E n \in (S \ {x}) \cup {y} : Succeeds(n, m)
           /\ \A n \in (S \ {x}) \cup {y} : \E m \in S : Succeeds(n, m)
<1>1. \A m \in S : Succeeds(m, m)
  BY RewritesSucceed
<1> HIDE DEF Succeeds
<1> QED
  BY <1>1

\* Tombstoning a prefix of a table.
LEMMA TombstonesSucceed ==
    ASSUME NEW S \in SUBSET Message, NEW w \in Nat
    PROVE  /\ \A m \in S : \E n \in TombstoneUpTo(S, w) : Succeeds(n, m)
           /\ \A n \in TombstoneUpTo(S, w) : \E m \in S :
                 Succeeds(n, m) /\ n = (IF m.seq <= w THEN Tombstone(m) ELSE m)
           /\ \A n \in TombstoneUpTo(S, w) : n.seq <= w => n.deleted
<1> DEFINE F(m) == IF m.seq <= w THEN Tombstone(m) ELSE m
<1>1. \A m \in S : Succeeds(F(m), m) /\ (F(m).seq <= w => F(m).deleted)
  <2> SUFFICES ASSUME NEW m \in S PROVE Succeeds(F(m), m) /\ (F(m).seq <= w => F(m).deleted)
    OBVIOUS
  <2>1. CASE m.seq <= w
    <3>1. Tombstone(m).deleted
      BY DEF Tombstone, Message
    <3> QED
      BY <2>1, <3>1, RewritesSucceed
  <2>2. CASE ~ (m.seq <= w)
    BY <2>2, RewritesSucceed
  <2> QED
    BY <2>1, <2>2
<1>2. TombstoneUpTo(S, w) = {F(m) : m \in S}
  BY DEF TombstoneUpTo
<1>3. \A m \in S : F(m) = (IF m.seq <= w THEN Tombstone(m) ELSE m)
  OBVIOUS
<1> HIDE DEF F, Succeeds
<1> QED
  BY <1>1, <1>2, <1>3

\* Every stored message stays, and the only message a step can add is the next of its chat.
LEMMA MessagesStep ==
    ASSUME TypeInv, RewriteWaits, ChatInv, [Next]_vars, NEW c \in Chats
    PROVE  /\ \A m \in messages[c] : \E n \in messages'[c] : Succeeds(n, m)
           /\ \A n \in messages'[c] : \/ \E m \in messages[c] : Succeeds(n, m)
                                      \/ n.seq = last_seq[c] + 1
<1> DEFINE Good(T) ==
      /\ \A m \in messages[c] : \E n \in T : Succeeds(n, m)
      /\ \A n \in T : \/ \E m \in messages[c] : Succeeds(n, m)
                      \/ n.seq = last_seq[c] + 1
<1>0. messages \in [Chats -> SUBSET Message]
  BY DEF TypeInv, TypeOK
<1>1. Good(messages[c])
  BY <1>0, RewritesSucceed
<1>2. ASSUME NEW p \in Handlers, Silent(p) \/ MarkReadApply(p) \/ PublishCommit(p)
      PROVE  messages' = messages
  BY <1>2, LockCounterFrame
     DEF rows, Silent, Opens, Gains, Names, GivesUp, MarkReadApply, PublishCommit
<1>3. ASSUME NEW d \in Chats, NEW v \in Movers, Moves(d, v) PROVE messages' = messages
  BY <1>3 DEF Moves, AddMember, RemoveMember
<1>4. ASSUME NEW p \in Handlers, SendCommit(p) PROVE Good(messages'[c])
  <2>1. PICK new : new = [seq |-> new_seq[p], sender |-> req[p].user, cmid |-> req[p].cmid,
              version |-> 0, deleted |-> FALSE, fanned_out |-> req[p].fan]
    OBVIOUS
  <2>2. messages' = [messages EXCEPT ![req[p].chat] = @ \cup {new}] /\ Sending(p)
    BY <1>4, <2>1 DEF SendCommit, Committing, Sending, HoldsChat
  <2>3. new.seq = last_seq[req[p].chat] + 1
    BY <2>1, <2>2 DEF ChatInv, SendFresh
  <2>4. messages'[c] = messages[c] \/ (c = req[p].chat /\ messages'[c] = messages[c] \cup {new})
    BY <1>0, <2>2
  <2> HIDE DEF Succeeds
  <2> QED
    BY <1>1, <2>3, <2>4
<1>5. ASSUME NEW p \in Handlers, EditCommit(p) \/ DeleteCommit(p) PROVE Good(messages'[c])
  <2>1. PICK m \in messages[req[p].chat] : \E n \in {Edited(m), Tombstone(m)} :
           messages' = [messages EXCEPT ![req[p].chat] =
                           (messages[req[p].chat] \ {m}) \cup {n}]
    BY <1>5 DEF EditCommit, DeleteCommit
  <2>2. PICK n \in {Edited(m), Tombstone(m)} :
           messages' = [messages EXCEPT ![req[p].chat] =
                           (messages[req[p].chat] \ {m}) \cup {n}]
    BY <2>1
  <2>3. req[p].chat \in Chats /\ m \in Message
    BY <1>0 DEF TypeInv, TypeOK, Request
  <2>4. Succeeds(n, m)
    BY <2>3, RewritesSucceed
  <2>5. messages'[c] = messages[c]
        \/ (c = req[p].chat /\ messages'[c] = (messages[c] \ {m}) \cup {n})
    BY <1>0, <2>2
  <2>6. CASE c = req[p].chat /\ messages'[c] = (messages[c] \ {m}) \cup {n}
    <3>1. messages[c] \in SUBSET Message /\ m \in messages[c]
      BY <1>0, <2>6
    <3>2. /\ \A x \in messages[c] : \E y \in (messages[c] \ {m}) \cup {n} : Succeeds(y, x)
          /\ \A y \in (messages[c] \ {m}) \cup {n} : \E x \in messages[c] : Succeeds(y, x)
      BY <2>4, <3>1, RewriteSucceeds
    <3> QED
      BY <2>6, <3>2
  <2> QED
    BY <1>1, <2>5, <2>6
<1>6. ASSUME NEW p \in Handlers, NEW op, ClearCommit(p, op) PROVE Good(messages'[c])
  <2>1. messages'[c] = messages[c] \/ messages'[c] = TombstoneUpTo(messages[c], new_seq[p])
    BY <1>0, <1>6 DEF ClearCommit
  <2>2. new_seq[p] \in Nat
    BY DEF TypeInv, TypeOK
  <2>3. CASE messages'[c] = TombstoneUpTo(messages[c], new_seq[p])
    BY <1>0, <2>2, <2>3, TombstonesSucceed
  <2> QED
    BY <1>1, <2>1, <2>3
<1>7. CASE Quiet
  BY <1>1, <1>7 DEF Quiet, rows
<1> QED
  BY <1>1, <1>2, <1>3, <1>4, <1>5, <1>6, <1>7, StepKinds DEF Writes

\* No event about messages points past its chat.
LEMMA EventsBoundedStep ==
    ASSUME TypeInv, RewriteWaits, LogInv, ChatInv, WatermarksHold, EventsBounded, [Next]_vars
    PROVE  EventsBounded'
<1> SUFFICES ASSUME NEW u \in Users, NEW e \in user_events'[u], e.type \in MessageTypes
             PROVE  e.mseq <= last_seq'[e.chat]
  BY DEF EventsBounded
<1>1. CASE e \in user_events[u]
  <2>1. e.mseq <= last_seq[e.chat] /\ e.chat \in Chats /\ e.mseq \in Nat
    BY <1>1 DEF EventsBounded, TypeInv, TypeOK, Event
  <2>2. last_seq[e.chat] \in Nat
    BY <2>1 DEF TypeInv, TypeOK
  <2> QED
    BY <2>1, <2>2, LastSeqMoves
<1>2. CASE e \notin user_events[u]
  <2>1. PICK p \in Handlers : Announced(p, u, e)
    BY <1>2, EventsStep
  <2>2. req[p].chat \in Chats /\ new_seq[p] \in Nat /\ last_seq \in [Chats -> Nat]
    BY DEF TypeInv, TypeOK, Request
  <2>3. CASE SendCommit(p)
    <3>1. last_seq'[req[p].chat] = new_seq[p]
      BY <2>2, <2>3 DEF SendCommit
    <3> QED
      BY <2>1, <2>2, <3>1 DEF Announced
  <2>4. CASE EditCommit(p) \/ DeleteCommit(p)
    <3>1. last_seq' = last_seq /\ \E m \in messages[req[p].chat] : m.seq = new_seq[p]
      BY <2>4 DEF EditCommit, DeleteCommit
    <3>2. new_seq[p] \in 1..last_seq[req[p].chat]
      BY <2>2, <3>1 DEF ChatInv, ChatGapFree, Numbers
    <3> QED
      BY <2>1, <2>2, <3>1, <3>2 DEF Announced
  <2>5. CASE ClearCommit(p, "clear_all")
    <3>1. last_seq' = last_seq /\ Clearing(p)
      BY <2>5 DEF ClearCommit, Committing, Clearing, HoldsChat
    <3>2. new_seq[p] = last_seq[req[p].chat]
      BY <3>1 DEF WatermarksHold
    <3> QED
      BY <2>1, <2>2, <3>1, <3>2 DEF Announced
  <2> QED
    BY <2>1, <2>3, <2>4, <2>5 DEF Announced, MessageTypes
<1> QED
  BY <1>1, <1>2

\* What was cleared for everyone stays gone.
LEMMA GoneStep ==
    ASSUME TypeInv, RewriteWaits, LogInv, ChatInv, EventsBounded, ClearedForEveryoneIsGone,
           [Next]_vars
    PROVE  ClearedForEveryoneIsGone'
<1> SUFFICES ASSUME NEW u \in Users, NEW e \in user_events'[u], e.type = "clear_all",
                    NEW n \in messages'[e.chat], n.seq <= e.mseq
             PROVE  n.deleted
  BY DEF ClearedForEveryoneIsGone
<1>1. CASE e \in user_events[u]
  <2>1. e.chat \in Chats /\ e.mseq \in Nat /\ last_seq[e.chat] \in Nat
        /\ e.mseq <= last_seq[e.chat]
    BY <1>1 DEF EventsBounded, MessageTypes, TypeInv, TypeOK, Event
  <2>2. ~ (n.seq = last_seq[e.chat] + 1)
    BY <2>1
  <2>3. PICK m \in messages[e.chat] : Succeeds(n, m)
    BY <2>1, <2>2, MessagesStep
  <2> QED
    BY <1>1, <2>3 DEF ClearedForEveryoneIsGone, Succeeds
<1>2. CASE e \notin user_events[u]
  <2>1. PICK p \in Handlers : Announced(p, u, e)
    BY <1>2, EventsStep
  <2>2. ClearCommit(p, "clear_all") /\ e.chat = req[p].chat /\ e.mseq = new_seq[p]
    BY <2>1 DEF Announced
  <2>3. req[p].chat \in Chats /\ new_seq[p] \in Nat /\ messages \in [Chats -> SUBSET Message]
    BY DEF TypeInv, TypeOK, Request
  <2>4. messages'[req[p].chat] = TombstoneUpTo(messages[req[p].chat], new_seq[p])
    BY <2>2, <2>3 DEF ClearCommit
  <2> QED
    BY <2>2, <2>3, <2>4, TombstonesSucceed
<1> QED
  BY <1>1, <1>2

\* The invariant behind what a clear takes.
ClearInv == CursorsBounded /\ WatermarksHold /\ EventsBounded /\ ClearedForEveryoneIsGone

\* It holds throughout.
LEMMA ClearInvariant == Spec => []ClearInv
<1>1. Init => ClearInv
  <2> SUFFICES ASSUME Init PROVE ClearInv
    OBVIOUS
  <2>1. CursorsBounded
    BY DEF Init, CursorsBounded
  <2>2. WatermarksHold
    BY DEF Init, WatermarksHold, Clearing, HoldsChat
  <2>3. EventsBounded /\ ClearedForEveryoneIsGone
    BY DEF Init, EventsBounded, ClearedForEveryoneIsGone
  <2> QED
    BY <2>1, <2>2, <2>3 DEF ClearInv
<1>2. TypeInv /\ RewriteWaits /\ LogInv /\ ChatInv /\ ClearInv /\ [Next]_vars => ClearInv'
  <2> SUFFICES ASSUME TypeInv, RewriteWaits, LogInv, ChatInv, ClearInv, [Next]_vars
               PROVE  ClearInv'
    OBVIOUS
  <2> USE DEF ClearInv
  <2>1. CursorsBounded'
    <3> SUFFICES ASSUME NEW c \in Chats, NEW u \in Users
                 PROVE  members'[c][u].history_cleared_seq <= last_seq'[c]
      BY DEF CursorsBounded
    <3> QED
      BY CursorsMove
  <2>2. WatermarksHold'
    BY WatermarksStep
  <2>3. EventsBounded'
    BY EventsBoundedStep
  <2>4. ClearedForEveryoneIsGone'
    BY GoneStep
  <2> QED
    BY <2>1, <2>2, <2>3, <2>4
<1> QED
  BY <1>1, <1>2, TypeInvariant, RewriteWaitsInvariant, LogInvariant, ChatInvariant, PTL DEF Spec

\* ClearHistory takes exactly what was there when it was made: no message still being written
\* gets a number at or below anybody's watermark, and what was cleared for everyone never has
\* its text again, whatever edits and sends were in flight.
THEOREM ClearExact == Spec => []ClearIsExact
<1>1. TypeInv /\ ChatInv /\ ClearInv => ClearIsExact
  <2> SUFFICES ASSUME TypeInv, ChatInv, ClearInv, NEW c \in Chats, NEW u \in Users
               PROVE  /\ members[c][u].history_cleared_seq <= last_seq[c]
                      /\ \A p \in Handlers :
                           req[p].op = "send" /\ HoldsChat(p) /\ req[p].chat = c =>
                              new_seq[p] > members[c][u].history_cleared_seq
    BY DEF ClearIsExact, ClearHidesOnlyThePast, ClearInv
  <2>1. /\ members[c][u].history_cleared_seq <= last_seq[c]
        /\ members[c][u] \in Member /\ last_seq[c] \in Nat
    BY DEF ClearInv, CursorsBounded, TypeInv, TypeOK
  <2>2. members[c][u].history_cleared_seq \in Nat
    BY <2>1 DEF Member
  <2> QED
    BY <2>1, <2>2 DEF ChatInv, SendFresh, Sending
<1> QED
  BY <1>1, ClearInvariant, TypeInvariant, ChatInvariant, PTL

-----------------------------------------------------------------------------
(* What a replayed log shows.  Three things make it true: a transaction    *)
(* that rewrites a message has the row to itself; everybody in the chat    *)
(* who was there before the message is told; and the event goes on top of  *)
(* their logs.                                                             *)

Rewriting(p) == pc[p] = "lock_counters" /\ req[p].op \in {"edit", "delete"}

RewriteHolds ==
    \A p \in Handlers : Rewriting(p) =>
        /\ \E m \in messages[req[p].chat] : m.seq = new_seq[p] /\ ~ m.deleted
        /\ \A q \in Handlers : HoldsMessage(q, req[p].chat, new_seq[p]) => q = p

\* The users a transaction tells, their counters locked or still to be locked.
Taken(p) == todo[p] \cup Recipients(p)

EveryoneIsTold ==
    \A p \in Handlers : pc[p] = "lock_counters" =>
        \A u \in Joined(req[p].chat) :
            \/ req[p].op = "send" /\ req[p].fan
            \/ req[p].op = "clear_all"
            \/ Rewriting(p) /\ new_seq[p] > members[req[p].chat][u].joined_at
            => u \in Taken(p)

\* A rewrite that continues still has its message.
LEMMA RewriteKeepsMessage ==
    ASSUME TypeInv, RewriteWaits, ChatInv, WatermarksHold, RewriteHolds, [Next]_vars,
           NEW q \in Handlers, Rewriting(q), pc'[q] = pc[q]
    PROVE  \E m \in messages'[req[q].chat] : m.seq = new_seq[q] /\ ~ m.deleted
<1> DEFINE c == req[q].chat
           s == new_seq[q]
<1>0. /\ c \in Chats /\ s \in Nat /\ last_seq[c] \in Nat
      /\ messages \in [Chats -> SUBSET Message] /\ pc'[q] = "lock_counters"
  BY DEF TypeInv, TypeOK, Request, Rewriting
<1>1. PICK m \in messages[c] : m.seq = s /\ ~ m.deleted
  BY DEF RewriteHolds
<1>2. \A p \in Handlers : HoldsMessage(p, c, s) => p = q
  BY DEF RewriteHolds
<1>3. m.seq <= last_seq[c]
  BY <1>0, <1>1 DEF ChatInv, ChatGapFree, Numbers
<1> SUFFICES m \in messages'[c]
  BY <1>1
<1>4. CASE Quiet
  BY <1>4 DEF Quiet, rows
<1>5. ASSUME NEW p \in Handlers, Silent(p) \/ MarkReadApply(p) \/ PublishCommit(p)
      PROVE  messages' = messages
  BY <1>5, LockCounterFrame
     DEF rows, Silent, Opens, Gains, Names, GivesUp, MarkReadApply, PublishCommit
<1>6. ASSUME NEW d \in Chats, NEW v \in Movers, Moves(d, v) PROVE messages' = messages
  BY <1>6 DEF Moves, AddMember, RemoveMember
<1>7. ASSUME NEW p \in Handlers, Writes(p) PROVE p # q
  <2>1. pc'[p] = "idle"
    BY <1>7, WritesRelease, ReleaseFrame
  <2> QED
    BY <1>0, <2>1
<1>8. ASSUME NEW p \in Handlers, SendCommit(p) PROVE m \in messages'[c]
  BY <1>0, <1>8 DEF SendCommit
<1>9. ASSUME NEW p \in Handlers, EditCommit(p) \/ DeleteCommit(p) PROVE m \in messages'[c]
  <2>1. PICK x \in messages[req[p].chat] : x.seq = new_seq[p] /\ \E y :
           messages' = [messages EXCEPT ![req[p].chat] = (messages[req[p].chat] \ {x}) \cup {y}]
    BY <1>9 DEF EditCommit, DeleteCommit
  <2>2. HoldsMessage(p, req[p].chat, new_seq[p])
    BY <1>9 DEF EditCommit, DeleteCommit, Committing, HoldsMessage
  <2>3. p # q
    BY <1>7, <1>9 DEF Writes
  <2>4. req[p].chat = c => new_seq[p] # s
    BY <1>2, <2>2, <2>3
  <2> QED
    BY <1>0, <1>1, <2>1, <2>4
<1>10. ASSUME NEW p \in Handlers, NEW op \in {"clear_all", "clear_self"}, ClearCommit(p, op)
       PROVE  m \in messages'[c]
  <2>1. p # q
    BY <1>7, <1>10 DEF Writes
  <2>2. CASE op = "clear_all" /\ req[p].chat = c
    <3>1. Clearing(p) /\ pc[p] = "lock_counters" /\ req[p].op = "clear_all"
      BY <1>10, <2>2 DEF ClearCommit, Committing, Clearing, HoldsChat
    <3>2. new_seq[p] = last_seq[c]
      BY <2>2, <3>1 DEF WatermarksHold
    <3>3. HoldsMessage(p, c, s)
      BY <1>1, <1>3, <2>2, <3>1, <3>2 DEF HoldsMessage
    <3> QED
      BY <1>2, <2>1, <3>3
  <2>3. CASE ~ (op = "clear_all" /\ req[p].chat = c)
    BY <1>0, <1>10, <2>3 DEF ClearCommit
  <2> QED
    BY <2>2, <2>3
<1> QED
  BY <1>4, <1>5, <1>6, <1>8, <1>9, <1>10, StepKinds DEF Writes

\* A transaction that rewrites a message has the row to itself until it commits.
LEMMA RewriteHoldsStep ==
    ASSUME TypeInv, RewriteWaits, ChatInv, WatermarksHold, RewriteHolds, [Next]_vars
    PROVE  RewriteHolds'
<1> SUFFICES ASSUME NEW q \in Handlers, Rewriting(q)'
             PROVE  /\ \E m \in messages'[req'[q].chat] : m.seq = new_seq'[q] /\ ~ m.deleted
                    /\ \A r \in Handlers :
                          HoldsMessage(r, req[q].chat, new_seq[q])' => r = q
  BY DEF RewriteHolds
<1>0. pc'[q] = "lock_counters" /\ req'[q].op \in {"edit", "delete"}
  BY DEF Rewriting
<1>1. CASE pc'[q] = pc[q] /\ req'[q] = req[q] /\ new_seq'[q] = new_seq[q]
  <2>0. Rewriting(q)
    BY <1>0, <1>1 DEF Rewriting
  <2>1. \E m \in messages'[req[q].chat] : m.seq = new_seq[q] /\ ~ m.deleted
    BY <1>1, <2>0, RewriteKeepsMessage
  <2>2. /\ HoldsMessage(q, req[q].chat, new_seq[q])
        /\ \E m \in messages[req[q].chat] : m.seq = new_seq[q]
        /\ \A r \in Handlers : HoldsMessage(r, req[q].chat, new_seq[q]) => r = q
    BY <2>0 DEF Rewriting, HoldsMessage, RewriteHolds
  <2>3. ASSUME NEW r \in Handlers, HoldsMessage(r, req[q].chat, new_seq[q])' PROVE r = q
    <3>0. /\ pc'[r] = "lock_counters" /\ req'[r].chat = req[q].chat
          /\ \/ req'[r].op \in {"edit", "delete"} /\ new_seq'[r] = new_seq[q]
             \/ req'[r].op = "clear_all" /\ new_seq[q] <= new_seq'[r]
      BY <1>1, <2>3 DEF HoldsMessage
    <3>1. CASE pc'[r] = pc[r] /\ req'[r] = req[r] /\ new_seq'[r] = new_seq[r]
      BY <2>2, <3>0, <3>1 DEF HoldsMessage
    <3>2. CASE Names(r)
      BY <2>2, <3>0, <3>2 DEF Names, MessageLocked
    <3>3. CASE Opens(r) \/ Gains(r) \/ pc'[r] = "idle"
      BY <3>0, <3>3 DEF Opens, Gains
    <3> QED
      BY <3>1, <3>2, <3>3, HandlerMoves
  <2> QED
    BY <1>1, <2>1, <2>3
<1>2. CASE Names(q)
  <2>1. /\ req'[q] = req[q] /\ new_seq'[q] = new_seq[q] /\ messages' = messages
        /\ ~ MessageLocked(req[q].chat, new_seq[q])
        /\ \E m \in messages[req[q].chat] : m.seq = new_seq[q] /\ ~ m.deleted
    BY <1>0, <1>2 DEF Names, rows
  <2>2. ASSUME NEW r \in Handlers, r # q, HoldsMessage(r, req[q].chat, new_seq[q])' PROVE FALSE
    <3>1. pc'[r] = pc[r] /\ req'[r] = req[r] /\ new_seq'[r] = new_seq[r]
      BY <1>2, <2>2 DEF Names, Others
    <3> QED
      BY <2>1, <2>2, <3>1 DEF HoldsMessage, MessageLocked
  <2> QED
    BY <2>1, <2>2
<1>3. CASE Opens(q) \/ Gains(q) \/ pc'[q] = "idle"
  BY <1>0, <1>3 DEF Opens, Gains
<1> QED
  BY <1>1, <1>2, <1>3, HandlerMoves

\* Who is in a chat after a step was in it before, on the same terms, or has just joined with
\* nobody holding the chat.
LEMMA JoinedStep ==
    ASSUME TypeInv, RewriteWaits, ChatInv, CursorsBounded, WatermarksHold, [Next]_vars,
           NEW c \in Chats, NEW u \in Users, members'[c][u].joined
    PROVE  \/ members[c][u].joined /\ members'[c][u].joined_at = members[c][u].joined_at
           \/ /\ ~ ChatLocked(c) /\ members'[c][u].joined_at = last_seq[c]
              /\ UNCHANGED <<messages, user_events, pc, req, new_seq, todo, bumped>>
<1>0. members \in [Chats -> [Users -> Member]]
  BY DEF TypeInv, TypeOK
<1>1. CASE members' = members
  BY <1>1
<1>2. ASSUME NEW p \in Handlers, Silent(p) PROVE members' = members
  BY <1>2, LockCounterFrame DEF rows, Silent, Opens, Gains, Names, GivesUp
<1>3. ASSUME NEW p \in Handlers, Writes(p)
      PROVE  members[c][u].joined /\ members'[c][u].joined_at = members[c][u].joined_at
  BY <1>3, RowMoves
<1>4. ASSUME NEW d \in Chats, NEW v \in Movers, AddMember(d, v)
      PROVE  \/ members[c][u].joined /\ members'[c][u].joined_at = members[c][u].joined_at
             \/ /\ ~ ChatLocked(c) /\ members'[c][u].joined_at = last_seq[c]
                /\ UNCHANGED <<messages, user_events, pc, req, new_seq, todo, bumped>>
  <2>1. /\ members' = [members EXCEPT ![d][v] =
              [members[d][v] EXCEPT !.joined = TRUE, !.joined_at = last_seq[d]]]
        /\ v \in Users
    BY <1>4, MoversAssumption DEF AddMember
  <2>2. CASE c = d /\ u = v
    <3>1. members'[c][u] = [members[d][v] EXCEPT !.joined = TRUE, !.joined_at = last_seq[d]]
      BY <1>0, <2>1, <2>2
    <3>2. members[d][v] \in Member
      BY <1>0, <2>1
    <3>3. members'[c][u].joined_at = last_seq[c]
      BY <2>2, <3>1, <3>2 DEF Member
    <3> QED
      BY <1>4, <2>2, <3>3 DEF AddMember
  <2>3. CASE ~ (c = d /\ u = v)
    <3>1. members'[c][u] = members[c][u]
      BY <1>0, <2>1, <2>3
    <3> QED
      BY <3>1
  <2> QED
    BY <2>2, <2>3
<1>5. ASSUME NEW d \in Chats, NEW v \in Movers, RemoveMember(d, v)
      PROVE  members[c][u].joined /\ members'[c][u].joined_at = members[c][u].joined_at
  <2>1. /\ members' = [members EXCEPT ![d][v] = [members[d][v] EXCEPT !.joined = FALSE]]
        /\ v \in Users /\ members[d][v] \in Member
    BY <1>0, <1>5, MoversAssumption DEF RemoveMember
  <2>2. members'[c][u] = members[c][u]
        \/ members'[c][u] = [members[d][v] EXCEPT !.joined = FALSE]
    BY <1>0, <2>1
  <2>3. ~ [members[d][v] EXCEPT !.joined = FALSE].joined
    BY <2>1 DEF Member
  <2> QED
    BY <2>2, <2>3
<1>6. CASE Quiet
  BY <1>1, <1>6 DEF Quiet, rows
<1> QED
  BY <1>1, <1>2, <1>3, <1>4, <1>5, <1>6, StepKinds DEF Moves

\* Locking a counter forgets nobody.
LEMMA LockKeepsTaken ==
    ASSUME TypeInv, NEW p \in Handlers, LockCounter(p), NEW u \in Users, u \in Taken(p)
    PROVE  u \in Taken(p)'
<1>1. PICK v : v = NextCounter(p)
  OBVIOUS
<1>2. /\ todo'[p] = todo[p] \ {v}
      /\ bumped'[p] = [bumped[p] EXCEPT ![v] = event_last_seq[v] + 1]
  BY <1>1, LockCounterFrame
<1>3. bumped[p] \in [Users -> Nat] /\ event_last_seq \in [Users -> Nat]
  BY DEF TypeInv, TypeOK
<1>4. CASE u = v
  <2>1. bumped'[p][u] = event_last_seq[u] + 1 /\ event_last_seq[u] \in Nat
    BY <1>2, <1>3, <1>4
  <2>2. bumped'[p][u] # 0
    BY <2>1
  <2> QED
    BY <2>2 DEF Taken, Recipients
<1>5. CASE u # v
  <2>1. bumped'[p][u] = bumped[p][u]
    BY <1>2, <1>3, <1>5
  <2> QED
    BY <1>2, <1>5, <2>1 DEF Taken, Recipients
<1> QED
  BY <1>4, <1>5

\* Everybody who has to be told is, whoever joins or leaves meanwhile.
LEMMA EveryoneIsToldStep ==
    ASSUME TypeInv, RewriteWaits, ChatInv, CursorsBounded, WatermarksHold, RewriteHolds,
           EveryoneIsTold, [Next]_vars
    PROVE  EveryoneIsTold'
<1> SUFFICES ASSUME NEW q \in Handlers, pc'[q] = "lock_counters",
                    NEW u \in Users, members'[req'[q].chat][u].joined,
                    \/ req'[q].op = "send" /\ req'[q].fan
                    \/ req'[q].op = "clear_all"
                    \/ /\ req'[q].op \in {"edit", "delete"}
                       /\ new_seq'[q] > members'[req'[q].chat][u].joined_at
             PROVE  u \in Taken(q)'
  BY DEF EveryoneIsTold, Joined, Rewriting
<1>0. /\ req[q].chat \in Chats /\ last_seq[req[q].chat] \in Nat /\ new_seq[q] \in Nat
      /\ members[req[q].chat][u] \in Member
  BY DEF TypeInv, TypeOK, Request
<1>1. CASE /\ pc'[q] = pc[q] /\ req'[q] = req[q] /\ new_seq'[q] = new_seq[q]
           /\ (todo'[q] = todo[q] /\ bumped'[q] = bumped[q]) \/ LockCounter(q)
  <2>1. u \in Taken(q) => u \in Taken(q)'
    <3>1. CASE todo'[q] = todo[q] /\ bumped'[q] = bumped[q]
      BY <3>1 DEF Taken, Recipients
    <3> QED
      BY <1>1, <3>1, LockKeepsTaken
  <2>2. CASE /\ members[req[q].chat][u].joined
             /\ members'[req[q].chat][u].joined_at = members[req[q].chat][u].joined_at
    <3>1. u \in Taken(q)
      BY <1>1, <2>2 DEF EveryoneIsTold, Joined, Rewriting
    <3> QED
      BY <2>1, <3>1
  <2>3. CASE ~ ChatLocked(req[q].chat) /\ members'[req[q].chat][u].joined_at = last_seq[req[q].chat]
    <3>1. ~ HoldsChat(q)
      BY <2>3 DEF ChatLocked
    <3>2. Rewriting(q) /\ new_seq[q] > last_seq[req[q].chat]
      BY <1>1, <2>3, <3>1 DEF HoldsChat, Rewriting
    <3>3. new_seq[q] \in 1..last_seq[req[q].chat]
      BY <1>0, <3>2 DEF RewriteHolds, ChatInv, ChatGapFree, Numbers
    <3> QED
      BY <1>0, <3>2, <3>3
  <2> QED
    BY <1>0, <1>1, <2>2, <2>3, JoinedStep
<1>2. CASE Names(q)
  <2>1. u \in todo'[q]
    BY <1>2 DEF Names, rows, Joined
  <2> QED
    BY <2>1 DEF Taken
<1>3. CASE Opens(q) \/ Gains(q) \/ pc'[q] = "idle"
  BY <1>3 DEF Opens, Gains
<1> QED
  BY <1>1, <1>2, <1>3, HandlerMoves

\* The new event is the last of its log.
LEMMA AppendedOnTop ==
    ASSUME TypeInv, LogInv, NEW u \in Users, NEW e, e.seq = event_last_seq[u] + 1,
           user_events'[u] = user_events[u] \cup {e}
    PROVE  \A f \in user_events'[u] : f.seq <= e.seq /\ (f \in user_events[u] => f.seq < e.seq)
<1>1. event_last_seq[u] \in Nat
  BY DEF TypeInv, TypeOK
<1>2. \A f \in user_events[u] : f.seq \in 1..event_last_seq[u]
  BY DEF LogInv, LogGapFree, Numbers
<1> QED
  BY <1>1, <1>2

\* A log announces the messages of a chat in the chat's order: a send takes the next number of
\* the chat, and the next number of each log, under both locks.
LEMMA ChatOrderStep ==
    ASSUME TypeInv, RewriteWaits, LogInv, ChatInv, EventsBounded, NewEventsInChatOrder,
           [Next]_vars
    PROVE  NewEventsInChatOrder'
<1> SUFFICES ASSUME NEW u \in Users, NEW e \in user_events'[u], NEW f \in user_events'[u],
                    e.type = "new", f.type = "new", e.chat = f.chat, e.seq < f.seq
             PROVE  e.mseq < f.mseq
  BY DEF NewEventsInChatOrder
<1>1. CASE user_events'[u] = user_events[u]
  BY <1>1 DEF NewEventsInChatOrder
<1>2. ASSUME NEW p \in Handlers, NEW g \in user_events'[u], Announced(p, u, g),
             user_events'[u] = user_events[u] \cup {g}
      PROVE  e.mseq < f.mseq
  <2>1. \A h \in user_events'[u] : h.seq <= g.seq /\ (h \in user_events[u] => h.seq < g.seq)
    BY <1>2, AppendedOnTop DEF Announced
  <2>2. \A h \in user_events[u] : h.seq \in Nat
    BY DEF TypeInv, TypeOK, Event
  <2>3. g.seq \in Nat
    BY <1>2 DEF Announced, TypeInv, TypeOK
  <2>4. CASE e \in user_events[u] /\ f \in user_events[u]
    BY <2>4 DEF NewEventsInChatOrder
  <2>5. CASE f = g /\ e \in user_events[u]
    <3>1. SendCommit(p) /\ f.chat = req[p].chat /\ f.mseq = new_seq[p]
      BY <1>2, <2>5 DEF Announced
    <3>2. Sending(p)
      BY <3>1 DEF SendCommit, Committing, Sending, HoldsChat
    <3>3. new_seq[p] = last_seq[f.chat] + 1
      BY <3>1, <3>2 DEF ChatInv, SendFresh
    <3>4. e.mseq <= last_seq[e.chat] /\ e.mseq \in Nat /\ e.chat \in Chats
      BY <2>5 DEF EventsBounded, MessageTypes, TypeInv, TypeOK, Event
    <3>5. last_seq[e.chat] \in Nat
      BY <3>4 DEF TypeInv, TypeOK
    <3> QED
      BY <3>1, <3>3, <3>4, <3>5
  <2>6. CASE e = g
    BY <2>1, <2>2, <2>3, <2>6, <1>2
  <2> QED
    BY <1>2, <2>4, <2>5, <2>6
<1> QED
  BY <1>1, <1>2, EventsStep

\* A device that replays the log of u shows m of c as it is.
Converged(u, c, m) ==
    \E e \in About(u, c, m) : Shows(e, m) /\ \A f \in About(u, c, m) : f.seq <= e.seq

\* An event that is not about m leaves what is shown for m.
LEMMA NotAboutIt ==
    ASSUME NEW u \in Users, NEW c \in Chats, NEW m, Converged(u, c, m),
           \/ user_events'[u] = user_events[u]
           \/ \E e : /\ user_events'[u] = user_events[u] \cup {e}
                     /\ \/ e.chat # c
                        \/ e.type \in {"clear_self", "other"}
                        \/ e.type \in {"new", "edited", "deleted"} /\ e.mseq # m.seq
    PROVE  Converged(u, c, m)'
<1>1. About(u, c, m)' = About(u, c, m)
  BY DEF About
<1>2. PICK e \in About(u, c, m) : Shows(e, m) /\ \A f \in About(u, c, m) : f.seq <= e.seq
  BY DEF Converged
<1> QED
  BY <1>1, <1>2 DEF Converged, Shows

\* An event that is about m and says what m is now settles it.
LEMMA SaysIt ==
    ASSUME TypeInv, LogInv, NEW u \in Users, NEW c \in Chats, NEW m, NEW e,
           e.seq = event_last_seq[u] + 1, user_events'[u] = user_events[u] \cup {e},
           e.chat = c, Shows(e, m),
           \/ e.type \in {"new", "edited", "deleted"} /\ e.mseq = m.seq
           \/ e.type = "clear_all" /\ m.seq <= e.mseq
    PROVE  Converged(u, c, m)'
<1>1. \A f \in user_events'[u] : f.seq <= e.seq
  BY AppendedOnTop
<1>2. e \in About(u, c, m)'
  BY DEF About
<1>3. \A f \in About(u, c, m)' : f.seq <= e.seq
  BY <1>1 DEF About
<1> QED
  BY <1>2, <1>3 DEF Converged, Shows

\* A log keeps up with the commit of a send.
LEMMA SendConverges ==
    ASSUME TypeInv, LogInv, ChatInv, EventsBounded, EveryoneIsTold,
           NEW p \in Handlers, SendCommit(p),
           NEW c \in Chats, NEW u \in Users, NEW n \in messages'[c],
           members[c][u].joined, n.fanned_out, n \in messages[c] => Converged(u, c, n)
    PROVE  Converged(u, c, n)'
<1>0. /\ Sending(p) /\ todo[p] = {} /\ pc[p] = "lock_counters" /\ req[p].op = "send"
      /\ req[p].chat \in Chats /\ messages \in [Chats -> SUBSET Message]
      /\ last_seq[c] \in Nat /\ CommitEvents(p, "new", 0)
  BY DEF SendCommit, Committing, Sending, HoldsChat, TypeInv, TypeOK, Request
<1>1. new_seq[p] = last_seq[req[p].chat] + 1
  BY <1>0 DEF ChatInv, SendFresh
<1>2. PICK new : new = [seq |-> new_seq[p], sender |-> req[p].user, cmid |-> req[p].cmid,
              version |-> 0, deleted |-> FALSE, fanned_out |-> req[p].fan]
  OBVIOUS
<1>3. messages' = [messages EXCEPT ![req[p].chat] = @ \cup {new}]
  BY <1>2 DEF SendCommit
<1>4. PICK e : e = EventOf(p, u, "new", 0)
  OBVIOUS
<1>5. e.chat = req[p].chat /\ e.type = "new" /\ e.mseq = new_seq[p] /\ e.version = 0
  BY <1>4 DEF EventOf
<1>6. \/ bumped[p][u] = 0 /\ user_events'[u] = user_events[u]
      \/ /\ user_events'[u] = user_events[u] \cup {e}
         /\ e.seq = event_last_seq[u] + 1
  BY <1>0, <1>4, CommitAppends
<1>7. CASE n \in messages[c]
  <2>1. n.seq \in 1..last_seq[c]
    BY <1>7 DEF ChatInv, ChatGapFree, Numbers
  <2>2. e.chat # c \/ e.mseq # n.seq
    BY <1>0, <1>1, <1>5, <2>1
  <2> QED
    BY <1>5, <1>6, <1>7, <2>2, NotAboutIt
<1>8. CASE n \notin messages[c]
  <2>1. c = req[p].chat /\ n = new
    BY <1>0, <1>3, <1>8
  <2>2. n.seq = new_seq[p] /\ ~ n.deleted /\ n.version = 0 /\ n.fanned_out = req[p].fan
    BY <1>2, <2>1
  <2>3. u \in Taken(p)
    BY <1>0, <2>1, <2>2 DEF EveryoneIsTold, Joined
  <2>4. bumped[p][u] # 0
    BY <1>0, <2>3 DEF Taken, Recipients
  <2>5. user_events'[u] = user_events[u] \cup {e} /\ e.seq = event_last_seq[u] + 1
    BY <1>6, <2>4
  <2>6. Shows(e, n)
    BY <1>5, <2>2 DEF Shows
  <2> QED
    BY <1>5, <2>1, <2>2, <2>5, <2>6, SaysIt
<1> QED
  BY <1>7, <1>8

\* A log keeps up with the commit of an edit or of a deletion.
LEMMA RewriteConverges ==
    ASSUME TypeInv, LogInv, ChatInv, RewriteHolds, EveryoneIsTold,
           NEW p \in Handlers, EditCommit(p) \/ DeleteCommit(p),
           NEW c \in Chats, NEW u \in Users, NEW n \in messages'[c],
           members[c][u].joined, n.fanned_out, n.seq > members[c][u].joined_at,
           n \in messages[c] => Converged(u, c, n)
    PROVE  Converged(u, c, n)'
<1>0. /\ Rewriting(p) /\ todo[p] = {} /\ pc[p] = "lock_counters"
      /\ req[p].chat \in Chats /\ messages \in [Chats -> SUBSET Message]
  BY DEF EditCommit, DeleteCommit, Committing, Rewriting, TypeInv, TypeOK, Request
<1>1. \A x \in messages[req[p].chat] : x.seq = new_seq[p] => ~ x.deleted
  BY <1>0 DEF RewriteHolds, ChatInv, ChatGapFree
<1> DEFINE Rewrote(x, y, type, version) ==
         /\ x.seq = new_seq[p]
         /\ messages' = [messages EXCEPT ![req[p].chat] = (messages[req[p].chat] \ {x}) \cup {y}]
         /\ CommitEvents(p, type, version)
         /\ \/ type = "edited" /\ y = Edited(x) /\ version = x.version + 1
            \/ type = "deleted" /\ y = Tombstone(x)
<1>a. \E x \in messages[req[p].chat] : \E y, type, version : Rewrote(x, y, type, version)
  <2>1. CASE EditCommit(p)
    <3>1. PICK x \in messages[req[p].chat] : Rewrote(x, Edited(x), "edited", x.version + 1)
      BY <2>1 DEF EditCommit
    <3> HIDE DEF Rewrote
    <3> QED
      BY <3>1
  <2>2. CASE DeleteCommit(p)
    <3>1. PICK x \in messages[req[p].chat] : Rewrote(x, Tombstone(x), "deleted", 0)
      BY <2>2 DEF DeleteCommit
    <3> HIDE DEF Rewrote
    <3> QED
      BY <3>1
  <2> QED
    BY <2>1, <2>2
<1>b. PICK x \in messages[req[p].chat] : \E y, type, version : Rewrote(x, y, type, version)
  BY <1>a
<1>2. PICK y, type, version : Rewrote(x, y, type, version)
  BY <1>b
<1>3. x \in Message
  BY <1>0
<1>4. y.seq = x.seq
  BY <1>2, <1>3, RewritesSucceed DEF Succeeds
<1>5. PICK e : e = EventOf(p, u, type, version)
  OBVIOUS
<1>6. e.chat = req[p].chat /\ e.type = type /\ e.mseq = new_seq[p] /\ e.version = version
  BY <1>5 DEF EventOf
<1>7. \/ bumped[p][u] = 0 /\ user_events'[u] = user_events[u]
      \/ user_events'[u] = user_events[u] \cup {e} /\ e.seq = event_last_seq[u] + 1
  BY <1>2, <1>5, CommitAppends
<1>8. CASE c = req[p].chat /\ n = y
  <2>1. u \in Taken(p)
    BY <1>0, <1>2, <1>4, <1>8 DEF EveryoneIsTold, Joined
  <2>2. bumped[p][u] # 0
    BY <1>0, <2>1 DEF Taken, Recipients
  <2>3. user_events'[u] = user_events[u] \cup {e} /\ e.seq = event_last_seq[u] + 1
    BY <1>7, <2>2
  <2>4. Shows(e, n)
    <3>1. CASE type = "edited"
      <4>1. n = Edited(x) /\ ~ x.deleted /\ version = x.version + 1
        BY <1>1, <1>2, <1>8, <3>1
      <4>2. ~ n.deleted /\ n.version = x.version + 1
        BY <1>3, <4>1 DEF Edited, Message
      <4> QED
        BY <1>6, <3>1, <4>1, <4>2 DEF Shows
    <3>2. CASE type = "deleted"
      <4>1. n.deleted
        BY <1>2, <1>3, <1>8, <3>2 DEF Tombstone, Message
      <4> QED
        BY <1>6, <3>2, <4>1 DEF Shows
    <3> QED
      BY <1>2, <3>1, <3>2
  <2> QED
    BY <1>2, <1>4, <1>6, <1>8, <2>3, <2>4, SaysIt
<1>9. CASE ~ (c = req[p].chat /\ n = y)
  <2>1. n \in messages[c] /\ (c # req[p].chat \/ n # x)
    BY <1>0, <1>2, <1>9
  <2>2. c # req[p].chat \/ n.seq # x.seq
    BY <1>0, <2>1 DEF ChatInv, ChatGapFree
  <2> QED
    BY <1>2, <1>6, <1>7, <2>1, <2>2, NotAboutIt
<1> QED
  BY <1>8, <1>9

\* A log keeps up with the commit of a clear.
LEMMA ClearConverges ==
    ASSUME TypeInv, LogInv, ChatInv, WatermarksHold, EveryoneIsTold,
           NEW p \in Handlers, NEW op \in {"clear_all", "clear_self"}, ClearCommit(p, op),
           NEW c \in Chats, NEW u \in Users, NEW n \in messages'[c],
           members[c][u].joined, n \in messages[c] => Converged(u, c, n)
    PROVE  Converged(u, c, n)'
<1>0. /\ Clearing(p) /\ todo[p] = {} /\ pc[p] = "lock_counters" /\ req[p].op = op
      /\ req[p].chat \in Chats /\ messages \in [Chats -> SUBSET Message]
      /\ last_seq[c] \in Nat /\ new_seq[p] \in Nat /\ CommitEvents(p, op, 0)
      /\ messages' = [messages EXCEPT ![req[p].chat] =
            IF op = "clear_all" THEN TombstoneUpTo(messages[req[p].chat], new_seq[p])
            ELSE messages[req[p].chat]]
  BY DEF ClearCommit, Committing, Clearing, HoldsChat, TypeInv, TypeOK, Request
<1>1. PICK e : e = EventOf(p, u, op, 0)
  OBVIOUS
<1>2. e.chat = req[p].chat /\ e.type = op /\ e.mseq = new_seq[p]
  BY <1>1 DEF EventOf
<1>3. \/ bumped[p][u] = 0 /\ user_events'[u] = user_events[u]
      \/ user_events'[u] = user_events[u] \cup {e} /\ e.seq = event_last_seq[u] + 1
  BY <1>0, <1>1, CommitAppends
<1>4. CASE op = "clear_all" /\ c = req[p].chat
  <2>1. messages'[c] = TombstoneUpTo(messages[c], new_seq[p])
    BY <1>0, <1>4
  <2>2. PICK m \in messages[c] : n.seq = m.seq
    BY <1>0, <2>1, TombstonesSucceed DEF Succeeds
  <2>3. n.seq \in 1..last_seq[c]
    BY <2>2 DEF ChatInv, ChatGapFree, Numbers
  <2>4. new_seq[p] = last_seq[c]
    BY <1>0, <1>4 DEF WatermarksHold
  <2>5. n.seq <= new_seq[p]
    BY <1>0, <2>3, <2>4
  <2>6. n.deleted
    BY <1>0, <2>1, <2>5, TombstonesSucceed
  <2>7. u \in Taken(p)
    BY <1>0, <1>4 DEF EveryoneIsTold, Joined
  <2>8. bumped[p][u] # 0
    BY <1>0, <2>7 DEF Taken, Recipients
  <2>9. user_events'[u] = user_events[u] \cup {e} /\ e.seq = event_last_seq[u] + 1
    BY <1>3, <2>8
  <2>10. Shows(e, n)
    BY <1>2, <1>4, <2>6 DEF Shows
  <2> QED
    BY <1>2, <1>4, <2>5, <2>9, <2>10, SaysIt
<1>5. CASE ~ (op = "clear_all" /\ c = req[p].chat)
  <2>1. n \in messages[c]
    BY <1>0, <1>5
  <2>2. c # req[p].chat \/ op = "clear_self"
    BY <1>5
  <2> QED
    BY <1>2, <1>3, <2>1, <2>2, NotAboutIt
<1> QED
  BY <1>4, <1>5

\* Every log keeps up with every step.
LEMMA ConvergesStep ==
    ASSUME TypeInv, RewriteWaits, LogInv, ChatInv, CursorsBounded, WatermarksHold, EventsBounded,
           RewriteHolds, EveryoneIsTold, ReplayConverges, [Next]_vars
    PROVE  ReplayConverges'
<1> SUFFICES ASSUME NEW c \in Chats, NEW u \in Users, NEW n \in messages'[c],
                    members'[c][u].joined, n.fanned_out, n.seq > members'[c][u].joined_at
             PROVE  Converged(u, c, n)'
  BY DEF ReplayConverges, Converged
<1>1. CASE members[c][u].joined /\ members'[c][u].joined_at = members[c][u].joined_at
  <2>0. n \in messages[c] => Converged(u, c, n)
    BY <1>1 DEF ReplayConverges, Converged
  <2>1. CASE messages' = messages /\ user_events' = user_events
    BY <2>0, <2>1, NotAboutIt
  <2>2. ASSUME NEW p \in Handlers, Silent(p) \/ MarkReadApply(p)
        PROVE  messages' = messages /\ user_events' = user_events
    BY <2>2, LockCounterFrame DEF rows, Silent, Opens, Gains, Names, GivesUp, MarkReadApply
  <2>3. ASSUME NEW d \in Chats, NEW v \in Movers, Moves(d, v)
        PROVE  messages' = messages /\ user_events' = user_events
    BY <2>3 DEF Moves, AddMember, RemoveMember
  <2>4. ASSUME NEW p \in Handlers, PublishCommit(p) PROVE Converged(u, c, n)'
    <3>1. messages' = messages /\ CommitEvents(p, "other", 0)
      BY <2>4 DEF PublishCommit
    <3>2. PICK e : e = EventOf(p, u, "other", 0)
      OBVIOUS
    <3>3. e.type = "other"
      BY <3>2 DEF EventOf
    <3>4. user_events'[u] = user_events[u] \/ user_events'[u] = user_events[u] \cup {e}
      BY <3>1, <3>2, CommitAppends
    <3> QED
      BY <2>0, <3>1, <3>3, <3>4, NotAboutIt
  <2>5. ASSUME NEW p \in Handlers, SendCommit(p) PROVE Converged(u, c, n)'
    BY <1>1, <2>0, <2>5, SendConverges
  <2>6. ASSUME NEW p \in Handlers, EditCommit(p) \/ DeleteCommit(p) PROVE Converged(u, c, n)'
    BY <1>1, <2>0, <2>6, RewriteConverges
  <2>7. ASSUME NEW p \in Handlers, NEW op \in {"clear_all", "clear_self"}, ClearCommit(p, op)
        PROVE  Converged(u, c, n)'
    BY <1>1, <2>0, <2>7, ClearConverges
  <2>8. CASE Quiet
    BY <2>1, <2>8 DEF Quiet, rows
  <2> QED
    BY <2>1, <2>2, <2>3, <2>4, <2>5, <2>6, <2>7, <2>8, StepKinds DEF Writes
<1>2. CASE members'[c][u].joined_at = last_seq[c] /\ UNCHANGED <<messages, user_events>>
  <2>1. n.seq \in 1..last_seq[c] /\ last_seq[c] \in Nat
    BY <1>2 DEF ChatInv, ChatGapFree, Numbers, TypeInv, TypeOK
  <2> QED
    BY <1>2, <2>1
<1> QED
  BY <1>1, <1>2, JoinedStep

\* The invariant behind a faithful replay.
ReplayInv == RewriteHolds /\ EveryoneIsTold /\ NewEventsInChatOrder /\ ReplayConverges

\* It holds throughout.
LEMMA ReplayInvariant == Spec => []ReplayInv
<1>1. Init => ReplayInv
  <2> SUFFICES ASSUME Init PROVE ReplayInv
    OBVIOUS
  <2>1. RewriteHolds /\ EveryoneIsTold
    BY DEF Init, RewriteHolds, Rewriting, EveryoneIsTold
  <2>2. NewEventsInChatOrder /\ ReplayConverges
    BY DEF Init, NewEventsInChatOrder, ReplayConverges
  <2> QED
    BY <2>1, <2>2 DEF ReplayInv
<1>2. TypeInv /\ RewriteWaits /\ LogInv /\ ChatInv /\ ClearInv /\ ReplayInv /\ [Next]_vars
        => ReplayInv'
  <2> SUFFICES ASSUME TypeInv, RewriteWaits, LogInv, ChatInv, ClearInv, ReplayInv, [Next]_vars
               PROVE  ReplayInv'
    OBVIOUS
  <2> USE DEF ClearInv, ReplayInv
  <2>1. RewriteHolds'
    BY RewriteHoldsStep
  <2>2. EveryoneIsTold'
    BY EveryoneIsToldStep
  <2>3. NewEventsInChatOrder'
    BY ChatOrderStep
  <2>4. ReplayConverges'
    BY ConvergesStep
  <2> QED
    BY <2>1, <2>2, <2>3, <2>4
<1> QED
  BY <1>1, <1>2, TypeInvariant, RewriteWaitsInvariant, LogInvariant, ChatInvariant,
     ClearInvariant, PTL DEF Spec

\* A log replayed in its order shows the chat as the store has it: messages in the chat's order,
\* and for every fanned-out message since the member joined its present text or its tombstone,
\* whatever edits, deletions, clears and membership changes overlap (appendUserEvents, Edit,
\* Delete, ClearHistory).
THEOREM ReplayFaithful == Spec => []ReplayIsFaithful
<1>1. ReplayInv => ReplayIsFaithful
  BY DEF ReplayInv, ReplayIsFaithful
<1> QED
  BY <1>1, ReplayInvariant, PTL

-----------------------------------------------------------------------------
(* Who waits for whom.  A transaction that waits for a chat, a message or  *)
(* a membership row waits for one that is further along; among those that  *)
(* lock counters, the one that waits for the greatest counter waits for    *)
(* nobody, because counters are taken in the order of the users.           *)

CountersInOrder ==
    \A p \in Handlers :
        /\ pc[p] # "lock_counters" => todo[p] = {} /\ Recipients(p) = {}
        /\ \A u \in Recipients(p), v \in todo[p] : u < v

\* The naturals are well ordered ...
LEMMA LeastExists ==
    ASSUME NEW S \in SUBSET Nat, S # {}
    PROVE  \E x \in S : \A y \in S : x <= y
<1> DEFINE R == {ss \in Nat \X Nat : ss[1] < ss[2]}
<1>1. IsWellFoundedOn(R, Nat)
  BY NatLessThanWellFounded DEF OpToRel
<1>2. PICK x \in S : \A y \in S : ~ (<<y, x>> \in R)
  BY <1>1, WFMin
<1>3. ASSUME NEW y \in S PROVE x <= y
  <2>1. CASE y < x
    BY <1>2, <2>1
  <2> QED
    BY <2>1
<1> QED
  BY <1>3

\* ... and a finite set of them has a greatest: a smallest set without one would have a
\* smaller one in it.
LEMMA GreatestExists ==
    ASSUME NEW S \in SUBSET Nat, S # {}, IsFiniteSet(S)
    PROVE  \E x \in S : \A y \in S : y <= x
<1> DEFINE Top(T) == \E x \in T : \A y \in T : y <= x
           Bad(T) == T # {} /\ IsFiniteSet(T) /\ ~ Top(T)
           Sizes == {n \in Nat : \E T \in SUBSET Nat : Bad(T) /\ Cardinality(T) = n}
<1> SUFFICES ASSUME Bad(S) PROVE FALSE
  OBVIOUS
<1>1. Cardinality(S) \in Sizes
  BY FS_CardinalityType
<1>2. PICK n \in Sizes : \A k \in Sizes : n <= k
  BY <1>1, LeastExists
<1>3. PICK T \in SUBSET Nat : Bad(T) /\ Cardinality(T) = n
  BY <1>2
<1>4. PICK x \in T : TRUE
  BY <1>3
<1>5. IsFiniteSet(T \ {x}) /\ Cardinality(T \ {x}) = n - 1 /\ n \in Nat
  BY <1>3, <1>4, FS_RemoveElement, FS_CardinalityType
<1>6. CASE T \ {x} = {}
  <2>1. Top(T)
    BY <1>4, <1>6
  <2> QED
    BY <1>3, <2>1
<1>7. CASE T \ {x} # {}
  <2>1. Top(T \ {x})
    <3>1. Cardinality(T \ {x}) \in Nat
      BY <1>5, FS_CardinalityType
    <3>2. ~ Bad(T \ {x})
      <4>1. ~ (n <= n - 1)
        BY <1>5
      <4>2. n - 1 \notin Sizes
        BY <1>2, <4>1
      <4>3. T \ {x} \in SUBSET Nat
        OBVIOUS
      <4> HIDE DEF Bad
      <4> QED
        BY <1>5, <3>1, <4>2, <4>3
    <3> QED
      BY <1>5, <1>7, <3>2
  <2>2. PICK y \in T \ {x} : \A z \in T \ {x} : z <= y
    BY <2>1
  <2>3. x \in Nat /\ y \in Nat /\ \A z \in T : z \in Nat
    OBVIOUS
  <2>4. CASE x <= y
    <3>1. \A z \in T : z <= y
      BY <2>2, <2>4
    <3> QED
      BY <1>3, <3>1
  <2>5. CASE y <= x
    <3>1. \A z \in T : z <= x
      BY <2>2, <2>3, <2>5
    <3> QED
      BY <1>3, <1>4, <3>1
  <2> QED
    BY <2>3, <2>4, <2>5
<1> QED
  BY <1>6, <1>7

\* The counter a transaction locks next is the least of those it still has to lock.
LEMMA NextCounterIsLeast ==
    ASSUME TypeInv, NEW p \in Handlers, todo[p] # {}
    PROVE  NextCounter(p) \in todo[p] /\ \A v \in todo[p] : NextCounter(p) <= v
<1>1. todo[p] \in SUBSET Nat
  BY UsersAssumption DEF TypeInv, TypeOK
<1>2. \E u \in todo[p] : \A v \in todo[p] : u <= v
  BY <1>1, LeastExists
<1> QED
  BY <1>2 DEF NextCounter

\* Counters are taken in the order of the users.
LEMMA CountersInOrderStep ==
    ASSUME TypeInv, RewriteWaits, CountersInOrder, [Next]_vars
    PROVE  CountersInOrder'
<1> SUFFICES ASSUME NEW q \in Handlers
             PROVE  /\ pc'[q] # "lock_counters" => todo'[q] = {} /\ Recipients(q)' = {}
                    /\ \A u \in Recipients(q)' : \A v \in todo'[q] : u < v
  BY DEF CountersInOrder
<1>0. /\ pc[q] # "lock_counters" => todo[q] = {} /\ Recipients(q) = {}
      /\ \A u \in Recipients(q) : \A v \in todo[q] : u < v
  BY DEF CountersInOrder
<1>1. CASE pc'[q] = pc[q] /\ todo'[q] = todo[q] /\ bumped'[q] = bumped[q]
  BY <1>0, <1>1 DEF Recipients
<1>2. CASE LockCounter(q)
  <2>0. PICK w : w = NextCounter(q)
    OBVIOUS
  <2>1. /\ pc'[q] = "lock_counters" /\ todo[q] # {} /\ todo'[q] = todo[q] \ {w}
        /\ bumped'[q] = [bumped[q] EXCEPT ![w] = event_last_seq[w] + 1]
    BY <1>2, <2>0, LockCounterFrame DEF LockCounter
  <2>2. w \in todo[q] /\ \A v \in todo[q] : w <= v
    BY <2>0, <2>1, NextCounterIsLeast
  <2>3. /\ todo[q] \subseteq Users /\ bumped[q] \in [Users -> Nat] /\ Users \subseteq Nat
    BY UsersAssumption DEF TypeInv, TypeOK
  <2>4. \A u \in Recipients(q)' : u = w \/ u \in Recipients(q)
    BY <2>1, <2>3 DEF Recipients
  <2>5. \A v \in todo'[q] : v \in todo[q] /\ v # w /\ v \in Nat /\ w \in Nat
    BY <2>1, <2>2, <2>3
  <2>6. \A v \in todo'[q] : w < v
    BY <2>2, <2>5
  <2> QED
    BY <1>0, <2>1, <2>4, <2>5, <2>6
<1>3. CASE Opens(q)
  BY <1>0, <1>3 DEF Opens, Recipients
<1>4. CASE Gains(q)
  BY <1>0, <1>4 DEF Gains, Recipients
<1>5. CASE Names(q)
  BY <1>0, <1>5 DEF Names, Recipients
<1>6. CASE pc'[q] = "idle" /\ todo'[q] = {} /\ bumped'[q] = NothingHeld
  BY <1>6 DEF Recipients, NothingHeld
<1> QED
  BY <1>1, <1>2, <1>3, <1>4, <1>5, <1>6, HandlerMoves

\* They are, throughout.
LEMMA CountersInOrderInvariant == Spec => []CountersInOrder
<1>1. Init => CountersInOrder
  BY DEF Init, CountersInOrder, Recipients, NothingHeld
<1>2. TypeInv /\ RewriteWaits /\ CountersInOrder /\ [Next]_vars => CountersInOrder'
  BY CountersInOrderStep
<1> QED
  BY <1>1, <1>2, TypeInvariant, RewriteWaitsInvariant, PTL DEF Spec

\* In any group of transactions one waits for none of the others.
LEMMA NobodyWaitsInACircle ==
    ASSUME TypeInv, CountersInOrder
    PROVE  NoWaitCycle
<1> SUFFICES ASSUME NEW S \in SUBSET Handlers, S # {}
             PROVE  \E p \in S : \A q \in S : ~ WaitsFor(p, q)
  BY DEF NoWaitCycle
<1> DEFINE L == {p \in S : pc[p] = "lock_counters"}
<1>1. CASE L = {}
  <2>1. \A q \in S : pc[q] # "lock_counters"
    BY <1>1
  <2>2. CASE \E p \in S : pc[p] # "lock_chat"
    <3>1. PICK p \in S : pc[p] # "lock_chat"
      BY <2>2
    <3>2. \A q \in S : ~ WaitsFor(p, q)
      BY <2>1, <3>1 DEF WaitsFor, HoldsMessage, RowsOf
    <3> QED
      BY <3>2
  <2>3. CASE \A p \in S : pc[p] = "lock_chat"
    <3>1. \A p, q \in S : ~ WaitsFor(p, q)
      BY <2>3 DEF WaitsFor, HoldsChat
    <3> QED
      BY <3>1
  <2> QED
    BY <2>2, <2>3
<1>2. CASE \E p \in L : todo[p] = {}
  <2>1. PICK p \in L : todo[p] = {}
    BY <1>2
  <2>2. \A q \in S : ~ WaitsFor(p, q)
    BY <2>1 DEF WaitsFor
  <2> QED
    BY <2>1, <2>2
<1>3. CASE L # {} /\ \A p \in L : todo[p] # {}
  <2> DEFINE N == {NextCounter(p) : p \in L}
  <2>1. \A p \in L : NextCounter(p) \in todo[p] /\ todo[p] \subseteq Nat
    BY <1>3, NextCounterIsLeast, UsersAssumption DEF TypeInv, TypeOK
  <2>2. IsFiniteSet(L)
    BY HandlersAssumption, FS_Subset
  <2>3. IsFiniteSet(N)
    <3> DEFINE f == [p \in L |-> NextCounter(p)]
    <3>1. f \in Surjection(L, N)
      BY DEF Surjection
    <3> QED
      BY <2>2, <3>1, FS_Surjection
  <2>4. N \in SUBSET Nat /\ N # {}
    BY <1>3, <2>1
  <2>5. PICK x \in N : \A y \in N : y <= x
    BY <2>3, <2>4, GreatestExists
  <2>6. PICK p \in L : NextCounter(p) = x
    BY <2>5
  <2>7. ASSUME NEW q \in S, WaitsFor(p, q) PROVE FALSE
    <3>1. bumped[q][x] # 0 /\ x \in Users
      BY <2>1, <2>6, <2>7 DEF WaitsFor, TypeInv, TypeOK
    <3>2. x \in Recipients(q)
      BY <3>1 DEF Recipients
    <3>3. q \in L
      BY <3>2 DEF CountersInOrder
    <3>4. NextCounter(q) \in N /\ x < NextCounter(q)
      BY <2>1, <3>2, <3>3 DEF CountersInOrder
    <3>5. NextCounter(q) \in Nat /\ x \in Nat /\ NextCounter(q) <= x
      BY <2>4, <2>5, <3>4
    <3> QED
      BY <3>4, <3>5
  <2> QED
    BY <2>6, <2>7
<1> QED
  BY <1>1, <1>2, <1>3

-----------------------------------------------------------------------------
(* The answers. *)

\* An answer that a step gives names the message stored for it.
LEMMA AnswersStep ==
    ASSUME TypeInv, RewriteWaits, ChatInv, AnswersAgree, [Next]_vars
    PROVE  AnswersAgree'
<1> DEFINE Agrees(a) == \E m \in messages'[a.chat] :
                            m.sender = a.user /\ m.cmid = a.cmid /\ m.seq = a.seq
<1> SUFFICES ASSUME NEW a \in acks', a.user # NoUser PROVE Agrees(a)
  BY DEF AnswersAgree, Written
<1>0. messages \in [Chats -> SUBSET Message] /\ req \in [Handlers -> Request]
  BY DEF TypeInv, TypeOK
<1>1. CASE a \in acks
  <2>1. PICK m \in messages[a.chat] : m.sender = a.user /\ m.cmid = a.cmid /\ m.seq = a.seq
    BY <1>1 DEF AnswersAgree, Written
  <2>2. a.chat \in Chats
    BY <1>1 DEF TypeInv, TypeOK
  <2> QED
    BY <2>1, <2>2, MessagesStep DEF Succeeds
<1>2. ASSUME NEW r, NEW s, acks' = acks \cup {[chat |-> r.chat, user |-> r.user,
                                               cmid |-> r.cmid, seq |-> s]},
             \E m \in messages'[r.chat] : m.sender = r.user /\ m.cmid = r.cmid /\ m.seq = s
      PROVE  Agrees(a)
  BY <1>1, <1>2
<1>3. ASSUME NEW p \in Handlers, Accept(p) PROVE Agrees(a)
  <2>1. ASSUME NEW c \in Chats, NEW u \in Users, NEW k \in ClientIds, SendCheck(p, c, u, k)
        PROVE  Agrees(a)
    <3>1. CASE UNCHANGED acks
      BY <1>1, <3>1
    <3>2. ASSUME NEW m \in Written(c, u, k), Ack(SendRequest(c, u, k), m.seq), UNCHANGED rows
          PROVE  Agrees(a)
      <4>1. PICK r : r = SendRequest(c, u, k)
        OBVIOUS
      <4>2. r.chat = c /\ r.user = u /\ r.cmid = k
        BY <4>1, NoRequestType DEF SendRequest, Request
      <4>3. messages' = messages
        BY <3>2 DEF rows
      <4>4. acks' = acks \cup {[chat |-> r.chat, user |-> r.user, cmid |-> r.cmid,
                                seq |-> m.seq]}
        BY <3>2, <4>1 DEF Ack
      <4> HIDE DEF Agrees
      <4> QED
        BY <1>2, <4>2, <4>3, <4>4 DEF Written
    <3> QED
      BY <2>1, <3>1, <3>2 DEF SendCheck
  <2>2. CASE UNCHANGED acks
    BY <1>1, <2>2
  <2> QED
    BY <1>3, <2>1, <2>2 DEF Accept, SendAsChat, EditCheck, DeleteCheck, Rewrite, ClearCheck,
       PublishStart, MarkReadStart
<1>4. ASSUME NEW p \in Handlers, SendInsert(p) PROVE Agrees(a)
  <2>1. CASE UNCHANGED acks
    BY <1>1, <2>1
  <2>2. ASSUME NEW m \in Written(req[p].chat, req[p].user, req[p].cmid), Ack(req[p], m.seq),
               UNCHANGED rows
        PROVE  Agrees(a)
    <3> HIDE DEF Agrees
    <3> QED
      BY <1>2, <2>2 DEF Ack, Written, rows
  <2> QED
    BY <1>4, <2>1, <2>2 DEF SendInsert
<1>5. ASSUME NEW p \in Handlers, SendCommit(p) PROVE Agrees(a)
  <2>1. PICK new : new = [seq |-> new_seq[p], sender |-> req[p].user, cmid |-> req[p].cmid,
              version |-> 0, deleted |-> FALSE, fanned_out |-> req[p].fan]
    OBVIOUS
  <2>2. messages' = [messages EXCEPT ![req[p].chat] = @ \cup {new}] /\ Ack(req[p], new_seq[p])
        /\ req[p].chat \in Chats
    BY <1>0, <1>5, <2>1 DEF SendCommit, Request
  <2>3. new \in messages'[req[p].chat]
    BY <1>0, <2>2
  <2>4. new.sender = req[p].user /\ new.cmid = req[p].cmid /\ new.seq = new_seq[p]
    BY <2>1
  <2> HIDE DEF Agrees
  <2> QED
    BY <1>2, <2>2, <2>3, <2>4 DEF Ack
<1>6. ASSUME NEW p \in Handlers, Advance(p), ~ SendInsert(p), ~ SendCommit(p)
      PROVE  UNCHANGED acks
  BY <1>6 DEF Advance, SendRows, LockMessage, EditCommit, DeleteCommit, ClearLock, ClearRows,
     ClearCommit, LockCounter, PublishCommit, MarkReadApply
<1>7. ASSUME NEW p \in Handlers, Rollback(p) PROVE UNCHANGED acks
  BY <1>7 DEF Rollback
<1>8. ASSUME NEW c \in Chats, NEW u \in Movers, AddMember(c, u) \/ RemoveMember(c, u)
      PROVE  UNCHANGED acks
  BY <1>8 DEF AddMember, RemoveMember
<1>9. CASE UNCHANGED acks
  BY <1>1, <1>9
<1> HIDE DEF Agrees
<1> QED
  BY <1>3, <1>4, <1>5, <1>6, <1>7, <1>8, <1>9 DEF Next, vars

\* The store is sound: the log of every user is gap-free, all the answers to the retries of a
\* send name the message that is stored, transactions never wait for each other in a circle,
\* and no read cursor or clear mark goes back, for any number of users, chats and handlers.
THEOREM StoreSound == Spec => StoreIsSound
<1>1. Init => AnswersAgree
  BY DEF Init, AnswersAgree
<1>2. TypeInv /\ RewriteWaits /\ ChatInv /\ AnswersAgree /\ [Next]_vars => AnswersAgree'
  BY AnswersStep
<1>3. Spec => []AnswersAgree
  BY <1>1, <1>2, TypeInvariant, RewriteWaitsInvariant, ChatInvariant, PTL DEF Spec
<1>4. TypeInv /\ CountersInOrder => NoWaitCycle
  BY NobodyWaitsInACircle
<1>5. Spec => [](TypeOK /\ LogGapFree /\ AnswersAgree /\ NoWaitCycle)
  BY <1>3, <1>4, TypeCorrect, SyncLogGapFree, TypeInvariant, CountersInOrderInvariant, PTL
<1> DEFINE Forward == \A c \in Chats, u \in Users :
          /\ \/ members'[c][u].last_read_seq >= members[c][u].last_read_seq
             \/ /\ members[c][u].last_read_seq > last_seq'[c]
                /\ members'[c][u].last_read_seq = last_seq'[c]
          /\ members'[c][u].history_cleared_seq >= members[c][u].history_cleared_seq
<1>6. TypeInv /\ RewriteWaits /\ ChatInv /\ ClearInv /\ [Next]_vars => [Forward]_vars
  <2> SUFFICES ASSUME TypeInv, RewriteWaits, ChatInv, ClearInv, [Next]_vars,
                      NEW c \in Chats, NEW u \in Users
               PROVE  /\ ReadOnward(members[c][u].last_read_seq, members'[c][u].last_read_seq,
                                    last_seq'[c])
                      /\ members'[c][u].history_cleared_seq >= members[c][u].history_cleared_seq
    BY DEF ReadOnward
  <2>1. members[c][u] \in Member /\ last_seq[c] \in Nat
    BY DEF TypeInv, TypeOK
  <2>2. members[c][u].last_read_seq \in Nat /\ members[c][u].history_cleared_seq \in Nat
    BY <2>1 DEF Member
  <2> QED
    BY <2>2, CursorsMove DEF ClearInv
<1>7. Spec => CursorsOnlyAdvance
  BY <1>6, TypeInvariant, RewriteWaitsInvariant, ChatInvariant, ClearInvariant, PTL
     DEF Spec, CursorsOnlyAdvance
<1> QED
  BY <1>5, <1>7 DEF StoreIsSound

=============================================================================
