------------------------------ MODULE ChatStore ------------------------------
(***************************************************************************)
(* The message store: the PostgreSQL transactions of                       *)
(* backend/internal/messaging/repository.go, with the checks that          *)
(* messaging/service.go makes before it opens them.                        *)
(*                                                                         *)
(* A request handler p is a transaction that takes row locks one after     *)
(* another and makes its writes visible at commit.  The locks are          *)
(* `chats` (FOR UPDATE), `messages`, `chat_members` and                    *)
(* `user_event_counters` rows.  A lock is held by the handler whose        *)
(* program counter says so, so there is no lock table.  Statements run at  *)
(* READ COMMITTED: each sees what was committed when the statement began,  *)
(* except that an UPDATE that waited for a row re-reads that row.          *)
(*                                                                         *)
(* Content is abstracted to an edit version; mention counts and delivery   *)
(* cursors, which move with the unread count and the read cursor, are left *)
(* out.                                                                    *)
(***************************************************************************)
EXTENDS Integers, FiniteSets

CONSTANTS
    Users,             \* users.id, ordered: the counters are locked in this order
    Chats,             \* chats.id
    ClientIds,         \* client_message_id, the idempotency keys
    Handlers,          \* concurrent request handlers
    InitialMembers,    \* chat -> the users in it at the start
    Movers,            \* the users who come and go
    FanoutThreshold,   \* member_count above which a message is not fanned out
    Ops,               \* the operations this instance serves
    Reads,             \* the reads the clients ask for: <<chat, user, seq>>
    MaxSeq,            \* bound on messages per chat
    MaxEvents          \* bound on events per user and on edits per message

ASSUME UsersAssumption == Users \subseteq Nat \ {0}
ASSUME NonEmptyAssumption == Chats # {} /\ ClientIds # {}
ASSUME MembersAssumption == InitialMembers \in [Chats -> SUBSET Users]
ASSUME MoversAssumption == Movers \subseteq Users
ASSUME ReadsAssumption == Reads \subseteq Chats \X Users \X Nat
ASSUME HandlersAssumption == IsFiniteSet(Handlers)   \* a pool of connections
ASSUME BoundsAssumption ==
    FanoutThreshold \in Nat /\ MaxSeq \in Nat /\ MaxEvents \in Nat

NoUser == 0            \* messages.sender_id IS NULL: posted as the chat

VARIABLES
    last_seq,          \* chats.last_seq
    messages,          \* chat -> set of committed rows of messages
    members,           \* chat -> user -> row of chat_members
    event_last_seq,    \* user_event_counters.last_seq
    user_events,       \* user -> set of committed rows of user_events
    pc,                \* handler -> where its transaction stands
    req,               \* handler -> the request it serves
    new_seq,           \* handler -> the sequence number or watermark it works with
    todo,              \* handler -> users whose counter is still to be locked
    bumped,            \* handler -> user -> counter value taken, 0 if not held
    acks               \* (ghost) answers given to senders

vars == <<last_seq, messages, members, event_last_seq, user_events,
          pc, req, new_seq, todo, bumped, acks>>

EventTypes == {"new", "edited", "deleted", "clear_all", "clear_self", "other"}

Message == [seq : Nat, sender : Users \cup {NoUser}, cmid : ClientIds,
            version : Nat, deleted : BOOLEAN, fanned_out : BOOLEAN]

Member == [joined : BOOLEAN, joined_at : Nat, last_read_seq : Nat,
           unread_count : Nat, history_cleared_seq : Nat]

Event == [seq : Nat, type : EventTypes, chat : Chats, mseq : Nat, version : Nat]

Request == [op : {"send", "edit", "delete", "clear_all", "clear_self",
                  "publish", "read"},
            chat : Chats, user : Users \cup {NoUser}, cmid : ClientIds,
            fan : BOOLEAN, snapshot : SUBSET Message]

Steps == {"idle", "lock_chat", "lock_rows", "lock_message", "lock_counters",
          "statement"}

-----------------------------------------------------------------------------
(* Who holds which lock. *)

HoldsChat(p) == pc[p] = "lock_rows"
                \/ /\ pc[p] = "lock_counters"
                   /\ req[p].op \in {"send", "clear_all", "clear_self"}

ChatNotLocked(c) == FALSE

ChatLocked(c) == \E p \in Handlers : HoldsChat(p) /\ req[p].chat = c

\* Message rows: one for an edit or a delete, every row for a clear.
HoldsMessage(p, c, s) ==
    /\ pc[p] = "lock_counters"
    /\ req[p].chat = c
    /\ \/ req[p].op \in {"edit", "delete"} /\ new_seq[p] = s
       \/ req[p].op = "clear_all" /\ s <= new_seq[p]

MessageNotLocked(c, s) == FALSE

MessageLocked(c, s) == \E p \in Handlers : HoldsMessage(p, c, s)

Joined(c) == {u \in Users : members[c][u].joined}

\* chat_members rows a transaction has updated and not yet committed.
RowsOf(p) ==
    IF pc[p] # "lock_counters" THEN {}
    ELSE CASE req[p].op = "send" ->
                 {req[p].user} \cup (IF req[p].fan THEN Joined(req[p].chat) ELSE {})
           [] req[p].op = "clear_all"  -> Joined(req[p].chat)
           [] req[p].op = "clear_self" -> {req[p].user}
           [] OTHER -> {}

RowLocked(c, u) == \E p \in Handlers : req[p].chat = c /\ u \in RowsOf(p)

CounterNotLocked(u) == FALSE

CounterLocked(u) == \E p \in Handlers : bumped[p][u] # 0

\* member_count, kept equal to the membership by bumpMemberCount under the
\* chat lock.
MemberCount(c) == Cardinality(Joined(c))

Written(c, u, k) == {m \in messages[c] : m.sender = u /\ m.cmid = k}

-----------------------------------------------------------------------------
NoRequest == [op |-> "read", chat |-> CHOOSE c \in Chats : TRUE, user |-> NoUser,
              cmid |-> CHOOSE k \in ClientIds : TRUE, fan |-> FALSE, snapshot |-> {}]

NothingHeld == [u \in Users |-> 0]

Init ==
    /\ last_seq = [c \in Chats |-> 0]
    /\ messages = [c \in Chats |-> {}]
    /\ members = [c \in Chats |-> [u \in Users |->
                    [joined |-> u \in InitialMembers[c], joined_at |-> 0,
                     last_read_seq |-> 0, unread_count |-> 0,
                     history_cleared_seq |-> 0]]]
    /\ event_last_seq = [u \in Users |-> 0]
    /\ user_events = [u \in Users |-> {}]
    /\ pc = [p \in Handlers |-> "idle"]
    /\ req = [p \in Handlers |-> NoRequest]
    /\ new_seq = [p \in Handlers |-> 0]
    /\ todo = [p \in Handlers |-> {}]
    /\ bumped = [p \in Handlers |-> NothingHeld]
    /\ acks = {}

rows == <<last_seq, messages, members, event_last_seq, user_events>>

\* The bound: how much the handlers together may still write.
Busy == {p \in Handlers : pc[p] # "idle"}
Room == \A u \in Users : event_last_seq[u] + Cardinality(Busy) < MaxEvents
SeqRoom(c) == last_seq[c] + Cardinality(Busy) < MaxSeq

Start(p, step, r, s) ==
    /\ pc' = [pc EXCEPT ![p] = step]
    /\ req' = [req EXCEPT ![p] = r]
    /\ new_seq' = [new_seq EXCEPT ![p] = s]
    /\ UNCHANGED <<rows, todo, bumped>>

\* Commit and rollback both release every lock.
Release(p) ==
    /\ pc' = [pc EXCEPT ![p] = "idle"]
    /\ req' = [req EXCEPT ![p] = NoRequest]
    /\ new_seq' = [new_seq EXCEPT ![p] = 0]
    /\ todo' = [todo EXCEPT ![p] = {}]
    /\ bumped' = [bumped EXCEPT ![p] = NothingHeld]

\* The last phase of every writing transaction: appendUserEvents for the
\* recipients named (none for a chat that is not fanned out).
ThenEvents(p, recipients) ==
    /\ pc' = [pc EXCEPT ![p] = "lock_counters"]
    /\ todo' = [todo EXCEPT ![p] = recipients]

Ack(r, s) == acks' = acks \cup {[chat |-> r.chat, user |-> r.user,
                                 cmid |-> r.cmid, seq |-> s]}

-----------------------------------------------------------------------------
(* Send *)

SendRequest(c, u, k) == [NoRequest EXCEPT !.op = "send", !.chat = c,
                                          !.user = u, !.cmid = k]

\* Membership is checked and the idempotency fast path is read before the
\* transaction; a retry of a stored message is answered from that read.
SendCheck(p, c, u, k) ==
    /\ "send" \in Ops
    /\ members[c][u].joined
    /\ \/ /\ Written(c, u, k) = {}
          /\ Room /\ SeqRoom(c)
          /\ Start(p, "lock_chat", SendRequest(c, u, k), 0)
          /\ UNCHANGED acks
       \/ \E m \in Written(c, u, k) :
            /\ Ack(SendRequest(c, u, k), m.seq)
            /\ UNCHANGED <<rows, pc, req, new_seq, todo, bumped>>

\* AsChat: no sender, no fast path; the caller does not ask twice.
SendAsChat(p, c, k) ==
    /\ "as_chat" \in Ops
    /\ Room /\ SeqRoom(c)
    /\ Start(p, "lock_chat", SendRequest(c, NoUser, k), 0)
    /\ UNCHANGED acks

NoIndex(c, u, k) == TRUE

\* The unique index on (chat, sender, client_message_id) covers the rows that
\* have a sender.
IndexAllows(c, u, k) == u = NoUser \/ Written(c, u, k) = {}

\* SELECT ... FOR UPDATE on the chat, then the INSERT; the loser of a race on
\* the index rolls back and answers with the winner's message.
SendInsert(p) ==
    LET c == req[p].chat  u == req[p].user  k == req[p].cmid IN
    /\ pc[p] = "lock_chat" /\ req[p].op = "send"
    /\ ~ ChatLocked(c)
    /\ \/ /\ IndexAllows(c, u, k)
          /\ pc' = [pc EXCEPT ![p] = "lock_rows"]
          /\ new_seq' = [new_seq EXCEPT ![p] = last_seq[c] + 1]
          /\ req' = [req EXCEPT ![p].fan = MemberCount(c) <= FanoutThreshold]
          /\ UNCHANGED <<rows, todo, bumped, acks>>
       \/ /\ u # NoUser
          /\ \E m \in Written(c, u, k) : Ack(req[p], m.seq)
          /\ Release(p)
          /\ UNCHANGED rows

SendRowsThenAnswer(p) ==
    /\ pc[p] = "lock_rows" /\ req[p].op = "send"
    /\ ThenEvents(p, IF req[p].fan THEN Joined(req[p].chat) ELSE {})
    /\ Ack(req[p], new_seq[p])
    /\ UNCHANGED <<rows, req, new_seq, bumped>>

\* The sender's cursor, the unread counters, and the recipients of the event.
SendRows(p) ==
    /\ pc[p] = "lock_rows" /\ req[p].op = "send"
    /\ ThenEvents(p, IF req[p].fan THEN Joined(req[p].chat) ELSE {})
    /\ UNCHANGED <<rows, req, new_seq, bumped, acks>>

-----------------------------------------------------------------------------
(* appendUserEvents and the counter upsert of PublishUserEvent: lock each  *)
(* counter in user order and take the next value of it.                    *)

NextCounterOfChat(p) == CHOOSE u \in todo[p] : \A v \in todo[p] :
    IF req[p].chat = (CHOOSE c \in Chats : TRUE) THEN u <= v ELSE v <= u

NextCounter(p) == CHOOSE u \in todo[p] : \A v \in todo[p] : u <= v

LockCounter(p) ==
    /\ pc[p] = "lock_counters"
    /\ todo[p] # {}
    /\ LET u == NextCounter(p) IN
       /\ ~ CounterLocked(u)
       /\ bumped' = [bumped EXCEPT ![p][u] = event_last_seq[u] + 1]
       /\ todo' = [todo EXCEPT ![p] = @ \ {u}]
    /\ UNCHANGED <<rows, pc, req, new_seq, acks>>

Recipients(p) == {u \in Users : bumped[p][u] # 0}

EventOf(p, u, type, version) ==
    [seq |-> bumped[p][u], type |-> type, chat |-> req[p].chat,
     mseq |-> new_seq[p], version |-> version]

\* What a commit publishes in the logs of its recipients.
CommitEvents(p, type, version) ==
    /\ event_last_seq' = [u \in Users |->
            IF u \in Recipients(p) THEN bumped[p][u] ELSE event_last_seq[u]]
    /\ user_events' = [u \in Users |->
            IF u \in Recipients(p)
            THEN user_events[u] \cup {EventOf(p, u, type, version)}
            ELSE user_events[u]]

Committing(p, op) ==
    /\ pc[p] = "lock_counters" /\ todo[p] = {} /\ req[p].op = op

\* The sender's cursor moves with the message; everybody else it is fanned
\* out to has one more unread.
Sent(row, own, fan, s) ==
    CASE own -> [row EXCEPT !.last_read_seq = s]
      [] ~ own /\ fan /\ row.joined -> [row EXCEPT !.unread_count = row.unread_count + 1]
      [] OTHER -> row

SendCommit(p) ==
    LET c == req[p].chat  u == req[p].user  s == new_seq[p] IN
    /\ Committing(p, "send")
    /\ messages' = [messages EXCEPT ![c] = @ \cup
            {[seq |-> s, sender |-> u, cmid |-> req[p].cmid, version |-> 0,
              deleted |-> FALSE, fanned_out |-> req[p].fan]}]
    /\ last_seq' = [last_seq EXCEPT ![c] = s]
    /\ members' = [members EXCEPT ![c] =
            [v \in Users |-> Sent(members[c][v], v = u, req[p].fan, s)]]
    /\ CommitEvents(p, "new", 0)
    /\ Release(p)
    /\ Ack(req[p], s)

-----------------------------------------------------------------------------
(* Edit and Delete lock the message row and never the chat. *)

Rewrite(p, op, c, u, m) ==
    /\ op \in Ops
    /\ Room
    /\ ~ m.deleted
    /\ Start(p, "lock_message",
             [NoRequest EXCEPT !.op = op, !.chat = c, !.user = u], m.seq)
    /\ UNCHANGED acks

\* Only the sender edits, member of the chat or not.
EditCheck(p, c, u) == \E m \in messages[c] :
    /\ m.sender = u
    /\ m.version + Cardinality(Busy) < MaxEvents
    /\ Rewrite(p, "edit", c, u, m)

\* A member: the sender, or one whose role may delete messages.
DeleteCheck(p, c, u) == \E m \in messages[c] :
    members[c][u].joined /\ Rewrite(p, "delete", c, u, m)

\* deleted_at IS NULL is evaluated again on the row once it is locked.
LockMessage(p) ==
    LET c == req[p].chat IN
    /\ pc[p] = "lock_message"
    /\ ~ MessageLocked(c, new_seq[p])
    /\ \/ /\ \E m \in messages[c] : m.seq = new_seq[p] /\ ~ m.deleted
          /\ ThenEvents(p, Joined(c))
          /\ UNCHANGED <<rows, req, new_seq, bumped, acks>>
       \/ /\ \A m \in messages[c] : m.seq = new_seq[p] => m.deleted
          /\ Release(p)
          /\ UNCHANGED <<rows, acks>>

Edited(m) == [m EXCEPT !.version = @ + 1]
Tombstone(m) == [m EXCEPT !.deleted = TRUE]

EditCommit(p) ==
    LET c == req[p].chat IN
    /\ Committing(p, "edit")
    /\ \E m \in messages[c] :
         /\ m.seq = new_seq[p]
         /\ messages' = [messages EXCEPT ![c] = (@ \ {m}) \cup {Edited(m)}]
         /\ CommitEvents(p, "edited", m.version + 1)
    /\ Release(p)
    /\ UNCHANGED <<last_seq, members, acks>>

DeleteCommit(p) ==
    LET c == req[p].chat IN
    /\ Committing(p, "delete")
    /\ \E m \in messages[c] :
         /\ m.seq = new_seq[p]
         /\ messages' = [messages EXCEPT ![c] = (@ \ {m}) \cup {Tombstone(m)}]
    /\ CommitEvents(p, "deleted", 0)
    /\ Release(p)
    /\ UNCHANGED <<last_seq, members, acks>>

-----------------------------------------------------------------------------
(* ClearHistory, for the caller or for everyone. *)

ClearCheck(p, c, u, op) ==
    /\ op \in Ops
    /\ Room
    /\ members[c][u].joined
    /\ Start(p, "lock_chat",
             [NoRequest EXCEPT !.op = op, !.chat = c, !.user = u], 0)
    /\ UNCHANGED acks

ClearLock(p) ==
    LET c == req[p].chat IN
    /\ pc[p] = "lock_chat" /\ req[p].op \in {"clear_all", "clear_self"}
    /\ ~ ChatLocked(c)
    /\ pc' = [pc EXCEPT ![p] = "lock_rows"]
    /\ new_seq' = [new_seq EXCEPT ![p] = last_seq[c]]
    /\ UNCHANGED <<rows, req, todo, bumped, acks>>

\* Tombstoning waits for every message row; no membership row is ErrNotMember.
ClearRows(p) ==
    LET c == req[p].chat  u == req[p].user  op == req[p].op IN
    /\ pc[p] = "lock_rows" /\ op \in {"clear_all", "clear_self"}
    /\ op = "clear_all" => \A m \in messages[c] : ~ MessageLocked(c, m.seq)
    /\ \/ /\ members[c][u].joined
          /\ ThenEvents(p, IF op = "clear_all" THEN Joined(c) ELSE {u})
          /\ UNCHANGED <<rows, req, new_seq, bumped, acks>>
       \/ /\ ~ members[c][u].joined
          /\ Release(p)
          /\ UNCHANGED <<rows, acks>>

Greatest(a, b) == IF a >= b THEN a ELSE b

Cleared(row, watermark) ==
    [row EXCEPT !.history_cleared_seq = Greatest(@, watermark),
                !.last_read_seq = Greatest(@, watermark),
                !.unread_count = 0]

TombstoneBelow(S, w) == {IF m.seq < w THEN Tombstone(m) ELSE m : m \in S}

TombstoneUpTo(S, w) == {IF m.seq <= w THEN Tombstone(m) ELSE m : m \in S}

ClearCommit(p, op) ==
    LET c == req[p].chat  w == new_seq[p]  everyone == op = "clear_all" IN
    /\ Committing(p, op)
    /\ messages' = [messages EXCEPT ![c] =
            IF everyone THEN TombstoneUpTo(messages[c], w) ELSE messages[c]]
    /\ members' = [members EXCEPT ![c] = [v \in Users |->
            IF v = req[p].user \/ (everyone /\ members[c][v].joined)
            THEN Cleared(members[c][v], w) ELSE members[c][v]]]
    /\ CommitEvents(p, op, 0)
    /\ Release(p)
    /\ UNCHANGED <<last_seq, acks>>

-----------------------------------------------------------------------------
(* PublishUserEvent: one counter, one event; calls, news, moderation. *)

PublishStart(p, u) ==
    /\ "publish" \in Ops
    /\ Room
    /\ req' = [req EXCEPT ![p] = [NoRequest EXCEPT !.op = "publish", !.user = u]]
    /\ ThenEvents(p, {u})
    /\ UNCHANGED <<rows, new_seq, bumped, acks>>

PublishCommit(p) ==
    /\ Committing(p, "publish")
    /\ CommitEvents(p, "other", 0)
    /\ Release(p)
    /\ UNCHANGED <<last_seq, messages, members, acks>>

-----------------------------------------------------------------------------
(* MarkRead is one UPDATE.  Its count of later messages is taken in the     *)
(* statement's snapshot; the row it updates is read again if a concurrent  *)
(* transaction changed it meanwhile.  The number comes from the client and *)
(* is compared with nothing: it may be past the newest message.            *)

MarkReadStart(p, c, u, upto) ==
    /\ "read" \in Ops
    /\ members[c][u].joined
    /\ Start(p, "statement",
             [NoRequest EXCEPT !.op = "read", !.chat = c, !.user = u,
                               !.snapshot = messages[c]], upto)
    /\ UNCHANGED acks

ReadUpTo(row, upto, snapshot) ==
    LET cursor == Greatest(row.last_read_seq, upto)
        above == {m \in snapshot : m.seq > cursor /\ ~ m.deleted}
    IN  [row EXCEPT !.last_read_seq = cursor, !.unread_count = Cardinality(above)]

\* A row that has left is ErrNotMember.
MarkReadApply(p) ==
    LET c == req[p].chat  u == req[p].user IN
    /\ pc[p] = "statement"
    /\ ~ RowLocked(c, u)
    /\ members' = IF members[c][u].joined
                  THEN [members EXCEPT ![c][u] =
                            ReadUpTo(members[c][u], new_seq[p], req[p].snapshot)]
                  ELSE members
    /\ Release(p)
    /\ UNCHANGED <<last_seq, messages, event_last_seq, user_events, acks>>

-----------------------------------------------------------------------------
(* Membership changes take the chat lock, so they never overlap a send.    *)

AddMember(c, u) ==
    /\ "membership" \in Ops
    /\ ~ ChatLocked(c) /\ ~ RowLocked(c, u)
    /\ ~ members[c][u].joined
    /\ members' = [members EXCEPT ![c][u] =
            [members[c][u] EXCEPT !.joined = TRUE, !.joined_at = last_seq[c]]]
    /\ UNCHANGED <<last_seq, messages, event_last_seq, user_events,
                   pc, req, new_seq, todo, bumped, acks>>

RemoveMember(c, u) ==
    /\ "membership" \in Ops
    /\ ~ ChatLocked(c) /\ ~ RowLocked(c, u)
    /\ members[c][u].joined
    /\ members' = [members EXCEPT ![c][u] = [members[c][u] EXCEPT !.joined = FALSE]]
    /\ UNCHANGED <<last_seq, messages, event_last_seq, user_events,
                   pc, req, new_seq, todo, bumped, acks>>

\* A cancelled request, a lost connection or a crash: InTx rolls back.
Rollback(p) ==
    /\ "rollback" \in Ops
    /\ pc[p] # "idle"
    /\ Release(p)
    /\ UNCHANGED <<rows, acks>>

-----------------------------------------------------------------------------
\* A step of a transaction that is already open.
Advance(p) ==
    \/ SendInsert(p) \/ SendRows(p) \/ SendCommit(p)
    \/ LockMessage(p) \/ EditCommit(p) \/ DeleteCommit(p)
    \/ ClearLock(p) \/ ClearRows(p)
    \/ ClearCommit(p, "clear_all") \/ ClearCommit(p, "clear_self")
    \/ LockCounter(p) \/ PublishCommit(p) \/ MarkReadApply(p)

\* A handler that serves nobody takes a new request.
Accept(p) ==
    /\ pc[p] = "idle"
    /\ \/ \E c \in Chats, u \in Users, k \in ClientIds : SendCheck(p, c, u, k)
       \/ \E c \in Chats, k \in ClientIds : SendAsChat(p, c, k)
       \/ \E c \in Chats, u \in Users : EditCheck(p, c, u) \/ DeleteCheck(p, c, u)
       \/ \E c \in Chats, u \in Users :
            ClearCheck(p, c, u, "clear_all") \/ ClearCheck(p, c, u, "clear_self")
       \/ \E u \in Users : PublishStart(p, u)
       \/ \E r \in Reads : MarkReadStart(p, r[1], r[2], r[3])

Next ==
    \/ \E p \in Handlers : Accept(p) \/ Advance(p) \/ Rollback(p)
    \/ \E c \in Chats, u \in Movers : AddMember(c, u) \/ RemoveMember(c, u)

Spec == Init /\ [][Next]_vars

\* PostgreSQL grants a row lock in the order it was asked for, so a waiting
\* transaction whose lock becomes free again and again gets it.
FairSpec == Spec /\ \A p \in Handlers : SF_vars(Advance(p))

-----------------------------------------------------------------------------
(* Properties *)

\* Every row and every transaction has the shape the code gives it.
TypeOK ==
    /\ last_seq \in [Chats -> Nat]
    /\ messages \in [Chats -> SUBSET Message]
    /\ members \in [Chats -> [Users -> Member]]
    /\ event_last_seq \in [Users -> Nat]
    /\ user_events \in [Users -> SUBSET Event]
    /\ pc \in [Handlers -> Steps]
    /\ req \in [Handlers -> Request]
    /\ new_seq \in [Handlers -> Nat]
    /\ todo \in [Handlers -> SUBSET Users]
    /\ bumped \in [Handlers -> [Users -> Nat]]
    /\ acks \subseteq [chat : Chats, user : Users \cup {NoUser},
                       cmid : ClientIds, seq : Nat]

Numbers(S) == {x.seq : x \in S}

\* A reader that sees event n of a user's log sees every event before it, and
\* one event per number: no transaction commits below a number another one
\* has made visible (the counter row stays locked until commit).
LogGapFree ==
    \A u \in Users :
        /\ Numbers(user_events[u]) = 1..event_last_seq[u]
        /\ \A e, f \in user_events[u] : e.seq = f.seq => e = f

\* The committed messages of a chat are numbered 1..last_seq, each once: Send
\* allocates under the chat lock and a rollback gives its number back.
ChatGapFree ==
    \A c \in Chats :
        /\ Numbers(messages[c]) = 1..last_seq[c]
        /\ \A m, n \in messages[c] : m.seq = n.seq => m = n

\* However many times and however concurrently a client retries a send, one
\* message is stored for its client_message_id.
OneMessagePerKey ==
    \A c \in Chats : \A m, n \in messages[c] :
        m.sender # NoUser /\ m.sender = n.sender /\ m.cmid = n.cmid => m = n

\* All the answers the retries of one send get name the same stored message.
AnswersAgree ==
    \A a \in acks : a.user # NoUser =>
        \E m \in Written(a.chat, a.user, a.cmid) : m.seq = a.seq

\* A user's log announces the messages of a chat in the chat's own order.
NewEventsInChatOrder ==
    \A u \in Users : \A e, f \in user_events[u] :
        e.type = "new" /\ f.type = "new" /\ e.chat = f.chat /\ e.seq < f.seq
            => e.mseq < f.mseq

\* The events of a log that decide what a replaying device shows for m.
About(u, c, m) ==
    {e \in user_events[u] : /\ e.chat = c
                            /\ \/ e.type \in {"new", "edited", "deleted"} /\ e.mseq = m.seq
                               \/ e.type = "clear_all" /\ m.seq <= e.mseq}

Shows(e, m) == IF m.deleted THEN e.type \in {"deleted", "clear_all"}
               ELSE e.type \in {"new", "edited"} /\ e.version = m.version

\* A device of a member that replays the log from the start ends with what
\* the store holds: for each fanned-out message sent since the member joined,
\* the last event about it carries its present text, or its tombstone.  An
\* edit never follows a deletion or a clear it lost the race to.
ReplayConverges ==
    \A c \in Chats, u \in Users : \A m \in messages[c] :
        members[c][u].joined /\ m.fanned_out /\ m.seq > members[c][u].joined_at =>
            LET events == About(u, c, m) IN
            \E e \in events : Shows(e, m) /\ \A f \in events : f.seq <= e.seq

\* Both together: a log replayed in its order, by a device that was away or one that was there,
\* shows the chat as the store has it (appendUserEvents, Edit, Delete, ClearHistory).
ReplayIsFaithful == NewEventsInChatOrder /\ ReplayConverges

\* p waits for a row lock that q holds.
WaitsFor(p, q) ==
    LET c == req[p].chat IN
    /\ p # q
    /\ \/ pc[p] = "lock_chat" /\ HoldsChat(q) /\ req[q].chat = c
       \/ pc[p] = "lock_message" /\ HoldsMessage(q, c, new_seq[p])
       \/ /\ pc[p] = "lock_rows" /\ req[p].op = "clear_all"
          /\ \E m \in messages[c] : HoldsMessage(q, c, m.seq)
       \/ pc[p] = "lock_counters" /\ todo[p] # {} /\ bumped[q][NextCounter(p)] # 0
       \/ pc[p] = "statement" /\ req[q].chat = c /\ req[p].user \in RowsOf(q)

\* Transactions never wait for each other in a circle: two chats that share
\* members lock the shared counters in the same order.
NoWaitCycle ==
    \A S \in SUBSET Handlers : S # {} => \E p \in S : \A q \in S : ~ WaitsFor(p, q)

\* A cleared history never hides a message the caller has not been able to
\* see: no message still being written gets a number at or below anybody's
\* watermark.
ClearHidesOnlyThePast ==
    \A c \in Chats, u \in Users :
        /\ members[c][u].history_cleared_seq <= last_seq[c]
        /\ \A p \in Handlers :
             req[p].op = "send" /\ HoldsChat(p) /\ req[p].chat = c =>
                new_seq[p] > members[c][u].history_cleared_seq

\* A message cleared for everyone never has its text again, whatever edits
\* and sends were in flight when it was cleared.
ClearedForEveryoneIsGone ==
    \A u \in Users : \A e \in user_events[u] : e.type = "clear_all" =>
        \A m \in messages[e.chat] : m.seq <= e.mseq => m.deleted

\* Both together: a clear takes exactly what was there when it was made (ClearHistory).
ClearIsExact == ClearHidesOnlyThePast /\ ClearedForEveryoneIsGone

\* Nothing a member has read becomes unread again, whichever of sends, reads
\* and clears write the cursor: it goes back only from beyond the newest
\* message, where a read may have put it, to the newest (Send, MarkRead,
\* ClearHistory).  A clear's watermark never goes back at all.
CursorsOnlyAdvance ==
    [][\A c \in Chats, u \in Users :
          /\ \/ members'[c][u].last_read_seq >= members[c][u].last_read_seq
             \/ /\ members[c][u].last_read_seq > last_seq'[c]
                /\ members'[c][u].last_read_seq = last_seq'[c]
          /\ members'[c][u].history_cleared_seq >= members[c][u].history_cleared_seq]_vars

\* All together: logs without gaps, answers that agree with what is stored, no circle of handlers
\* that wait for each other (appendUserEvents: ORDER BY user_id), nothing read that is unread again.
StoreIsSound == [](TypeOK /\ LogGapFree /\ AnswersAgree /\ NoWaitCycle) /\ CursorsOnlyAdvance

\* Every accepted request is answered: nobody waits for a lock forever.
RequestsFinish == \A p \in Handlers : pc[p] # "idle" ~> pc[p] = "idle"

Log == INSTANCE EventLog WITH head <- event_last_seq, events <- user_events

\* Whatever transactions overlap, and whichever of them roll back, the logs
\* behave as the sync log the devices rely on: gap-free and append-only.
ImplementsEventLog == Log!Spec

-----------------------------------------------------------------------------
\* What the repository says of this code and the code does not do. These
\* formulas are violated; README.md says under which constants.

\* "a message is never visible without its sequence number, unread counts or
\* sync events": a fanned-out message of somebody else that a member's read
\* cursor has not reached counts as unread for that member.
UnreadNeverLost ==
    \A c \in Chats, u \in Users : \A m \in messages[c] :
        /\ members[c][u].joined /\ m.fanned_out /\ ~ m.deleted /\ m.sender # u
        /\ m.seq > members[c][u].joined_at /\ m.seq > members[c][u].last_read_seq
        => members[c][u].unread_count > 0

\* "The cursor never moves backwards": a member who read past the newest
\* message and then sends one has the cursor back at that message.
ReadCursorNeverGoesBack ==
    [][\A c \in Chats, u \in Users :
          members'[c][u].last_read_seq >= members[c][u].last_read_seq]_vars

=============================================================================
