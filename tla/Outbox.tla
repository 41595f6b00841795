-------------------------------- MODULE Outbox --------------------------------
(***************************************************************************)
(* Sending a message from the mobile app: the outbox worker of             *)
(* apps/mobile/lib/features/chat/data/chat_repository.dart on its local    *)
(* database (core/storage/local_database.dart), the socket or REST request *)
(* it makes, messaging.Service.Send on the server, and the echo of the     *)
(* device's own message.                                                   *)
(*                                                                         *)
(* One device, one chat.  The store behind Service.Send is the one of      *)
(* ChatStore, reduced to what it promises: one message per                 *)
(* client_message_id.  A request may be handled long after the device gave *)
(* it up, and any answer may be lost.                                      *)
(***************************************************************************)
EXTENDS Integers, FiniteSets, Sequences

CONSTANTS
    ClientIds,     \* the messages the user writes
    MayRefuse,     \* those the server may refuse, now or later
    SlowModes,     \* whether the chat is in slow mode, where it may be either
    Faults,        \* the faults this instance exhibits
    MaxInFlight    \* bound on abandoned requests still on their way

ASSUME OutboxRefused == MayRefuse \subseteq ClientIds
ASSUME OutboxSlow == SlowModes \subseteq BOOLEAN
ASSUME OutboxFaults ==
    Faults \subseteq {"restart", "disconnect", "lose_reply", "timeout", "server_error"}
ASSUME OutboxBound == MaxInFlight \in Nat

VARIABLES
    stored,      \* client id -> seq of its message on the server, 0 if none
    refused,     \* those the server refuses as things stand: invalid, or not permitted
    slow_mode,   \* chat_settings.slow_mode_seconds > 0
    cooling,     \* the sender's last message is more recent than slow mode allows
    requests,    \* requests on their way to the server
    row,         \* client id -> its row in the local messages table
    outbox,      \* client ids with an outbox entry
    due,         \* entries whose nextAttemptAt has come
    connected,   \* the socket's status is "connected"
    step,        \* where the flush stands
    batch,       \* entries the flush read and has not taken up yet
    entry,       \* the entry it is attempting
    reply,       \* what the attempt in progress will get
    echoed,      \* (ghost) messages whose echo reached the device
    wavered      \* (ghost) messages whose permission changed after they were written

rules == <<refused, slow_mode, wavered>>
server == <<stored, rules, cooling>>
database == <<row, outbox, due>>
flush == <<step, batch, entry, reply>>
vars == <<server, requests, database, connected, flush, echoed>>

Steps == {"idle", "next", "wait", "give_up", "retry_later", "drop", "defer"}
MessageStatus == {"pending", "sending", "sent", "failed"}
Row == [id : {"none", "client", "server"}, status : MessageStatus, seq : Nat]
RequestType == [cmid : ClientIds, via : {"socket", "rest"}, awaited : BOOLEAN]
Reply == [result : {"none", "ok", "rejected", "error", "lost"},
          via : {"socket", "rest"}, seq : Nat]

NoRow == [id |-> "none", status |-> "pending", seq |-> 0]
NoReply == [result |-> "none", via |-> "rest", seq |-> 0]

Init ==
    /\ stored = [k \in ClientIds |-> 0]
    /\ refused \in SUBSET MayRefuse /\ slow_mode \in SlowModes /\ cooling = FALSE
    /\ requests = {}
    /\ row = [k \in ClientIds |-> NoRow]
    /\ outbox = {} /\ due = {}
    /\ connected = FALSE
    /\ step = "idle" /\ batch = {} /\ entry = {} /\ reply = NoReply
    /\ echoed = {} /\ wavered = {}

LastSeq == Cardinality({k \in ClientIds : stored[k] # 0})

-----------------------------------------------------------------------------
(* The local database. *)

MarkStatus(k, s) == [row EXCEPT ![k].status = s]

\* One transaction: the row the user sees and the entry that sends it.
send(k) ==
    /\ row[k].id = "none"
    /\ row' = [row EXCEPT ![k] = [id |-> "client", status |-> "pending", seq |-> 0]]
    /\ outbox' = outbox \cup {k}
    /\ due' = due \cup {k}
    /\ UNCHANGED <<server, requests, connected, flush, echoed>>

\* INSERT ... ON CONFLICT(id): a row that still has its client id conflicts on
\* the other unique key, so the statement fails and changes nothing.
upsertMessage(k, r) == IF row[k].id = "client" THEN row ELSE [row EXCEPT ![k] = r]

\* The echo of the device's own message.
storeMessage(k) ==
    /\ stored[k] # 0
    /\ k \notin echoed
    /\ row' = upsertMessage(k, [id |-> "server", status |-> "sent", seq |-> stored[k]])
    /\ echoed' = echoed \cup {k}
    /\ UNCHANGED <<server, requests, outbox, due, connected, flush>>

\* One transaction: the row is promoted and the entry goes.
confirmMessage(k, s) ==
    /\ row' = [row EXCEPT ![k] = [id |-> "server", status |-> "sent", seq |-> s]]
    /\ outbox' = outbox \ {k}
    /\ due' = due \ {k}

\* The entry's nextAttemptAt comes.
Tick(k) ==
    /\ k \in outbox \ due
    /\ due' = due \cup {k}
    /\ UNCHANGED <<server, requests, row, outbox, connected, flush, echoed>>

-----------------------------------------------------------------------------
(* flushOutbox and _attempt.  The order of the entries within a flush, by  *)
(* creation time in the code, is left open.                                *)

\* A flush in progress makes another one return at once.
flushOutbox ==
    /\ step = "idle"
    /\ due # {}
    /\ step' = "next"
    /\ batch' = due
    /\ UNCHANGED <<server, requests, database, connected, entry, reply, echoed>>

FlagNotReset == FALSE

endFlush ==
    /\ step = "next" /\ batch = {}
    /\ step' = "idle"
    /\ UNCHANGED <<server, requests, database, connected, batch, entry, reply, echoed>>

\* The socket is the fast path; REST is the fallback when it is down.
attempt(k) ==
    /\ step = "next" /\ k \in batch
    /\ Cardinality(requests) <= MaxInFlight
    /\ row' = MarkStatus(k, "sending")
    /\ requests' = requests \cup {[cmid |-> k, via |-> IF connected THEN "socket" ELSE "rest",
                                   awaited |-> TRUE]}
    /\ step' = "wait"
    /\ entry' = {k}
    /\ batch' = batch \ {k}
    /\ reply' = NoReply
    /\ UNCHANGED <<server, outbox, due, connected, echoed>>

OnlySocketRetries(via, result) == via = "socket"

\* Which failures are retried: over REST the ones that may succeed later, on
\* the socket all of them.
isRetryable(via, result) == via = "socket" \/ result = "error"

FailWith(retryable) ==
    /\ step' = IF retryable THEN "retry_later" ELSE "give_up"
    /\ reply' = NoReply
    /\ UNCHANGED <<batch, entry>>

Abandoned == {[r EXCEPT !.awaited = FALSE] : r \in requests}

\* The answer to the request in progress.
onReply(k) ==
    /\ step = "wait" /\ k \in entry
    /\ \/ /\ reply.result = "ok"
          /\ confirmMessage(k, reply.seq)
          /\ step' = "next" /\ entry' = {} /\ reply' = NoReply
          /\ UNCHANGED batch
       \/ /\ reply.result \in {"rejected", "error"}
          /\ FailWith(isRetryable(reply.via, reply.result))
          /\ UNCHANGED database
    /\ UNCHANGED <<server, requests, connected, echoed>>

\* No answer in time: a timeout or a network error, always retried.  The
\* request itself may still reach the server.
timeout ==
    /\ step = "wait"
    /\ "timeout" \in Faults \/ reply.result = "lost"
    /\ FailWith(TRUE)
    /\ requests' = Abandoned
    /\ UNCHANGED <<server, database, connected, echoed>>

\* _handleFailure is two statements, not one transaction: first the status ...
markFailure(k) ==
    /\ k \in entry
    /\ \/ step = "give_up" /\ row' = MarkStatus(k, "failed") /\ step' = "drop"
       \/ step = "retry_later" /\ row' = MarkStatus(k, "pending") /\ step' = "defer"
    /\ UNCHANGED <<server, requests, outbox, due, connected, batch, entry, reply, echoed>>

\* ... then removeOutboxEntry or deferOutboxEntry.
SettleEntry(k) ==
    /\ outbox' = IF step = "drop" THEN outbox \ {k} ELSE outbox
    /\ due' = due \ {k}

settleFailure(k) ==
    /\ k \in entry
    /\ step \in {"drop", "defer"}
    /\ SettleEntry(k)
    /\ step' = "next" /\ entry' = {}
    /\ UNCHANGED <<server, requests, row, connected, batch, reply, echoed>>

-----------------------------------------------------------------------------
(* The network and the server. *)

Connect ==
    /\ ~ connected /\ connected' = TRUE
    /\ UNCHANGED <<server, requests, database, flush, echoed>>

\* Every request waiting on the socket fails.
Disconnect ==
    /\ "disconnect" \in Faults
    /\ connected /\ connected' = FALSE
    /\ IF step = "wait" /\ \E r \in requests : r.awaited /\ r.via = "socket"
       THEN FailWith(TRUE) /\ requests' = Abandoned
       ELSE UNCHANGED <<flush, requests>>
    /\ UNCHANGED <<server, database, echoed>>

\* The app is killed and started again; the local database survives.
Restart ==
    /\ "restart" \in Faults
    /\ step' = "idle" /\ batch' = {} /\ entry' = {} /\ reply' = NoReply
    /\ connected' = FALSE
    /\ requests' = Abandoned
    /\ UNCHANGED <<server, database, echoed>>

\* The sender leaves, is removed, restricted or let in again, or the chat's
\* permissions change: ChatContextFor and checkSendPermission read them anew for
\* every attempt.
PermissionChanges(k) ==
    /\ k \in MayRefuse
    /\ refused' = IF k \in refused THEN refused \ {k} ELSE refused \cup {k}
    /\ wavered' = IF row[k].id = "none" THEN wavered ELSE wavered \cup {k}
    /\ UNCHANGED <<stored, slow_mode, cooling, requests, database, connected, flush, echoed>>

\* validateSend, membership, permissions, slow mode: all of them come before
\* the idempotency key is looked at.
Rejects(k) == k \in refused \/ (slow_mode /\ cooling)

\* A retry of a stored message is answered with the stored message.
Store(k) == IF stored[k] # 0 THEN stored ELSE [stored EXCEPT ![k] = LastSeq + 1]

Answer(r, result, seq) ==
    reply' = IF r.awaited THEN [result |-> result, via |-> r.via, seq |-> seq] ELSE reply

Send(r) ==
    /\ r \in requests
    /\ requests' = requests \ {r}
    /\ \/ /\ Rejects(r.cmid)
          /\ Answer(r, "rejected", 0)
          /\ UNCHANGED server
       \/ /\ "server_error" \in Faults
          /\ Answer(r, "error", 0)
          /\ UNCHANGED server
       \/ /\ ~ Rejects(r.cmid)
          /\ stored' = Store(r.cmid)
          /\ cooling' = (slow_mode /\ (cooling \/ stored[r.cmid] = 0))
          /\ UNCHANGED rules
          /\ \/ Answer(r, "ok", stored'[r.cmid])
             \/ "lose_reply" \in Faults /\ Answer(r, "lost", 0)
    /\ UNCHANGED <<database, connected, step, batch, entry, echoed>>

\* The slow-mode interval passes.
CoolDown ==
    /\ cooling /\ cooling' = FALSE
    /\ UNCHANGED <<stored, rules, requests, database, connected, flush, echoed>>

-----------------------------------------------------------------------------
Next ==
    \/ \E k \in ClientIds :
         \/ send(k) \/ storeMessage(k) \/ Tick(k) \/ attempt(k) \/ onReply(k)
         \/ markFailure(k) \/ settleFailure(k) \/ PermissionChanges(k)
    \/ flushOutbox \/ endFlush \/ timeout
    \/ Connect \/ Disconnect \/ Restart
    \/ \E r \in requests : Send(r)
    \/ CoolDown

Spec == Init /\ [][Next]_vars

\* The timers fire, the flush runs and the server serves; and of infinitely
\* many attempts for a message one is answered and the answer arrives.
worker == flushOutbox \/ endFlush \/ timeout
          \/ \E k \in ClientIds : attempt(k) \/ onReply(k) \/ markFailure(k) \/ settleFailure(k)

Fairness ==
    /\ WF_vars(worker)
    /\ WF_vars(\E r \in requests : Send(r))
    /\ \A k \in ClientIds :
         /\ WF_vars(Tick(k))
         /\ SF_vars(\E r \in requests : r.cmid = k /\ Send(r) /\ reply'.result = "ok")
         /\ SF_vars(onReply(k) /\ row'[k].status = "sent")

FairSpec == Spec /\ Fairness

-----------------------------------------------------------------------------
(* Properties *)

\* The rows, entries and requests have the shape the code gives them, and the
\* server numbers its messages without holes.
TypeOK ==
    /\ stored \in [ClientIds -> 0..LastSeq]
    /\ refused \subseteq ClientIds /\ slow_mode \in BOOLEAN
    /\ cooling \in BOOLEAN /\ connected \in BOOLEAN
    /\ requests \subseteq RequestType
    /\ row \in [ClientIds -> Row]
    /\ due \subseteq outbox /\ outbox \subseteq ClientIds
    /\ step \in Steps /\ batch \subseteq ClientIds /\ entry \subseteq ClientIds
    /\ reply \in Reply
    /\ echoed \subseteq ClientIds /\ wavered \subseteq ClientIds

\* A message the user sees as on its way is in the outbox, wherever the app is
\* killed: it will be sent again until the server answers.
NothingForgotten ==
    \A k \in ClientIds :
        row[k].id = "client" /\ row[k].status \in {"pending", "sending"} => k \in outbox

\* A message shown as sent is the stored one, under the stored number, however
\* many of its attempts the server handled and in whatever order.
SentIsStored ==
    \A k \in ClientIds :
        row[k].status = "sent" => stored[k] # 0 /\ row[k].seq = stored[k]

\* Settled(k): the outbox is done with a message that the server has.
Settled(k) == row[k].id # "none" /\ k \notin outbox /\ stored[k] # 0

\* What the outbox is done with and the server has is shown as sent, and what
\* it shows as failed the server still refuses, as long as the server's mind on
\* the message is made up: slow mode, and a permission that changes while the
\* message is under way, are decided anew on every attempt (Service.Send,
\* _handleFailure).
SettlesHonestly ==
    ~ slow_mode => \A k \in ClientIds \ wavered :
        /\ Settled(k) => row[k].status = "sent"
        /\ row[k].status = "failed" => k \in refused /\ stored[k] = 0

\* All together: what the screen says of a message is what became of it.
OutboxIsHonest == TypeOK /\ NothingForgotten /\ SentIsStored /\ SettlesHonestly

\* Every message the server accepts is eventually shown as sent, through lost
\* answers, timeouts, server errors, dropped sockets and restarts (flushOutbox,
\* _handleFailure), if the user stops killing the app at some point, slow mode
\* is off and the permission to send it stands.
Drains ==
    ~ slow_mode /\ <>[][~ Restart]_vars =>
        \A k \in ClientIds :
            row[k].id = "client" /\ k \notin refused ~> row[k].status = "sent" \/ k \in wavered

-----------------------------------------------------------------------------
\* What the repository says of this code and the code does not do. These
\* formulas are violated; README.md says under which constants.

\* "A rejection will never succeed on retry, surface it to the user instead of
\* looping forever."
RejectionsSurface ==
    \A k \in ClientIds :
        row[k].id = "client" /\ k \in refused ~> row[k].status = "failed" \/ k \in wavered

\* "The client retried; return the original so its outbox settles": membership,
\* permissions and slow mode are checked before the retry is recognised, and
\* the stored message is shown as failed.
RetriesSettle == \A k \in ClientIds : Settled(k) => row[k].status = "sent"

\* "a message this device sent and then re-received arrives with its real id
\* and sequence and replaces the placeholder"
EchoReplacesPlaceholder == \A k \in echoed : row[k].id = "server"

=============================================================================
