------------------------------ MODULE DeviceSync ------------------------------
(***************************************************************************)
(* How the devices of one user follow that user's sync log: the handshake  *)
(* of backend/internal/realtime/handler.go, the live frames that           *)
(* messaging.Service.broadcast publishes after a commit, the REST catch-up *)
(* and the cursors of apps/mobile/lib/features/chat/data/inbound_sync.dart *)
(* and core/websocket/socket_client.dart, sync.ack, and the pruning of the *)
(* log by the worker.                                                      *)
(*                                                                         *)
(* A device in Mobile runs that Dart code.  Any other device follows the   *)
(* protocol the server's sync.request and sync.ack handlers implement      *)
(* (docs/protocol/websocket.md, section 6): it asks for what it missed     *)
(* from the cursor in the first frame and acknowledges what it applied.    *)
(*                                                                         *)
(* The log itself is the one EventLog describes: numbered 1..head without  *)
(* gaps.  Whether an event of it reached the local database is all that is *)
(* kept of its content.                                                    *)
(***************************************************************************)
EXTENDS Integers, FiniteSets, Sequences

CONSTANTS
    Devices,
    NoDevice,
    Mobile,       \* the devices that run the mobile app
    Runs,         \* catch-ups that may overlap (each reconnection starts one)
    PageSize,     \* limit of one GET /sync, 200
    MaxPages,     \* pages of one catch-up, 20
    MaxEvents,    \* bound on the log
    MaxHellos,    \* bound on connections
    Faults        \* the faults this instance exhibits

ASSUME SyncBounds == {PageSize, MaxPages, MaxEvents, MaxHellos} \subseteq Nat \ {0}
ASSUME SyncDevices == Mobile \subseteq Devices /\ NoDevice \notin Devices
ASSUME SyncFaults == Faults \subseteq {"lose_frame", "disconnect", "restart", "rest_error"}

VARIABLES
    head,         \* user_event_counters.last_seq
    log,          \* sequence numbers of the rows of user_events
    numbered,     \* events whose live frame carries a sync_seq
    publishing,   \* committed events that broadcast has not published yet
    live,         \* devices with revoked_at IS NULL
    sync_cursor,  \* devices.sync_cursor
    acks,         \* device -> sync.ack frames on their way
    hello,        \* device -> what the handshake read, before it registers
    hellos,       \* connections made (bound)
    wire,         \* device -> frames on its socket, <<>> when not registered
    registered,   \* devices whose socket the hub knows
    status,       \* device -> SocketStatus, or "none"/"signed_out"
    cursor,       \* device -> cursor in the local database
    applied,      \* device -> events applied to the local database
    since,        \* (ghost) device -> head when it signed in
    run           \* catch-up -> where it stands

server == <<head, log, numbered, publishing, live, sync_cursor, since>>
link == <<acks, hello, hellos, wire, registered>>
local == <<status, cursor, applied, run>>
vars == <<server, link, local>>

Event == 1..MaxEvents
Statuses == {"none", "signed_out", "disconnected", "connecting", "connected",
             "syncing", "waitingForNetwork"}
Frame == [event : {"connected", "message"}, cursor : Nat, seq : Nat]

Idle == [step |-> "idle", dev |-> NoDevice, page |-> 0, from |-> 0, cursor |-> 0,
         upto |-> 0, batch |-> {}, events |-> 0, top |-> 0, more |-> FALSE]

SignedIn == {d \in Devices : status[d] \notin {"none", "signed_out"}}

Larger(a, b) == IF a >= b THEN a ELSE b
Least(S) == CHOOSE x \in S : \A y \in S : x <= y

Init ==
    /\ head = 0 /\ log = {} /\ numbered = {} /\ publishing = {} /\ live = {}
    /\ sync_cursor = [d \in Devices |-> 0]
    /\ acks = [d \in Devices |-> {}]
    /\ hello = [d \in Devices |-> <<>>]
    /\ hellos = 0
    /\ wire = [d \in Devices |-> <<>>]
    /\ registered = {}
    /\ status = [d \in Devices |-> "none"]
    /\ cursor = [d \in Devices |-> 0]
    /\ applied = [d \in Devices |-> {}]
    /\ since = [d \in Devices |-> 0]
    /\ run = [r \in Runs |-> Idle]

-----------------------------------------------------------------------------
(* The server. *)

\* A transaction appends an event; edits, deletes and clears are broadcast
\* without their sequence number, new messages with it.
Commit(withSeq) ==
    /\ head < MaxEvents
    /\ head' = head + 1
    /\ log' = log \cup {head + 1}
    /\ numbered' = IF withSeq THEN numbered \cup {head + 1} ELSE numbered
    /\ publishing' = publishing \cup {head + 1}
    /\ UNCHANGED <<live, sync_cursor, since, link, local>>

\* The handlers that committed publish in any order, to whoever is registered
\* at that moment.  The bus and the hub may drop the frame.
broadcast(e) ==
    /\ e \in publishing
    /\ publishing' = publishing \ {e}
    /\ \E got \in IF "lose_frame" \in Faults THEN SUBSET registered ELSE {registered} :
         wire' = [d \in Devices |->
                    IF d \in got
                    THEN Append(wire[d], [event |-> "message", cursor |-> 0, seq |-> e])
                    ELSE wire[d]]
    /\ UNCHANGED <<head, log, numbered, live, sync_cursor, since,
                   acks, hello, hellos, registered, local>>

\* The cursor of the slowest live device; with no live device, no limit.
ConsumedByAny == IF live = {} THEN head
                 ELSE CHOOSE c \in {sync_cursor[d] : d \in live} :
                        \A d \in live : sync_cursor[d] <= c

Consumed == IF live = {} THEN head ELSE Least({sync_cursor[d] : d \in live})

\* Events up to k are older than the grace period.
PruneEvents(k) ==
    /\ log' = {e \in log : ~ (e <= k /\ e <= Consumed)}
    /\ log' # log
    /\ UNCHANGED <<head, numbered, publishing, live, sync_cursor, since, link, local>>

UpdateSyncCursor(d, c) == [sync_cursor EXCEPT ![d] = Larger(@, c)]

handleSyncAck(d) ==
    /\ \E c \in acks[d] :
         /\ sync_cursor' = UpdateSyncCursor(d, c)
         /\ acks' = [acks EXCEPT ![d] = @ \ {c}]
    /\ UNCHANGED <<head, log, numbered, publishing, live, since,
                   hello, hellos, wire, registered, local>>

-----------------------------------------------------------------------------
(* Signing in and out. *)

SignIn(d) ==
    /\ status[d] = "none"
    /\ live' = live \cup {d}
    /\ since' = [since EXCEPT ![d] = head]
    /\ status' = [status EXCEPT ![d] = "disconnected"]
    /\ UNCHANGED <<head, log, numbered, publishing, sync_cursor, link,
                   cursor, applied, run>>

DropLink(d) ==
    /\ registered' = registered \ {d}
    /\ wire' = [wire EXCEPT ![d] = <<>>]
    /\ hello' = [hello EXCEPT ![d] = <<>>]
    /\ UNCHANGED <<acks, hellos>>

\* The local session is torn down even if the logout request failed, and the
\* local database is wiped.  A catch-up that is running is not stopped.
SignOut(d) ==
    /\ d \in SignedIn
    /\ live' \in {live, live \ {d}}
    /\ DropLink(d)
    /\ status' = [status EXCEPT ![d] = "signed_out"]
    /\ cursor' = [cursor EXCEPT ![d] = 0]
    /\ applied' = [applied EXCEPT ![d] = {}]
    /\ UNCHANGED <<head, log, numbered, publishing, sync_cursor, since, run>>

-----------------------------------------------------------------------------
(* The connection. *)

\* The server authenticates the socket and reads the device's cursor and the
\* head of the log for the first frame.
Handshake(d) ==
    /\ status[d] \in {"disconnected", "waitingForNetwork"}
    /\ d \in live
    /\ hellos < MaxHellos
    /\ hellos' = hellos + 1
    /\ hello' = [hello EXCEPT ![d] =
                   <<[event |-> "connected", cursor |-> sync_cursor[d], seq |-> head]>>]
    /\ status' = [status EXCEPT ![d] = "connecting"]
    /\ UNCHANGED <<server, acks, wire, registered, cursor, applied, run>>

\* The first frame is queued, then the hub learns of the socket.
register(d) ==
    /\ hello[d] # <<>>
    /\ wire' = [wire EXCEPT ![d] = hello[d]]
    /\ registered' = registered \cup {d}
    /\ hello' = [hello EXCEPT ![d] = <<>>]
    /\ UNCHANGED <<server, acks, hellos, local>>

\* The socket drops and the client schedules a reconnection.
Disconnect(d) ==
    /\ "disconnect" \in Faults
    /\ status[d] \in {"connecting", "connected", "syncing"}
    /\ DropLink(d)
    /\ status' = [status EXCEPT ![d] = "waitingForNetwork"]
    /\ UNCHANGED <<server, cursor, applied, run>>

\* The app is killed and started again: only the local database survives.
Restart(d) ==
    /\ "restart" \in Faults
    /\ d \in SignedIn /\ status[d] # "disconnected"
    /\ DropLink(d)
    /\ status' = [status EXCEPT ![d] = "disconnected"]
    /\ run' = [r \in Runs |-> IF run[r].dev = d THEN Idle ELSE run[r]]
    /\ UNCHANGED <<server, cursor, applied>>

-----------------------------------------------------------------------------
(* Frames at the device. *)

startCatchUp(d, c) ==
    \E r \in Runs :
        /\ run[r].step \in {"idle", "done"}
        /\ run' = [run EXCEPT ![r] = [Idle EXCEPT !.step = "get", !.dev = d, !.page = 1,
                                    !.from = c, !.cursor = c, !.upto = head]]

\* The first frame decides the status.  The app starts a catch-up, from the
\* cursor of its database, on the change to "connected" and only then.  The
\* protocol has a device catch up when the frame says it is behind.
onConnected(d) ==
    /\ wire[d] # <<>> /\ Head(wire[d]).event = "connected"
    /\ wire' = [wire EXCEPT ![d] = Tail(@)]
    /\ LET behind == Head(wire[d]).cursor < Head(wire[d]).seq IN
       /\ status' = [status EXCEPT ![d] = IF behind THEN "syncing" ELSE "connected"]
       /\ IF d \in Mobile
          THEN IF behind THEN UNCHANGED run ELSE startCatchUp(d, cursor[d])
          ELSE IF behind THEN startCatchUp(d, Head(wire[d]).cursor) ELSE UNCHANGED run
    /\ UNCHANGED <<server, acks, hello, hellos, registered, cursor, applied>>

advanceSyncCursor(d, c) == [cursor EXCEPT ![d] = Larger(@, c)]

\* The event is stored; in the app, a frame with a number moves the cursor to it.
onFrame(d) ==
    /\ wire[d] # <<>> /\ Head(wire[d]).event = "message"
    /\ LET e == Head(wire[d]).seq IN
       /\ applied' = [applied EXCEPT ![d] = @ \cup {e}]
       /\ cursor' = IF d \in Mobile /\ e \in numbered THEN advanceSyncCursor(d, e) ELSE cursor
    /\ wire' = [wire EXCEPT ![d] = Tail(@)]
    /\ UNCHANGED <<server, acks, hello, hellos, registered, status, run>>

-----------------------------------------------------------------------------
(* catchUp *)

\* The first PageSize events above c.
EventsSince(c) ==
    {e \in log : e > c /\ Cardinality({f \in log : c < f /\ f < e}) < PageSize}

\* The page, and whether the head read after it says there is more.
getPage(r) ==
    /\ run[r].step = "get"
    /\ run[r].dev \in live
    /\ LET page == EventsSince(run[r].cursor)
           top == IF page = {} THEN run[r].cursor
                  ELSE CHOOSE e \in page : \A f \in page : f <= e IN
       run' = [run EXCEPT ![r] = [run[r] EXCEPT !.step = "apply", !.batch = page,
                 !.events = Cardinality(page), !.top = top,
                 !.more = page # {} /\ top < head]]
    /\ UNCHANGED <<server, link, status, cursor, applied>>

\* One storeMessage or markMessageDeleted; the loop awaits each of them.
applyEvent(r) ==
    /\ run[r].step = "apply" /\ run[r].batch # {}
    /\ LET e == Least(run[r].batch)  d == run[r].dev IN
       /\ applied' = [applied EXCEPT ![d] = @ \cup {e}]
       /\ run' = [run EXCEPT ![r].batch = @ \ {e}]
    /\ UNCHANGED <<server, link, status, cursor>>

\* The answer names the head `server_seq`; the app looks for `latest` and,
\* finding none, keeps its cursor.
latest(r) == run[r].cursor

\* The app asks for another page after a full one, up to 20 of them; then it
\* acknowledges its cursor on the socket, if there is one.
endPage(r) ==
    LET d == run[r].dev  c == Larger(run[r].cursor, latest(r)) IN
    /\ run[r].step = "apply" /\ run[r].batch = {} /\ d \in Mobile
    /\ cursor' = IF latest(r) > run[r].cursor THEN advanceSyncCursor(d, c) ELSE cursor
    /\ IF run[r].events < PageSize \/ run[r].page = MaxPages
       THEN /\ run' = [run EXCEPT ![r].step = "done", ![r].cursor = c]
            /\ acks' = IF status[d] \in {"connected", "syncing"}
                       THEN [acks EXCEPT ![d] = @ \cup {c}] ELSE acks
       ELSE /\ run' = [run EXCEPT ![r].step = "get", ![r].cursor = c,
                                  ![r].page = @ + 1]
            /\ UNCHANGED acks
    /\ UNCHANGED <<server, hello, hellos, wire, registered, status, applied>>

\* The protocol: acknowledge the highest sequence number applied, ask again
\* while has_more.
ackBatch(r) ==
    LET d == run[r].dev  c == run[r].top IN
    /\ run[r].step = "apply" /\ run[r].batch = {} /\ d \notin Mobile
    /\ status[d] = "syncing"
    /\ acks' = [acks EXCEPT ![d] = @ \cup {c}]
    /\ cursor' = advanceSyncCursor(d, c)
    /\ run' = [run EXCEPT ![r].step = IF run[r].more THEN "get" ELSE "done",
                         ![r].cursor = c]
    /\ UNCHANGED <<server, hello, hellos, wire, registered, status, applied>>

\* A request that fails ends the catch-up: nobody awaits it.
failPage(r) ==
    /\ run[r].step = "get"
    /\ "rest_error" \in Faults \/ run[r].dev \notin live
    /\ run' = [run EXCEPT ![r] = Idle]
    /\ UNCHANGED <<server, link, status, cursor, applied>>

-----------------------------------------------------------------------------
Next ==
    \/ \E b \in BOOLEAN : Commit(b)
    \/ \E e \in publishing : broadcast(e)
    \/ \E k \in Event : PruneEvents(k)
    \/ \E d \in Devices : \/ SignIn(d) \/ SignOut(d) \/ Handshake(d) \/ register(d)
                          \/ Disconnect(d) \/ Restart(d) \/ handleSyncAck(d)
                          \/ onConnected(d) \/ onFrame(d)
    \/ \E r \in Runs : getPage(r) \/ applyEvent(r) \/ endPage(r) \/ ackBatch(r) \/ failPage(r)

Spec == Init /\ [][Next]_vars

\* The client keeps reconnecting, the server keeps serving, both keep reading.
Fairness ==
    /\ \A d \in Devices : /\ WF_vars(Handshake(d)) /\ WF_vars(register(d))
                          /\ WF_vars(onConnected(d)) /\ WF_vars(onFrame(d))
    /\ \A r \in Runs : /\ WF_vars(getPage(r)) /\ WF_vars(applyEvent(r))
                       /\ WF_vars(endPage(r)) /\ WF_vars(ackBatch(r))

FairSpec == Spec /\ Fairness

-----------------------------------------------------------------------------
(* Properties *)

\* Every table, frame and catch-up has its shape.
TypeOK ==
    /\ head \in 0..MaxEvents
    /\ log \subseteq 1..head /\ numbered \subseteq 1..head /\ publishing \subseteq 1..head
    /\ live \subseteq Devices /\ registered \subseteq Devices
    /\ sync_cursor \in [Devices -> 0..head] /\ cursor \in [Devices -> 0..head]
    /\ acks \in [Devices -> SUBSET (0..head)]
    /\ hello \in [Devices -> Seq(Frame)] /\ wire \in [Devices -> Seq(Frame)]
    /\ status \in [Devices -> Statuses]
    /\ applied \in [Devices -> SUBSET (1..head)]
    /\ since \in [Devices -> 0..head]
    /\ \A r \in Runs : /\ run[r].step \in {"idle", "get", "apply", "done"}
                       /\ run[r].page \in 0..MaxPages
                       /\ run[r].batch \subseteq 1..head

\* The worker never prunes an event that a live device, signed in when the
\* event was written, has not acknowledged, however acknowledgements, sign-outs
\* and failed logouts interleave with it.
UnackedStaysReadable ==
    \A d \in live : \A e \in 1..head :
        e > since[d] /\ e > sync_cursor[d] => e \in log

\* What a device that follows the protocol has acknowledged it has applied,
\* however often it crashed or lost the socket in the middle of a batch and
\* whatever arrived live meanwhile: with UnackedStaysReadable, nothing is lost.
AckedIsApplied ==
    \A d \in SignedIn \ Mobile : \A e \in 1..sync_cursor[d] :
        e > since[d] => e \in applied[d]

\* The cursors on both sides only move forward, except that signing out wipes
\* the device.
CursorsOnlyAdvance ==
    [][\A d \in Devices : /\ sync_cursor'[d] >= sync_cursor[d]
                          /\ status'[d] # "signed_out" => cursor'[d] >= cursor[d]]_vars

\* All together: no event is lost between the log and a device that keeps to the protocol
\* (PruneEvents, UpdateSyncCursor, EventsSince).
NoEventIsLost == [](TypeOK /\ UnackedStaysReadable /\ AckedIsApplied) /\ CursorsOnlyAdvance

-----------------------------------------------------------------------------
\* What the repository says of this code and the code does not do. These
\* formulas are violated; README.md says under which constants.

\* "this returns exactly the events between where the device got to and now,
\* however long it was away": a finished catch-up of fewer than 20 pages has
\* brought everything.
CatchUpReachesTheHead ==
    \A r \in Runs : LET d == run[r].dev IN
        run[r].step = "done" /\ d \in SignedIn =>
            \A e \in 1..run[r].upto :
                e > since[d] /\ e > run[r].from => e \in applied[d]

\* "a device that misses a frame catches up by cursor": an event the cursor
\* has passed is applied, or still on its way.
MissedFramesAreRecovered ==
    \A d \in SignedIn : \A e \in 1..cursor[d] :
        \/ e <= since[d] \/ e \in applied[d] \/ e \in publishing
        \/ \E i \in 1..Len(wire[d]) : wire[d][i].event = "message" /\ wire[d][i].seq = e
        \/ \E r \in Runs : /\ run[r].dev = d /\ run[r].step \in {"get", "apply"}
                           /\ e > run[r].cursor

\* "A reconnection is exactly when this device is most likely to be behind,
\* so the catch-up runs then": a device that reconnects behind the log starts
\* a catch-up or loses the connection again.
ReconnectionCatchesUp ==
    \A d \in Devices : status[d] = "syncing" /\ (\A r \in Runs : run[r].dev # d) ~>
        \/ status[d] # "syncing"
        \/ \E r \in Runs : run[r].dev = d

\* "Wipes every local trace of the account on sign-out."
SignedOutIsWiped == \A d \in Devices : status[d] = "signed_out" => applied[d] = {}

=============================================================================
