----------------------------- MODULE RealtimeHub -----------------------------
(***************************************************************************)
(* The WebSocket hub of one node (backend/internal/realtime/hub.go,        *)
(* client.go) and the life of a connection (Handler.ServeHTTP).  Presence  *)
(* models the keys a connection leaves in Redis; here it is only known to  *)
(* publish on the user's subject when a connection starts, and perhaps     *)
(* when it ends.                                                           *)
(*                                                                         *)
(* Each connection is a goroutine that runs ServeHTTP to its end, with a   *)
(* write pump beside it.  Each bus subscription delivers on a goroutine of *)
(* its own: it takes a message, reads under the hub's lock who is to get   *)
(* it, and queues it on one socket after the other without the lock.       *)
(* What a handler does while it holds the hub's lock is one step.          *)
(*                                                                         *)
(* Frames are told apart by their number on the bus; the frame that greets *)
(* a connection and the answers to its requests never cross the bus.       *)
(***************************************************************************)
EXTENDS Integers, Sequences, FiniteSets

CONSTANTS
    Users, Sockets, Chats,
    SendBuffer,   \* sendBufferSize, 256
    MaxPosts,     \* bound on what is published on the bus
    MaxRequests,  \* bound on chat.subscribe and chat.unsubscribe per connection
    Faults        \* the faults this instance exhibits

ASSUME HubBounds == SendBuffer \in Nat \ {0} /\ MaxPosts \in Nat /\ MaxRequests \in Nat
ASSUME HubNames == Users \cap Chats = {} /\ IsFiniteSet(Sockets)
ASSUME HubFaults == Faults \subseteq {"subscribe", "shutdown"}

VARIABLES
    at,           \* connection -> where ServeHTTP stands
    user,         \* connection -> the user it authenticated as
    requests,     \* connection -> chat requests it made (bound)
    connections,  \* Hub.connections: the registered connections
    userSubs,     \* Hub.userSubs: users with a bus subscription
    chatSubs,     \* Hub.chatSubs: chat -> refCount, 0 where there is no entry
    chatSubscriptions, \* Client.chatSubscriptions
    send,         \* Client.send: the frames queued for the write pump
    out,          \* connection -> the messages written to the socket
    closed,       \* connections whose Client.closed is closed
    pending,      \* subject -> messages its subscription holds (bus client)
    deliveries,   \* callbacks of subscriptions that are running
    published,    \* number -> subject of the message and who it came from
    due           \* (ghost) connection -> messages published while it listened,
                  \*         with their subject

conn == <<at, user, requests>>
hub == <<connections, userSubs, chatSubs, chatSubscriptions>>
queues == <<send, out, closed>>
bus == <<pending, deliveries, published, due>>
vars == <<conn, hub, queues, bus>>

Subjects == Users \cup Chats
Frame == [kind : {"connected", "ack", "event"}, no : Nat]
Connected == [kind |-> "connected", no |-> 0]
Ack == [kind |-> "ack", no |-> 0]
Message(n) == [kind |-> "event", no |-> n]

Steps == {"new", "greeted", "registered", "serving", "left", "done"}

Init ==
    /\ at = [s \in Sockets |-> "new"]
    /\ user \in [Sockets -> Users]
    /\ requests = [s \in Sockets |-> 0]
    /\ connections = {} /\ userSubs = {}
    /\ chatSubs = [c \in Chats |-> 0]
    /\ chatSubscriptions = [s \in Sockets |-> {}]
    /\ send = [s \in Sockets |-> <<>>]
    /\ out = [s \in Sockets |-> {}]
    /\ closed = {}
    /\ pending = [j \in Subjects |-> <<>>]
    /\ deliveries = {} /\ published = <<>>
    /\ due = [s \in Sockets |-> {}]

-----------------------------------------------------------------------------
(* The bus, as the hub uses it. *)

Subscribed == userSubs \cup {c \in Chats : chatSubs[c] > 0}

\* Who hears a message on a subject now.
Listeners(j) ==
    {s \in connections : IF j \in Users THEN user[s] = j ELSE j \in chatSubscriptions[s]}

\* A message reaches the subscription this node holds on the subject, if any.
PublishRealtime(j, from) ==
    LET n == Len(published) + 1 IN
    /\ n <= MaxPosts
    /\ published' = Append(published, [subject |-> j, from |-> from])
    /\ pending' = IF j \in Subscribed THEN [pending EXCEPT ![j] = Append(@, n)] ELSE pending
    /\ due' = [s \in Sockets |-> IF s \in Listeners(j) THEN due[s] \cup {<<j, n>>} ELSE due[s]]

\* Giving up a subscription drops what it still holds; a callback that has
\* started runs on.
Unsubscribe(J) ==
    /\ pending' = [j \in Subjects |-> IF j \in J THEN <<>> ELSE pending[j]]
    /\ deliveries' = {IF d.subject \in J THEN [d EXCEPT !.orphan = TRUE] ELSE d : d \in deliveries}

\* The subscription hands its next message to the callback.
Take(j) ==
    /\ pending[j] # <<>>
    /\ \A d \in deliveries : d.subject = j => d.orphan
    /\ deliveries' = deliveries \cup
         {[subject |-> j, no |-> Head(pending[j]), step |-> "taken", left |-> {}, orphan |-> FALSE]}
    /\ pending' = [pending EXCEPT ![j] = Tail(@)]
    /\ UNCHANGED <<conn, hub, queues, published, due>>

-----------------------------------------------------------------------------
(* Client. *)

\* A form that drops a frame that does not fit and keeps the connection.
enqueueDropping(s, f) ==
    /\ send' = IF Len(send[s]) < SendBuffer THEN [send EXCEPT ![s] = Append(@, f)] ELSE send
    /\ closed' = closed

\* enqueue: the frame fits, or the connection is already closed, or it is
\* closed for being slow.
enqueue(s, f) ==
    \/ /\ Len(send[s]) < SendBuffer
       /\ send' = [send EXCEPT ![s] = Append(@, f)]
       /\ closed' = closed
    \/ /\ s \in closed
       /\ UNCHANGED <<send, closed>>
    \/ /\ Len(send[s]) = SendBuffer
       /\ s \notin closed
       /\ closed' = closed \cup {s}
       /\ send' = send

\* writePump runs from the registration until the connection is closed.
writePump(s) ==
    /\ at[s] \notin {"new", "greeted"} /\ s \notin closed
    /\ send[s] # <<>>
    /\ LET f == Head(send[s]) IN
       out' = IF f.kind = "event" THEN [out EXCEPT ![s] = @ \cup {f.no}] ELSE out
    /\ send' = [send EXCEPT ![s] = Tail(@)]
    /\ UNCHANGED <<conn, hub, closed, bus>>

\* A write fails, or no ping gets through: the pump ends and closes.
writeFails(s) ==
    /\ at[s] \notin {"new", "greeted"} /\ s \notin closed
    /\ closed' = closed \cup {s}
    /\ UNCHANGED <<conn, hub, send, out, bus>>

-----------------------------------------------------------------------------
(* Hub. *)

registered(s) ==
    /\ connections' = connections \cup {s}
    /\ userSubs' = userSubs \cup {user[s]}
    /\ UNCHANGED <<chatSubs, chatSubscriptions>>

\* The subscriptions left without a listener when s goes.
LastOfUser(s) == IF \E t \in connections \ {s} : user[t] = user[s] THEN {} ELSE {user[s]}
LastOfChats(s) == {c \in chatSubscriptions[s] : chatSubs[c] = 1}

releaseChat(C) == [c \in Chats |-> IF c \in C /\ chatSubs[c] > 0 THEN chatSubs[c] - 1 ELSE chatSubs[c]]

\* A form that does not release the chats of the connection.
unregisterKeepingChats(s) ==
    /\ connections' = connections \ {s}
    /\ userSubs' = userSubs \ LastOfUser(s)
    /\ Unsubscribe(LastOfUser(s))
    /\ UNCHANGED <<chatSubs, chatSubscriptions>>

unregister(s) ==
    /\ connections' = connections \ {s}
    /\ userSubs' = userSubs \ LastOfUser(s)
    /\ chatSubs' = releaseChat(chatSubscriptions[s])
    /\ Unsubscribe(LastOfUser(s) \cup LastOfChats(s))
    /\ UNCHANGED chatSubscriptions

\* The callback reads under the lock who has a socket here.
deliverTo(d) ==
    /\ d \in deliveries /\ d.step = "taken"
    /\ deliveries' = (deliveries \ {d}) \cup
         {[d EXCEPT !.step = "sending", !.left = Listeners(d.subject)]}
    /\ UNCHANGED <<conn, hub, queues, pending, published, due>>

\* ... and queues the frame on each of them.
deliverNext(d, s) ==
    /\ d \in deliveries /\ d.step = "sending" /\ s \in d.left
    /\ enqueue(s, Message(d.no))
    /\ deliveries' = (deliveries \ {d}) \cup {[d EXCEPT !.left = @ \ {s}]}
    /\ UNCHANGED <<conn, hub, out, pending, published, due>>

delivered(d) ==
    /\ d \in deliveries /\ d.step = "sending" /\ d.left = {}
    /\ deliveries' = deliveries \ {d}
    /\ UNCHANGED <<conn, hub, queues, pending, published, due>>

\* Every socket is told that the server is going away.
Shutdown ==
    /\ "shutdown" \in Faults
    /\ ~ connections \subseteq closed
    /\ closed' = closed \cup connections
    /\ UNCHANGED <<conn, hub, send, out, bus>>

\* Another handler publishes an event on a subject, on behalf of a connection
\* that is being served.
Post(j, s) ==
    /\ at[s] = "serving"
    /\ PublishRealtime(j, s)
    /\ UNCHANGED <<conn, hub, queues, deliveries>>

-----------------------------------------------------------------------------
(* ServeHTTP. *)

Goto(s, step) == at' = [at EXCEPT ![s] = step] /\ UNCHANGED <<user, requests>>

\* The connected frame is queued before the hub knows of the connection.
greet(s) ==
    /\ at[s] = "new"
    /\ enqueue(s, Connected)
    /\ Goto(s, "greeted")
    /\ UNCHANGED <<hub, out, bus>>

register(s) ==
    /\ at[s] = "greeted"
    /\ registered(s)
    /\ Goto(s, "registered")
    /\ UNCHANGED <<queues, bus>>

\* The bus refuses the subscription: nothing is left behind.
registerFails(s) ==
    /\ "subscribe" \in Faults
    /\ at[s] = "greeted" /\ user[s] \notin userSubs
    /\ closed' = closed \cup {s}
    /\ Goto(s, "done")
    /\ UNCHANGED <<hub, send, out, bus>>

\* frameHandler.handleChatSubscribe for a member of the chat; a chat that is
\* already subscribed or not subscribed is only acknowledged.  A frame that
\* was read before the socket was closed is still handled.
subscribeChat(s, c) ==
    /\ chatSubscriptions' = [chatSubscriptions EXCEPT ![s] = @ \cup {c}]
    /\ chatSubs' = IF c \in chatSubscriptions[s] THEN chatSubs ELSE [chatSubs EXCEPT ![c] = @ + 1]
    /\ UNCHANGED <<pending, deliveries, due>>

unsubscribeChat(s, c) ==
    IF c \in chatSubscriptions[s]
    THEN /\ chatSubscriptions' = [chatSubscriptions EXCEPT ![s] = @ \ {c}]
         /\ chatSubs' = releaseChat({c})
         /\ Unsubscribe(IF chatSubs[c] = 1 THEN {c} ELSE {})
         /\ due' = [due EXCEPT ![s] = {x \in @ : x[1] # c}]
    ELSE UNCHANGED <<chatSubscriptions, chatSubs, pending, deliveries, due>>

\* The bus refuses the subscription and the client is told so.
subscribeFails(c) ==
    /\ "subscribe" \in Faults /\ chatSubs[c] = 0
    /\ UNCHANGED <<chatSubscriptions, chatSubs, pending, deliveries, due>>

handleChatSubscribe(s, c) ==
    /\ at[s] = "serving" /\ requests[s] < MaxRequests
    /\ requests' = [requests EXCEPT ![s] = @ + 1]
    /\ subscribeChat(s, c) \/ subscribeFails(c) \/ unsubscribeChat(s, c)
    /\ enqueue(s, Ack)
    /\ UNCHANGED <<at, user, connections, userSubs, out, published>>

\* A form whose read loop does not notice that the socket was closed.
readPumpHangs(s) ==
    /\ at[s] = "serving"
    /\ IF s \in closed THEN UNCHANGED vars
       ELSE /\ unregister(s)
            /\ closed' = closed \cup {s}
            /\ Goto(s, "left")
            /\ UNCHANGED <<send, out, published, due>>

\* readPump ends: the peer went away, the read deadline passed, or the socket
\* was closed.  The connection leaves the hub and is closed.
readPumpEnds(s) ==
    /\ at[s] = "serving"
    /\ unregister(s)
    /\ closed' = closed \cup {s}
    /\ Goto(s, "left")
    /\ UNCHANGED <<send, out, published, due>>

\* presence.MarkOnline announces unless Redis fails, MarkOffline where it finds
\* no other device.
AnnounceOrNot(s) ==
    PublishRealtime(user[s], "presence") \/ UNCHANGED <<published, pending, due>>

MarkOnline(s) ==
    /\ at[s] = "registered"
    /\ AnnounceOrNot(s)
    /\ Goto(s, "serving")
    /\ UNCHANGED <<hub, queues, deliveries>>

MarkOffline(s) ==
    /\ at[s] = "left"
    /\ AnnounceOrNot(s)
    /\ Goto(s, "done")
    /\ UNCHANGED <<hub, queues, deliveries>>

-----------------------------------------------------------------------------
Serve(s) ==
    \/ greet(s) \/ register(s) \/ registerFails(s)
    \/ MarkOnline(s) \/ MarkOffline(s)

Deliver ==
    \/ \E j \in Subjects : Take(j)
    \/ \E d \in deliveries : deliverTo(d) \/ delivered(d) \/ \E s \in d.left : deliverNext(d, s)

Finished == (\A s \in Sockets : at[s] = "done") /\ UNCHANGED vars

Next ==
    \/ \E s \in Sockets :
         \/ Serve(s) \/ readPumpEnds(s) \/ writePump(s) \/ writeFails(s)
         \/ \E c \in Chats : handleChatSubscribe(s, c)
         \/ \E j \in Subjects : Post(j, s)
    \/ Deliver \/ Shutdown \/ Finished

Spec == Init /\ [][Next]_vars

\* Goroutines run on; a read on a closed socket returns.  Nothing obliges a
\* peer to leave or a write pump to make progress.
Fairness ==
    /\ \A s \in Sockets : WF_vars(Serve(s)) /\ WF_vars(s \in closed /\ readPumpEnds(s))
    /\ WF_vars(Deliver)

FairSpec == Spec /\ Fairness

-----------------------------------------------------------------------------
(* Properties. *)

Queued(s) == {i \in DOMAIN send[s] : send[s][i].kind = "event"}

TypeOK ==
    /\ at \in [Sockets -> Steps] /\ user \in [Sockets -> Users]
    /\ requests \in [Sockets -> 0..MaxRequests] /\ Len(published) <= MaxPosts
    /\ connections \subseteq Sockets /\ closed \subseteq Sockets /\ userSubs \subseteq Users
    /\ chatSubs \in [Chats -> 0..Cardinality(Sockets)]
    /\ chatSubscriptions \in [Sockets -> SUBSET Chats]
    /\ \A s \in Sockets :
         /\ Len(send[s]) <= SendBuffer
         /\ \A i \in DOMAIN send[s] : send[s][i] \in Frame
         /\ out[s] \subseteq DOMAIN published
    /\ \A j \in Subjects : \A i \in DOMAIN pending[j] : pending[j][i] \in DOMAIN published
    /\ \A d \in deliveries :
         /\ d.subject \in Subjects /\ d.no \in DOMAIN published /\ d.left \subseteq Sockets
         /\ d.step \in {"taken", "sending"} /\ d.orphan \in BOOLEAN

\* The node holds a bus subscription for a user exactly while a socket of
\* that user is registered, and counts the sockets that have a chat open
\* exactly (register, unregister, subscribeChat, releaseChatLocked): no
\* listener is left without its subscription, none outlives its listeners.
SubscriptionsMatchListeners ==
    /\ userSubs = {user[s] : s \in connections}
    /\ \A c \in Chats : chatSubs[c] = Cardinality(Listeners(c))

\* A message published while a socket listened is written, queued, held by the
\* subscription or in the hands of a callback that will come to this socket,
\* unless the socket was closed (hub.deliverToUser, deliverToChat,
\* client.enqueue): a frame is dropped only together with its connection.
NothingDroppedSilently ==
    \A s \in connections \ closed : \A x \in due[s] :
        \/ x[2] \in out[s]
        \/ \E i \in Queued(s) : send[s][i].no = x[2]
        \/ \E i \in DOMAIN pending[x[1]] : pending[x[1]][i] = x[2]
        \/ \E d \in deliveries : d.no = x[2] /\ (d.step = "taken" \/ s \in d.left)

\* No socket is given the same message twice, even where a subscription is
\* given up and opened again while its callback is still running.
NoFrameTwice ==
    \A s \in Sockets : \A i \in Queued(s) :
        /\ send[s][i].no \notin out[s]
        /\ \A k \in Queued(s) : send[s][i].no = send[s][k].no => i = k

\* All together: a frame reaches a listening socket once or the socket is closed.
FramesArriveOnce == TypeOK /\ NothingDroppedSilently /\ NoFrameTwice

\* A connection that is closed, by its peer, for being slow or by a shutdown,
\* leaves the hub and ends (readPump, ServeHTTP).
ClosedIsForgotten ==
    \A s \in Sockets : s \in closed ~> at[s] = "done" /\ s \notin connections

-----------------------------------------------------------------------------
\* What the repository says of this code and the code does not do. These
\* formulas are violated; README.md says under which constants.

\* A client never sees its own echo on a chat it has open (deliverToChat).
NoEcho ==
    \A s \in Sockets : \A n \in out[s] :
        ~ (published[n].subject \in Chats /\ published[n].from = s)
=============================================================================
