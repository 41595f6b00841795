-------------------------- MODULE RealtimeHub_proofs ---------------------------
(***************************************************************************)
(* Proofs about RealtimeHub, for every number of sockets, chats and users, *)
(* every buffer size and every bound: the node's subscriptions match its   *)
(* listeners, and a frame reaches a listening socket once or the socket is *)
(* closed.                                                                 *)
(***************************************************************************)
EXTENDS RealtimeHub, TLAPS, FiniteSetTheorems

\* ServeHTTP and the tables of the hub have their shape.
HubTables ==
    /\ at \in [Sockets -> Steps] /\ user \in [Sockets -> Users]
    /\ requests \in [Sockets -> 0..MaxRequests]
    /\ connections \subseteq Sockets /\ userSubs \subseteq Users
    /\ chatSubs \in [Chats -> Nat]
    /\ chatSubscriptions \in [Sockets -> SUBSET Chats]

\* The hub knows a connection from its registration until its read loop ends,
\* and no connection has a chat open before.
HubFollowsServe ==
    \A s \in Sockets :
        /\ s \in connections <=> at[s] \in {"registered", "serving"}
        /\ at[s] \in {"new", "greeted"} => chatSubscriptions[s] = {}

HubInv == HubTables /\ HubFollowsServe /\ SubscriptionsMatchListeners

ChatListeners(c) == {s \in connections : c \in chatSubscriptions[s]}

\* A chat is not a user: who hears it is who has it open.
LEMMA ChatIsNotUser ==
  ASSUME NEW c \in Chats
  PROVE  Listeners(c) = ChatListeners(c)
<1>1. c \notin Users
  BY HubNames
<1> QED
  BY <1>1 DEF Listeners, ChatListeners

LEMMA ChatIsNotUserNext ==
  ASSUME NEW c \in Chats
  PROVE  Listeners(c)' = ChatListeners(c)'
<1>1. c \notin Users
  BY HubNames
<1> QED
  BY <1>1 DEF Listeners, ChatListeners

LEMMA ListenersAreFinite ==
  ASSUME HubTables, NEW c \in Chats
  PROVE  IsFiniteSet(ChatListeners(c)) /\ Cardinality(ChatListeners(c)) \in Nat
<1>1. ChatListeners(c) \subseteq Sockets
  BY DEF HubTables, ChatListeners
<1> QED
  BY <1>1, HubNames, FS_Subset, FS_CardinalityType

\* What the counters say of a chat, in terms of who has it open.
LEMMA CountsOfChat ==
  ASSUME HubInv, NEW c \in Chats
  PROVE  /\ chatSubs[c] = Cardinality(ChatListeners(c))
         /\ chatSubs[c] > 0 <=> ChatListeners(c) # {}
         /\ chatSubs[c] = 1 => \A s, t \in ChatListeners(c) : s = t
<1>0. IsFiniteSet(ChatListeners(c)) /\ Cardinality(ChatListeners(c)) \in Nat
  BY ListenersAreFinite DEF HubInv
<1>1. chatSubs[c] = Cardinality(ChatListeners(c))
  BY ChatIsNotUser DEF HubInv, SubscriptionsMatchListeners
<1>2. Cardinality(ChatListeners(c)) = 0 <=> ChatListeners(c) = {}
  BY <1>0, FS_EmptySet
<1>3. ASSUME Cardinality(ChatListeners(c)) = 1 PROVE \A s, t \in ChatListeners(c) : s = t
  <2>1. PICK x : ChatListeners(c) = {x}
    BY <1>0, <1>3, FS_Singleton
  <2> QED
    BY <2>1
<1> QED
  BY <1>0, <1>1, <1>2, <1>3

\* Steps that touch neither the hub's tables nor where ServeHTTP stands, or
\* move it without entering or leaving the hub.
LEMMA HubUntouched ==
  ASSUME HubInv, UNCHANGED <<user, connections, userSubs, chatSubs, chatSubscriptions>>,
         at' \in [Sockets -> Steps], requests' \in [Sockets -> 0..MaxRequests],
         \A s \in Sockets : at[s] \in {"registered", "serving"} <=> at'[s] \in {"registered", "serving"},
         \A s \in Sockets : at'[s] \in {"new", "greeted"} => at[s] \in {"new", "greeted"}
  PROVE  HubInv'
<1>1. HubTables'
  BY DEF HubInv, HubTables
<1>2. HubFollowsServe'
  BY DEF HubInv, HubFollowsServe
<1>3. SubscriptionsMatchListeners'
  BY DEF HubInv, SubscriptionsMatchListeners, Listeners
<1> QED
  BY <1>1, <1>2, <1>3 DEF HubInv

LEMMA RegisterKeepsHub ==
  ASSUME HubInv, NEW s \in Sockets, register(s)
  PROVE  HubInv'
<1>0. /\ at[s] = "greeted" /\ at' = [at EXCEPT ![s] = "registered"] /\ UNCHANGED <<user, requests>>
      /\ connections' = connections \cup {s} /\ userSubs' = userSubs \cup {user[s]}
      /\ UNCHANGED <<chatSubs, chatSubscriptions>>
  BY DEF register, registered, Goto
<1>1. HubTables'
  BY <1>0 DEF HubInv, HubTables, Steps
<1>2. HubFollowsServe'
  BY <1>0 DEF HubInv, HubTables, HubFollowsServe
<1>3. userSubs' = {user'[t] : t \in connections'}
  BY <1>0 DEF HubInv, SubscriptionsMatchListeners
<1>4. ASSUME NEW c \in Chats PROVE chatSubs'[c] = Cardinality(Listeners(c)')
  <2>1. ChatListeners(c)' = ChatListeners(c)
    BY <1>0 DEF HubInv, HubFollowsServe, ChatListeners
  <2>2. Listeners(c)' = ChatListeners(c)
    BY <2>1, ChatIsNotUserNext
  <2> QED
    BY <1>0, <2>2, CountsOfChat
<1> QED
  BY <1>1, <1>2, <1>3, <1>4 DEF HubInv, SubscriptionsMatchListeners

\* A connection leaves: its user's subscription goes with the last of the
\* user's sockets, and every chat it had open is counted down.
LEMMA LeaveKeepsHub ==
  ASSUME HubInv, NEW s \in Sockets, readPumpEnds(s)
  PROVE  HubInv'
<1>0. /\ at[s] = "serving" /\ at' = [at EXCEPT ![s] = "left"] /\ UNCHANGED <<user, requests>>
      /\ connections' = connections \ {s} /\ userSubs' = userSubs \ LastOfUser(s)
      /\ chatSubs' = releaseChat(chatSubscriptions[s]) /\ UNCHANGED chatSubscriptions
  BY DEF readPumpEnds, unregister, Goto
<1>1. s \in connections
  BY <1>0 DEF HubInv, HubFollowsServe
<1>2. chatSubs' \in [Chats -> Nat]
  <2>1. ASSUME NEW c \in Chats, chatSubs[c] > 0 PROVE chatSubs[c] - 1 \in Nat
    BY <2>1 DEF HubInv, HubTables
  <2> QED
    BY <1>0, <2>1 DEF releaseChat, HubInv, HubTables
<1>3. HubTables'
  BY <1>0, <1>2 DEF HubInv, HubTables, Steps
<1>4. HubFollowsServe'
  BY <1>0 DEF HubInv, HubTables, HubFollowsServe
<1>5. userSubs' = {user'[t] : t \in connections'}
  BY <1>0, <1>1 DEF HubInv, SubscriptionsMatchListeners, LastOfUser
<1>6. ASSUME NEW c \in Chats PROVE chatSubs'[c] = Cardinality(Listeners(c)')
  <2>0. IsFiniteSet(ChatListeners(c)) /\ chatSubs[c] = Cardinality(ChatListeners(c))
    BY ListenersAreFinite, CountsOfChat DEF HubInv
  <2>1. ChatListeners(c)' = ChatListeners(c) \ {s}
    BY <1>0 DEF ChatListeners
  <2>2. Listeners(c)' = ChatListeners(c) \ {s}
    BY <2>1, ChatIsNotUserNext
  <2>3. CASE c \in chatSubscriptions[s]
    <3>1. s \in ChatListeners(c)
      BY <1>1, <2>3 DEF ChatListeners
    <3>2. chatSubs[c] > 0
      BY <3>1, CountsOfChat
    <3>3. Cardinality(ChatListeners(c) \ {s}) = Cardinality(ChatListeners(c)) - 1
      BY <2>0, <3>1, FS_RemoveElement
    <3> QED
      BY <1>0, <2>0, <2>2, <2>3, <3>2, <3>3 DEF releaseChat
  <2>4. CASE c \notin chatSubscriptions[s]
    <3>1. ChatListeners(c) \ {s} = ChatListeners(c)
      BY <2>4 DEF ChatListeners
    <3> QED
      BY <1>0, <2>0, <2>2, <2>4, <3>1 DEF releaseChat
  <2> QED
    BY <2>3, <2>4
<1> QED
  BY <1>3, <1>4, <1>5, <1>6 DEF HubInv, SubscriptionsMatchListeners

\* A chat is opened or closed on a connection that is being served.
LEMMA ChatRequestKeepsHub ==
  ASSUME HubInv, NEW s \in Sockets, NEW c \in Chats, handleChatSubscribe(s, c)
  PROVE  HubInv'
<1>0. /\ at[s] = "serving" /\ UNCHANGED <<at, user, connections, userSubs>>
      /\ requests' \in [Sockets -> 0..MaxRequests]
  <2>1. requests[s] + 1 \in 0..MaxRequests
    BY HubBounds DEF handleChatSubscribe, HubInv, HubTables
  <2> QED
    BY <2>1 DEF handleChatSubscribe, HubInv, HubTables
<1>1. s \in connections
  BY <1>0 DEF HubInv, HubFollowsServe
<1>2. CASE UNCHANGED <<chatSubscriptions, chatSubs>>
  BY <1>0, <1>2, HubUntouched DEF HubInv, HubTables
<1>3. CASE /\ c \notin chatSubscriptions[s]
           /\ chatSubscriptions' = [chatSubscriptions EXCEPT ![s] = @ \cup {c}]
           /\ chatSubs' = [chatSubs EXCEPT ![c] = @ + 1]
  <2>1. HubTables'
    BY <1>0, <1>3 DEF HubInv, HubTables
  <2>2. HubFollowsServe'
    BY <1>0, <1>3 DEF HubInv, HubTables, HubFollowsServe
  <2>3. ASSUME NEW x \in Chats PROVE chatSubs'[x] = Cardinality(Listeners(x)')
    <3>0. IsFiniteSet(ChatListeners(x)) /\ chatSubs[x] = Cardinality(ChatListeners(x))
      BY ListenersAreFinite, CountsOfChat DEF HubInv
    <3>1. CASE x = c
      <4>1. s \notin ChatListeners(x) /\ ChatListeners(x)' = ChatListeners(x) \cup {s}
        BY <1>0, <1>1, <1>3, <3>1 DEF HubInv, HubTables, ChatListeners
      <4>2. Listeners(x)' = ChatListeners(x) \cup {s}
        BY <4>1, ChatIsNotUserNext
      <4>3. Cardinality(ChatListeners(x) \cup {s}) = Cardinality(ChatListeners(x)) + 1
        BY <3>0, <4>1, FS_AddElement
      <4> QED
        BY <1>3, <3>0, <3>1, <4>2, <4>3 DEF HubInv, HubTables
    <3>2. CASE x # c
      <4>1. ChatListeners(x)' = ChatListeners(x)
        BY <1>0, <1>3, <3>2 DEF HubInv, HubTables, ChatListeners
      <4>2. Listeners(x)' = ChatListeners(x)
        BY <4>1, ChatIsNotUserNext
      <4> QED
        BY <1>3, <3>0, <3>2, <4>2 DEF HubInv, HubTables
    <3> QED
      BY <3>1, <3>2
  <2>4. userSubs' = {user'[t] : t \in connections'}
    BY <1>0 DEF HubInv, SubscriptionsMatchListeners
  <2> QED
    BY <2>1, <2>2, <2>3, <2>4 DEF HubInv, SubscriptionsMatchListeners
<1>4. CASE /\ c \in chatSubscriptions[s]
           /\ chatSubscriptions' = [chatSubscriptions EXCEPT ![s] = @ \ {c}]
           /\ chatSubs' = releaseChat({c})
  <2>0. s \in ChatListeners(c) /\ chatSubs[c] > 0
    <3>1. s \in ChatListeners(c)
      BY <1>1, <1>4 DEF ChatListeners
    <3> QED
      BY <3>1, CountsOfChat
  <2>1. HubTables'
    <3>1. chatSubs[c] - 1 \in Nat
      BY <2>0 DEF HubInv, HubTables
    <3>2. chatSubs' = [chatSubs EXCEPT ![c] = chatSubs[c] - 1]
      BY <1>4, <2>0 DEF releaseChat, HubInv, HubTables
    <3> QED
      BY <1>0, <1>4, <3>1, <3>2 DEF HubInv, HubTables
  <2>2. HubFollowsServe'
    BY <1>0, <1>4 DEF HubInv, HubTables, HubFollowsServe
  <2>3. ASSUME NEW x \in Chats PROVE chatSubs'[x] = Cardinality(Listeners(x)')
    <3>0. IsFiniteSet(ChatListeners(x)) /\ chatSubs[x] = Cardinality(ChatListeners(x))
      BY ListenersAreFinite, CountsOfChat DEF HubInv
    <3>1. CASE x = c
      <4>1. ChatListeners(x)' = ChatListeners(x) \ {s}
        BY <1>0, <1>1, <1>4, <3>1 DEF HubInv, HubTables, ChatListeners
      <4>2. Listeners(x)' = ChatListeners(x) \ {s}
        BY <4>1, ChatIsNotUserNext
      <4>3. Cardinality(ChatListeners(x) \ {s}) = Cardinality(ChatListeners(x)) - 1
        BY <2>0, <3>0, <3>1, FS_RemoveElement
      <4> QED
        BY <1>4, <2>0, <3>0, <3>1, <4>2, <4>3 DEF releaseChat
    <3>2. CASE x # c
      <4>1. ChatListeners(x)' = ChatListeners(x)
        BY <1>0, <1>4, <3>2 DEF HubInv, HubTables, ChatListeners
      <4>2. Listeners(x)' = ChatListeners(x)
        BY <4>1, ChatIsNotUserNext
      <4> QED
        BY <1>4, <3>0, <3>2, <4>2 DEF releaseChat
    <3> QED
      BY <3>1, <3>2
  <2>4. userSubs' = {user'[t] : t \in connections'}
    BY <1>0 DEF HubInv, SubscriptionsMatchListeners
  <2> QED
    BY <2>1, <2>2, <2>3, <2>4 DEF HubInv, SubscriptionsMatchListeners
<1>5. \/ UNCHANGED <<chatSubscriptions, chatSubs>>
      \/ /\ c \notin chatSubscriptions[s]
         /\ chatSubscriptions' = [chatSubscriptions EXCEPT ![s] = @ \cup {c}]
         /\ chatSubs' = [chatSubs EXCEPT ![c] = @ + 1]
      \/ /\ c \in chatSubscriptions[s]
         /\ chatSubscriptions' = [chatSubscriptions EXCEPT ![s] = @ \ {c}]
         /\ chatSubs' = releaseChat({c})
  <2>1. CASE subscribeChat(s, c)
    <3>1. CASE c \in chatSubscriptions[s]
      <4>1. chatSubscriptions[s] \cup {c} = chatSubscriptions[s]
        BY <3>1
      <4> QED
        BY <2>1, <3>1, <4>1 DEF subscribeChat, HubInv, HubTables
    <3> QED
      BY <2>1, <3>1 DEF subscribeChat
  <2>2. CASE subscribeFails(c)
    BY <2>2 DEF subscribeFails
  <2>3. CASE unsubscribeChat(s, c)
    BY <2>3 DEF unsubscribeChat
  <2> QED
    BY <2>1, <2>2, <2>3 DEF handleChatSubscribe
<1> QED
  BY <1>2, <1>3, <1>4, <1>5

LEMMA HubInit == Init => HubInv
<1> SUFFICES ASSUME Init PROVE HubInv
  OBVIOUS
<1>1. HubTables
  BY HubBounds DEF Init, HubTables, Steps
<1>2. HubFollowsServe
  BY DEF Init, HubFollowsServe
<1>3. SubscriptionsMatchListeners
  <2>1. \A j : Listeners(j) = {}
    BY DEF Init, Listeners
  <2>2. Cardinality({}) = 0
    BY FS_EmptySet
  <2> QED
    BY <2>1, <2>2 DEF Init, SubscriptionsMatchListeners
<1> QED
  BY <1>1, <1>2, <1>3 DEF HubInv

LEMMA HubStep == HubInv /\ [Next]_vars => HubInv'
<1> SUFFICES ASSUME HubInv, [Next]_vars PROVE HubInv'
  OBVIOUS
<1>t. at \in [Sockets -> Steps] /\ requests \in [Sockets -> 0..MaxRequests]
  BY DEF HubInv, HubTables
<1>1. CASE UNCHANGED <<conn, hub>>
  BY <1>t, <1>1, HubUntouched DEF conn, hub
<1>2. ASSUME NEW s \in Sockets, NEW a \in Steps, at' = [at EXCEPT ![s] = a], UNCHANGED <<user, requests, hub>>,
             <<at[s], a>> \in {<<"new", "greeted">>, <<"greeted", "done">>, <<"registered", "serving">>,
                               <<"left", "done">>}
      PROVE  HubInv'
  BY <1>t, <1>2, HubUntouched DEF hub
<1>3. ASSUME NEW s \in Sockets, Serve(s) PROVE HubInv'
  <2>1. CASE greet(s)
    BY <1>2, <2>1 DEF greet, Goto, Steps
  <2>2. CASE registerFails(s)
    BY <1>2, <2>2 DEF registerFails, Goto, Steps
  <2>3. CASE MarkOnline(s)
    BY <1>2, <2>3 DEF MarkOnline, Goto, Steps
  <2>4. CASE MarkOffline(s)
    BY <1>2, <2>4 DEF MarkOffline, Goto, Steps
  <2> QED
    BY <1>3, <2>1, <2>2, <2>3, <2>4, RegisterKeepsHub DEF Serve
<1>4. CASE \/ Deliver \/ Shutdown \/ Finished \/ UNCHANGED vars
           \/ \E s \in Sockets : writePump(s) \/ writeFails(s) \/ \E j \in Subjects : Post(j, s)
  <2>1. UNCHANGED <<conn, hub>>
    BY <1>4 DEF Deliver, Take, deliverTo, deliverNext, delivered, Shutdown, Finished, vars, writePump,
       writeFails, Post
  <2> QED
    BY <1>1, <2>1
<1> QED
  BY <1>3, <1>4, LeaveKeepsHub, ChatRequestKeepsHub DEF Next

\* The node holds a subscription for a user exactly while a socket of the user
\* is registered, and counts exactly the sockets that have a chat open
\* (register, unregister, subscribeChat, releaseChatLocked).
THEOREM HubSubscriptions == Spec => []SubscriptionsMatchListeners
<1>1. HubInv => SubscriptionsMatchListeners
  BY DEF HubInv
<1> QED
  BY <1>1, HubInit, HubStep, PTL DEF Spec

-----------------------------------------------------------------------------
(* Queues of numbers and of frames. *)

Held(q) == {q[i] : i \in 1..Len(q)}
Distinct(q) == \A i, k \in 1..Len(q) : q[i] = q[k] => i = k

\* The numbers of the messages queued, each of them once.
Nos(q) == {q[i].no : i \in {k \in 1..Len(q) : q[k].kind = "event"}}
OnceEach(q) ==
    \A i, k \in 1..Len(q) :
        q[i].kind = "event" /\ q[k].kind = "event" /\ q[i].no = q[k].no => i = k

LEMMA AppendSeq ==
  ASSUME NEW S, NEW q \in Seq(S), NEW x \in S
  PROVE  /\ Append(q, x) \in Seq(S) /\ Len(Append(q, x)) = Len(q) + 1 /\ Len(q) \in Nat
         /\ \A i \in 1..Len(q) : Append(q, x)[i] = q[i]
         /\ Append(q, x)[Len(q) + 1] = x
OBVIOUS

LEMMA TailSeq ==
  ASSUME NEW S, NEW q \in Seq(S), q # <<>>
  PROVE  /\ Tail(q) \in Seq(S) /\ Len(q) \in Nat \ {0} /\ Len(Tail(q)) = Len(q) - 1
         /\ \A i \in 1..Len(q) - 1 : Tail(q)[i] = q[i + 1]
         /\ Head(q) = q[1] /\ Head(q) \in S
OBVIOUS

LEMMA AppendNumber ==
  ASSUME NEW q \in Seq(Nat), NEW n \in Nat
  PROVE  /\ Held(Append(q, n)) = Held(q) \cup {n}
         /\ Distinct(q) /\ n \notin Held(q) => Distinct(Append(q, n))
<1> DEFINE a == Append(q, n)
<1>1. /\ Len(q) \in Nat /\ Len(a) = Len(q) + 1 /\ \A i \in 1..Len(q) : a[i] = q[i]
      /\ a[Len(q) + 1] = n
  BY AppendSeq
<1> HIDE DEF a
<1>2. Held(a) = Held(q) \cup {n}
  BY <1>1 DEF Held
<1>3. Distinct(q) /\ n \notin Held(q) => Distinct(a)
  BY <1>1 DEF Held, Distinct
<1> QED
  BY <1>2, <1>3 DEF a

LEMMA TakeNumber ==
  ASSUME NEW q \in Seq(Nat), q # <<>>, Distinct(q)
  PROVE  /\ Tail(q) \in Seq(Nat) /\ Head(q) \in Held(q) /\ Head(q) \in Nat
         /\ Held(Tail(q)) = Held(q) \ {Head(q)} /\ Distinct(Tail(q))
<1> DEFINE t == Tail(q)
<1>1. /\ t \in Seq(Nat) /\ Len(q) \in Nat \ {0} /\ Len(t) = Len(q) - 1
      /\ \A i \in 1..Len(q) - 1 : t[i] = q[i + 1]
      /\ Head(q) = q[1] /\ Head(q) \in Nat
  BY TailSeq
<1> HIDE DEF t
<1>2. Head(q) \in Held(q)
  BY <1>1 DEF Held
<1>3. Distinct(t)
  <2>1. \A i \in 1..Len(t) : i + 1 \in 1..Len(q) /\ t[i] = q[i + 1]
    BY <1>1
  <2>2. SUFFICES ASSUME NEW i \in 1..Len(t), NEW k \in 1..Len(t), t[i] = t[k] PROVE i = k
    BY DEF Distinct
  <2>3. i + 1 = k + 1
    BY <2>1, <2>2 DEF Distinct
  <2> QED
    BY <1>1, <2>3
<1>4. Held(t) \subseteq Held(q) \ {Head(q)}
  <2>1. SUFFICES ASSUME NEW i \in 1..Len(t) PROVE t[i] \in Held(q) \ {Head(q)}
    BY DEF Held
  <2>2. i + 1 \in 1..Len(q) /\ 1 \in 1..Len(q) /\ t[i] = q[i + 1] /\ i + 1 # 1
    BY <1>1
  <2> QED
    BY <1>1, <2>2 DEF Held, Distinct
<1>5. Held(q) \ {Head(q)} \subseteq Held(t)
  <2>1. SUFFICES ASSUME NEW i \in 1..Len(q), q[i] # Head(q) PROVE q[i] \in Held(t)
    BY DEF Held
  <2>2. i - 1 \in 1..Len(t) /\ t[i - 1] = q[i]
    BY <1>1, <2>1
  <2> QED
    BY <2>2 DEF Held
<1> QED
  BY <1>1, <1>2, <1>3, <1>4, <1>5 DEF t

LEMMA AppendFrame ==
  ASSUME NEW q \in Seq(Frame), NEW f \in Frame
  PROVE  /\ Append(q, f) \in Seq(Frame) /\ Len(Append(q, f)) = Len(q) + 1
         /\ f.kind # "event" => /\ Nos(Append(q, f)) = Nos(q)
                                /\ OnceEach(q) => OnceEach(Append(q, f))
         /\ f.kind = "event" => /\ Nos(Append(q, f)) = Nos(q) \cup {f.no}
                                /\ OnceEach(q) /\ f.no \notin Nos(q) => OnceEach(Append(q, f))
<1> DEFINE a == Append(q, f)
<1>1. /\ a \in Seq(Frame) /\ Len(q) \in Nat /\ Len(a) = Len(q) + 1 /\ \A i \in 1..Len(q) : a[i] = q[i]
      /\ a[Len(q) + 1] = f
  BY AppendSeq
<1> HIDE DEF a
<1>2. f.kind # "event" => Nos(a) = Nos(q)
  BY <1>1 DEF Nos
<1>3. f.kind = "event" => Nos(a) = Nos(q) \cup {f.no}
  <2> SUFFICES ASSUME f.kind = "event" PROVE Nos(a) = Nos(q) \cup {f.no}
    OBVIOUS
  <2>1. Nos(a) \subseteq Nos(q) \cup {f.no}
    BY <1>1 DEF Nos
  <2>2. Nos(q) \subseteq Nos(a)
    BY <1>1 DEF Nos
  <2>3. f.no \in Nos(a)
    <3>1. Len(q) + 1 \in 1..Len(a) /\ a[Len(q) + 1].kind = "event" /\ a[Len(q) + 1].no = f.no
      BY <1>1
    <3> QED
      BY <3>1 DEF Nos
  <2> QED
    BY <2>1, <2>2, <2>3
<1>4. OnceEach(q) /\ (f.kind = "event" => f.no \notin Nos(q)) => OnceEach(a)
  BY <1>1 DEF Nos, OnceEach
<1> QED
  BY <1>1, <1>2, <1>3, <1>4 DEF a

LEMMA TakeFrame ==
  ASSUME NEW q \in Seq(Frame), q # <<>>, OnceEach(q)
  PROVE  /\ Tail(q) \in Seq(Frame) /\ Len(Tail(q)) <= Len(q) /\ OnceEach(Tail(q)) /\ Head(q) \in Frame
         /\ Head(q).kind = "event" => Head(q).no \in Nos(q) /\ Nos(Tail(q)) = Nos(q) \ {Head(q).no}
         /\ Head(q).kind # "event" => Nos(Tail(q)) = Nos(q)
<1> DEFINE t == Tail(q)
<1>1. /\ t \in Seq(Frame) /\ Len(q) \in Nat \ {0} /\ Len(t) = Len(q) - 1
      /\ \A i \in 1..Len(q) - 1 : t[i] = q[i + 1]
      /\ Head(q) = q[1] /\ Head(q) \in Frame
  BY TailSeq
<1> HIDE DEF t
<1>0. \A i \in 1..Len(t) : i + 1 \in 1..Len(q) /\ i + 1 # 1 /\ t[i] = q[i + 1]
  BY <1>1
<1>2. OnceEach(t)
  <2>1. SUFFICES ASSUME NEW i \in 1..Len(t), NEW k \in 1..Len(t), t[i].kind = "event",
                        t[k].kind = "event", t[i].no = t[k].no
                 PROVE  i = k
    BY DEF OnceEach
  <2>2. i + 1 = k + 1
    BY <1>0, <2>1 DEF OnceEach
  <2> QED
    BY <1>1, <2>2
<1>3. Nos(t) \subseteq Nos(q)
  BY <1>0 DEF Nos
<1>4. ASSUME NEW i \in 1..Len(q), q[i].kind = "event", i # 1 PROVE q[i].no \in Nos(t)
  <2>1. i - 1 \in 1..Len(t) /\ t[i - 1] = q[i]
    BY <1>1, <1>4
  <2> QED
    BY <1>4, <2>1 DEF Nos
<1>5. 1 \in 1..Len(q)
  BY <1>1
<1>6. ASSUME Head(q).kind = "event"
      PROVE  Head(q).no \in Nos(q) /\ Nos(t) = Nos(q) \ {Head(q).no}
  <2>1. Head(q).no \in Nos(q)
    BY <1>1, <1>5, <1>6 DEF Nos
  <2>2. Head(q).no \notin Nos(t)
    BY <1>0, <1>1, <1>5, <1>6 DEF Nos, OnceEach
  <2>3. Nos(q) \ {Head(q).no} \subseteq Nos(t)
    BY <1>1, <1>4, SMTT(30) DEF Nos
  <2> QED
    BY <1>3, <2>1, <2>2, <2>3
<1>7. ASSUME Head(q).kind # "event" PROVE Nos(t) = Nos(q)
  <2>1. Nos(q) \subseteq Nos(t)
    BY <1>1, <1>4, <1>7 DEF Nos
  <2> QED
    BY <1>3, <2>1
<1>8. Len(t) <= Len(q)
  BY <1>1
<1> QED
  BY <1>1, <1>2, <1>6, <1>7, <1>8 DEF t

-----------------------------------------------------------------------------
(* Frames between the bus and the sockets. *)

Callback ==
    [subject : Subjects, no : Nat, step : {"taken", "sending"}, left : SUBSET Sockets, orphan : BOOLEAN]

FrameTables ==
    /\ send \in [Sockets -> Seq(Frame)] /\ \A s \in Sockets : Len(send[s]) <= SendBuffer
    /\ out \in [Sockets -> SUBSET Nat] /\ closed \subseteq Sockets
    /\ pending \in [Subjects -> Seq(Nat)] /\ deliveries \subseteq Callback
    /\ published \in Seq([subject : Subjects, from : Sockets \cup {"presence"}])
    /\ Len(published) <= MaxPosts
    /\ due \in [Sockets -> SUBSET (Subjects \X Nat)]

\* Every number on its way is that of a message published on the subject.
IsMessage(n, j) == n \in 1..Len(published) /\ published[n].subject = j

FramesNumbered ==
    /\ \A s \in Sockets : out[s] \subseteq 1..Len(published) /\ Nos(send[s]) \subseteq 1..Len(published)
    /\ \A j \in Subjects : \A n \in Held(pending[j]) : IsMessage(n, j)
    /\ \A d \in deliveries : IsMessage(d.no, d.subject)
    /\ \A s \in Sockets : \A x \in due[s] : IsMessage(x[2], x[1])

\* A message is in one place: once in the subscription, or in one callback.
TakenOnce ==
    /\ \A j \in Subjects : Distinct(pending[j])
    /\ \A d \in deliveries : d.no \notin Held(pending[d.subject])
    /\ \A d, e \in deliveries : d.no = e.no => d = e

Seen(s) == out[s] \cup Nos(send[s])

\* The callback will come to this socket.
ComesTo(d, s) == d.step = "taken" \/ s \in d.left

\* What is still to come has not been queued.
NotYetSeen ==
    \A s \in Sockets :
        /\ \A j \in Subjects : \A n \in Held(pending[j]) : n \notin Seen(s)
        /\ \A d \in deliveries : ComesTo(d, s) => d.no \notin Seen(s)

QueuedOnce == \A s \in Sockets : OnceEach(send[s]) /\ \A n \in Nos(send[s]) : n \notin out[s]

\* Only what a connection listens to is due to it.
DueToListeners ==
    /\ \A s \in Sockets : at[s] \in {"new", "greeted"} => due[s] = {}
    /\ \A s \in connections : \A x \in due[s] : s \in Listeners(x[1])

OnItsWay ==
    \A s \in connections \ closed : \A x \in due[s] :
        \/ x[2] \in Seen(s)
        \/ x[2] \in Held(pending[x[1]])
        \/ \E d \in deliveries : d.no = x[2] /\ ComesTo(d, s)

FrameInv ==
    /\ FrameTables /\ FramesNumbered /\ TakenOnce /\ NotYetSeen /\ QueuedOnce
    /\ DueToListeners /\ OnItsWay

\* The same callbacks, some of them of a subscription that was given up.
SameCallback(d, e) == e.subject = d.subject /\ e.no = d.no /\ e.step = d.step /\ e.left = d.left

LEMMA GivenUp ==
  ASSUME FrameTables, TakenOnce, NEW J, Unsubscribe(J)
  PROVE  /\ pending' \in [Subjects -> Seq(Nat)] /\ deliveries' \subseteq Callback
         /\ \A j \in Subjects : pending'[j] = pending[j] \/ (j \in J /\ pending'[j] = <<>>)
         /\ \A d \in deliveries : \E e \in deliveries' : SameCallback(d, e)
         /\ \A e \in deliveries' : \E d \in deliveries : SameCallback(d, e)
         /\ \A d, e \in deliveries' : d.no = e.no => d = e
<1> DEFINE f(d) == IF d.subject \in J THEN [d EXCEPT !.orphan = TRUE] ELSE d
<1>1. \A d \in deliveries : f(d) \in Callback /\ SameCallback(d, f(d))
  <2>1. SUFFICES ASSUME NEW d \in deliveries PROVE f(d) \in Callback /\ SameCallback(d, f(d))
    OBVIOUS
  <2>2. d \in Callback
    BY DEF FrameTables
  <2> QED
    BY <2>2 DEF Callback, SameCallback
<1>2. deliveries' = {f(d) : d \in deliveries}
  BY DEF Unsubscribe
<1>3. pending' = [j \in Subjects |-> IF j \in J THEN <<>> ELSE pending[j]]
  BY DEF Unsubscribe
<1> HIDE DEF f
<1>4. \A d, e \in deliveries' : d.no = e.no => d = e
  <2>1. SUFFICES ASSUME NEW d \in deliveries, NEW e \in deliveries, f(d).no = f(e).no PROVE f(d) = f(e)
    BY <1>2
  <2>2. d.no = e.no
    BY <1>1, <2>1 DEF SameCallback
  <2> QED
    BY <2>2 DEF TakenOnce
<1>5. /\ pending' \in [Subjects -> Seq(Nat)]
      /\ \A j \in Subjects : pending'[j] = pending[j] \/ (j \in J /\ pending'[j] = <<>>)
  <2>1. <<>> \in Seq(Nat) /\ \A j \in Subjects : pending[j] \in Seq(Nat)
    BY DEF FrameTables
  <2>2. \A j \in Subjects : pending'[j] = IF j \in J THEN <<>> ELSE pending[j]
    BY <1>3
  <2>3. \A j \in Subjects : (IF j \in J THEN <<>> ELSE pending[j]) \in Seq(Nat)
    BY <2>1
  <2>4. pending' \in [Subjects -> Seq(Nat)]
    BY <1>3, <2>3
  <2>5. ASSUME NEW j \in Subjects PROVE pending'[j] = pending[j] \/ (j \in J /\ pending'[j] = <<>>)
    <3>1. CASE j \in J
      BY <2>2, <3>1
    <3>2. CASE j \notin J
      BY <2>2, <3>2
    <3> QED
      BY <3>1, <3>2
  <2> QED
    BY <2>4, <2>5
<1> QED
  BY <1>1, <1>2, <1>4, <1>5

\* Steps that queue no message: connections come and go, chats are opened and
\* closed, subscriptions nobody listens to are given up.
LEMMA QuietStep ==
  ASSUME FrameInv, NEW J, UNCHANGED <<out, published>>,
         send' \in [Sockets -> Seq(Frame)],
         \A s \in Sockets : /\ Len(send'[s]) <= SendBuffer /\ Nos(send'[s]) = Nos(send[s])
                            /\ OnceEach(send[s]) => OnceEach(send'[s]),
         closed \subseteq closed', closed' \subseteq Sockets, connections' \subseteq Sockets,
         pending' \in [Subjects -> Seq(Nat)], deliveries' \subseteq Callback,
         \A j \in Subjects : pending'[j] = pending[j] \/ (j \in J /\ pending'[j] = <<>>),
         \A d \in deliveries : \E e \in deliveries' : SameCallback(d, e),
         \A e \in deliveries' : \E d \in deliveries : SameCallback(d, e),
         \A d, e \in deliveries' : d.no = e.no => d = e,
         due' \in [Sockets -> SUBSET (Subjects \X Nat)], \A s \in Sockets : due'[s] \subseteq due[s],
         \A s \in Sockets : at'[s] \in {"new", "greeted"} => at[s] \in {"new", "greeted"},
         \A s \in connections' : \A x \in due'[s] :
            s \in connections /\ x[1] \notin J /\ s \in Listeners(x[1])'
  PROVE  FrameInv'
<1> USE DEF FrameInv
<1>0. \A j \in Subjects : Held(pending'[j]) \subseteq Held(pending[j]) /\ (Distinct(pending[j]) => Distinct(pending'[j]))
  <2>1. Held(<<>>) = {} /\ Distinct(<<>>)
    BY DEF Held, Distinct
  <2> QED
    BY <2>1
<1>1. FrameTables'
  BY DEF FrameTables
<1>2. FramesNumbered'
  <2>1. \A n, j : IsMessage(n, j)' <=> IsMessage(n, j)
    BY DEF IsMessage
  <2> QED
    BY <1>0, <2>1 DEF FramesNumbered, SameCallback
<1>3. TakenOnce'
  <2>1. \A d \in deliveries : d.subject \in Subjects
    BY DEF FrameTables, Callback
  <2> QED
    BY <1>0, <2>1 DEF TakenOnce, SameCallback
<1>4. \A s \in Sockets : Seen(s)' = Seen(s)
  BY DEF Seen
<1>5. NotYetSeen'
  <2>1. \A s \in Sockets : \A j \in Subjects : \A n \in Held(pending'[j]) : n \notin Seen(s)'
    BY <1>0, <1>4 DEF NotYetSeen
  <2>2. \A s \in Sockets : \A e \in deliveries' : ComesTo(e, s) => e.no \notin Seen(s)'
    BY <1>4 DEF NotYetSeen, SameCallback, ComesTo
  <2> QED
    BY <2>1, <2>2 DEF NotYetSeen, ComesTo
<1>6. QueuedOnce'
  BY DEF QueuedOnce
<1>7. DueToListeners'
  <2>1. \A s \in Sockets : at'[s] \in {"new", "greeted"} => due'[s] = {}
    BY DEF DueToListeners
  <2> QED
    BY <2>1 DEF DueToListeners
<1>8. OnItsWay'
  <2>1. SUFFICES ASSUME NEW s \in connections' \ closed', NEW x \in due'[s]
                 PROVE  \/ x[2] \in Seen(s)' \/ x[2] \in Held(pending'[x[1]])
                        \/ \E d \in deliveries' : d.no = x[2] /\ ComesTo(d, s)
    BY DEF OnItsWay, ComesTo
  <2>2. s \in connections \ closed /\ x \in due[s] /\ s \in Sockets /\ x[1] \in Subjects /\ x[1] \notin J
    BY <2>1
  <2>3. pending'[x[1]] = pending[x[1]]
    BY <2>2
  <2>4. CASE x[2] \in Seen(s) \/ x[2] \in Held(pending[x[1]])
    BY <1>4, <2>2, <2>3, <2>4
  <2>5. ASSUME NEW d \in deliveries, d.no = x[2], ComesTo(d, s)
        PROVE  \E e \in deliveries' : e.no = x[2] /\ ComesTo(e, s)
    BY <2>5 DEF SameCallback, ComesTo
  <2> QED
    BY <2>2, <2>4, <2>5 DEF OnItsWay
<1> QED
  BY <1>1, <1>2, <1>3, <1>5, <1>6, <1>7, <1>8

\* A message is published: a subject with a listener has a subscription.
LEMMA PublishStep ==
  ASSUME FrameInv, HubInv, NEW j \in Subjects, NEW from \in Sockets \cup {"presence"},
         PublishRealtime(j, from),
         UNCHANGED <<user, connections, chatSubscriptions, send, out, closed, deliveries>>,
         \A s \in Sockets : at'[s] \in {"new", "greeted"} => at[s] \in {"new", "greeted"}
  PROVE  FrameInv'
<1> USE DEF FrameInv
<1>n. PICK n : n = Len(published) + 1
  OBVIOUS
<1>0. /\ n <= MaxPosts
      /\ published' = Append(published, [subject |-> j, from |-> from])
      /\ pending' = IF j \in Subscribed THEN [pending EXCEPT ![j] = Append(pending[j], n)] ELSE pending
      /\ due' = [s \in Sockets |-> IF s \in Listeners(j) THEN due[s] \cup {<<j, n>>} ELSE due[s]]
  BY <1>n DEF PublishRealtime
<1>1. /\ Len(published) \in Nat /\ n \in Nat /\ Len(published') = n
      /\ published' \in Seq([subject : Subjects, from : Sockets \cup {"presence"}])
      /\ \A i \in 1..Len(published) : published'[i] = published[i]
      /\ published'[n].subject = j
  <2>1. [subject |-> j, from |-> from] \in [subject : Subjects, from : Sockets \cup {"presence"}]
    OBVIOUS
  <2> QED
    BY <1>0, <1>n, <2>1, AppendSeq DEF FrameTables
<1>2. n \notin 1..Len(published) /\ n \in 1..Len(published') /\ 1..Len(published) \subseteq 1..Len(published')
  BY <1>1, <1>n
<1>3. IsMessage(n, j)' /\ \A m, i : IsMessage(m, i) => IsMessage(m, i)'
  BY <1>1, <1>2 DEF IsMessage
<1>4. \A m, i : IsMessage(m, i) => m # n
  BY <1>2 DEF IsMessage
<1>5. /\ pending' \in [Subjects -> Seq(Nat)]
      /\ \A i \in Subjects : Distinct(pending'[i]) /\ Held(pending[i]) \subseteq Held(pending'[i])
      /\ \A i \in Subjects : Held(pending'[i]) \subseteq Held(pending[i]) \cup (IF i = j THEN {n} ELSE {})
      /\ j \in Subscribed => n \in Held(pending'[j])
  <2>1. /\ pending[j] \in Seq(Nat) /\ Distinct(pending[j]) /\ n \notin Held(pending[j])
    BY <1>4 DEF FrameTables, TakenOnce, FramesNumbered
  <2>2. /\ Append(pending[j], n) \in Seq(Nat) /\ Held(Append(pending[j], n)) = Held(pending[j]) \cup {n}
        /\ Distinct(Append(pending[j], n))
    BY <1>1, <2>1, AppendNumber
  <2> QED
    BY <1>0, <2>1, <2>2 DEF FrameTables, TakenOnce
<1>6. /\ due' \in [Sockets -> SUBSET (Subjects \X Nat)]
      /\ \A s \in Sockets : /\ due[s] \subseteq due'[s]
                            /\ \A x \in due'[s] : x \in due[s] \/ (x = <<j, n>> /\ s \in Listeners(j))
  <2>1. <<j, n>> \in Subjects \X Nat /\ \A s \in Sockets : due[s] \in SUBSET (Subjects \X Nat)
    BY <1>1 DEF FrameTables
  <2>2. \A s \in Sockets : due'[s] = IF s \in Listeners(j) THEN due[s] \cup {<<j, n>>} ELSE due[s]
    BY <1>0
  <2>3. ASSUME NEW s \in Sockets
        PROVE  /\ due'[s] \in SUBSET (Subjects \X Nat) /\ due[s] \subseteq due'[s]
               /\ \A x \in due'[s] : x \in due[s] \/ (x = <<j, n>> /\ s \in Listeners(j))
    <3>1. CASE s \in Listeners(j)
      <4>1. due'[s] = due[s] \cup {<<j, n>>} /\ due[s] \in SUBSET (Subjects \X Nat)
        BY <2>1, <2>2, <3>1
      <4>2. \A x \in due'[s] : x \in Subjects \X Nat
        BY <2>1, <4>1
      <4> QED
        BY <3>1, <4>1, <4>2
    <3>2. CASE s \notin Listeners(j)
      BY <2>1, <2>2, <3>2
    <3> QED
      BY <3>1, <3>2
  <2>4. due' \in [Sockets -> SUBSET (Subjects \X Nat)]
    <3>1. DOMAIN due' = Sockets /\ due' = [s \in DOMAIN due' |-> due'[s]]
      BY <1>0
    <3> QED
      BY <2>3, <3>1
  <2> QED
    BY <2>3, <2>4
<1>7. FrameTables'
  BY <1>0, <1>1, <1>5, <1>6 DEF FrameTables
<1>8. FramesNumbered'
  <2>1. \A s \in Sockets : out'[s] \subseteq 1..Len(published') /\ Nos(send'[s]) \subseteq 1..Len(published')
    BY <1>2 DEF FramesNumbered
  <2>2. \A i \in Subjects : \A m \in Held(pending'[i]) : IsMessage(m, i)'
    BY <1>3, <1>5 DEF FramesNumbered
  <2>3. \A d \in deliveries' : IsMessage(d.no, d.subject)'
    BY <1>3 DEF FramesNumbered
  <2>4. \A s \in Sockets : \A x \in due'[s] : IsMessage(x[2], x[1])'
    BY <1>3, <1>6 DEF FramesNumbered
  <2> QED
    BY <2>1, <2>2, <2>3, <2>4 DEF FramesNumbered
<1>9. TakenOnce'
  <2>1. \A d \in deliveries : d.no # n /\ d.subject \in Subjects
    BY <1>4 DEF FramesNumbered, FrameTables, Callback
  <2> QED
    BY <1>5, <2>1 DEF TakenOnce
<1>10. \A s \in Sockets : Seen(s)' = Seen(s) /\ n \notin Seen(s)
  BY <1>2 DEF Seen, FramesNumbered
<1>11. NotYetSeen'
  BY <1>5, <1>10 DEF NotYetSeen, ComesTo
<1>12. QueuedOnce'
  BY DEF QueuedOnce
<1>13. \A i : Listeners(i)' = Listeners(i)
  BY DEF Listeners
<1>14. DueToListeners'
  <2>1. \A s \in Sockets : at[s] \in {"new", "greeted"} => s \notin connections
    BY DEF HubInv, HubFollowsServe
  <2>2. \A s \in Sockets : at'[s] \in {"new", "greeted"} => due'[s] = {}
    BY <1>6, <2>1 DEF DueToListeners, Listeners
  <2>3. connections \subseteq Sockets
    BY DEF HubInv, HubTables
  <2> QED
    BY <1>6, <1>13, <2>2, <2>3 DEF DueToListeners
<1>15. ASSUME NEW s \in Listeners(j) PROVE j \in Subscribed
  <2>1. CASE j \in Users
    BY <2>1 DEF Listeners, Subscribed, HubInv, SubscriptionsMatchListeners
  <2>2. CASE j \in Chats
    <3>1. s \in ChatListeners(j)
      BY <2>2, ChatIsNotUser
    <3>2. chatSubs[j] > 0
      BY <2>2, <3>1, CountsOfChat
    <3> QED
      BY <2>2, <3>2 DEF Subscribed
  <2> QED
    BY <2>1, <2>2 DEF Subjects
<1>16. OnItsWay'
  <2>1. SUFFICES ASSUME NEW s \in connections \ closed, NEW x \in due'[s]
                 PROVE  \/ x[2] \in Seen(s) \/ x[2] \in Held(pending'[x[1]])
                        \/ \E d \in deliveries : d.no = x[2] /\ ComesTo(d, s)
    <3>1. connections \subseteq Sockets
      BY DEF HubInv, HubTables
    <3> QED
      BY <1>10, <3>1 DEF OnItsWay, ComesTo
  <2>2. s \in Sockets
    BY DEF HubInv, HubTables
  <2>3. CASE x \in due[s]
    <3>1. x[1] \in Subjects
      BY <2>2, <2>3 DEF FrameTables
    <3> QED
      BY <1>5, <2>3, <3>1 DEF OnItsWay
  <2>4. CASE x = <<j, n>> /\ s \in Listeners(j)
    BY <1>5, <1>15, <2>4
  <2> QED
    BY <1>6, <2>2, <2>3, <2>4
<1> QED
  BY <1>7, <1>8, <1>9, <1>11, <1>12, <1>14, <1>16

\* Steps of the bus and its callbacks: the queues of the sockets stay.
LEMMA TakeStep ==
  ASSUME FrameInv, HubInv, NEW j \in Subjects, Take(j)
  PROVE  FrameInv'
<1> USE DEF FrameInv
<1>0. /\ pending[j] # <<>> /\ pending' = [pending EXCEPT ![j] = Tail(pending[j])]
      /\ UNCHANGED <<at, user, connections, chatSubscriptions, send, out, closed, published, due>>
  BY DEF Take, conn, hub, queues
<1>1. PICK m : m = Head(pending[j])
  OBVIOUS
<1>2. /\ pending[j] \in Seq(Nat) /\ Distinct(pending[j])
  BY DEF FrameTables, TakenOnce
<1>3. /\ Tail(pending[j]) \in Seq(Nat) /\ m \in Held(pending[j]) /\ m \in Nat
      /\ Held(Tail(pending[j])) = Held(pending[j]) \ {m} /\ Distinct(Tail(pending[j]))
  BY <1>0, <1>1, <1>2, TakeNumber
<1>4. PICK c \in Callback : /\ c.subject = j /\ c.no = m /\ c.step = "taken"
                            /\ deliveries' = deliveries \cup {c}
  <2>1. [subject |-> j, no |-> m, step |-> "taken", left |-> {}, orphan |-> FALSE] \in Callback
    BY <1>3 DEF Callback
  <2> QED
    BY <1>1, <2>1 DEF Take
<1>5. /\ pending' \in [Subjects -> Seq(Nat)]
      /\ Held(pending'[j]) = Held(pending[j]) \ {m}
      /\ \A i \in Subjects : /\ Distinct(pending'[i]) /\ Held(pending'[i]) \subseteq Held(pending[i])
                             /\ i # j => Held(pending'[i]) = Held(pending[i])
  BY <1>0, <1>3 DEF FrameTables, TakenOnce
<1>6. IsMessage(m, j) /\ \A d \in deliveries : d.no # m
  <2>1. IsMessage(m, j)
    BY <1>3 DEF FramesNumbered
  <2>2. ASSUME NEW d \in deliveries, d.no = m PROVE FALSE
    <3>1. d.subject = j
      BY <2>1, <2>2 DEF FramesNumbered, IsMessage
    <3> QED
      BY <1>3, <2>2, <3>1 DEF TakenOnce
  <2> QED
    BY <2>1, <2>2
<1>7. FrameTables'
  BY <1>0, <1>4, <1>5 DEF FrameTables
<1>8. FramesNumbered'
  <2>1. \A n, i : IsMessage(n, i)' <=> IsMessage(n, i)
    BY <1>0 DEF IsMessage
  <2> QED
    BY <1>0, <1>4, <1>5, <1>6, <2>1 DEF FramesNumbered
<1>9. TakenOnce'
  <2>1. \A d \in deliveries : d.subject \in Subjects
    BY DEF FrameTables, Callback
  <2>2. \A d \in deliveries' : d.no \notin Held(pending'[d.subject])
    BY <1>4, <1>5, <2>1 DEF TakenOnce
  <2>3. \A d, e \in deliveries' : d.no = e.no => d = e
    BY <1>4, <1>6 DEF TakenOnce
  <2> QED
    BY <1>5, <2>2, <2>3 DEF TakenOnce
<1>10. \A s \in Sockets : Seen(s)' = Seen(s)
  BY <1>0 DEF Seen
<1>11. NotYetSeen'
  <2>1. \A s \in Sockets : m \notin Seen(s)
    BY <1>3 DEF NotYetSeen
  <2> QED
    BY <1>4, <1>5, <1>10, <2>1 DEF NotYetSeen, ComesTo
<1>12. QueuedOnce' /\ DueToListeners'
  BY <1>0 DEF QueuedOnce, DueToListeners, Listeners
<1>13. OnItsWay'
  <2>1. SUFFICES ASSUME NEW s \in connections \ closed, NEW x \in due[s]
                 PROVE  \/ x[2] \in Seen(s) \/ x[2] \in Held(pending'[x[1]])
                        \/ \E d \in deliveries' : d.no = x[2] /\ ComesTo(d, s)
    <3>1. connections \subseteq Sockets
      BY DEF HubInv, HubTables
    <3> QED
      BY <1>0, <1>10, <3>1 DEF OnItsWay, ComesTo
  <2>2. x[1] \in Subjects
    BY DEF HubInv, HubTables, FrameTables
  <2>3. CASE x[2] \in Held(pending[x[1]])
    BY <1>4, <1>5, <2>2, <2>3 DEF ComesTo
  <2>4. CASE \E d \in deliveries : d.no = x[2] /\ ComesTo(d, s)
    BY <1>4, <2>4
  <2> QED
    BY <2>3, <2>4 DEF OnItsWay
<1> QED
  BY <1>7, <1>8, <1>9, <1>11, <1>12, <1>13

\* One callback goes on: it reads who listens, or comes to the next socket, or
\* ends.  What it still comes to is not queued there yet.
LEMMA CallbackStep ==
  ASSUME FrameInv, HubInv, NEW d \in deliveries, NEW C, C \subseteq Callback,
         \A e \in C : e.no = d.no /\ e.subject = d.subject, \A e, f \in C : e = f,
         deliveries' = (deliveries \ {d}) \cup C,
         UNCHANGED <<at, user, connections, chatSubscriptions, out, pending, published, due>>,
         send' \in [Sockets -> Seq(Frame)], closed \subseteq closed', closed' \subseteq Sockets,
         \A s \in Sockets :
            /\ Len(send'[s]) <= SendBuffer
            /\ \/ send'[s] = send[s] /\ \A e \in C : ComesTo(e, s) => ComesTo(d, s)
               \/ /\ OnceEach(send'[s]) /\ Nos(send'[s]) = Nos(send[s]) \cup {d.no}
                  /\ ComesTo(d, s) /\ \A e \in C : ~ComesTo(e, s),
         \A s \in connections \ closed' :
            ComesTo(d, s) /\ s \in Listeners(d.subject)
              => (\E e \in C : ComesTo(e, s)) \/ d.no \in Nos(send'[s])
  PROVE  FrameInv'
<1> USE DEF FrameInv
<1>0. d \in Callback /\ IsMessage(d.no, d.subject) /\ d.no \in Nat /\ d.subject \in Subjects
  BY DEF FrameTables, FramesNumbered, Callback
<1>1. FrameTables'
  BY DEF FrameTables
<1>2. \A s \in Sockets : /\ Nos(send[s]) \subseteq Nos(send'[s])
                         /\ \A n \in Nos(send'[s]) : n \in Nos(send[s]) \/ (n = d.no /\ ComesTo(d, s))
  OBVIOUS
<1>3. FramesNumbered'
  <2>1. \A n, i : IsMessage(n, i)' <=> IsMessage(n, i)
    BY DEF IsMessage
  <2>2. \A s \in Sockets : out'[s] \subseteq 1..Len(published') /\ Nos(send'[s]) \subseteq 1..Len(published')
    BY <1>0, <1>2 DEF FramesNumbered, IsMessage
  <2>3. \A e \in deliveries' : IsMessage(e.no, e.subject)
    BY <1>0 DEF FramesNumbered
  <2> QED
    BY <2>1, <2>2, <2>3 DEF FramesNumbered
<1>4. TakenOnce'
  <2>1. \A e \in deliveries \ {d} : e.no # d.no
    BY DEF TakenOnce
  <2>2. \A e, f \in deliveries' : e.no = f.no => e = f
    BY <2>1 DEF TakenOnce
  <2>3. \A e \in deliveries' : e.no \notin Held(pending'[e.subject])
    BY DEF TakenOnce
  <2> QED
    BY <2>2, <2>3 DEF TakenOnce
<1>5. \A s \in Sockets : /\ Seen(s) \subseteq Seen(s)'
                         /\ \A n \in Seen(s)' : n \in Seen(s) \/ (n = d.no /\ ComesTo(d, s))
  BY <1>2 DEF Seen
<1>6. NotYetSeen'
  <2>1. \A s \in Sockets : \A j \in Subjects : \A n \in Held(pending[j]) : n \notin Seen(s)'
    <3>1. \A j \in Subjects : d.no \notin Held(pending[j])
      BY <1>0 DEF TakenOnce, FramesNumbered, IsMessage
    <3> QED
      BY <1>5, <3>1 DEF NotYetSeen
  <2>2. ASSUME NEW s \in Sockets, NEW e \in deliveries', ComesTo(e, s) PROVE e.no \notin Seen(s)'
    <3>1. CASE e \in deliveries \ {d}
      <4>1. e.no # d.no /\ e.no \notin Seen(s)
        BY <2>2, <3>1 DEF TakenOnce, NotYetSeen
      <4> QED
        BY <1>5, <4>1
    <3>2. CASE e \in C
      <4>1. send'[s] = send[s] /\ ComesTo(d, s) /\ e.no = d.no
        BY <2>2, <3>2
      <4>2. Seen(s)' = Seen(s)
        BY <4>1 DEF Seen
      <4> QED
        BY <4>1, <4>2 DEF NotYetSeen
    <3> QED
      BY <3>1, <3>2
  <2> QED
    BY <2>1, <2>2 DEF NotYetSeen, ComesTo
<1>7. QueuedOnce'
  <2>1. SUFFICES ASSUME NEW s \in Sockets
                 PROVE  OnceEach(send'[s]) /\ \A n \in Nos(send'[s]) : n \notin out[s]
    BY DEF QueuedOnce
  <2>2. CASE send'[s] = send[s]
    BY <2>2 DEF QueuedOnce
  <2>3. CASE OnceEach(send'[s]) /\ Nos(send'[s]) = Nos(send[s]) \cup {d.no} /\ ComesTo(d, s)
    <3>1. d.no \notin out[s]
      BY <2>3 DEF NotYetSeen, Seen
    <3> QED
      BY <2>3, <3>1 DEF QueuedOnce
  <2> QED
    BY <2>2, <2>3
<1>8. DueToListeners'
  BY DEF DueToListeners, Listeners
<1>9. OnItsWay'
  <2>0. connections \subseteq Sockets
    BY DEF HubInv, HubTables
  <2>1. SUFFICES ASSUME NEW s \in connections \ closed', NEW x \in due[s]
                 PROVE  \/ x[2] \in Seen(s)' \/ x[2] \in Held(pending[x[1]])
                        \/ \E e \in deliveries' : e.no = x[2] /\ ComesTo(e, s)
    BY DEF OnItsWay, ComesTo
  <2>2. s \in connections \ closed /\ s \in Sockets
    BY <2>0
  <2>3. CASE x[2] \in Seen(s) \/ x[2] \in Held(pending[x[1]])
    BY <1>5, <2>2, <2>3
  <2>4. ASSUME NEW e \in deliveries, e.no = x[2], ComesTo(e, s)
        PROVE  \/ x[2] \in Seen(s)' \/ \E f \in deliveries' : f.no = x[2] /\ ComesTo(f, s)
    <3>1. CASE e # d
      BY <2>4, <3>1
    <3>2. CASE e = d
      <4>1. s \in Listeners(x[1]) /\ IsMessage(x[2], x[1])
        BY <2>2 DEF DueToListeners, FramesNumbered
      <4>2. d.subject = x[1]
        BY <1>0, <2>4, <3>2, <4>1 DEF IsMessage
      <4>3. (\E f \in C : ComesTo(f, s)) \/ d.no \in Nos(send'[s])
        BY <2>4, <3>2, <4>1, <4>2
      <4> QED
        BY <2>4, <3>2, <4>3 DEF Seen
    <3> QED
      BY <3>1, <3>2
  <2> QED
    BY <2>2, <2>3, <2>4 DEF OnItsWay
<1> QED
  BY <1>1, <1>3, <1>4, <1>6, <1>7, <1>8, <1>9

\* enqueue: the frame is queued, or the connection is closed.
LEMMA EnqueueFrame ==
  ASSUME FrameTables, NEW s \in Sockets, NEW f \in Frame, enqueue(s, f)
  PROVE  /\ send' \in [Sockets -> Seq(Frame)] /\ \A t \in Sockets : Len(send'[t]) <= SendBuffer
         /\ \A t \in Sockets \ {s} : send'[t] = send[t]
         /\ \/ send'[s] = Append(send[s], f)
            \/ send'[s] = send[s] /\ s \in closed'
         /\ closed \subseteq closed' /\ closed' \subseteq Sockets
<1>0. send \in [Sockets -> Seq(Frame)] /\ SendBuffer \in Nat /\ \A t \in Sockets : Len(send[t]) \in Nat
  BY HubBounds DEF FrameTables
<1>1. CASE /\ Len(send[s]) < SendBuffer /\ send' = [send EXCEPT ![s] = Append(send[s], f)]
           /\ closed' = closed
  <2>1. Append(send[s], f) \in Seq(Frame) /\ Len(Append(send[s], f)) = Len(send[s]) + 1
    BY <1>0, AppendFrame
  <2>2. /\ send' \in [Sockets -> Seq(Frame)] /\ send'[s] = Append(send[s], f)
        /\ \A t \in Sockets \ {s} : send'[t] = send[t]
    BY <1>0, <1>1, <2>1
  <2>3. Len(send'[s]) <= SendBuffer
    BY <1>0, <1>1, <2>1, <2>2
  <2> QED
    BY <1>1, <2>2, <2>3 DEF FrameTables
<1>2. CASE send' = send /\ closed' \in {closed, closed \cup {s}} /\ s \in closed'
  BY <1>2 DEF FrameTables
<1> QED
  BY <1>1, <1>2 DEF enqueue

LEMMA DeliverToStep ==
  ASSUME FrameInv, HubInv, NEW d \in deliveries, deliverTo(d)
  PROVE  FrameInv'
<1>0. /\ UNCHANGED <<at, user, connections, chatSubscriptions, send, out, closed, pending, published, due>>
      /\ d.step = "taken"
  BY DEF deliverTo, conn, hub, queues
<1>1. d \in Callback /\ Listeners(d.subject) \subseteq Sockets
  BY DEF FrameInv, FrameTables, HubInv, HubTables, Listeners
<1>2. PICK c \in Callback : /\ c.no = d.no /\ c.subject = d.subject /\ c.step = "sending"
                            /\ c.left = Listeners(d.subject)
                            /\ deliveries' = (deliveries \ {d}) \cup {c}
  <2>1. PICK c : c = [d EXCEPT !.step = "sending", !.left = Listeners(d.subject)]
    OBVIOUS
  <2>2. /\ c \in Callback /\ c.no = d.no /\ c.subject = d.subject /\ c.step = "sending"
        /\ c.left = Listeners(d.subject)
    BY <1>1, <2>1 DEF Callback
  <2>3. deliveries' = (deliveries \ {d}) \cup {c}
    BY <2>1 DEF deliverTo
  <2> QED
    BY <2>2, <2>3
<1>3. \A s \in Sockets : ComesTo(d, s) /\ Len(send'[s]) <= SendBuffer /\ send'[s] = send[s]
  BY <1>0 DEF ComesTo, FrameInv, FrameTables
<1>4. \A s \in Listeners(d.subject) : ComesTo(c, s)
  BY <1>2 DEF ComesTo
<1>5. send' \in [Sockets -> Seq(Frame)] /\ closed \subseteq closed' /\ closed' \subseteq Sockets
  BY <1>0 DEF FrameInv, FrameTables
<1> DEFINE C == {c}
<1>6. C \subseteq Callback /\ (\A e \in C : e.no = d.no /\ e.subject = d.subject) /\ \A e, f \in C : e = f
  BY <1>2
<1>7. \A s \in connections \ closed' :
        ComesTo(d, s) /\ s \in Listeners(d.subject) => (\E e \in C : ComesTo(e, s)) \/ d.no \in Nos(send'[s])
  BY <1>4
<1>8. deliveries' = (deliveries \ {d}) \cup C
  BY <1>2
<1> HIDE DEF C
<1> QED
  BY <1>0, <1>3, <1>5, <1>6, <1>7, <1>8, CallbackStep

LEMMA DeliveredStep ==
  ASSUME FrameInv, HubInv, NEW d \in deliveries, delivered(d)
  PROVE  FrameInv'
<1>0. /\ UNCHANGED <<at, user, connections, chatSubscriptions, send, out, closed, pending, published, due>>
      /\ d.step = "sending" /\ d.left = {} /\ deliveries' = (deliveries \ {d}) \cup {}
  BY DEF delivered, conn, hub, queues
<1>1. \A s : ~ComesTo(d, s)
  BY <1>0 DEF ComesTo
<1>2. /\ send' \in [Sockets -> Seq(Frame)] /\ closed \subseteq closed' /\ closed' \subseteq Sockets
      /\ \A s \in Sockets : Len(send'[s]) <= SendBuffer /\ send'[s] = send[s]
  BY <1>0 DEF FrameInv, FrameTables
<1> DEFINE C == {}
<1>3. /\ C \subseteq Callback /\ (\A e \in C : e.no = d.no /\ e.subject = d.subject)
      /\ (\A e, f \in C : e = f) /\ (\A s \in Sockets : \A e \in C : ComesTo(e, s) => ComesTo(d, s))
  OBVIOUS
<1>4. deliveries' = (deliveries \ {d}) \cup C
  BY <1>0
<1> HIDE DEF C
<1> QED
  BY <1>0, <1>1, <1>2, <1>3, <1>4, CallbackStep

LEMMA DeliverNextStep ==
  ASSUME FrameInv, HubInv, NEW d \in deliveries, NEW s \in d.left, deliverNext(d, s)
  PROVE  FrameInv'
<1>0. /\ UNCHANGED <<at, user, connections, chatSubscriptions, out, pending, published, due>>
      /\ d.step = "sending" /\ enqueue(s, Message(d.no))
  BY DEF deliverNext, conn, hub
<1>1. d \in Callback /\ s \in Sockets /\ d.no \in Nat /\ d.left \subseteq Sockets
  BY DEF FrameInv, FrameTables, Callback
<1>2. PICK f : f = Message(d.no)
  OBVIOUS
<1>3. f \in Frame /\ f.kind = "event" /\ f.no = d.no /\ enqueue(s, f)
  <2>1. f \in Frame /\ f.kind = "event" /\ f.no = d.no
    BY <1>1, <1>2 DEF Message, Frame
  <2> QED
    BY <1>0, <1>2, <2>1 DEF enqueue
<1>4. PICK c \in Callback : /\ c.no = d.no /\ c.subject = d.subject /\ c.step = "sending"
                            /\ c.left = d.left \ {s} /\ deliveries' = (deliveries \ {d}) \cup {c}
  <2>1. PICK c : c = [d EXCEPT !.left = d.left \ {s}]
    OBVIOUS
  <2>2. /\ c \in Callback /\ c.no = d.no /\ c.subject = d.subject /\ c.step = "sending" /\ c.left = d.left \ {s}
    BY <1>0, <1>1, <2>1 DEF Callback
  <2>3. deliveries' = (deliveries \ {d}) \cup {c}
    BY <2>1 DEF deliverNext
  <2> QED
    BY <2>2, <2>3
<1>5. /\ send' \in [Sockets -> Seq(Frame)] /\ \A t \in Sockets : Len(send'[t]) <= SendBuffer
      /\ \A t \in Sockets \ {s} : send'[t] = send[t]
      /\ \/ send'[s] = Append(send[s], f)
         \/ send'[s] = send[s] /\ s \in closed'
      /\ closed \subseteq closed' /\ closed' \subseteq Sockets
  BY <1>1, <1>3, EnqueueFrame DEF FrameInv
<1>6. ComesTo(d, s) /\ ~ComesTo(c, s) /\ \A t : t # s => (ComesTo(c, t) <=> ComesTo(d, t))
  BY <1>0, <1>4 DEF ComesTo
<1>7. send'[s] = Append(send[s], f)
        => OnceEach(send'[s]) /\ Nos(send'[s]) = Nos(send[s]) \cup {d.no} /\ d.no \in Nos(send'[s])
  <2>1. send[s] \in Seq(Frame) /\ OnceEach(send[s]) /\ d.no \notin Nos(send[s])
    BY <1>1, <1>6 DEF FrameInv, FrameTables, QueuedOnce, NotYetSeen, Seen
  <2> QED
    BY <1>3, <2>1, AppendFrame
<1> DEFINE C == {c}
<1>8. C \subseteq Callback /\ (\A e \in C : e.no = d.no /\ e.subject = d.subject) /\ \A e, g \in C : e = g
  BY <1>4
<1>9. \A t \in Sockets :
        /\ Len(send'[t]) <= SendBuffer
        /\ \/ send'[t] = send[t] /\ \A e \in C : ComesTo(e, t) => ComesTo(d, t)
           \/ /\ OnceEach(send'[t]) /\ Nos(send'[t]) = Nos(send[t]) \cup {d.no}
              /\ ComesTo(d, t) /\ \A e \in C : ~ComesTo(e, t)
  <2>1. SUFFICES ASSUME NEW t \in Sockets
                 PROVE  \/ send'[t] = send[t] /\ \A e \in C : ComesTo(e, t) => ComesTo(d, t)
                        \/ /\ OnceEach(send'[t]) /\ Nos(send'[t]) = Nos(send[t]) \cup {d.no}
                           /\ ComesTo(d, t) /\ \A e \in C : ~ComesTo(e, t)
    BY <1>5
  <2>2. CASE t = s
    BY <1>5, <1>6, <1>7, <2>2
  <2>3. CASE t # s
    BY <1>5, <1>6, <2>3
  <2> QED
    BY <2>2, <2>3
<1>10. \A t \in connections \ closed' :
        ComesTo(d, t) /\ t \in Listeners(d.subject) => (\E e \in C : ComesTo(e, t)) \/ d.no \in Nos(send'[t])
  BY <1>5, <1>6, <1>7
<1>11. deliveries' = (deliveries \ {d}) \cup C
  BY <1>4
<1> HIDE DEF C
<1> QED
  BY <1>0, <1>5, <1>8, <1>9, <1>10, <1>11, CallbackStep

\* The write pump writes the next frame: what it writes leaves the queue.
LEMMA WriteStep ==
  ASSUME FrameInv, HubInv, NEW s \in Sockets, writePump(s)
  PROVE  FrameInv'
<1> USE DEF FrameInv
<1>0. /\ send[s] # <<>> /\ send' = [send EXCEPT ![s] = Tail(send[s])]
      /\ out' = IF Head(send[s]).kind = "event" THEN [out EXCEPT ![s] = out[s] \cup {Head(send[s]).no}] ELSE out
      /\ UNCHANGED <<at, user, connections, chatSubscriptions, closed, pending, deliveries, published, due>>
  BY DEF writePump, conn, hub, bus
<1>1. send[s] \in Seq(Frame) /\ OnceEach(send[s]) /\ Len(send[s]) <= SendBuffer /\ Len(send[s]) \in Nat
  BY DEF FrameTables, QueuedOnce
<1>2. PICK f : f = Head(send[s])
  OBVIOUS
<1>3. /\ Tail(send[s]) \in Seq(Frame) /\ Len(Tail(send[s])) <= Len(send[s]) /\ OnceEach(Tail(send[s])) /\ f \in Frame
      /\ f.kind = "event" => f.no \in Nos(send[s]) /\ Nos(Tail(send[s])) = Nos(send[s]) \ {f.no}
      /\ f.kind # "event" => Nos(Tail(send[s])) = Nos(send[s])
  BY <1>0, <1>1, <1>2, TakeFrame
<1>4. send' \in [Sockets -> Seq(Frame)] /\ send'[s] = Tail(send[s]) /\ \A t \in Sockets \ {s} : send'[t] = send[t]
  BY <1>0, <1>3 DEF FrameTables
<1>5. out' \in [Sockets -> SUBSET Nat] /\ \A t \in Sockets \ {s} : out'[t] = out[t]
  BY <1>0, <1>2, <1>3 DEF FrameTables, Frame
<1>6. out'[s] = IF f.kind = "event" THEN out[s] \cup {f.no} ELSE out[s]
  BY <1>0, <1>2 DEF FrameTables
<1>7. \A t \in Sockets : Seen(t)' = Seen(t)
  BY <1>3, <1>4, <1>5, <1>6 DEF Seen
<1>8. FrameTables'
  <2>1. Len(send'[s]) <= SendBuffer
    <3>1. Len(Tail(send[s])) \in Nat /\ SendBuffer \in Nat
      BY <1>3, HubBounds
    <3> QED
      BY <1>1, <1>3, <1>4, <3>1
  <2> QED
    BY <1>0, <1>4, <1>5, <2>1 DEF FrameTables
<1>9. QueuedOnce'
  <2>1. SUFFICES ASSUME NEW t \in Sockets
                 PROVE  OnceEach(send'[t]) /\ \A n \in Nos(send'[t]) : n \notin out'[t]
    BY DEF QueuedOnce
  <2>2. CASE t = s
    BY <1>3, <1>4, <1>6, <2>2 DEF QueuedOnce
  <2>3. CASE t # s
    BY <1>4, <1>5, <2>3 DEF QueuedOnce
  <2> QED
    BY <2>2, <2>3
<1>10. FramesNumbered'
  <2>1. \A n, i : IsMessage(n, i)' <=> IsMessage(n, i)
    BY <1>0 DEF IsMessage
  <2>2. \A t \in Sockets : Seen(t)' \subseteq 1..Len(published)
    BY <1>7 DEF FramesNumbered, Seen
  <2>3. \A t \in Sockets : out'[t] \subseteq 1..Len(published') /\ Nos(send'[t]) \subseteq 1..Len(published')
    BY <1>0, <2>2 DEF Seen
  <2> QED
    BY <1>0, <2>1, <2>3 DEF FramesNumbered
<1>11. TakenOnce' /\ DueToListeners'
  BY <1>0 DEF TakenOnce, DueToListeners, Listeners
<1>12. NotYetSeen'
  BY <1>0, <1>7 DEF NotYetSeen, ComesTo
<1>13. OnItsWay'
  <2>1. connections \subseteq Sockets
    BY DEF HubInv, HubTables
  <2> QED
    BY <1>0, <1>7, <2>1 DEF OnItsWay, ComesTo
<1> QED
  BY <1>8, <1>9, <1>10, <1>11, <1>12, <1>13

\* Steps that give up no subscription and queue no message.
LEMMA NothingGivenUp ==
  ASSUME FrameInv, HubInv, HubInv', UNCHANGED <<out, pending, deliveries, published, due>>,
         send' \in [Sockets -> Seq(Frame)],
         \A s \in Sockets : /\ Len(send'[s]) <= SendBuffer /\ Nos(send'[s]) = Nos(send[s])
                            /\ OnceEach(send[s]) => OnceEach(send'[s]),
         closed \subseteq closed', closed' \subseteq Sockets,
         \A s \in Sockets : at'[s] \in {"new", "greeted"} => at[s] \in {"new", "greeted"},
         \A s \in connections' : \A x \in due[s] : s \in connections /\ s \in Listeners(x[1])'
  PROVE  FrameInv'
<1> DEFINE J == {}
<1>1. /\ pending' \in [Subjects -> Seq(Nat)] /\ deliveries' \subseteq Callback
      /\ due' \in [Sockets -> SUBSET (Subjects \X Nat)]
  BY DEF FrameInv, FrameTables
<1>2. \A d \in deliveries : SameCallback(d, d)
  BY DEF SameCallback
<1>3. \A d, e \in deliveries' : d.no = e.no => d = e
  BY DEF FrameInv, TakenOnce
<1>4. connections' \subseteq Sockets
  BY DEF HubInv, HubTables
<1>5. \A s \in connections' : \A x \in due'[s] : s \in connections /\ x[1] \notin J /\ s \in Listeners(x[1])'
  OBVIOUS
<1>6. /\ \A j \in Subjects : pending'[j] = pending[j] \/ (j \in J /\ pending'[j] = <<>>)
      /\ \A d \in deliveries : \E e \in deliveries' : SameCallback(d, e)
      /\ \A e \in deliveries' : \E d \in deliveries : SameCallback(d, e)
      /\ \A s \in Sockets : due'[s] \subseteq due[s]
  BY <1>2
<1> HIDE DEF J
<1> QED
  BY <1>1, <1>3, <1>4, <1>5, <1>6, QuietStep

\* A frame that is no message leaves the numbers in the queue as they are.
LEMMA EnqueueAnswer ==
  ASSUME FrameInv, NEW s \in Sockets, NEW f \in {Connected, Ack}, enqueue(s, f)
  PROVE  /\ send' \in [Sockets -> Seq(Frame)] /\ closed \subseteq closed' /\ closed' \subseteq Sockets
         /\ \A t \in Sockets : /\ Len(send'[t]) <= SendBuffer /\ Nos(send'[t]) = Nos(send[t])
                               /\ OnceEach(send[t]) => OnceEach(send'[t])
<1>1. f \in Frame /\ f.kind # "event"
  BY DEF Connected, Ack, Frame
<1>2. /\ send' \in [Sockets -> Seq(Frame)] /\ \A t \in Sockets : Len(send'[t]) <= SendBuffer
      /\ \A t \in Sockets \ {s} : send'[t] = send[t]
      /\ send'[s] = Append(send[s], f) \/ send'[s] = send[s]
      /\ closed \subseteq closed' /\ closed' \subseteq Sockets
  BY <1>1, EnqueueFrame DEF FrameInv
<1>3. send[s] \in Seq(Frame)
  BY DEF FrameInv, FrameTables
<1>4. /\ Nos(Append(send[s], f)) = Nos(send[s])
      /\ OnceEach(send[s]) => OnceEach(Append(send[s], f))
  BY <1>1, <1>3, AppendFrame
<1> QED
  BY <1>2, <1>4

LEMMA QueuesStay ==
  ASSUME FrameInv, send' = send
  PROVE  /\ send' \in [Sockets -> Seq(Frame)]
         /\ \A t \in Sockets : /\ Len(send'[t]) <= SendBuffer /\ Nos(send'[t]) = Nos(send[t])
                               /\ OnceEach(send[t]) => OnceEach(send'[t])
BY DEF FrameInv, FrameTables

\* A chat is opened or closed.  Where closing it gives up the subscription, no
\* other socket listens.
LEMMA ChatRequestStep ==
  ASSUME FrameInv, HubInv, HubInv', NEW s \in Sockets, NEW c \in Chats, handleChatSubscribe(s, c)
  PROVE  FrameInv'
<1>0. /\ at[s] = "serving" /\ UNCHANGED <<at, user, connections, out, published>> /\ enqueue(s, Ack)
  BY DEF handleChatSubscribe
<1>1. /\ send' \in [Sockets -> Seq(Frame)] /\ closed \subseteq closed' /\ closed' \subseteq Sockets
      /\ \A t \in Sockets : /\ Len(send'[t]) <= SendBuffer /\ Nos(send'[t]) = Nos(send[t])
                            /\ OnceEach(send[t]) => OnceEach(send'[t])
  BY <1>0, EnqueueAnswer
<1>2. /\ connections \subseteq Sockets /\ s \in connections /\ connections' \subseteq Sockets
      /\ chatSubscriptions \in [Sockets -> SUBSET Chats]
  BY <1>0 DEF HubInv, HubTables, HubFollowsServe
<1>3. CASE UNCHANGED <<chatSubscriptions, pending, deliveries, due>>
  <2>1. \A t \in connections' : \A x \in due[t] : t \in connections /\ t \in Listeners(x[1])'
    BY <1>0, <1>3 DEF FrameInv, DueToListeners, Listeners
  <2> QED
    BY <1>0, <1>1, <1>3, <2>1, NothingGivenUp
<1>4. CASE subscribeChat(s, c)
  <2>1. UNCHANGED <<pending, deliveries, due>> /\ chatSubscriptions' = [chatSubscriptions EXCEPT ![s] = @ \cup {c}]
    BY <1>4 DEF subscribeChat
  <2>2. \A t \in Sockets : chatSubscriptions[t] \subseteq chatSubscriptions'[t]
    BY <1>2, <2>1
  <2>3. \A t \in connections' : \A x \in due[t] : t \in connections /\ t \in Listeners(x[1])'
    BY <1>0, <1>2, <2>2 DEF FrameInv, DueToListeners, Listeners
  <2> QED
    BY <1>0, <1>1, <2>1, <2>3, NothingGivenUp
<1>5. CASE c \in chatSubscriptions[s] /\ unsubscribeChat(s, c)
  <2>0. PICK J : J = IF chatSubs[c] = 1 THEN {c} ELSE {}
    OBVIOUS
  <2>1. /\ chatSubscriptions' = [chatSubscriptions EXCEPT ![s] = @ \ {c}]
        /\ due' = [due EXCEPT ![s] = {x \in due[s] : x[1] # c}]
        /\ Unsubscribe(J)
    BY <1>5, <2>0 DEF unsubscribeChat, Unsubscribe
  <2>2. /\ pending' \in [Subjects -> Seq(Nat)] /\ deliveries' \subseteq Callback
        /\ \A j \in Subjects : pending'[j] = pending[j] \/ (j \in J /\ pending'[j] = <<>>)
        /\ \A d \in deliveries : \E e \in deliveries' : SameCallback(d, e)
        /\ \A e \in deliveries' : \E d \in deliveries : SameCallback(d, e)
        /\ \A d, e \in deliveries' : d.no = e.no => d = e
    BY <2>1, GivenUp DEF FrameInv
  <2>3. /\ due' \in [Sockets -> SUBSET (Subjects \X Nat)] /\ \A t \in Sockets : due'[t] \subseteq due[t]
        /\ \A x \in due'[s] : x[1] # c
    BY <2>1 DEF FrameInv, FrameTables
  <2>4. ASSUME NEW t \in connections', NEW x \in due'[t]
        PROVE  t \in connections /\ x[1] \notin J /\ t \in Listeners(x[1])'
    <3>1. t \in connections /\ t \in Sockets /\ x \in due[t] /\ t \in Listeners(x[1])
      BY <1>0, <1>2, <2>3 DEF FrameInv, DueToListeners
    <3>2. CASE t = s
      <4>1. x[1] # c
        BY <2>3, <3>2
      <4>2. x[1] \notin J
        BY <2>0, <4>1
      <4> QED
        BY <1>0, <1>2, <2>1, <3>1, <3>2, <4>1, <4>2 DEF Listeners
    <3>3. CASE t # s
      <4>1. t \in Listeners(x[1])'
        BY <1>0, <1>2, <2>1, <3>1, <3>3 DEF Listeners
      <4>2. ASSUME x[1] = c, chatSubs[c] = 1 PROVE FALSE
        <5>1. t \in ChatListeners(c) /\ s \in ChatListeners(c)
          BY <1>2, <1>5, <3>1, <4>2, ChatIsNotUser DEF ChatListeners
        <5> QED
          BY <3>3, <4>2, <5>1, CountsOfChat
      <4> QED
        BY <2>0, <3>1, <4>1, <4>2
    <3> QED
      BY <3>2, <3>3
  <2>5. \A t \in Sockets : at'[t] \in {"new", "greeted"} => at[t] \in {"new", "greeted"}
    BY <1>0
  <2> QED
    BY <1>0, <1>1, <1>2, <2>2, <2>3, <2>4, <2>5, QuietStep
<1>6. \/ UNCHANGED <<chatSubscriptions, pending, deliveries, due>>
      \/ subscribeChat(s, c)
      \/ c \in chatSubscriptions[s] /\ unsubscribeChat(s, c)
  BY DEF handleChatSubscribe, subscribeFails, unsubscribeChat
<1> QED
  BY <1>3, <1>4, <1>5, <1>6

\* A connection leaves: nobody else listens to the subscriptions given up.
LEMMA LeaveStep ==
  ASSUME FrameInv, HubInv, HubInv', NEW s \in Sockets, readPumpEnds(s)
  PROVE  FrameInv'
<1>0. PICK J : J = LastOfUser(s) \cup LastOfChats(s)
  OBVIOUS
<1>1. /\ at[s] = "serving" /\ at' = [at EXCEPT ![s] = "left"] /\ connections' = connections \ {s}
      /\ closed' = closed \cup {s} /\ Unsubscribe(J)
      /\ UNCHANGED <<user, chatSubscriptions, send, out, published, due>>
  BY <1>0 DEF readPumpEnds, unregister, Goto, Unsubscribe
<1>2. /\ pending' \in [Subjects -> Seq(Nat)] /\ deliveries' \subseteq Callback
      /\ \A j \in Subjects : pending'[j] = pending[j] \/ (j \in J /\ pending'[j] = <<>>)
      /\ \A d \in deliveries : \E e \in deliveries' : SameCallback(d, e)
      /\ \A e \in deliveries' : \E d \in deliveries : SameCallback(d, e)
      /\ \A d, e \in deliveries' : d.no = e.no => d = e
  BY <1>1, GivenUp DEF FrameInv
<1>3. /\ s \in connections /\ connections \subseteq Sockets /\ chatSubscriptions \in [Sockets -> SUBSET Chats]
      /\ user \in [Sockets -> Users] /\ at \in [Sockets -> Steps]
  BY <1>1 DEF HubInv, HubTables, HubFollowsServe
<1>4. ASSUME NEW t \in connections', NEW x \in due'[t]
      PROVE  t \in connections /\ x[1] \notin J /\ t \in Listeners(x[1])'
  <2>1. t \in connections \ {s} /\ t \in Sockets /\ x \in due[t] /\ t \in Listeners(x[1]) /\ x[1] \in Subjects
    BY <1>1, <1>3 DEF FrameInv, FrameTables, DueToListeners
  <2>2. t \in Listeners(x[1])'
    BY <1>1, <2>1 DEF Listeners
  <2>3. x[1] \notin LastOfUser(s)
    <3>1. ASSUME x[1] \in LastOfUser(s) PROVE FALSE
      <4>1. x[1] = user[s] /\ \A u \in connections \ {s} : user[u] # user[s]
        BY <3>1 DEF LastOfUser
      <4>2. user[t] = x[1]
        BY <1>3, <2>1, <4>1 DEF Listeners
      <4> QED
        BY <2>1, <4>1, <4>2
    <3> QED
      BY <3>1
  <2>4. x[1] \notin LastOfChats(s)
    <3>1. ASSUME x[1] \in LastOfChats(s) PROVE FALSE
      <4>1. x[1] \in chatSubscriptions[s] /\ chatSubs[x[1]] = 1 /\ x[1] \in Chats
        BY <1>3, <3>1 DEF LastOfChats
      <4>2. t \in ChatListeners(x[1]) /\ s \in ChatListeners(x[1])
        BY <1>3, <2>1, <4>1, ChatIsNotUser DEF ChatListeners
      <4> QED
        BY <2>1, <4>1, <4>2, CountsOfChat
    <3> QED
      BY <3>1
  <2> QED
    BY <1>0, <2>1, <2>2, <2>3, <2>4
<1>5. /\ \A t \in Sockets : at'[t] \in {"new", "greeted"} => at[t] \in {"new", "greeted"}
      /\ closed \subseteq closed' /\ closed' \subseteq Sockets /\ connections' \subseteq Sockets
      /\ due' \in [Sockets -> SUBSET (Subjects \X Nat)] /\ \A t \in Sockets : due'[t] \subseteq due[t]
  BY <1>1, <1>3 DEF FrameInv, FrameTables
<1> QED
  BY <1>1, <1>2, <1>4, <1>5, QueuesStay, QuietStep

\* ServeHTTP before and after the read loop, closed sockets, and stuttering.
LEMMA ServeStep ==
  ASSUME FrameInv, HubInv, HubInv', NEW s \in Sockets, Serve(s)
  PROVE  FrameInv'
<1>0. at \in [Sockets -> Steps] /\ user \in [Sockets -> Users] /\ connections \subseteq Sockets
  BY DEF HubInv, HubTables
<1>1. \A t \in connections : \A x \in due[t] : t \in Listeners(x[1])
  BY DEF FrameInv, DueToListeners
<1>2. CASE greet(s)
  <2>1. /\ at[s] = "new" /\ at' = [at EXCEPT ![s] = "greeted"] /\ enqueue(s, Connected)
        /\ UNCHANGED <<user, connections, chatSubscriptions, out, pending, deliveries, published, due>>
    BY <1>2 DEF greet, Goto, hub, bus
  <2>2. \A t \in Sockets : at'[t] \in {"new", "greeted"} => at[t] \in {"new", "greeted"}
    BY <1>0, <2>1
  <2>3. \A t \in connections' : \A x \in due[t] : t \in connections /\ t \in Listeners(x[1])'
    BY <1>1, <2>1 DEF Listeners
  <2> QED
    BY <2>1, <2>2, <2>3, EnqueueAnswer, NothingGivenUp
<1>3. CASE register(s)
  <2>1. /\ at[s] = "greeted" /\ at' = [at EXCEPT ![s] = "registered"] /\ connections' = connections \cup {s}
        /\ UNCHANGED <<user, chatSubscriptions, send, out, closed, pending, deliveries, published, due>>
    BY <1>3 DEF register, registered, Goto, queues, bus
  <2>2. due[s] = {} /\ closed' \subseteq Sockets
    BY <2>1 DEF FrameInv, FrameTables, DueToListeners
  <2>3. \A t \in Sockets : at'[t] \in {"new", "greeted"} => at[t] \in {"new", "greeted"}
    BY <1>0, <2>1
  <2>4. \A t \in connections' : \A x \in due[t] : t \in connections /\ t \in Listeners(x[1])'
    BY <1>1, <2>1, <2>2 DEF Listeners
  <2> QED
    BY <2>1, <2>2, <2>3, <2>4, QueuesStay, NothingGivenUp
<1>4. CASE registerFails(s)
  <2>1. /\ at' = [at EXCEPT ![s] = "done"] /\ closed' = closed \cup {s}
        /\ UNCHANGED <<user, connections, chatSubscriptions, send, out, pending, deliveries, published, due>>
    BY <1>4 DEF registerFails, Goto, hub, bus
  <2>2. closed' \subseteq Sockets /\ \A t \in Sockets : at'[t] \in {"new", "greeted"} => at[t] \in {"new", "greeted"}
    BY <1>0, <2>1 DEF FrameInv, FrameTables
  <2>3. \A t \in connections' : \A x \in due[t] : t \in connections /\ t \in Listeners(x[1])'
    BY <1>1, <2>1 DEF Listeners
  <2> QED
    BY <2>1, <2>2, <2>3, QueuesStay, NothingGivenUp
<1>5. CASE MarkOnline(s) \/ MarkOffline(s)
  <2>1. /\ AnnounceOrNot(s) /\ UNCHANGED <<user, connections, chatSubscriptions, send, out, closed, deliveries>>
        /\ at' = [at EXCEPT ![s] = "serving"] \/ at' = [at EXCEPT ![s] = "done"]
    BY <1>5 DEF MarkOnline, MarkOffline, Goto, hub, queues
  <2>2. \A t \in Sockets : at'[t] \in {"new", "greeted"} => at[t] \in {"new", "greeted"}
    BY <1>0, <2>1
  <2>3. CASE PublishRealtime(user[s], "presence")
    <3>1. PICK j : j = user[s]
      OBVIOUS
    <3>2. j \in Subjects /\ PublishRealtime(j, "presence")
      BY <1>0, <2>3, <3>1 DEF Subjects, PublishRealtime
    <3> QED
      BY <2>1, <2>2, <3>2, PublishStep
  <2>4. CASE UNCHANGED <<published, pending, due>>
    <3>1. closed \subseteq closed' /\ closed' \subseteq Sockets
      BY <2>1 DEF FrameInv, FrameTables
    <3>2. \A t \in connections' : \A x \in due[t] : t \in connections /\ t \in Listeners(x[1])'
      BY <1>1, <2>1 DEF Listeners
    <3> QED
      BY <2>1, <2>2, <2>4, <3>1, <3>2, QueuesStay, NothingGivenUp
  <2> QED
    BY <2>1, <2>3, <2>4 DEF AnnounceOrNot
<1> QED
  BY <1>2, <1>3, <1>4, <1>5 DEF Serve

LEMMA ClosingStep ==
  ASSUME FrameInv, HubInv, HubInv', closed \subseteq closed', closed' \subseteq Sockets,
         UNCHANGED <<conn, hub, send, out, bus>>
  PROVE  FrameInv'
<1>1. UNCHANGED <<at, user, connections, chatSubscriptions, send, out, pending, deliveries, published, due>>
  BY DEF conn, hub, bus
<1>2. \A t \in connections' : \A x \in due[t] : t \in connections /\ t \in Listeners(x[1])'
  BY <1>1 DEF FrameInv, DueToListeners, Listeners
<1> QED
  BY <1>1, <1>2, QueuesStay, NothingGivenUp

LEMMA FrameStep == FrameInv /\ HubInv /\ HubInv' /\ [Next]_vars => FrameInv'
<1> SUFFICES ASSUME FrameInv, HubInv, HubInv', [Next]_vars PROVE FrameInv'
  OBVIOUS
<1>0. closed \subseteq Sockets /\ connections \subseteq Sockets
  BY DEF FrameInv, FrameTables, HubInv, HubTables
<1>1. CASE Shutdown \/ Finished \/ UNCHANGED vars \/ \E s \in Sockets : writeFails(s)
  <2>1. closed \subseteq closed' /\ closed' \subseteq Sockets /\ UNCHANGED <<conn, hub, send, out, bus>>
    BY <1>0, <1>1 DEF Shutdown, Finished, writeFails, vars, queues
  <2> QED
    BY <2>1, ClosingStep
<1>2. ASSUME NEW s \in Sockets, NEW j \in Subjects, Post(j, s) PROVE FrameInv'
  <2>1. PublishRealtime(j, s)
    BY <1>2 DEF Post
  <2>2. UNCHANGED <<at, user, connections, chatSubscriptions, send, out, closed, deliveries>>
    BY <1>2 DEF Post, conn, hub, queues
  <2> QED
    BY <2>1, <2>2, PublishStep
<1>3. CASE Deliver
  BY <1>3, TakeStep, DeliverToStep, DeliveredStep, DeliverNextStep DEF Deliver
<1> QED
  BY <1>1, <1>2, <1>3, ServeStep, LeaveStep, WriteStep, ChatRequestStep DEF Next

LEMMA FrameInit == Init => FrameInv
<1> SUFFICES ASSUME Init PROVE FrameInv
  OBVIOUS
<1>1. Len(<<>>) = 0 /\ Held(<<>>) = {} /\ Distinct(<<>>) /\ Nos(<<>>) = {} /\ OnceEach(<<>>)
  BY DEF Held, Distinct, Nos, OnceEach
<1>2. FrameTables
  BY HubBounds DEF Init, FrameTables
<1>3. /\ \A s \in Sockets : send[s] = <<>> /\ out[s] = {} /\ due[s] = {}
      /\ \A j \in Subjects : pending[j] = <<>>
      /\ deliveries = {} /\ connections = {}
  BY DEF Init
<1>4. FramesNumbered /\ TakenOnce /\ NotYetSeen /\ QueuedOnce /\ DueToListeners /\ OnItsWay
  BY <1>1, <1>3 DEF FramesNumbered, TakenOnce, NotYetSeen, Seen, QueuedOnce, DueToListeners, OnItsWay
<1> QED
  BY <1>2, <1>4 DEF FrameInv

LEMMA FramesFollow == HubInv /\ FrameInv => FramesArriveOnce
<1> SUFFICES ASSUME HubInv, FrameInv PROVE FramesArriveOnce
  OBVIOUS
<1>0. \A s \in Sockets : DOMAIN send[s] = 1..Len(send[s]) /\ send[s] \in Seq(Frame)
  BY DEF FrameInv, FrameTables
<1>1. TypeOK
  <2>1. \A c \in Chats : chatSubs[c] \in 0..Cardinality(Sockets)
    <3>1. SUFFICES ASSUME NEW c \in Chats PROVE chatSubs[c] \in 0..Cardinality(Sockets)
      OBVIOUS
    <3>2. ChatListeners(c) \subseteq Sockets
      BY DEF HubInv, HubTables, ChatListeners
    <3>3. Cardinality(ChatListeners(c)) <= Cardinality(Sockets) /\ Cardinality(Sockets) \in Nat
      BY <3>2, HubNames, FS_Subset, FS_CardinalityType
    <3>4. chatSubs[c] = Cardinality(ChatListeners(c)) /\ chatSubs[c] \in Nat
      BY CountsOfChat DEF HubInv, HubTables
    <3> QED
      BY <3>3, <3>4
  <2>2. chatSubs \in [Chats -> 0..Cardinality(Sockets)]
    BY <2>1 DEF HubInv, HubTables
  <2>3. DOMAIN published = 1..Len(published)
    BY DEF FrameInv, FrameTables
  <2>4. \A s \in Sockets : /\ Len(send[s]) <= SendBuffer /\ out[s] \subseteq DOMAIN published
                           /\ \A i \in DOMAIN send[s] : send[s][i] \in Frame
    BY <1>0, <2>3 DEF FrameInv, FrameTables, FramesNumbered
  <2>5. \A j \in Subjects : \A i \in DOMAIN pending[j] : pending[j][i] \in DOMAIN published
    <3>1. \A j \in Subjects : DOMAIN pending[j] = 1..Len(pending[j])
      BY DEF FrameInv, FrameTables
    <3> QED
      BY <2>3, <3>1 DEF FrameInv, FramesNumbered, Held, IsMessage
  <2>6. \A d \in deliveries :
         /\ d.subject \in Subjects /\ d.no \in DOMAIN published /\ d.left \subseteq Sockets
         /\ d.step \in {"taken", "sending"} /\ d.orphan \in BOOLEAN
    BY <2>3 DEF FrameInv, FrameTables, FramesNumbered, IsMessage, Callback
  <2> QED
    BY <2>2, <2>4, <2>5, <2>6 DEF TypeOK, HubInv, HubTables, FrameInv, FrameTables
<1>2. NothingDroppedSilently
  <2>1. SUFFICES ASSUME NEW s \in connections \ closed, NEW x \in due[s]
                 PROVE  \/ x[2] \in out[s]
                        \/ \E i \in Queued(s) : send[s][i].no = x[2]
                        \/ \E i \in DOMAIN pending[x[1]] : pending[x[1]][i] = x[2]
                        \/ \E d \in deliveries : d.no = x[2] /\ (d.step = "taken" \/ s \in d.left)
    BY DEF NothingDroppedSilently
  <2>2. s \in Sockets /\ x[1] \in Subjects /\ pending[x[1]] \in Seq(Nat)
    BY DEF HubInv, HubTables, FrameInv, FrameTables
  <2>3. DOMAIN pending[x[1]] = 1..Len(pending[x[1]])
    BY <2>2
  <2>4. x[2] \in Nos(send[s]) => \E i \in Queued(s) : send[s][i].no = x[2]
    BY <1>0, <2>2 DEF Nos, Queued
  <2>5. x[2] \in Held(pending[x[1]]) => \E i \in DOMAIN pending[x[1]] : pending[x[1]][i] = x[2]
    BY <2>3 DEF Held
  <2> QED
    BY <2>4, <2>5 DEF FrameInv, OnItsWay, Seen, ComesTo
<1>3. NoFrameTwice
  BY <1>0 DEF FrameInv, QueuedOnce, NoFrameTwice, Queued, Nos, OnceEach
<1> QED
  BY <1>1, <1>2, <1>3 DEF FramesArriveOnce

\* A message published while a socket listens is queued for it once, or the
\* socket is closed: no frame is dropped silently and none is delivered twice,
\* even where a subscription is given up and opened again while a callback is
\* still running (deliverToUser, deliverToChat, enqueue, unregister).
THEOREM HubDeliversOnce == Spec => []FramesArriveOnce
<1>1. HubInv /\ FrameInv /\ [Next]_vars => (HubInv /\ FrameInv)'
  BY HubStep, FrameStep
<1> QED
  BY <1>1, HubInit, FrameInit, FramesFollow, PTL DEF Spec
================================================================================
