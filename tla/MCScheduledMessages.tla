-------------------------- MODULE MCScheduledMessages --------------------------
(* TLC instance of what must come to an end by itself: a scheduled post is settled, a socket that *)
(* is closed leaves the hub, and a user whose connections have gone reads as offline.             *)
(*                                                                                                *)
(* The three components share no state, so each is explored by itself: `active` says which of     *)
(* them a behaviour is of.  ScheduledMessages has its own variables, the others those below.      *)
EXTENDS ScheduledMessages

CONSTANTS
    Sockets, TheUser,        \* the sockets of one user; no chat is open in them
    Devices, Connections  \* the devices of that user and their connections, for presence

VARIABLES
    active,
    hubAt, user, requests, connections, userSubs, chatSubs, chatSubscriptions, send, out, closed,
    pending, deliveries, published, due,
    seenAt, device, key, listed, lastSeen, announced, failed

hubVars == <<hubAt, user, requests, connections, userSubs, chatSubs, chatSubscriptions, send, out,
             closed, pending, deliveries, published, due>>
seenVars == <<seenAt, device, key, listed, lastSeen, announced, failed>>

Hub == INSTANCE RealtimeHub WITH
    Users <- {TheUser}, Chats <- {}, SendBuffer <- 1, MaxPosts <- 1, MaxRequests <- 0,
    Faults <- {"subscribe", "shutdown"}, at <- hubAt

Presence == INSTANCE Presence WITH
    Users <- {TheUser}, Owner <- [d \in Devices |-> TheUser], Faults <- {"lapse", "cache"}, at <- seenAt

\* Which device a connection is of matters to presence alone.
FirstDevice == CHOOSE d \in Devices : TRUE

MCInit ==
    /\ active \in {"posts", "hub", "presence"} /\ Init /\ Hub!Init /\ Presence!Init
    /\ active # "presence" => \A c \in Connections : device[c] = FirstDevice

PostsStep == active = "posts" /\ Next /\ UNCHANGED <<active, hubVars, seenVars>>
HubStep == active = "hub" /\ Hub!Next /\ UNCHANGED <<active, vars, seenVars>>
PresenceStep == active = "presence" /\ Presence!Next /\ UNCHANGED <<active, vars, hubVars>>

\* The fairness of each component, where it is the one that moves.
MCSpec ==
    /\ MCInit /\ [][PostsStep \/ HubStep \/ PresenceStep]_<<active, vars, hubVars, seenVars>>
    /\ \A k \in Posts : /\ WF_vars(active = "posts" /\ ComeDue(k))
                        /\ WF_vars(active = "posts" /\ LeaseExpires(k))
    /\ \A w \in Workers : WF_vars(active = "posts" /\ PublishDue(w))
    /\ \A s \in Sockets : /\ WF_hubVars(active = "hub" /\ Hub!Serve(s))
                          /\ WF_hubVars(active = "hub" /\ s \in closed /\ Hub!readPumpEnds(s))
    /\ WF_hubVars(active = "hub" /\ Hub!Deliver)
    /\ WF_seenVars(active = "presence" /\ Presence!Lapse)

\* A connection that is closed, by its peer, for being slow or by a shutdown, leaves the hub and
\* ends (readPump, ServeHTTP).
ClosedIsForgotten == Hub!ClosedIsForgotten

\* Whatever Redis failed to do, a user whose connections have all gone reads as offline in the end
\* (onlineTTL).
GoneReadsOffline == Presence!GoneReadsOffline
================================================================================
