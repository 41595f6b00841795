------------------------------- MODULE EventLog -------------------------------
(***************************************************************************)
(* What the sync log promises a device (docs/protocol/websocket.md,        *)
(* messaging/repository.go, EventsSince): each user has one log, events    *)
(* are numbered from 1 without gaps, and an event is added only above      *)
(* every event a reader can already have seen.  A reader that has applied  *)
(* everything up to n can therefore ask for "after n" and miss nothing.    *)
(***************************************************************************)
EXTENDS Integers

CONSTANT Users

VARIABLES
    head,     \* user -> number of the newest event, user_event_counters.last_seq
    events    \* user -> the readable rows of user_events

logvars == <<head, events>>

Init == head = [u \in Users |-> 0] /\ events = [u \in Users |-> {}]

Keeps(u) == head'[u] = head[u] /\ events'[u] = events[u]

Grows(u) ==
    /\ head'[u] = head[u] + 1
    /\ \E e \in events'[u] : e.seq = head[u] + 1 /\ events'[u] = events[u] \cup {e}

\* One commit may add an event to any number of logs, one each.
Append == \A u \in Users : Keeps(u) \/ Grows(u)

Spec == Init /\ [][Append]_logvars
=============================================================================
