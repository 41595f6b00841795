------------------------------- MODULE Calls -------------------------------
(***************************************************************************)
(* Call signalling (backend/internal/calls/calls.go): one call from the    *)
(* moment it is placed, its participants answering, declining, hanging up  *)
(* and relaying signals at the same time.                                  *)
(*                                                                         *)
(* A user has one request in flight.  Each statement that commits on its   *)
(* own is a step of its own; a transaction is one step, preceded by the    *)
(* step that takes the snapshot when the code decides on a count taken     *)
(* before a lock was granted (Join) or before others committed (Leave).    *)
(* A request whose client goes away is cancelled between two statements.   *)
(***************************************************************************)
EXTENDS Naturals, FiniteSets

CONSTANTS
    CallUsers,              \* members of the chat that is called
    MaxGroupParticipants,   \* config.Calls.MaxGroupParticipants
    MaxCallRequests         \* bound on the answers, refusals and hang-ups

VARIABLES
    callRow,     \* calls: scope and state
    callPart,    \* call_participants: user -> state
    callSess,    \* call_sessions: user -> none, open or closed
    callReq,     \* user -> what its request does next, and what it has read
    callCount,   \* requests so far
    callTold,    \* user -> the last lifecycle event published to it
    callOver     \* (ghost) users whose hang-up or refusal was answered with success

callVars == <<callRow, callPart, callSess, callReq, callCount, callTold, callOver>>

Terminal == {"ended", "rejected", "missed"}
Present == {"joined", "ringing", "invited"}
Idle == [at |-> "idle", seen |-> 0]
Participants == {u \in CallUsers : callPart[u] # "none"}
Count(states) == Cardinality({u \in CallUsers : callPart[u] \in states})
Busy(u, at) == callReq[u].at = at
Goto(u, at, seen) == callReq' = [callReq EXCEPT ![u] = [at |-> at, seen |-> seen]]

Init ==
    /\ callRow = [scope |-> "direct", state |-> "none"]
    /\ callPart = [u \in CallUsers |-> "none"]
    /\ callSess = [u \in CallUsers |-> "none"]
    /\ callReq = [u \in CallUsers |-> Idle]
    /\ callCount = 0
    /\ callTold = [u \in CallUsers |-> "none"]
    /\ callOver = {}

requireParticipant(u) == callPart[u] # "none"

\* broadcast publishes to every participant but one.
broadcast(event, except) ==
    callTold' = [u \in CallUsers |->
                    IF u \in Participants \ except THEN event ELSE callTold[u]]

\* The call and its participants are written in one transaction.
Create(u, scope, members) ==
    /\ callRow' = [scope |-> scope, state |-> "ringing"]
    /\ callPart' = [v \in CallUsers |-> IF v = u THEN "joined"
                                        ELSE IF v \in members THEN "ringing" ELSE "none"]

\* A private chat has two members; in any other the caller has manage_calls.
Start(u) ==
    /\ callRow.state = "none"
    /\ \E scope \in {"direct", "group"}, members \in SUBSET CallUsers :
          /\ u \in members
          /\ scope = "direct" => Cardinality(members) = 2
          /\ Create(u, scope, members)
          /\ callTold' = [v \in CallUsers |->
                             IF v \in members \ {u} THEN "incoming" ELSE callTold[v]]
    /\ UNCHANGED <<callCount, callSess, callReq, callOver>>

\* An endpoint lets a participant in; a stranger gets the answer of a call that
\* does not exist.
Enter(u, at) ==
    /\ Busy(u, "idle")
    /\ requireParticipant(u)
    /\ callCount < MaxCallRequests
    /\ callCount' = callCount + 1
    /\ Goto(u, at, 0)
    /\ UNCHANGED <<callRow, callPart, callSess, callTold, callOver>>

accept(u) == Enter(u, "count")
reject(u) == Enter(u, "decline")
end(u) == Enter(u, "leave")

\* Join's statement takes its snapshot, and with it the number of people in the
\* call, before it waits for the row of the call.
JoinCount(u) ==
    /\ Busy(u, "count")
    /\ Goto(u, "join", Count({"joined"}))
    /\ UNCHANGED <<callCount, callRow, callPart, callSess, callTold, callOver>>

JoinRefused(u) == callRow.state \in Terminal \/ callReq[u].seen >= MaxGroupParticipants

\* The lock is granted: the state is the committed one, the count is not.
Join(u) ==
    /\ ~JoinRefused(u)
    /\ callPart' = [callPart EXCEPT ![u] = "joined"]
    /\ callRow' = [callRow EXCEPT !.state = IF @ = "ringing" THEN "active" ELSE @]
    /\ Goto(u, "accepted", 0)

Accept(u) ==
    /\ Busy(u, "join")
    /\ \/ Join(u)
       \/ JoinRefused(u) /\ Goto(u, "idle", 0) /\ UNCHANGED <<callRow, callPart>>
    /\ UNCHANGED <<callCount, callSess, callTold, callOver>>

AcceptBroadcast(u) ==
    /\ Busy(u, "accepted")
    /\ broadcast("accepted", {u})
    /\ Goto(u, "idle", 0)
    /\ UNCHANGED <<callCount, callRow, callPart, callSess, callOver>>

SetParticipantState(u) == callPart' = [callPart EXCEPT ![u] = "rejected"]

SetState(state) ==
    callRow' = [callRow EXCEPT !.state = IF @ \in Terminal THEN @ ELSE state]

\* Reject marks the participant; a direct call is then ended by a second statement.
Reject(u) ==
    /\ Busy(u, "decline")
    /\ SetParticipantState(u)
    /\ Goto(u, IF callRow.scope = "direct" THEN "declined" ELSE "rejected", 0)
    /\ UNCHANGED <<callCount, callRow, callSess, callTold, callOver>>

RejectDirect(u) ==
    /\ Busy(u, "declined")
    /\ SetState("rejected")
    /\ Goto(u, "rejected", 0)
    /\ UNCHANGED <<callCount, callPart, callSess, callTold, callOver>>

RejectBroadcast(u) ==
    /\ Busy(u, "rejected")
    /\ broadcast("rejected", {u})
    /\ callOver' = callOver \cup {u}
    /\ Goto(u, "idle", 0)
    /\ UNCHANGED <<callCount, callRow, callPart, callSess>>

\* Leave's transaction has marked its own row and counts the people who remain,
\* without seeing the rows of others who are leaving at the same time.
LeaveCount(u) ==
    /\ Busy(u, "leave")
    /\ Goto(u, "left", Cardinality({v \in CallUsers \ {u} : callPart[v] \in Present}))
    /\ UNCHANGED <<callCount, callRow, callPart, callSess, callTold, callOver>>

Leave(u) ==
    /\ callPart' = [callPart EXCEPT ![u] = "left"]
    /\ IF callReq[u].seen = 0 THEN SetState("ended") ELSE UNCHANGED callRow

\* A form in which the call is ended by whoever leaves last, direct or not.
AfterLastLeave(u) == IF callReq[u].seen = 0 THEN "close" ELSE "ended"

\* Where End goes after the transaction: a direct call nobody else has ended is
\* ended now, and an ended call has its session records closed.
AfterLeave(u) ==
    IF callReq[u].seen = 0 THEN "close"
    ELSE IF callRow.scope = "direct" THEN "hangup" ELSE "ended"

End(u) ==
    /\ Busy(u, "left")
    /\ Leave(u)
    /\ Goto(u, AfterLeave(u), 0)
    /\ UNCHANGED <<callCount, callSess, callTold, callOver>>

EndDirect(u) ==
    /\ Busy(u, "hangup")
    /\ SetState("ended")
    /\ Goto(u, "close", 0)
    /\ UNCHANGED <<callCount, callPart, callSess, callTold, callOver>>

CloseSessions(u) ==
    /\ Busy(u, "close")
    /\ callSess' = [v \in CallUsers |-> IF callSess[v] = "open" THEN "closed" ELSE callSess[v]]
    /\ Goto(u, "over", 0)
    /\ UNCHANGED <<callCount, callRow, callPart, callTold, callOver>>

\* The event says whether the call is over or one participant has gone.
EndBroadcast(u) ==
    /\ callReq[u].at \in {"ended", "over"}
    /\ broadcast(IF Busy(u, "over") THEN "over" ELSE "someone left", {})
    /\ callOver' = callOver \cup {u}
    /\ Goto(u, "idle", 0)
    /\ UNCHANGED <<callCount, callRow, callPart, callSess>>

\* One row per participant: a later signal updates it and leaves closed_at alone.
RecordSignal(u) == callSess' = [callSess EXCEPT ![u] = IF @ = "none" THEN "open" ELSE @]

\* An offer, an answer or a candidate for another participant is recorded and relayed.
Signal(u) ==
    /\ Busy(u, "idle")
    /\ requireParticipant(u)
    /\ \E v \in CallUsers : requireParticipant(v)
    /\ RecordSignal(u)
    /\ UNCHANGED <<callCount, callRow, callPart, callReq, callTold, callOver>>

\* The client is gone: the request's context is cancelled before its next statement.
Abandon(u) ==
    /\ ~Busy(u, "idle")
    /\ Goto(u, "idle", 0)
    /\ UNCHANGED <<callCount, callRow, callPart, callSess, callTold, callOver>>

Next == \E u \in CallUsers :
    \/ Start(u) \/ accept(u) \/ reject(u) \/ end(u)
    \/ JoinCount(u) \/ Accept(u) \/ AcceptBroadcast(u)
    \/ Reject(u) \/ RejectDirect(u) \/ RejectBroadcast(u)
    \/ LeaveCount(u) \/ End(u) \/ EndDirect(u) \/ CloseSessions(u) \/ EndBroadcast(u)
    \/ Signal(u) \/ Abandon(u)

Spec == Init /\ [][Next]_callVars

-----------------------------------------------------------------------------
(* Properties *)

\* A direct call is over for good once either side's hang-up or refusal has been
\* answered, whatever the other side was doing at the time (an answer on its way, a
\* hang-up of its own, a request cut short), and in any call what has been told to be
\* over is over.
HangUpIsFinal ==
    /\ callRow.scope = "direct" /\ callOver # {} => callRow.state \in Terminal
    /\ \A u \in CallUsers : callTold[u] = "over" => callRow.state \in Terminal

-----------------------------------------------------------------------------
(* What the repository says of this code and the code does not do *)

\* calls.go:228 says of Leave that it "ends the call when nobody is left": two people
\* who leave at the same time each count the other, and nobody ends the call.
EmptyCallEnds ==
    /\ callRow.state # "none"
    /\ \A u \in CallUsers : Busy(u, "idle") /\ callPart[u] \notin Present
    => callRow.state \in Terminal

\* calls.go:509 says "the cap applies to simultaneous joins": two people who join at
\* the same time both count the people who were there before either.
JoinsRespectTheCap ==
    Count({"joined"}) <= MaxGroupParticipants

\* calls.go:389 says a session row "still open means a call that never ended cleanly":
\* a refusal does not close the rows, and a signal after the end opens one.
EndedCallHasNoOpenSession ==
    /\ callRow.state \in Terminal
    /\ \A u \in CallUsers : Busy(u, "idle")
    => \A u \in CallUsers : callSess[u] # "open"
=============================================================================
