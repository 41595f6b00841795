---------------------------- MODULE Chats_proofs ----------------------------
(***************************************************************************)
(* Each component has an inductive invariant of its own; a behaviour of    *)
(* the whole is one of the component `active`, so the invariant holds      *)
(* wherever it is that one.                                                *)
(*                                                                         *)
(* x1, x2, ... are read under the names the active component gives them.   *)
(***************************************************************************)
EXTENDS Chats, Sequences, FiniteSetTheorems, NaturalsInduction, WellFoundedInduction, TLAPS

-----------------------------------------------------------------------------
(* Numbers *)

\* A set of natural numbers that is not empty has a least element.
LEMMA LeastNumber ==
  ASSUME NEW S \in SUBSET Nat, S # {}
  PROVE  \E n \in S : \A m \in S : n <= m
  <1> DEFINE R == {ss \in Nat \X Nat : ss[1] < ss[2]}
  <1>1. IsWellFoundedOn(R, Nat)
    BY NatLessThanWellFounded DEF OpToRel
  <1>2. PICK n \in S : \A m \in S : ~ (<<m, n>> \in R)
    BY <1>1, WFMin
  <1>3. ASSUME NEW m \in S PROVE n <= m
    <2>1. CASE m < n
      BY <1>2, <2>1
    <2> QED
      BY <2>1
  <1> QED
    BY <1>3

-----------------------------------------------------------------------------
(* One component at a time *)

\* A step of the whole is a step of the component that is active, or leaves its variables alone.
LEMMA OneMoves ==
  ASSUME [Next]_<<active, shared>>
  PROVE  /\ active' = active
         /\ \/ UNCHANGED shared
            \/ active = "calls" /\ Calls!Next
            \/ active = "polls" /\ Polls!Next
            \/ active = "topics" /\ ForumTopics!Next
            \/ active = "discussions" /\ Discussions!Next
            \/ active = "roles" /\ NamedRoles!Next
            \/ active = "news" /\ News!Next
            \/ active = "bots" /\ Bots!Next
            \/ active = "botfather" /\ BotFather!Next
            \/ active = "presence" /\ Presence!Next
  BY DEF Next, CallsStep, PollsStep, ForumTopicsStep, DiscussionsStep, NamedRolesStep, NewsStep,
         BotsStep, BotFatherStep, PresenceStep

-----------------------------------------------------------------------------
(***************************************************************************)
(* Calls: before a call is placed nothing is in flight and nobody was      *)
(* told anything; a handler that is past the statement which ends the call *)
(* finds it ended, whoever ended it.                                       *)
(***************************************************************************)
callRow == x1
callPart == x2
callSess == x3
callReq == x4
callCount == x5
callTold == x6
callOver == x7
USE DEF callRow, callPart, callSess, callReq, callCount, callTold, callOver

CallTables ==
    /\ callRow \in [scope : {"direct", "group"}, state : {"none", "ringing", "active"} \cup Calls!Terminal]
    /\ DOMAIN callPart = CallUsers /\ DOMAIN callTold = CallUsers
    /\ DOMAIN callReq = CallUsers

NothingBefore ==
    callRow.state = "none" =>
       /\ callOver = {}
       /\ \A u \in CallUsers : callPart[u] = "none" /\ callReq[u].at = "idle" /\ callTold[u] # "over"

EndedByNow ==
    \A u \in CallUsers :
       /\ callReq[u].at \in {"close", "over"} => callRow.state \in Calls!Terminal
       /\ callRow.scope = "direct" /\ callReq[u].at = "rejected" => callRow.state \in Calls!Terminal
       /\ callRow.scope = "direct" => callReq[u].at # "ended"

CallInv == CallTables /\ NothingBefore /\ EndedByNow /\ Calls!HangUpIsFinal

LEMMA CallInit == Calls!Init => CallInv
  BY DEF Calls!Init, CallInv, CallTables, NothingBefore, EndedByNow, Calls!HangUpIsFinal, Calls!Idle, Calls!Terminal

\* Only the request's own position changes: it moves to a place that claims nothing new.
LEMMA CallMoves ==
  ASSUME CallInv, NEW u \in CallUsers, NEW at, NEW seen, Calls!Goto(u, at, seen),
         callRow.state # "none" \/ at = "idle",
         at \in {"close", "over"} => callRow.state \in Calls!Terminal,
         at = "rejected" /\ callRow.scope = "direct" => callRow.state \in Calls!Terminal,
         at = "ended" => callRow.scope # "direct",
         UNCHANGED callRow,
         DOMAIN callPart' = CallUsers,
         callRow.state = "none" => UNCHANGED callPart,
         UNCHANGED <<callTold, callOver>>
  PROVE  CallInv'
  <1>1. /\ DOMAIN callReq' = CallUsers /\ callReq'[u].at = at
        /\ \A v \in CallUsers : v # u => callReq'[v] = callReq[v]
    BY DEF Calls!Goto, CallInv, CallTables
  <1>2. CallTables'
    BY <1>1 DEF CallInv, CallTables
  <1>3. NothingBefore'
    BY <1>1 DEF CallInv, NothingBefore
  <1>4. EndedByNow'
    BY <1>1 DEF CallInv, EndedByNow
  <1>5. Calls!HangUpIsFinal'
    BY DEF CallInv, Calls!HangUpIsFinal
  <1> QED
    BY <1>2, <1>3, <1>4, <1>5 DEF CallInv

\* The state of a placed call changes from one that is not an end, and never back to none.
LEMMA CallRowMoves ==
  ASSUME CallInv, NEW u \in CallUsers, NEW at, NEW seen, Calls!Goto(u, at, seen),
         callRow.state # "none", callRow'.state # "none",
         callRow' \in [scope : {"direct", "group"}, state : {"none", "ringing", "active"} \cup Calls!Terminal],
         callRow'.scope = callRow.scope,
         callRow.state \in Calls!Terminal => callRow'.state \in Calls!Terminal,
         at \in {"close", "over"} => callRow'.state \in Calls!Terminal,
         at = "rejected" /\ callRow.scope = "direct" => callRow'.state \in Calls!Terminal,
         at = "ended" => callRow.scope # "direct",
         DOMAIN callPart' = CallUsers,
         UNCHANGED <<callTold, callOver>>
  PROVE  CallInv'
  <1>1. /\ DOMAIN callReq' = CallUsers /\ callReq'[u].at = at
        /\ \A v \in CallUsers : v # u => callReq'[v] = callReq[v]
    BY DEF Calls!Goto, CallInv, CallTables
  <1>2. CallTables'
    BY <1>1 DEF CallInv, CallTables
  <1>3. NothingBefore'
    BY DEF NothingBefore
  <1>4. EndedByNow'
    BY <1>1 DEF CallInv, EndedByNow
  <1>5. Calls!HangUpIsFinal'
    BY DEF CallInv, Calls!HangUpIsFinal
  <1> QED
    BY <1>2, <1>3, <1>4, <1>5 DEF CallInv

\* A request announces what it did and is done.
LEMMA CallTells ==
  ASSUME CallInv, NEW u \in CallUsers, NEW event, NEW except, ~ Calls!Busy(u, "idle"),
         Calls!broadcast(event, except), Calls!Goto(u, "idle", 0), UNCHANGED <<callRow, callPart>>,
         event = "over" => callRow.state \in Calls!Terminal,
         callOver' = callOver \/ (callRow.scope = "direct" => callRow.state \in Calls!Terminal)
  PROVE  CallInv'
  <1>1. /\ DOMAIN callReq' = CallUsers /\ callReq'[u].at = "idle"
        /\ \A v \in CallUsers : v # u => callReq'[v] = callReq[v]
    BY DEF Calls!Goto, CallInv, CallTables
  <1>2. callRow.state # "none"
    BY DEF Calls!Busy, CallInv, NothingBefore
  <1>3. /\ DOMAIN callTold' = CallUsers
        /\ \A v \in CallUsers : callTold'[v] = event \/ callTold'[v] = callTold[v]
    BY DEF Calls!broadcast
  <1>4. CallTables'
    BY <1>1, <1>3 DEF CallInv, CallTables
  <1>5. NothingBefore'
    BY <1>2 DEF NothingBefore
  <1>6. EndedByNow'
    BY <1>1 DEF CallInv, EndedByNow
  <1>7. Calls!HangUpIsFinal'
    BY <1>3 DEF CallInv, Calls!HangUpIsFinal
  <1> QED
    BY <1>4, <1>5, <1>6, <1>7 DEF CallInv

LEMMA CallStarts ==
  ASSUME CallInv, NEW u \in CallUsers, Calls!Start(u)
  PROVE  CallInv'
  <1>1. PICK scope \in {"direct", "group"}, members \in SUBSET CallUsers :
           /\ Calls!Create(u, scope, members)
           /\ callTold' = [v \in CallUsers |-> IF v \in members \ {u} THEN "incoming" ELSE callTold[v]]
    BY DEF Calls!Start
  <1>2. /\ callRow.state = "none" /\ callRow' = [scope |-> scope, state |-> "ringing"]
        /\ DOMAIN callPart' = CallUsers /\ DOMAIN callTold' = CallUsers
        /\ UNCHANGED <<callReq, callOver>>
    BY <1>1 DEF Calls!Start, Calls!Create
  <1>3. callOver = {} /\ \A v \in CallUsers : callReq[v].at = "idle" /\ callTold[v] # "over"
    BY <1>2 DEF CallInv, NothingBefore
  <1>4. CallTables'
    BY <1>2 DEF CallInv, CallTables
  <1>5. NothingBefore'
    BY <1>2 DEF NothingBefore
  <1>6. EndedByNow'
    BY <1>2, <1>3 DEF EndedByNow
  <1>7. Calls!HangUpIsFinal'
    <2>1. \A v \in CallUsers : callTold'[v] # "over"
      BY <1>1, <1>3
    <2> QED
      BY <1>2, <1>3, <2>1 DEF Calls!HangUpIsFinal
  <1> QED
    BY <1>4, <1>5, <1>6, <1>7 DEF CallInv

\* SetState leaves an ended call as it is and ends any other.
LEMMA SetStateEnds ==
  ASSUME CallInv, NEW state \in Calls!Terminal, Calls!SetState(state)
  PROVE  /\ callRow' \in [scope : {"direct", "group"}, state : {"none", "ringing", "active"} \cup Calls!Terminal]
         /\ callRow'.scope = callRow.scope /\ callRow'.state \in Calls!Terminal /\ callRow'.state # "none"
  <1>1. PICK s : s = IF callRow.state \in Calls!Terminal THEN callRow.state ELSE state
    OBVIOUS
  <1>2. callRow' = [callRow EXCEPT !.state = s]
    BY <1>1 DEF Calls!SetState
  <1> QED
    BY <1>1, <1>2 DEF CallInv, CallTables, Calls!Terminal

LEMMA CallNext == ASSUME CallInv, Calls!Next PROVE CallInv'
  <1> SUFFICES ASSUME NEW u \in CallUsers,
                      \/ Calls!Start(u) \/ Calls!accept(u) \/ Calls!reject(u) \/ Calls!end(u)
                      \/ Calls!JoinCount(u) \/ Calls!Accept(u) \/ Calls!AcceptBroadcast(u)
                      \/ Calls!Reject(u) \/ Calls!RejectDirect(u) \/ Calls!RejectBroadcast(u)
                      \/ Calls!LeaveCount(u) \/ Calls!End(u) \/ Calls!EndDirect(u) \/ Calls!CloseSessions(u) \/ Calls!EndBroadcast(u)
                      \/ Calls!Signal(u) \/ Calls!Abandon(u)
               PROVE  CallInv'
    BY DEF Calls!Next
  <1>0. ~ Calls!Busy(u, "idle") => callRow.state # "none"
    BY DEF Calls!Busy, CallInv, NothingBefore
  <1>a. DOMAIN callPart = CallUsers
    BY DEF CallInv, CallTables
  <1>1. CASE Calls!Start(u)
    BY <1>1, CallStarts
  <1>2. ASSUME NEW at \in {"count", "decline", "leave"}, Calls!Enter(u, at) PROVE CallInv'
    <2>1. callRow.state # "none"
      BY <1>2 DEF Calls!Enter, Calls!requireParticipant, CallInv, NothingBefore
    <2> QED
      BY <1>2, <1>a, <2>1, CallMoves DEF Calls!Enter
  <1>3. CASE Calls!accept(u) \/ Calls!reject(u) \/ Calls!end(u)
    BY <1>2, <1>3 DEF Calls!accept, Calls!reject, Calls!end
  <1>4. CASE Calls!JoinCount(u)
    <2>1. PICK n : Calls!Goto(u, "join", n)
      BY <1>4 DEF Calls!JoinCount
    <2> QED
      BY <1>0, <1>4, <1>a, <2>1, CallMoves DEF Calls!JoinCount, Calls!Busy
  <1>5. CASE Calls!Accept(u)
    <2>1. CASE Calls!Join(u)
      <3>1. PICK s : s = IF callRow.state = "ringing" THEN "active" ELSE callRow.state
        OBVIOUS
      <3>2. callRow' = [callRow EXCEPT !.state = s] /\ callRow.state \notin Calls!Terminal
        BY <2>1, <3>1 DEF Calls!Join, Calls!JoinRefused
      <3>3. callRow.state # "none"
        BY <1>0, <1>5 DEF Calls!Accept, Calls!Busy
      <3>4. /\ callRow' \in [scope : {"direct", "group"}, state : {"none", "ringing", "active"} \cup Calls!Terminal]
            /\ callRow'.scope = callRow.scope /\ callRow'.state # "none"
        BY <3>1, <3>2, <3>3 DEF CallInv, CallTables
      <3>5. DOMAIN callPart' = CallUsers /\ Calls!Goto(u, "accepted", 0) /\ UNCHANGED <<callTold, callOver>>
        BY <1>5, <1>a, <2>1 DEF Calls!Accept, Calls!Join
      <3> QED
        BY <3>2, <3>3, <3>4, <3>5, CallRowMoves
    <2>2. CASE Calls!Goto(u, "idle", 0) /\ UNCHANGED <<callRow, callPart>>
      BY <1>5, <1>a, <2>2, CallMoves DEF Calls!Accept
    <2> QED
      BY <1>5, <2>1, <2>2 DEF Calls!Accept
  <1>6. CASE Calls!AcceptBroadcast(u)
    BY <1>6, CallTells DEF Calls!AcceptBroadcast, Calls!Busy
  <1>7. CASE Calls!Reject(u)
    <2>1. PICK at : Calls!Goto(u, at, 0) /\ at = IF callRow.scope = "direct" THEN "declined" ELSE "rejected"
      BY <1>7 DEF Calls!Reject
    <2>2. DOMAIN callPart' = CallUsers /\ callRow.state # "none" /\ UNCHANGED <<callRow, callTold, callOver>>
      BY <1>0, <1>7, <1>a DEF Calls!Reject, Calls!SetParticipantState, Calls!Busy
    <2> QED
      BY <2>1, <2>2, CallMoves
  <1>8. CASE Calls!RejectDirect(u)
    <2>1. callRow.state # "none" /\ DOMAIN callPart' = CallUsers
      BY <1>0, <1>8, <1>a DEF Calls!RejectDirect, Calls!Busy
    <2>2. /\ callRow' \in [scope : {"direct", "group"}, state : {"none", "ringing", "active"} \cup Calls!Terminal]
          /\ callRow'.scope = callRow.scope /\ callRow'.state \in Calls!Terminal /\ callRow'.state # "none"
      BY <1>8, SetStateEnds DEF Calls!RejectDirect, Calls!Terminal
    <2> QED
      BY <1>8, <2>1, <2>2, CallRowMoves DEF Calls!RejectDirect
  <1>9. CASE Calls!RejectBroadcast(u)
    <2>1. callRow.scope = "direct" => callRow.state \in Calls!Terminal
      BY <1>9 DEF Calls!RejectBroadcast, Calls!Busy, CallInv, EndedByNow
    <2> QED
      BY <1>9, <2>1, CallTells DEF Calls!RejectBroadcast, Calls!Busy
  <1>10. CASE Calls!LeaveCount(u)
    <2>1. PICK n : Calls!Goto(u, "left", n)
      BY <1>10 DEF Calls!LeaveCount
    <2> QED
      BY <1>0, <1>10, <1>a, <2>1, CallMoves DEF Calls!LeaveCount, Calls!Busy
  <1>11. CASE Calls!End(u)
    <2>1. callRow.state # "none" /\ DOMAIN callPart' = CallUsers /\ UNCHANGED <<callTold, callOver>>
      BY <1>0, <1>11, <1>a DEF Calls!End, Calls!Leave, Calls!Busy
    <2>2. CASE callReq[u].seen = 0
      <3>1. Calls!Goto(u, "close", 0) /\ Calls!SetState("ended")
        BY <1>11, <2>2 DEF Calls!End, Calls!Leave, Calls!AfterLeave
      <3>2. /\ callRow' \in [scope : {"direct", "group"}, state : {"none", "ringing", "active"} \cup Calls!Terminal]
            /\ callRow'.scope = callRow.scope /\ callRow'.state \in Calls!Terminal /\ callRow'.state # "none"
        BY <3>1, SetStateEnds DEF Calls!Terminal
      <3> QED
        BY <2>1, <3>1, <3>2, CallRowMoves
    <2>3. CASE callReq[u].seen # 0
      <3>1. UNCHANGED callRow
        BY <1>11, <2>3 DEF Calls!End, Calls!Leave
      <3>2. CASE callRow.scope = "direct"
        <4>1. Calls!Goto(u, "hangup", 0)
          BY <1>11, <2>3, <3>2 DEF Calls!End, Calls!AfterLeave
        <4> QED
          BY <2>1, <3>1, <4>1, CallMoves
      <3>3. CASE callRow.scope # "direct"
        <4>1. Calls!Goto(u, "ended", 0)
          BY <1>11, <2>3, <3>3 DEF Calls!End, Calls!AfterLeave
        <4> QED
          BY <2>1, <3>1, <3>3, <4>1, CallMoves
      <3> QED
        BY <3>2, <3>3
    <2> QED
      BY <2>2, <2>3
  <1>12. CASE Calls!EndDirect(u)
    <2>1. callRow.state # "none" /\ DOMAIN callPart' = CallUsers
      BY <1>0, <1>12, <1>a DEF Calls!EndDirect, Calls!Busy
    <2>2. /\ callRow' \in [scope : {"direct", "group"}, state : {"none", "ringing", "active"} \cup Calls!Terminal]
          /\ callRow'.scope = callRow.scope /\ callRow'.state \in Calls!Terminal /\ callRow'.state # "none"
      BY <1>12, SetStateEnds DEF Calls!EndDirect, Calls!Terminal
    <2> QED
      BY <1>12, <2>1, <2>2, CallRowMoves DEF Calls!EndDirect
  <1>13. CASE Calls!CloseSessions(u)
    <2>1. callRow.state \in Calls!Terminal /\ callRow.state # "none"
      BY <1>13 DEF Calls!CloseSessions, Calls!Busy, CallInv, EndedByNow, Calls!Terminal
    <2> QED
      BY <1>13, <1>a, <2>1, CallMoves DEF Calls!CloseSessions
  <1>14. CASE Calls!EndBroadcast(u)
    <2>1. callReq[u].at = "over" => callRow.state \in Calls!Terminal
      BY DEF CallInv, EndedByNow
    <2>2. callRow.scope = "direct" => callReq[u].at # "ended"
      BY DEF CallInv, EndedByNow
    <2>3. PICK event : Calls!broadcast(event, {}) /\ event = IF Calls!Busy(u, "over") THEN "over" ELSE "someone left"
      BY <1>14 DEF Calls!EndBroadcast
    <2>4. event = "over" => callRow.state \in Calls!Terminal
      BY <2>1, <2>3 DEF Calls!Busy
    <2>5. callRow.scope = "direct" => callRow.state \in Calls!Terminal
      BY <1>14, <2>1, <2>2 DEF Calls!EndBroadcast
    <2>6. ~ Calls!Busy(u, "idle") /\ Calls!Goto(u, "idle", 0) /\ UNCHANGED <<callRow, callPart>>
      BY <1>14 DEF Calls!EndBroadcast, Calls!Busy
    <2> QED
      BY <2>3, <2>4, <2>5, <2>6, CallTells
  <1>15. CASE Calls!Signal(u)
    BY <1>15 DEF Calls!Signal, CallInv, CallTables, NothingBefore, EndedByNow, Calls!HangUpIsFinal
  <1>16. CASE Calls!Abandon(u)
    BY <1>16, <1>a, CallMoves DEF Calls!Abandon
  <1> QED
    BY <1>1, <1>3, <1>4, <1>5, <1>6, <1>7, <1>8, <1>9, <1>10, <1>11, <1>12, <1>13, <1>14, <1>15, <1>16

\* Whatever the other side is doing, a direct call one side has left or refused stays over, and so
\* does any call a participant was told is over (Hangup, Decline, finish).
THEOREM CallsEnd == Spec => []HangUpIsFinal
  <1> DEFINE Holds == active = "calls" => CallInv
  <1>1. Init => Holds
    BY CallInit DEF Init
  <1>2. Holds /\ [Next]_<<active, shared>> => Holds'
    <2> SUFFICES ASSUME active = "calls", CallInv, [Next]_<<active, shared>> PROVE CallInv'
      BY OneMoves
    <2>1. CASE Calls!Next
      BY <2>1, CallNext
    <2>2. CASE UNCHANGED shared
      BY <2>2 DEF shared, CallInv, CallTables, NothingBefore, EndedByNow,
          Calls!HangUpIsFinal, Calls!Terminal
    <2> QED
      BY <2>1, <2>2, OneMoves
  <1>3. Holds => HangUpIsFinal
    BY DEF CallInv, HangUpIsFinal
  <1> QED
    BY <1>1, <1>2, <1>3, PTL DEF Spec

-----------------------------------------------------------------------------
(***************************************************************************)
(* Polls: a ballot that is being cast holds the lock of its poll, so what  *)
(* it has read of the voter's previous ballot is still so when it commits. *)
(***************************************************************************)
poPoll == x1
poVotes == x2
poMsg == x3
poReq == x4
poShown == x5
poFinal == x6
USE DEF poPoll, poVotes, poMsg, poReq, poShown, poFinal

\* The component counts with its own copy of Cardinality.
LEMMA PollsCard == \A S : Polls!Cardinality(S) = Cardinality(S)
  BY DEF Polls!Cardinality, Cardinality

PollRow == [by : People \cup {"nobody"}, multiple : BOOLEAN, quiz : BOOLEAN, due : BOOLEAN, closed : BOOLEAN,
            total : Nat, count : [Options -> Nat]]

PollRequest == [at : {"idle", "send", "attach", "ballot"}, poll : Polls!PollIds \cup {0},
                who : People \cup {"nobody"}, ballot : SUBSET Options, had : BOOLEAN]

PollTables ==
    /\ poPoll \in [Polls!PollIds -> PollRow]
    /\ poVotes \in SUBSET (Polls!PollIds \X Options \X People)
    /\ poReq \in [Handlers -> PollRequest]

Casting(h) == poReq[h].at = "ballot"
Has(p, u) == \E o \in Options : <<p, o, u>> \in poVotes

BallotsAreLocked ==
    \A h \in Handlers : Casting(h) =>
       /\ poReq[h].poll \in Polls!PollIds /\ poReq[h].who \in People
       /\ poReq[h].had <=> Has(poReq[h].poll, poReq[h].who)
       /\ ~ poPoll[poReq[h].poll].closed
       /\ ~ poPoll[poReq[h].poll].multiple => \A o, k \in poReq[h].ballot : o = k
       /\ Polls!Exists(poReq[h].poll)
       /\ \A g \in Handlers : Casting(g) /\ poReq[g].poll = poReq[h].poll => g = h

Took(p, o) == {u \in People : <<p, o, u>> \in poVotes}
Voted(p) == {u \in People : Has(p, u)}
Cast(p) == {v \in poVotes : v[1] = p}

\* What TalliesMatchBallots says, poll by poll.
PollHolds(p) ==
    /\ poPoll[p].total = Cardinality(Voted(p))
    /\ \A o \in Options : poPoll[p].count[o] = Cardinality(Took(p, o))
    /\ ~ poPoll[p].multiple =>
          \A u \in People : \A o, k \in Options : <<p, o, u>> \in poVotes /\ <<p, k, u>> \in poVotes => o = k
    /\ poPoll[p].closed => poFinal[p] = Cast(p)

PollInv == PollTables /\ BallotsAreLocked /\ (\A p \in Polls!PollIds : PollHolds(p)) /\ DOMAIN poFinal = Polls!PollIds

LEMMA PollIdleShape == Polls!Idle \in PollRequest /\ Polls!Idle.at = "idle"
  BY DEF Polls!Idle, PollRequest

LEMMA NoPollShape == Polls!NoPoll \in PollRow
  BY DEF Polls!NoPoll, PollRow

\* A set in which all elements are equal has at most one.
LEMMA AtMostOne == ASSUME NEW S, \A o, k \in S : o = k PROVE Cardinality(S) <= 1
  <1>1. CASE S = {}
    BY <1>1, FS_EmptySet
  <1>2. CASE S # {}
    <2>1. PICK o \in S : TRUE
      BY <1>2
    <2>2. S = {o}
      BY <2>1
    <2>3. Cardinality({o}) = 1
      BY FS_Singleton
    <2> QED
      BY <2>2, <2>3
  <1> QED
    BY <1>1, <1>2

\* And a finite set with at most one element has no two.
LEMMA NoTwo == ASSUME NEW S, IsFiniteSet(S), Cardinality(S) <= 1 PROVE \A o, k \in S : o = k
  <1> SUFFICES ASSUME NEW o \in S, NEW k \in S, o # k PROVE FALSE
    OBVIOUS
  <1>1. IsFiniteSet(S \ {o}) /\ Cardinality(S \ {o}) = Cardinality(S) - 1 /\ Cardinality(S) \in Nat
    BY FS_RemoveElement, FS_CardinalityType
  <1>2. IsFiniteSet((S \ {o}) \ {k}) /\ Cardinality((S \ {o}) \ {k}) = Cardinality(S \ {o}) - 1
    BY <1>1, FS_RemoveElement
  <1>3. Cardinality((S \ {o}) \ {k}) \in Nat
    BY <1>2, FS_CardinalityType
  <1> QED
    BY <1>1, <1>2, <1>3

\* While the stored ballots stay, so does what is counted of them.
LEMMA VotesStay ==
  ASSUME UNCHANGED poVotes
  PROVE  \A p : /\ Voted(p)' = Voted(p) /\ (\A o : Took(p, o)' = Took(p, o)) /\ Cast(p)' = Cast(p)
                /\ \A u : Has(p, u)' <=> Has(p, u)
  BY DEF Voted, Has, Took, Cast

LEMMA PollStutters ==
  ASSUME PollInv, UNCHANGED <<poPoll, poVotes, poReq, poFinal>>
  PROVE  PollInv'
  <1>1. PollTables'
    BY DEF PollInv, PollTables
  <1>2. BallotsAreLocked'
    <2>1. \A h : Casting(h)' <=> Casting(h)
      BY DEF Casting
    <2>2. \A p : Polls!Exists(p)' <=> Polls!Exists(p)
      BY DEF Polls!Exists
    <2> QED
      BY <2>1, <2>2, VotesStay DEF PollInv, BallotsAreLocked
  <1>3. \A p \in Polls!PollIds : PollHolds(p)'
    BY VotesStay DEF PollInv, PollHolds
  <1> QED
    BY <1>1, <1>2, <1>3 DEF PollInv

LEMMA PollInvImplies == PollInv => Polls!TalliesMatchBallots
  <1> SUFFICES ASSUME PollInv, NEW p \in Polls!PollIds
               PROVE  /\ poPoll[p].total = Cardinality({u \in People : Polls!Ballot(p, u) # {}})
                      /\ \A o \in Options : poPoll[p].count[o] = Cardinality({u \in People : o \in Polls!Ballot(p, u)})
                      /\ ~poPoll[p].multiple => \A u \in People : Cardinality(Polls!Ballot(p, u)) <= 1
                      /\ poPoll[p].closed => poFinal[p] = {v \in poVotes : v[1] = p}
    BY PollsCard DEF Polls!TalliesMatchBallots
  <1>1. {u \in People : Polls!Ballot(p, u) # {}} = Voted(p)
    BY DEF Polls!Ballot, Voted, Has
  <1>2. \A o \in Options : {u \in People : o \in Polls!Ballot(p, u)} = Took(p, o)
    BY DEF Polls!Ballot, Took
  <1>3. ASSUME ~poPoll[p].multiple, NEW u \in People PROVE Cardinality(Polls!Ballot(p, u)) <= 1
    <2>1. \A o, k \in Polls!Ballot(p, u) : o = k
      BY <1>3 DEF Polls!Ballot, PollInv, PollHolds
    <2> QED
      BY <2>1, AtMostOne
  <1> QED
    BY <1>1, <1>2, <1>3 DEF PollInv, PollHolds, Cast

LEMMA PollInit == Polls!Init => PollInv
  <1> SUFFICES ASSUME Polls!Init PROVE PollInv
    OBVIOUS
  <1>1. poReq \in [Handlers -> PollRequest] /\ \A h \in Handlers : poReq[h].at = "idle"
    BY PollIdleShape DEF Polls!Init
  <1>2. PollTables
    BY <1>1, NoPollShape DEF Polls!Init, PollTables
  <1>3. BallotsAreLocked
    BY <1>1 DEF BallotsAreLocked, Casting
  <1>4. ASSUME NEW p \in Polls!PollIds PROVE PollHolds(p)
    <2>1. Voted(p) = {} /\ \A o \in Options : Took(p, o) = {}
      BY DEF Polls!Init, Voted, Has, Took
    <2>2. Cardinality({}) = 0
      BY FS_EmptySet
    <2>3. poPoll[p] = Polls!NoPoll /\ poVotes = {} /\ poFinal[p] = {}
      BY DEF Polls!Init
    <2>4. Polls!NoPoll.total = 0 /\ (\A o \in Options : Polls!NoPoll.count[o] = 0) /\ Polls!NoPoll.closed = FALSE
      BY DEF Polls!NoPoll
    <2> QED
      BY <2>1, <2>2, <2>3, <2>4 DEF PollHolds
  <1> QED
    BY <1>2, <1>3, <1>4 DEF Polls!Init, PollInv

\* A handler moves and no ballot is cast or closed.
LEMMA PollHandlerStep ==
  ASSUME PollInv, NEW h \in Handlers, NEW q \in PollRequest, poReq' = [poReq EXCEPT ![h] = q],
         q.at # "ballot", UNCHANGED <<poPoll, poVotes, poFinal>>
  PROVE  PollInv'
  <1>1. /\ poReq' \in [Handlers -> PollRequest] /\ poReq'[h] = q
        /\ \A g \in Handlers : g # h => poReq'[g] = poReq[g]
    BY DEF PollInv, PollTables
  <1>2. PollTables'
    BY <1>1 DEF PollInv, PollTables
  <1>3. BallotsAreLocked'
    BY <1>1 DEF PollInv, BallotsAreLocked, Casting, Has, Polls!Exists
  <1>4. \A p \in Polls!PollIds : PollHolds(p)'
    BY VotesStay DEF PollInv, PollHolds
  <1> QED
    BY <1>2, <1>3, <1>4 DEF PollInv

LEMMA PollCreates ==
  ASSUME PollInv, NEW h \in Handlers, NEW u \in People, NEW multiple \in BOOLEAN, NEW quiz \in BOOLEAN,
         Polls!create(h, u, multiple, quiz)
  PROVE  PollInv'
  <1>1. PICK p \in Polls!PollIds : /\ Polls!InsertPoll(p, u, multiple, quiz)
                                   /\ poReq' = [poReq EXCEPT ![h] = [Polls!Idle EXCEPT !.at = "send", !.poll = p]]
    BY DEF Polls!create
  <1>2. PICK row, q : /\ row = [Polls!NoPoll EXCEPT !.by = u, !.multiple = multiple, !.quiz = quiz]
                      /\ q = [Polls!Idle EXCEPT !.at = "send", !.poll = p]
    OBVIOUS
  <1>3. /\ row \in PollRow /\ row.closed = FALSE /\ row.total = 0 /\ \A o \in Options : row.count[o] = 0
        /\ Polls!NoPoll.total = 0 /\ Polls!NoPoll.count = row.count
    BY <1>2, NoPollShape DEF Polls!NoPoll, PollRow
  <1>4. q \in PollRequest /\ q.at = "send"
    BY <1>2 DEF Polls!Idle, PollRequest
  <1>5. /\ poPoll' = [poPoll EXCEPT ![p] = row] /\ poReq' = [poReq EXCEPT ![h] = q] /\ poPoll[p] = Polls!NoPoll
        /\ UNCHANGED <<poVotes, poFinal>>
    BY <1>1, <1>2 DEF Polls!InsertPoll, Polls!Exists, Polls!create
  <1>6. /\ poPoll' \in [Polls!PollIds -> PollRow] /\ poPoll'[p] = row
        /\ \A s \in Polls!PollIds : s # p => poPoll'[s] = poPoll[s]
        /\ poReq' \in [Handlers -> PollRequest] /\ poReq'[h] = q
        /\ \A g \in Handlers : g # h => poReq'[g] = poReq[g]
    BY <1>3, <1>4, <1>5 DEF PollInv, PollTables
  <1>7. PollTables'
    BY <1>5, <1>6 DEF PollInv, PollTables
  <1>8. BallotsAreLocked'
    <2>1. \A g \in Handlers : Casting(g) => poReq[g].poll # p /\ poReq[g].poll \in Polls!PollIds
      BY <1>5 DEF PollInv, BallotsAreLocked, Polls!Exists
    <2>2. \A g \in Handlers : Casting(g)' => g # h /\ Casting(g) /\ poReq'[g] = poReq[g]
      BY <1>4, <1>6 DEF Casting
    <2>3. \A g \in Handlers : Casting(g)' => poPoll'[poReq[g].poll] = poPoll[poReq[g].poll]
      BY <1>6, <2>1, <2>2
    <2>4. \A g \in Handlers : Casting(g)' => Polls!Exists(poReq[g].poll)'
      BY <1>5, <2>2, <2>3 DEF PollInv, BallotsAreLocked, Polls!Exists
    <2> SUFFICES ASSUME NEW g \in Handlers, Casting(g)'
                 PROVE  /\ poReq'[g].poll \in Polls!PollIds /\ poReq'[g].who \in People
                        /\ poReq'[g].had <=> Has(poReq[g].poll, poReq[g].who)'
                        /\ ~ poPoll'[poReq'[g].poll].closed
                        /\ ~ poPoll'[poReq'[g].poll].multiple => \A o, k \in poReq'[g].ballot : o = k
                        /\ Polls!Exists(poReq[g].poll)'
                        /\ \A k \in Handlers : Casting(k)' /\ poReq'[k].poll = poReq'[g].poll => k = g
      BY DEF BallotsAreLocked
    <2>5. /\ Casting(g) /\ poReq'[g] = poReq[g] /\ poPoll'[poReq[g].poll] = poPoll[poReq[g].poll]
          /\ Polls!Exists(poReq[g].poll)'
      BY <2>2, <2>3, <2>4
    <2>6. /\ poReq[g].poll \in Polls!PollIds /\ poReq[g].who \in People
          /\ poReq[g].had <=> Has(poReq[g].poll, poReq[g].who)
          /\ ~ poPoll[poReq[g].poll].closed
          /\ ~ poPoll[poReq[g].poll].multiple => \A o, k \in poReq[g].ballot : o = k
          /\ \A k \in Handlers : Casting(k) /\ poReq[k].poll = poReq[g].poll => k = g
      BY <2>5 DEF PollInv, BallotsAreLocked
    <2>7. Has(poReq[g].poll, poReq[g].who)' <=> Has(poReq[g].poll, poReq[g].who)
      BY <1>5, <2>5, SMTT(30) DEF Has
    <2>8. \A k \in Handlers : Casting(k)' /\ poReq'[k].poll = poReq'[g].poll => k = g
      BY <2>2, <2>5, <2>6
    <2> QED
      BY <2>5, <2>6, <2>7, <2>8
  <1>9. ASSUME NEW s \in Polls!PollIds PROVE PollHolds(s)'
    <2>1. /\ Voted(s)' = Voted(s) /\ (\A o \in Options : Took(s, o)' = Took(s, o)) /\ Cast(s)' = Cast(s)
      BY <1>5 DEF Voted, Has, Took, Cast
    <2>2. PollHolds(s)
      BY DEF PollInv
    <2>3. CASE s # p
      BY <1>5, <1>6, <2>1, <2>2, <2>3 DEF PollHolds
    <2>4. CASE s = p
      <3>1. Cardinality(Voted(p)) = 0 /\ \A o \in Options : Cardinality(Took(p, o)) = 0
        BY <1>3, <1>5, <2>2, <2>4 DEF PollHolds
      <3>2. IsFiniteSet(Voted(p))
        BY FinitePeople, FS_Subset DEF Voted
      <3>3. Voted(p) = {}
        BY <3>1, <3>2, FS_EmptySet
      <3>4. \A w \in People : \A o \in Options : <<p, o, w>> \notin poVotes
        BY <3>3 DEF Voted, Has
      <3> QED
        BY <1>3, <1>5, <1>6, <2>1, <2>4, <3>1, <3>4 DEF PollHolds
    <2> QED
      BY <2>3, <2>4
  <1> QED
    BY <1>5, <1>7, <1>8, <1>9 DEF PollInv

LEMMA PollReads ==
  ASSUME PollInv, NEW h \in Handlers, NEW u \in People, NEW p \in Polls!PollIds, NEW ballot \in SUBSET Options,
         Polls!vote(h, u, p, ballot)
  PROVE  PollInv'
  <1>1. PICK had \in BOOLEAN : had <=> Has(p, u)
    <2>1. CASE Has(p, u)
      BY <2>1
    <2>2. CASE ~ Has(p, u)
      BY <2>2
    <2> QED
      BY <2>1, <2>2
  <1>2. (Polls!Ballot(p, u) # {}) = had
    BY <1>1 DEF Polls!Ballot, Has
  <1>3. PICK q : q = [at |-> "ballot", poll |-> p, who |-> u, ballot |-> ballot, had |-> had]
    OBVIOUS
  <1>4. q \in PollRequest /\ q.at = "ballot" /\ q.poll = p /\ q.who = u /\ q.ballot = ballot /\ q.had = had
    BY <1>3 DEF PollRequest
  <1>5. /\ poReq' = [poReq EXCEPT ![h] = q] /\ UNCHANGED <<poPoll, poVotes, poFinal>> /\ Polls!Exists(p)
        /\ \A g \in Handlers : ~(Casting(g) /\ poReq[g].poll = p)
    BY <1>2, <1>3 DEF Polls!vote, Polls!PollLocked, Polls!In, Casting
  <1>6. ~poPoll[p].closed /\ (poPoll[p].multiple \/ Cardinality(ballot) <= 1)
    BY PollsCard DEF Polls!vote, Polls!Admitted
  <1>7. /\ poReq' \in [Handlers -> PollRequest] /\ poReq'[h] = q
        /\ \A g \in Handlers : g # h => poReq'[g] = poReq[g]
    BY <1>4, <1>5 DEF PollInv, PollTables
  <1>8. ~ poPoll[p].multiple => \A o, k \in ballot : o = k
    <2> SUFFICES ASSUME ~ poPoll[p].multiple PROVE \A o, k \in ballot : o = k
      OBVIOUS
    <2> QED
      BY <1>6, NoTwo, FiniteOptions, FS_Subset
  <1>9. PollTables'
    BY <1>5, <1>7 DEF PollInv, PollTables
  <1>10. BallotsAreLocked'
    <2> SUFFICES ASSUME NEW k \in Handlers, poReq'[k].at = "ballot"
                 PROVE  /\ poReq'[k].poll \in Polls!PollIds /\ poReq'[k].who \in People
                        /\ poReq'[k].had <=> Has(poReq'[k].poll, poReq'[k].who)
                        /\ ~ poPoll[poReq'[k].poll].closed
                        /\ ~ poPoll[poReq'[k].poll].multiple => \A o, l \in poReq'[k].ballot : o = l
                        /\ Polls!Exists(poReq'[k].poll)
                        /\ \A g \in Handlers : poReq'[g].at = "ballot" /\ poReq'[g].poll = poReq'[k].poll => g = k
      BY <1>5 DEF BallotsAreLocked, Casting, Has, Polls!Exists
    <2>1. CASE k = h
      BY <1>1, <1>4, <1>5, <1>6, <1>7, <1>8, <2>1 DEF Casting
    <2>2. CASE k # h
      BY <1>4, <1>5, <1>7, <2>2 DEF PollInv, BallotsAreLocked, Casting
    <2> QED
      BY <2>1, <2>2
  <1>11. ASSUME NEW s \in Polls!PollIds PROVE PollHolds(s)'
    <2>1. /\ Voted(s)' = Voted(s) /\ (\A o \in Options : Took(s, o)' = Took(s, o)) /\ Cast(s)' = Cast(s)
      BY <1>5 DEF Voted, Has, Took, Cast
    <2> QED
      BY <1>5, <2>1 DEF PollInv, PollHolds
  <1> QED
    BY <1>5, <1>9, <1>10, <1>11 DEF PollInv

\* Leaving one out of a finite set, and putting it back.
LEMMA CountWithout ==
  ASSUME NEW S, IsFiniteSet(S), NEW u
  PROVE  /\ Cardinality(S) \in Nat /\ IsFiniteSet(S \ {u})
         /\ u \in S => Cardinality(S) > 0
         /\ Cardinality(S \ {u}) = IF u \in S THEN Cardinality(S) - 1 ELSE Cardinality(S)
         /\ Cardinality((S \ {u}) \cup {u}) = Cardinality(S \ {u}) + 1
  <1>1. Cardinality(S) \in Nat
    BY FS_CardinalityType
  <1>2. IsFiniteSet(S \ {u}) /\ Cardinality(S \ {u}) = IF u \in S THEN Cardinality(S) - 1 ELSE Cardinality(S)
    BY FS_RemoveElement
  <1>3. Cardinality(S \ {u}) \in Nat
    BY <1>2, FS_CardinalityType
  <1>4. Cardinality((S \ {u}) \cup {u}) = Cardinality(S \ {u}) + 1
    BY <1>2, FS_AddElement
  <1> QED
    BY <1>1, <1>2, <1>3, <1>4

LEMMA PollVotes == ASSUME PollInv, NEW h \in Handlers, Polls!Vote(h) PROVE PollInv'
  <1>1. PICK p, u, ballot, had :
          p = poReq[h].poll /\ u = poReq[h].who /\ ballot = poReq[h].ballot /\ had = poReq[h].had
    OBVIOUS
  <1>2. /\ p \in Polls!PollIds /\ u \in People /\ ballot \in SUBSET Options /\ had \in BOOLEAN /\ (had <=> Has(p, u))
        /\ ~ poPoll[p].closed /\ Polls!Exists(p)
        /\ ~ poPoll[p].multiple => \A o, k \in ballot : o = k
        /\ \A g \in Handlers : Casting(g) /\ poReq[g].poll = p => g = h
    BY <1>1 DEF Polls!Vote, Polls!In, PollInv, PollTables, PollRequest, BallotsAreLocked, Casting
  <1> DEFINE kept(o) == IF o \in Polls!Ballot(p, u) THEN Polls!Less(poPoll[p].count[o]) ELSE poPoll[p].count[o]
  <1>3. PICK count : count = [o \in Options |-> IF o \in ballot THEN kept(o) + 1 ELSE kept(o)]
    OBVIOUS
  <1>4. PICK total : total = IF ballot = {} THEN (IF had THEN Polls!Less(poPoll[p].total) ELSE poPoll[p].total)
                             ELSE IF had THEN poPoll[p].total ELSE poPoll[p].total + 1
    OBVIOUS
  <1>5. PICK row : row = [poPoll[p] EXCEPT !.count = count, !.total = total]
    OBVIOUS
  <1>6. /\ poPoll' = [poPoll EXCEPT ![p] = row] /\ poReq' = [poReq EXCEPT ![h] = Polls!Idle]
        /\ poVotes' = (poVotes \ {<<p, o, u>> : o \in Options}) \cup {<<p, o, u>> : o \in ballot}
        /\ UNCHANGED poFinal
    BY <1>1, <1>3, <1>4, <1>5 DEF Polls!Vote, Polls!Tallied, Polls!Done
  <1>7. /\ poPoll[p] \in PollRow /\ PollHolds(p)
    BY <1>2 DEF PollInv, PollTables
  <1>8. \A s \in Polls!PollIds, o \in Options, w \in People :
           <<s, o, w>> \in poVotes' <=> IF s = p /\ w = u THEN o \in ballot ELSE <<s, o, w>> \in poVotes
    BY <1>2, <1>6
  <1>9. ASSUME NEW o \in Options
        PROVE  count[o] \in Nat /\ count[o] = Cardinality(Took(p, o)')
    <2>1. IsFiniteSet(Took(p, o)) /\ poPoll[p].count[o] = Cardinality(Took(p, o))
      BY <1>7, FinitePeople, FS_Subset DEF Took, PollHolds
    <2>2. o \in Polls!Ballot(p, u) <=> u \in Took(p, o)
      BY <1>2 DEF Polls!Ballot, Took
    <2>a. PICK n, m : n = Cardinality(Took(p, o)) /\ m = Cardinality(Took(p, o) \ {u})
      OBVIOUS
    <2>b. n \in Nat /\ (u \in Took(p, o) => n > 0) /\ m = IF u \in Took(p, o) THEN n - 1 ELSE n
      BY <2>1, <2>a, CountWithout
    <2>c. kept(o) = IF u \in Took(p, o) THEN Polls!Less(n) ELSE n
      BY <2>1, <2>2, <2>a
    <2>3. kept(o) = Cardinality(Took(p, o) \ {u}) /\ kept(o) \in Nat
      <3> HIDE DEF kept
      <3> QED
        BY <2>a, <2>b, <2>c DEF Polls!Less
    <2>4. Took(p, o)' = IF o \in ballot THEN (Took(p, o) \ {u}) \cup {u} ELSE Took(p, o) \ {u}
      BY <1>2, <1>8 DEF Took
    <2>5. Cardinality((Took(p, o) \ {u}) \cup {u}) = Cardinality(Took(p, o) \ {u}) + 1
      BY <2>1, CountWithout
    <2>6. count[o] = IF o \in ballot THEN kept(o) + 1 ELSE kept(o)
      BY <1>3
    <2> HIDE DEF kept
    <2> QED
      BY <2>3, <2>4, <2>5, <2>6
  <1>10. total \in Nat /\ total = Cardinality(Voted(p)')
    <2>1. IsFiniteSet(Voted(p)) /\ poPoll[p].total = Cardinality(Voted(p)) /\ (had <=> u \in Voted(p))
      BY <1>2, <1>7, FinitePeople, FS_Subset DEF Voted, PollHolds
    <2>2. Voted(p)' = IF ballot = {} THEN Voted(p) \ {u} ELSE (Voted(p) \ {u}) \cup {u}
      <3>1. \A w \in People : Has(p, w)' <=> IF w = u THEN ballot # {} ELSE Has(p, w)
        BY <1>2, <1>8 DEF Has
      <3> QED
        BY <1>2, <3>1 DEF Voted
    <2>3. /\ Cardinality(Voted(p)) \in Nat /\ (had => Cardinality(Voted(p)) > 0)
          /\ Cardinality(Voted(p) \ {u}) = IF had THEN Cardinality(Voted(p)) - 1 ELSE Cardinality(Voted(p))
          /\ Cardinality((Voted(p) \ {u}) \cup {u}) = Cardinality(Voted(p) \ {u}) + 1
      BY <2>1, CountWithout
    <2> QED
      BY <1>2, <1>4, <2>1, <2>2, <2>3 DEF Polls!Less
  <1>11. count \in [Options -> Nat]
    <2>1. DOMAIN count = Options /\ count = [o \in Options |-> count[o]]
      BY <1>3
    <2> QED
      BY <1>9, <2>1
  <1>12. row \in PollRow /\ row.count = count /\ row.total = total /\ row.closed = poPoll[p].closed
         /\ row.multiple = poPoll[p].multiple
    BY <1>5, <1>7, <1>10, <1>11 DEF PollRow
  <1>13. /\ poPoll' \in [Polls!PollIds -> PollRow] /\ poPoll'[p] = row
         /\ \A s \in Polls!PollIds : s # p => poPoll'[s] = poPoll[s]
         /\ poReq' \in [Handlers -> PollRequest] /\ poReq'[h].at = "idle"
         /\ \A g \in Handlers : g # h => poReq'[g] = poReq[g]
    BY <1>2, <1>6, <1>12, PollIdleShape DEF PollInv, PollTables
  <1>14. PollTables'
    BY <1>2, <1>6, <1>13 DEF PollInv, PollTables
  <1>15. BallotsAreLocked'
    <2> SUFFICES ASSUME NEW k \in Handlers, poReq'[k].at = "ballot"
                 PROVE  /\ poReq'[k].poll \in Polls!PollIds /\ poReq'[k].who \in People
                        /\ poReq'[k].had <=> \E o \in Options : <<poReq'[k].poll, o, poReq'[k].who>> \in poVotes'
                        /\ ~ poPoll'[poReq'[k].poll].closed
                        /\ ~ poPoll'[poReq'[k].poll].multiple => \A o, l \in poReq'[k].ballot : o = l
                        /\ poPoll'[poReq'[k].poll] # Polls!NoPoll
                        /\ \A g \in Handlers : poReq'[g].at = "ballot" /\ poReq'[g].poll = poReq'[k].poll => g = k
      BY DEF BallotsAreLocked, Casting, Has, Polls!Exists
    <2>1. k # h /\ poReq'[k] = poReq[k] /\ Casting(k)
      BY <1>13 DEF Casting
    <2>2. poReq[k].poll # p
      BY <1>2, <2>1
    <2>3. /\ poReq[k].poll \in Polls!PollIds /\ poReq[k].who \in People
          /\ poReq[k].had <=> \E o \in Options : <<poReq[k].poll, o, poReq[k].who>> \in poVotes
          /\ ~ poPoll[poReq[k].poll].closed
          /\ ~ poPoll[poReq[k].poll].multiple => \A o, l \in poReq[k].ballot : o = l
          /\ poPoll[poReq[k].poll] # Polls!NoPoll
          /\ \A g \in Handlers : Casting(g) /\ poReq[g].poll = poReq[k].poll => g = k
      BY <2>1 DEF PollInv, BallotsAreLocked, Has, Polls!Exists
    <2>4. poPoll'[poReq[k].poll] = poPoll[poReq[k].poll]
      BY <1>13, <2>2, <2>3
    <2>5. \A o \in Options : <<poReq[k].poll, o, poReq[k].who>> \in poVotes' <=> <<poReq[k].poll, o, poReq[k].who>> \in poVotes
      BY <1>8, <2>2, <2>3
    <2>6. \A g \in Handlers : poReq'[g].at = "ballot" /\ poReq'[g].poll = poReq[k].poll => g = k
      BY <1>13, <2>3 DEF Casting
    <2> QED
      BY <2>1, <2>3, <2>4, <2>5, <2>6
  <1>16. ASSUME NEW s \in Polls!PollIds PROVE PollHolds(s)'
    <2>1. PollHolds(s)
      BY DEF PollInv
    <2>2. CASE s # p
      <3>1. /\ Voted(s)' = Voted(s) /\ (\A o \in Options : Took(s, o)' = Took(s, o))
        BY <1>8, <2>2 DEF Voted, Has, Took
      <3>2. \A w \in People, o \in Options : <<s, o, w>> \in poVotes' <=> <<s, o, w>> \in poVotes
        BY <1>8, <2>2
      <3>3. Cast(s)' = Cast(s)
        <4>1. \A o : <<p, o, u>>[1] = p
          OBVIOUS
        <4> QED
          BY <1>6, <2>2, <4>1 DEF Cast
      <3> QED
        BY <1>6, <1>13, <2>1, <2>2, <3>1, <3>2, <3>3 DEF PollHolds
    <2>3. CASE s = p
      <3>1. ASSUME ~ poPoll[p].multiple
            PROVE  \A w \in People : \A o, k \in Options : <<p, o, w>> \in poVotes' /\ <<p, k, w>> \in poVotes' => o = k
        BY <1>2, <1>7, <1>8, <3>1 DEF PollHolds
      <3> QED
        BY <1>2, <1>9, <1>10, <1>12, <1>13, <2>3, <3>1 DEF PollHolds
    <2> QED
      BY <2>2, <2>3
  <1> QED
    BY <1>6, <1>14, <1>15, <1>16 DEF PollInv

LEMMA PollCloses ==
  ASSUME PollInv, NEW p \in Polls!PollIds, NEW u \in People, Polls!close(p, u)
  PROVE  PollInv'
  <1>1. PICK row : row = [poPoll[p] EXCEPT !.closed = TRUE]
    OBVIOUS
  <1>2. /\ poPoll' = [poPoll EXCEPT ![p] = row] /\ poFinal' = [poFinal EXCEPT ![p] = Cast(p)]
        /\ UNCHANGED <<poVotes, poReq>> /\ \A g \in Handlers : ~(Casting(g) /\ poReq[g].poll = p)
    BY <1>1 DEF Polls!close, Polls!Close, Polls!PollLocked, Polls!In, Casting, Cast
  <1>3. /\ row \in PollRow /\ row.total = poPoll[p].total /\ row.count = poPoll[p].count
        /\ row.multiple = poPoll[p].multiple
    BY <1>1 DEF PollInv, PollTables, PollRow
  <1>4. /\ poPoll' \in [Polls!PollIds -> PollRow] /\ poPoll'[p] = row
        /\ \A s \in Polls!PollIds : s # p => poPoll'[s] = poPoll[s] /\ poFinal'[s] = poFinal[s]
        /\ poFinal'[p] = Cast(p) /\ DOMAIN poFinal' = Polls!PollIds
    BY <1>2, <1>3 DEF PollInv, PollTables
  <1>5. PollTables'
    BY <1>2, <1>4 DEF PollInv, PollTables
  <1>6. BallotsAreLocked'
    <2>1. \A g \in Handlers : Casting(g) => poPoll'[poReq[g].poll] = poPoll[poReq[g].poll]
      BY <1>2, <1>4 DEF PollInv, BallotsAreLocked
    <2> QED
      BY <1>2, <2>1 DEF PollInv, BallotsAreLocked, Casting, Has, Polls!Exists
  <1>7. ASSUME NEW s \in Polls!PollIds PROVE PollHolds(s)'
    <2>1. /\ Voted(s)' = Voted(s) /\ (\A o \in Options : Took(s, o)' = Took(s, o)) /\ Cast(s)' = Cast(s)
      BY <1>2 DEF Voted, Has, Took, Cast
    <2>2. PollHolds(s)
      BY DEF PollInv
    <2>3. CASE s = p
      BY <1>2, <1>3, <1>4, <2>1, <2>2, <2>3 DEF PollHolds
    <2>4. CASE s # p
      BY <1>2, <1>4, <2>1, <2>2, <2>4 DEF PollHolds
    <2> QED
      BY <2>3, <2>4
  <1> QED
    BY <1>4, <1>5, <1>6, <1>7 DEF PollInv

LEMMA PollComesDue ==
  ASSUME PollInv, NEW p \in Polls!PollIds, Polls!ClosesAt(p)
  PROVE  PollInv'
  <1>1. PICK row : row = [poPoll[p] EXCEPT !.due = TRUE]
    OBVIOUS
  <1>2. /\ poPoll' = [poPoll EXCEPT ![p] = row] /\ UNCHANGED <<poVotes, poReq, poFinal>>
    BY <1>1 DEF Polls!ClosesAt
  <1>3. /\ row \in PollRow /\ row.total = poPoll[p].total /\ row.count = poPoll[p].count
        /\ row.multiple = poPoll[p].multiple /\ row.closed = poPoll[p].closed /\ row # Polls!NoPoll
    BY <1>1 DEF PollInv, PollTables, PollRow, Polls!NoPoll
  <1>4. /\ poPoll' \in [Polls!PollIds -> PollRow] /\ poPoll'[p] = row
        /\ \A s \in Polls!PollIds : s # p => poPoll'[s] = poPoll[s]
    BY <1>2, <1>3 DEF PollInv, PollTables
  <1>5. PollTables'
    BY <1>2, <1>4 DEF PollInv, PollTables
  <1>6. BallotsAreLocked'
    <2>1. \A s \in Polls!PollIds : /\ poPoll'[s].closed = poPoll[s].closed /\ poPoll'[s].multiple = poPoll[s].multiple
                                   /\ poPoll[s] # Polls!NoPoll => poPoll'[s] # Polls!NoPoll
      BY <1>3, <1>4
    <2>2. \A g \in Handlers : Casting(g) =>
             /\ poPoll'[poReq[g].poll].closed = poPoll[poReq[g].poll].closed
             /\ poPoll'[poReq[g].poll].multiple = poPoll[poReq[g].poll].multiple
             /\ Polls!Exists(poReq[g].poll) => poPoll'[poReq[g].poll] # Polls!NoPoll
      BY <2>1 DEF PollInv, BallotsAreLocked, Polls!Exists
    <2> QED
      BY <1>2, <2>2 DEF PollInv, BallotsAreLocked, Casting, Has, Polls!Exists
  <1>7. ASSUME NEW s \in Polls!PollIds PROVE PollHolds(s)'
    <2>1. /\ Voted(s)' = Voted(s) /\ (\A o \in Options : Took(s, o)' = Took(s, o)) /\ Cast(s)' = Cast(s)
      BY <1>2 DEF Voted, Has, Took, Cast
    <2>2. PollHolds(s)
      BY DEF PollInv
    <2>3. /\ poPoll'[s].total = poPoll[s].total /\ poPoll'[s].count = poPoll[s].count
          /\ poPoll'[s].multiple = poPoll[s].multiple /\ poPoll'[s].closed = poPoll[s].closed
      BY <1>3, <1>4
    <2> QED
      BY <1>2, <2>1, <2>2, <2>3 DEF PollHolds
  <1> QED
    BY <1>2, <1>5, <1>6, <1>7 DEF PollInv

LEMMA PollNext == ASSUME PollInv, Polls!Next PROVE PollInv'
  <1>1. ASSUME NEW h \in Handlers, Polls!Create(h) \/ Polls!AttachToMessage(h) \/ Polls!Abandon(h) PROVE PollInv'
    <2>1. UNCHANGED <<poPoll, poVotes, poFinal>>
      BY <1>1 DEF Polls!Create, Polls!AttachToMessage, Polls!Abandon
    <2>2. PICK q : q = [poReq[h] EXCEPT !.at = "attach"]
      OBVIOUS
    <2>3. poReq[h] \in PollRequest
      BY DEF PollInv, PollTables
    <2>4. q \in PollRequest /\ q.at = "attach"
      BY <2>2, <2>3 DEF PollRequest
    <2>5. poReq' = [poReq EXCEPT ![h] = q] \/ poReq' = [poReq EXCEPT ![h] = Polls!Idle]
      BY <1>1, <2>2 DEF Polls!Create, Polls!AttachToMessage, Polls!Abandon, Polls!Done
    <2> QED
      BY <2>1, <2>4, <2>5, PollIdleShape, PollHandlerStep
  <1>2. ASSUME NEW p \in Polls!PollIds, NEW u \in People, Polls!get(p, u) PROVE PollInv'
    <2>1. UNCHANGED <<poPoll, poVotes, poReq, poFinal>>
      BY <1>2 DEF Polls!get
    <2>2. PollTables' /\ BallotsAreLocked'
      BY <2>1 DEF PollInv, PollTables, BallotsAreLocked, Casting, Has, Polls!Exists
    <2>3. ASSUME NEW s \in Polls!PollIds PROVE PollHolds(s)'
      <3>1. /\ Voted(s)' = Voted(s) /\ (\A o \in Options : Took(s, o)' = Took(s, o)) /\ Cast(s)' = Cast(s)
        BY <2>1 DEF Voted, Has, Took, Cast
      <3> QED
        BY <2>1, <3>1 DEF PollInv, PollHolds
    <2> QED
      BY <2>1, <2>2, <2>3 DEF PollInv
  <1> QED
    BY <1>1, <1>2, PollCreates, PollReads, PollVotes, PollCloses, PollComesDue DEF Polls!Next

\* For any number of voters, options and ballots cast at once, the counters of a poll are the counts
\* of its stored ballots, and a closed poll keeps the ones it was closed with (Vote, Close).
THEOREM PollsTally == Spec => []TalliesMatchBallots
  <1> DEFINE Holds == active = "polls" => PollInv
  <1>1. Init => Holds
    BY PollInit DEF Init
  <1>2. Holds /\ [Next]_<<active, shared>> => Holds'
    <2> SUFFICES ASSUME active = "polls", PollInv, [Next]_<<active, shared>> PROVE PollInv'
      BY OneMoves
    <2>1. CASE Polls!Next
      BY <2>1, PollNext
    <2>2. CASE UNCHANGED shared
      BY <2>2, PollStutters DEF shared
    <2> QED
      BY <2>1, <2>2, OneMoves
  <1>3. Holds => TalliesMatchBallots
    BY PollInvImplies DEF TalliesMatchBallots
  <1> QED
    BY <1>1, <1>2, <1>3, PTL DEF Spec

-----------------------------------------------------------------------------
(***************************************************************************)
(* Forum topics: a topic that was never opened has nothing filed under it  *)
(* and no send on its way, General is never deleted, and a request at work *)
(* is about a topic that was opened.                                       *)
(***************************************************************************)
tpForum == x1
tpTopic == x2
tpPost == x3
tpRead == x4
tpReq == x5
tpRule == x6
USE DEF tpForum, tpTopic, tpPost, tpRead, tpReq, tpRule

\* The component counts with its own copy of Cardinality.
LEMMA ForumTopicsCard == \A S : ForumTopics!Cardinality(S) = Cardinality(S)
  BY DEF ForumTopics!Cardinality, Cardinality

TopicRow == [state : {"none", "open", "deleted"}, closed : BOOLEAN, count : Nat, by : People \cup {"nobody"}]
PostRow == [topic : ForumTopics!Topics \cup {ForumTopics!Nowhere}, live : BOOLEAN, by : People \cup {"nobody"}, late : BOOLEAN]
TopicReq == [at : {"idle", "send", "moderate", "edit"}, topic : ForumTopics!Topics \cup {ForumTopics!Nowhere},
             by : People \cup {"nobody"}, closed : BOOLEAN]

TopicTables ==
    /\ tpTopic \in [ForumTopics!Topics -> TopicRow]
    /\ tpPost \in Seq(PostRow)
    /\ tpReq \in [Handlers -> TopicReq]
    /\ tpRule \in [ForumTopics!Topics -> BOOLEAN]

TopicRight(t) ==
    /\ tpTopic[t].count = Cardinality(ForumTopics!Filed(t))
    /\ tpTopic[t].state = "none" => ForumTopics!Filed(t) = {} /\ tpTopic[t].closed = FALSE
    /\ tpTopic[t].state = "deleted" => \A s \in ForumTopics!Filed(t) : tpPost[s].live => tpPost[s].late
    /\ tpTopic[t].closed = tpRule[t]

GeneralStands == (tpForum => ForumTopics!Exists(ForumTopics!General)) /\ tpTopic[ForumTopics!General].state # "deleted"

Opened(t) == t \in ForumTopics!Topics /\ tpTopic[t].state # "none"
TopicRequests ==
    \A h \in Handlers :
        /\ tpReq[h].at = "send" => tpReq[h].topic = ForumTopics!Nowhere \/ Opened(tpReq[h].topic)
        /\ tpReq[h].at \in {"moderate", "edit"} => Opened(tpReq[h].topic)

TopicInv == TopicTables /\ (\A t \in ForumTopics!Topics : TopicRight(t)) /\ GeneralStands /\ TopicRequests

LEMMA TopicInvImplies == TopicInv => ForumTopics!TopicsHoldTheirMessages
  BY ForumTopicsCard DEF TopicInv, TopicRight, GeneralStands, ForumTopics!TopicsHoldTheirMessages

LEMMA GeneralIsOne == ForumTopics!General \in ForumTopics!Topics /\ ForumTopics!Nowhere \notin ForumTopics!Topics
  BY TopicBound DEF ForumTopics!General, ForumTopics!Nowhere, ForumTopics!Topics

LEMMA TopicInit == ForumTopics!Init => TopicInv
  <1> SUFFICES ASSUME ForumTopics!Init PROVE TopicInv
    OBVIOUS
  <1>1. TopicTables
    BY DEF ForumTopics!Init, TopicTables, TopicRow, PostRow, TopicReq, ForumTopics!Idle
  <1>2. ASSUME NEW t \in ForumTopics!Topics PROVE TopicRight(t)
    <2>1. ForumTopics!Filed(t) = {}
      BY DEF ForumTopics!Init, ForumTopics!Filed, ForumTopics!Seqs
    <2> QED
      BY <2>1, FS_EmptySet DEF ForumTopics!Init, TopicRight
  <1>3. GeneralStands
    BY GeneralIsOne DEF ForumTopics!Init, GeneralStands
  <1>4. TopicRequests
    BY DEF ForumTopics!Init, TopicRequests, ForumTopics!Idle
  <1> QED
    BY <1>1, <1>2, <1>3, <1>4 DEF TopicInv

LEMMA FiledFinite ==
  ASSUME TopicInv, NEW t
  PROVE  IsFiniteSet(ForumTopics!Filed(t)) /\ Cardinality(ForumTopics!Filed(t)) \in Nat
  <1>1. IsFiniteSet(1 .. Len(tpPost))
    BY FS_Interval DEF TopicInv, TopicTables
  <1>2. ForumTopics!Filed(t) \subseteq 1 .. Len(tpPost)
    BY DEF ForumTopics!Filed, ForumTopics!Seqs
  <1> QED
    BY <1>1, <1>2, FS_Subset, FS_CardinalityType

\* Posts rewritten in place are posts, as many as there were.
LEMMA Rewritten ==
  ASSUME TopicInv, NEW f \in [ForumTopics!Seqs -> PostRow], tpPost' = f
  PROVE  tpPost' \in Seq(PostRow) /\ Len(tpPost') = Len(tpPost) /\ ForumTopics!Seqs' = ForumTopics!Seqs
  BY DEF TopicInv, TopicTables, ForumTopics!Seqs

\* A step that leaves the posts alone leaves what is filed where.
LEMMA FiledStays ==
  ASSUME UNCHANGED tpPost, NEW t
  PROVE  ForumTopics!Filed(t)' = ForumTopics!Filed(t)
  BY DEF ForumTopics!Filed, ForumTopics!Seqs

\* A step that only moves a request.
LEMMA RequestMoves ==
  ASSUME TopicInv, UNCHANGED <<tpForum, tpTopic, tpPost, tpRule>>, NEW h \in Handlers, NEW q \in TopicReq,
         tpReq' = [tpReq EXCEPT ![h] = q],
         q.at = "send" => q.topic = ForumTopics!Nowhere \/ Opened(q.topic), q.at \in {"moderate", "edit"} => Opened(q.topic)
  PROVE  TopicInv'
  <1>1. TopicTables'
    BY DEF TopicInv, TopicTables
  <1>2. ASSUME NEW t \in ForumTopics!Topics PROVE TopicRight(t)'
    BY FiledStays DEF TopicInv, TopicRight
  <1>3. GeneralStands'
    BY DEF TopicInv, GeneralStands, ForumTopics!Exists
  <1>4. \A t : Opened(t)' = Opened(t)
    BY DEF Opened
  <1>5. TopicRequests'
    BY <1>4 DEF TopicInv, TopicTables, TopicRequests
  <1> QED
    BY <1>1, <1>2, <1>3, <1>5 DEF TopicInv

LEMMA TopicStutters ==
  ASSUME TopicInv, UNCHANGED <<tpForum, tpTopic, tpPost, tpReq, tpRule>>
  PROVE  TopicInv'
  <1>1. TopicTables'
    BY DEF TopicInv, TopicTables
  <1>2. ASSUME NEW t \in ForumTopics!Topics PROVE TopicRight(t)'
    BY FiledStays DEF TopicInv, TopicRight
  <1>3. GeneralStands'
    BY DEF TopicInv, GeneralStands, ForumTopics!Exists
  <1>4. TopicRequests'
    BY DEF TopicInv, TopicRequests, Opened
  <1> QED
    BY <1>1, <1>2, <1>3, <1>4 DEF TopicInv

\* A step that opens topics and leaves requests alone.
LEMMA RequestsStay ==
  ASSUME TopicInv, UNCHANGED tpReq, \A t \in ForumTopics!Topics : tpTopic[t].state # "none" => tpTopic'[t].state # "none"
  PROVE  TopicRequests'
  BY DEF TopicInv, TopicRequests, Opened

LEMMA ForumSet ==
  ASSUME TopicInv, NEW actor \in People, NEW forum \in BOOLEAN, ForumTopics!setForum(actor, forum)
  PROVE  TopicInv'
  <1>0. UNCHANGED <<tpRead, tpReq, tpRule>> /\ tpForum' = forum
    BY DEF ForumTopics!setForum, ForumTopics!EnableForum, ForumTopics!DisableForum, ForumTopics!markForum
  <1>1. CASE UNCHANGED <<tpTopic, tpPost>> /\ (tpForum' => ForumTopics!Exists(ForumTopics!General))
    <2>1. TopicTables'
      BY <1>0, <1>1 DEF TopicInv, TopicTables
    <2>2. ASSUME NEW t \in ForumTopics!Topics PROVE TopicRight(t)'
      BY <1>0, <1>1, FiledStays DEF TopicInv, TopicRight
    <2>3. GeneralStands'
      BY <1>0, <1>1 DEF TopicInv, GeneralStands, ForumTopics!Exists
    <2>4. TopicRequests'
      BY <1>0, <1>1, RequestsStay
    <2> QED
      BY <2>1, <2>2, <2>3, <2>4 DEF TopicInv
  <1>2. CASE forum /\ ~ForumTopics!Exists(ForumTopics!General)
    <2>1. PICK loose : loose = ForumTopics!Filed(ForumTopics!Nowhere)
      OBVIOUS
    <2>2. PICK row : row = [state |-> "open", closed |-> FALSE, count |-> Cardinality(loose), by |-> actor]
      OBVIOUS
    <2>3. row \in TopicRow
      BY <2>1, <2>2, FiledFinite DEF TopicRow
    <2>4. PICK f : f = [s \in ForumTopics!Seqs |-> IF s \in loose THEN [tpPost[s] EXCEPT !.topic = ForumTopics!General] ELSE tpPost[s]]
      OBVIOUS
    <2>5. tpTopic' = [tpTopic EXCEPT ![ForumTopics!General] = row] /\ tpPost' = f
      BY <1>2, <2>1, <2>2, <2>4, ForumTopicsCard DEF ForumTopics!setForum, ForumTopics!EnableForum
    <2>6. ASSUME NEW s \in ForumTopics!Seqs
          PROVE  /\ f[s] \in PostRow /\ f[s].live = tpPost[s].live /\ f[s].late = tpPost[s].late
                 /\ f[s].topic = IF s \in loose THEN ForumTopics!General ELSE tpPost[s].topic
      <3>1. PICK p \in PostRow : p = tpPost[s]
        BY <2>6 DEF TopicInv, TopicTables, ForumTopics!Seqs
      <3>2. CASE s \in loose
        <4>1. f[s] = [p EXCEPT !.topic = ForumTopics!General]
          BY <2>4, <2>6, <3>1, <3>2
        <4> QED
          BY <3>1, <3>2, <4>1, GeneralIsOne DEF PostRow
      <3>3. CASE s \notin loose
        BY <2>4, <2>6, <3>1, <3>3
      <3> QED
        BY <3>2, <3>3
    <2>7. f \in [ForumTopics!Seqs -> PostRow]
      BY <2>4, <2>6
    <2>8. tpPost' \in Seq(PostRow) /\ ForumTopics!Seqs' = ForumTopics!Seqs
      BY <2>5, <2>7, Rewritten
    <2>9. tpTopic[ForumTopics!General].state = "none" /\ tpTopic[ForumTopics!General] \in TopicRow
      BY <1>2, GeneralIsOne DEF TopicInv, GeneralStands, TopicTables, ForumTopics!Exists, TopicRow
    <2>10. ForumTopics!Filed(ForumTopics!General) = {} /\ tpRule[ForumTopics!General] = FALSE
      BY <2>9, GeneralIsOne DEF TopicInv, TopicRight
    <2>11. ForumTopics!Filed(ForumTopics!General)' = loose
      BY <2>1, <2>5, <2>6, <2>8, <2>10 DEF ForumTopics!Filed
    <2>12. ASSUME NEW t \in ForumTopics!Topics, t # ForumTopics!General PROVE ForumTopics!Filed(t)' = ForumTopics!Filed(t)
      BY <2>1, <2>5, <2>6, <2>8, <2>12, GeneralIsOne DEF ForumTopics!Filed
    <2>13. TopicTables'
      BY <1>0, <2>3, <2>5, <2>8 DEF TopicInv, TopicTables
    <2>14. TopicRight(ForumTopics!General)'
      BY <1>0, <2>2, <2>5, <2>9, <2>10, <2>11, GeneralIsOne DEF TopicInv, TopicTables, TopicRight
    <2>15. ASSUME NEW t \in ForumTopics!Topics, t # ForumTopics!General PROVE TopicRight(t)'
      <3>1. tpTopic'[t] = tpTopic[t] /\ tpRule'[t] = tpRule[t] /\ TopicRight(t)
        BY <1>0, <2>5, <2>15 DEF TopicInv, TopicTables
      <3>2. \A s \in ForumTopics!Filed(t) : s \in ForumTopics!Seqs /\ tpPost'[s].live = tpPost[s].live /\ tpPost'[s].late = tpPost[s].late
        BY <2>5, <2>6 DEF ForumTopics!Filed
      <3> QED
        BY <2>12, <2>15, <3>1, <3>2 DEF TopicRight
    <2>16. GeneralStands'
      BY <2>2, <2>5, GeneralIsOne DEF TopicInv, TopicTables, GeneralStands, ForumTopics!Exists
    <2>17. TopicRequests'
      BY <1>0, <2>2, <2>5, GeneralIsOne, RequestsStay DEF TopicInv, TopicTables
    <2> QED
      BY <2>13, <2>14, <2>15, <2>16, <2>17 DEF TopicInv
  <1> QED
    BY <1>1, <1>2 DEF ForumTopics!setForum, ForumTopics!EnableForum, ForumTopics!DisableForum, ForumTopics!markForum

LEMMA TopicResolved ==
  ASSUME TopicInv, NEW h \in Handlers, NEW actor \in People, NEW named \in ForumTopics!Topics \cup {ForumTopics!Nowhere},
         ForumTopics!resolveTopic(h, actor, named)
  PROVE  TopicInv'
  <1>1. PICK t : t = CASE ~tpForum -> ForumTopics!Nowhere [] tpForum /\ named = ForumTopics!Nowhere -> ForumTopics!General [] OTHER -> named
    OBVIOUS
  <1>2. t = ForumTopics!Nowhere \/ (t = ForumTopics!General /\ tpForum) \/ (t = named /\ tpForum /\ named # ForumTopics!Nowhere)
    BY <1>1
  <1>3. t = ForumTopics!Nowhere \/ Opened(t)
    BY <1>2, GeneralIsOne DEF ForumTopics!resolveTopic, Opened, ForumTopics!Exists, TopicInv, GeneralStands
  <1>4. PICK q : q = [ForumTopics!Idle EXCEPT !.at = "send", !.by = actor, !.topic = t]
    OBVIOUS
  <1>5. q = [at |-> "send", topic |-> t, by |-> actor, closed |-> FALSE]
    BY <1>4 DEF ForumTopics!Idle
  <1>6. q \in TopicReq
    BY <1>2, <1>5, GeneralIsOne DEF TopicReq
  <1>7. tpReq' = [tpReq EXCEPT ![h] = q] /\ UNCHANGED <<tpForum, tpTopic, tpPost, tpRule>>
    BY <1>1, <1>4 DEF ForumTopics!resolveTopic
  <1> QED
    BY <1>3, <1>5, <1>6, <1>7, RequestMoves

LEMMA TopicPosted ==
  ASSUME TopicInv, NEW h \in Handlers, ForumTopics!CreateMessage(h)
  PROVE  TopicInv'
  <1>1. PICK r \in TopicReq : r = tpReq[h]
    BY DEF TopicInv, TopicTables
  <1>2. PICK t : t = r.topic
    OBVIOUS
  <1>3. t \in ForumTopics!Topics \cup {ForumTopics!Nowhere} /\ (t = ForumTopics!Nowhere \/ Opened(t))
    BY <1>1, <1>2 DEF ForumTopics!CreateMessage, ForumTopics!In, TopicInv, TopicRequests, TopicReq
  <1>4. PICK late \in BOOLEAN : late = (t # ForumTopics!Nowhere /\ ~ForumTopics!Exists(t))
    OBVIOUS
  <1>5. PICK e : e = [topic |-> t, live |-> TRUE, by |-> r.by, late |-> late]
    OBVIOUS
  <1>6. e \in PostRow
    BY <1>1, <1>3, <1>5 DEF PostRow, TopicReq
  <1>7. tpPost' = Append(tpPost, e)
    BY <1>1, <1>2, <1>4, <1>5 DEF ForumTopics!CreateMessage
  <1>8. PICK n : n = Len(tpPost) + 1
    OBVIOUS
  <1>9. /\ tpPost' \in Seq(PostRow) /\ n \notin ForumTopics!Seqs /\ ForumTopics!Seqs' = ForumTopics!Seqs \cup {n}
        /\ tpPost'[n] = e /\ \A s \in ForumTopics!Seqs : tpPost'[s] = tpPost[s]
    BY <1>6, <1>7, <1>8 DEF TopicInv, TopicTables, ForumTopics!Seqs
  <1>10. ASSUME NEW u \in ForumTopics!Topics, u # t PROVE ForumTopics!Filed(u)' = ForumTopics!Filed(u)
    BY <1>5, <1>9, <1>10 DEF ForumTopics!Filed
  <1>11. ForumTopics!Filed(t)' = ForumTopics!Filed(t) \cup {n} /\ n \notin ForumTopics!Filed(t)
    BY <1>5, <1>9 DEF ForumTopics!Filed
  <1>12. UNCHANGED <<tpForum, tpRule>> /\ tpReq' = [tpReq EXCEPT ![h] = ForumTopics!Idle]
    BY DEF ForumTopics!CreateMessage
  <1>13. ForumTopics!Idle \in TopicReq /\ ForumTopics!Idle.at = "idle"
    BY DEF ForumTopics!Idle, TopicReq
  <1>14. /\ tpTopic' \in [ForumTopics!Topics -> TopicRow]
         /\ \A u \in ForumTopics!Topics : /\ tpTopic'[u].state = tpTopic[u].state /\ tpTopic'[u].closed = tpTopic[u].closed
                                          /\ tpTopic'[u].count = IF u = t THEN tpTopic[u].count + 1 ELSE tpTopic[u].count
    <2>1. CASE t = ForumTopics!Nowhere
      <3>1. UNCHANGED tpTopic
        BY <1>1, <1>2, <2>1 DEF ForumTopics!CreateMessage, ForumTopics!AdvanceTopic
      <3> QED
        BY <2>1, <3>1, GeneralIsOne DEF TopicInv, TopicTables
    <2>2. CASE t # ForumTopics!Nowhere
      <3>1. PICK k, q : k \in TopicRow /\ k = tpTopic[t] /\ q = [k EXCEPT !.count = k.count + 1]
        BY <1>3, <2>2 DEF TopicInv, TopicTables
      <3>2. q \in TopicRow /\ q.state = k.state /\ q.closed = k.closed /\ q.count = k.count + 1
        BY <3>1 DEF TopicRow
      <3>3. tpTopic' = [tpTopic EXCEPT ![t] = q]
        BY <1>1, <1>2, <2>2, <3>1 DEF ForumTopics!CreateMessage, ForumTopics!AdvanceTopic
      <3> QED
        BY <1>3, <2>2, <3>1, <3>2, <3>3 DEF TopicInv, TopicTables
    <2> QED
      BY <2>1, <2>2
  <1>15. TopicTables'
    BY <1>9, <1>12, <1>13, <1>14 DEF TopicInv, TopicTables
  <1>16. ASSUME NEW u \in ForumTopics!Topics PROVE TopicRight(u)'
    <2>1. CASE u # t
      <3>1. \A s \in ForumTopics!Filed(u) : tpPost'[s] = tpPost[s]
        BY <1>9 DEF ForumTopics!Filed
      <3> QED
        BY <1>10, <1>12, <1>14, <2>1, <3>1 DEF TopicInv, TopicRight
    <2>2. CASE u = t
      <3>1. tpTopic[t].state # "none" /\ TopicRight(t)
        BY <1>3, <1>16, <2>2, GeneralIsOne DEF Opened, TopicInv
      <3>2. Cardinality(ForumTopics!Filed(t)') = Cardinality(ForumTopics!Filed(t)) + 1
        BY <1>11, FiledFinite, FS_AddElement
      <3>3. tpTopic'[t].count = Cardinality(ForumTopics!Filed(t)')
        BY <1>14, <1>16, <2>2, <3>1, <3>2 DEF TopicRight
      <3>4. tpTopic[t].state = "deleted" => \A s \in ForumTopics!Filed(t)' : tpPost'[s].live => tpPost'[s].late
        <4>1. ASSUME tpTopic[t].state = "deleted", NEW s \in ForumTopics!Filed(t)', tpPost'[s].live PROVE tpPost'[s].late
          <5>1. CASE s = n
            <6>1. late
              BY <1>3, <1>4, <1>16, <2>2, <4>1, GeneralIsOne DEF ForumTopics!Exists
            <6> QED
              BY <1>5, <1>9, <5>1, <6>1
          <5>2. CASE s # n
            <6>1. s \in ForumTopics!Filed(t) /\ tpPost'[s] = tpPost[s]
              BY <1>9, <1>11, <4>1, <5>2 DEF ForumTopics!Filed
            <6> QED
              BY <3>1, <4>1, <6>1 DEF TopicRight
          <5> QED
            BY <5>1, <5>2
        <4> QED
          BY <4>1
      <3> QED
        BY <1>12, <1>14, <1>16, <2>2, <3>1, <3>3, <3>4 DEF TopicRight
    <2> QED
      BY <2>1, <2>2
  <1>17. GeneralStands'
    BY <1>12, <1>14, GeneralIsOne DEF TopicInv, GeneralStands, ForumTopics!Exists
  <1>18. \A u : Opened(u)' = Opened(u)
    BY <1>14 DEF Opened
  <1>19. TopicRequests'
    BY <1>12, <1>13, <1>18 DEF TopicInv, TopicTables, TopicRequests
  <1> QED
    BY <1>15, <1>16, <1>17, <1>19 DEF TopicInv

\* A step that writes the row of one topic, not its counter, and leaves the posts alone.
LEMMA TopicWritten ==
  ASSUME TopicInv, NEW t \in ForumTopics!Topics, NEW row \in TopicRow, NEW rule \in BOOLEAN,
         tpTopic' = [tpTopic EXCEPT ![t] = row], tpRule' = [tpRule EXCEPT ![t] = rule],
         UNCHANGED <<tpForum, tpPost>>, row.count = tpTopic[t].count, row.closed = rule, row.state = "open",
         tpTopic[t].state # "deleted", tpReq' \in [Handlers -> TopicReq],
         \A h \in Handlers : tpReq'[h] = tpReq[h] \/ tpReq'[h].at = "idle"
  PROVE  TopicInv'
  <1>1. TopicTables'
    BY DEF TopicInv, TopicTables
  <1>2. /\ tpTopic'[t] = row /\ tpRule'[t] = rule
        /\ \A u \in ForumTopics!Topics : u # t => tpTopic'[u] = tpTopic[u] /\ tpRule'[u] = tpRule[u]
    BY DEF TopicInv, TopicTables
  <1>3. ASSUME NEW u \in ForumTopics!Topics PROVE TopicRight(u)'
    <2>1. CASE u = t
      BY <1>2, <2>1, FiledStays DEF TopicInv, TopicRight
    <2>2. CASE u # t
      BY <1>2, <2>2, FiledStays DEF TopicInv, TopicRight
    <2> QED
      BY <2>1, <2>2
  <1>4. GeneralStands'
    BY <1>2, GeneralIsOne DEF TopicInv, GeneralStands, ForumTopics!Exists
  <1>5. \A u : Opened(u) => Opened(u)'
    BY <1>2 DEF Opened
  <1>6. TopicRequests'
    BY <1>5 DEF TopicInv, TopicRequests
  <1> QED
    BY <1>1, <1>3, <1>4, <1>6 DEF TopicInv

LEMMA TopicCreated ==
  ASSUME TopicInv, NEW actor \in People, NEW t \in ForumTopics!Topics, ForumTopics!CreateTopic(actor, t)
  PROVE  TopicInv'
  <1>1. PICK r, q : r \in TopicRow /\ r = tpTopic[t] /\ q = [r EXCEPT !.state = "open", !.by = actor]
    BY DEF TopicInv, TopicTables
  <1>2. q \in TopicRow /\ q.state = "open" /\ q.closed = r.closed /\ q.count = r.count
    BY <1>1 DEF TopicRow
  <1>3. tpTopic' = [tpTopic EXCEPT ![t] = q] /\ UNCHANGED <<tpForum, tpPost, tpReq, tpRule>> /\ r.state = "none"
    BY <1>1 DEF ForumTopics!CreateTopic
  <1>4. PICK rule \in BOOLEAN : rule = tpRule[t] /\ r.closed = rule
    BY <1>1 DEF TopicInv, TopicRight, TopicTables
  <1>5. tpRule' = [tpRule EXCEPT ![t] = rule]
    BY <1>3, <1>4 DEF TopicInv, TopicTables
  <1>6. tpReq' \in [Handlers -> TopicReq] /\ \A h \in Handlers : tpReq'[h] = tpReq[h] \/ tpReq'[h].at = "idle"
    BY <1>3 DEF TopicInv, TopicTables
  <1> QED
    <2>1. q.count = tpTopic[t].count /\ q.closed = rule /\ q.state = "open" /\ tpTopic[t].state # "deleted"
      BY <1>1, <1>2, <1>3, <1>4
    <2> QED
      BY <1>2, <1>3, <1>5, <1>6, <2>1, TopicWritten

LEMMA TopicLookedUp ==
  ASSUME TopicInv, NEW h \in Handlers, NEW actor \in People, NEW t \in ForumTopics!Topics, NEW moderating \in BOOLEAN, NEW title \in BOOLEAN,
         ForumTopics!readTopic(h, actor, t, moderating, title)
  PROVE  TopicInv'
  <1>1. PICK at \in {"moderate", "edit"} : at = IF moderating THEN "moderate" ELSE "edit"
    OBVIOUS
  <1>2. PICK closed \in BOOLEAN : closed = tpTopic[t].closed
    BY DEF TopicInv, TopicTables, TopicRow
  <1>3. PICK q : q = [at |-> at, topic |-> t, by |-> actor, closed |-> closed]
    OBVIOUS
  <1>4. q \in TopicReq /\ q.topic = t /\ q.at = at
    BY <1>3 DEF TopicReq
  <1>5. tpReq' = [tpReq EXCEPT ![h] = q] /\ UNCHANGED <<tpForum, tpTopic, tpPost, tpRule>> /\ Opened(t)
    BY <1>1, <1>2, <1>3 DEF ForumTopics!readTopic, ForumTopics!TopicByID, ForumTopics!Exists, Opened
  <1> QED
    BY <1>4, <1>5, RequestMoves

LEMMA TopicEdited ==
  ASSUME TopicInv, NEW h \in Handlers, NEW closed \in BOOLEAN, ForumTopics!updateTopic(h, closed)
  PROVE  TopicInv'
  <1>1. PICK t \in ForumTopics!Topics : t = tpReq[h].topic
    BY DEF ForumTopics!updateTopic, ForumTopics!In, TopicInv, TopicRequests, Opened
  <1>2. ForumTopics!Idle \in TopicReq /\ ForumTopics!Idle.at = "idle"
    BY DEF ForumTopics!Idle, TopicReq
  <1>3. tpReq' = [tpReq EXCEPT ![h] = ForumTopics!Idle] /\ UNCHANGED <<tpForum, tpPost>>
    BY DEF ForumTopics!updateTopic
  <1>4. CASE ForumTopics!Exists(t) /\ ForumTopics!In(h, "moderate")
    <2>1. PICK r, q : r \in TopicRow /\ r = tpTopic[t] /\ q = [r EXCEPT !.closed = closed]
      BY DEF TopicInv, TopicTables
    <2>2. q \in TopicRow /\ q.closed = closed /\ q.state = "open" /\ q.count = r.count
      BY <1>4, <2>1 DEF TopicRow, ForumTopics!Exists
    <2>3. tpTopic' = [tpTopic EXCEPT ![t] = q] /\ tpRule' = [tpRule EXCEPT ![t] = closed]
      BY <1>1, <1>4, <2>1 DEF ForumTopics!updateTopic, ForumTopics!UpdateTopic
    <2>4. tpReq' \in [Handlers -> TopicReq] /\ \A g \in Handlers : tpReq'[g] = tpReq[g] \/ tpReq'[g].at = "idle"
      BY <1>2, <1>3 DEF TopicInv, TopicTables
    <2>5. tpTopic[t].state # "deleted"
      BY <1>4 DEF ForumTopics!Exists
    <2> QED
      BY <1>3, <2>1, <2>2, <2>3, <2>4, <2>5, TopicWritten
  <1>5. CASE ~(ForumTopics!Exists(t) /\ ForumTopics!In(h, "moderate"))
    <2>1. UNCHANGED <<tpTopic, tpRule>>
      BY <1>1, <1>5 DEF ForumTopics!updateTopic, ForumTopics!UpdateTopic
    <2> QED
      BY <1>2, <1>3, <2>1, RequestMoves
  <1> QED
    BY <1>4, <1>5

LEMMA TopicDeleted ==
  ASSUME TopicInv, NEW actor \in People, NEW t \in ForumTopics!Topics, ForumTopics!deleteTopic(actor, t)
  PROVE  TopicInv'
  <1>1. PICK f : f = [s \in ForumTopics!Seqs |-> IF s \in ForumTopics!Filed(t) THEN [tpPost[s] EXCEPT !.live = FALSE] ELSE tpPost[s]]
    OBVIOUS
  <1>2. PICK r, q : r \in TopicRow /\ r = tpTopic[t] /\ q = [r EXCEPT !.state = "deleted"]
    BY DEF TopicInv, TopicTables
  <1>3. q \in TopicRow /\ q.state = "deleted" /\ q.closed = r.closed /\ q.count = r.count
    BY <1>2 DEF TopicRow
  <1>4. tpPost' = f /\ tpTopic' = [tpTopic EXCEPT ![t] = q] /\ UNCHANGED <<tpForum, tpReq, tpRule>>
        /\ t # ForumTopics!General /\ r.state = "open"
    BY <1>1, <1>2 DEF ForumTopics!deleteTopic, ForumTopics!DeleteTopic, ForumTopics!Deletable, ForumTopics!Exists
  <1>5. ASSUME NEW s \in ForumTopics!Seqs
        PROVE  /\ f[s] \in PostRow /\ f[s].topic = tpPost[s].topic
               /\ (s \in ForumTopics!Filed(t) => f[s].live = FALSE) /\ (s \notin ForumTopics!Filed(t) => f[s] = tpPost[s])
    <2>1. PICK p \in PostRow : p = tpPost[s]
      BY <1>5 DEF TopicInv, TopicTables, ForumTopics!Seqs
    <2>2. CASE s \in ForumTopics!Filed(t)
      <3>1. f[s] = [p EXCEPT !.live = FALSE]
        BY <1>1, <1>5, <2>1, <2>2
      <3> QED
        BY <2>1, <2>2, <3>1 DEF PostRow
    <2>3. CASE s \notin ForumTopics!Filed(t)
      BY <1>1, <1>5, <2>1, <2>3
    <2> QED
      BY <2>2, <2>3
  <1>6. f \in [ForumTopics!Seqs -> PostRow]
    BY <1>1, <1>5
  <1>7. tpPost' \in Seq(PostRow) /\ ForumTopics!Seqs' = ForumTopics!Seqs
    BY <1>4, <1>6, Rewritten
  <1>8. ASSUME NEW u \in ForumTopics!Topics PROVE ForumTopics!Filed(u)' = ForumTopics!Filed(u)
    BY <1>4, <1>5, <1>7 DEF ForumTopics!Filed
  <1>9. TopicTables'
    BY <1>3, <1>4, <1>7 DEF TopicInv, TopicTables
  <1>10. /\ tpTopic'[t] = q /\ tpRule' = tpRule
         /\ \A u \in ForumTopics!Topics : u # t => tpTopic'[u] = tpTopic[u]
    BY <1>4 DEF TopicInv, TopicTables
  <1>11. ASSUME NEW u \in ForumTopics!Topics PROVE TopicRight(u)'
    <2>1. CASE u = t
      <3>1. \A s \in ForumTopics!Filed(t) : tpPost'[s].live = FALSE
        BY <1>4, <1>5 DEF ForumTopics!Filed
      <3>2. \A s \in ForumTopics!Filed(t) : tpPost'[s].live => tpPost'[s].late
        BY <3>1
      <3> QED
        BY <1>2, <1>3, <1>8, <1>10, <2>1, <3>2 DEF TopicInv, TopicRight
    <2>2. CASE u # t
      <3>1. \A s \in ForumTopics!Filed(u) : tpPost'[s] = tpPost[s]
        BY <1>4, <1>5, <2>2 DEF ForumTopics!Filed
      <3> QED
        BY <1>8, <1>10, <2>2, <3>1 DEF TopicInv, TopicRight
    <2> QED
      BY <2>1, <2>2
  <1>12. GeneralStands'
    BY <1>4, <1>10, GeneralIsOne DEF TopicInv, GeneralStands, ForumTopics!Exists
  <1>13. TopicRequests'
    BY <1>3, <1>4, <1>10, RequestsStay
  <1> QED
    BY <1>9, <1>11, <1>12, <1>13 DEF TopicInv

LEMMA TopicNext == ASSUME TopicInv, ForumTopics!Next PROVE TopicInv'
  <1>1. ASSUME NEW t, NEW upto, ForumTopics!markTopicRead(t, upto) PROVE TopicInv'
    <2>1. UNCHANGED <<tpForum, tpTopic, tpPost, tpReq, tpRule>>
      BY <1>1 DEF ForumTopics!markTopicRead
    <2> QED
      BY <2>1, TopicStutters
  <1> QED
    BY <1>1, ForumSet, TopicResolved, TopicPosted, TopicCreated, TopicLookedUp, TopicEdited, TopicDeleted DEF ForumTopics!Next

\* For any number of topics, handlers and messages: a forum has its General topic, the counters are
\* exact across conversions, only a send already decided reaches a deleted topic, and a moderator's
\* word stands (EnableForum, CreateMessage, DeleteTopic, UpdateTopic).
THEOREM TopicsSound == Spec => []TopicsHoldTheirMessages
  <1> DEFINE Holds == active = "topics" => TopicInv
  <1>1. Init => Holds
    BY TopicInit DEF Init
  <1>2. Holds /\ [Next]_<<active, shared>> => Holds'
    <2> SUFFICES ASSUME active = "topics", TopicInv, [Next]_<<active, shared>> PROVE TopicInv'
      BY OneMoves
    <2>1. CASE ForumTopics!Next
      BY <2>1, TopicNext
    <2>2. CASE UNCHANGED shared
      BY <2>2, TopicStutters DEF shared
    <2> QED
      BY <2>1, <2>2, OneMoves
  <1>3. Holds => TopicsHoldTheirMessages
    BY TopicInvImplies DEF TopicsHoldTheirMessages
  <1> QED
    BY <1>1, <1>2, <1>3, PTL DEF Spec

-----------------------------------------------------------------------------
(***************************************************************************)
(* Discussions: the mirror a handler has yet to claim or to withdraw is of *)
(* its post, is nobody else's and is no thread; whoever goes on to comment *)
(* holds the thread of the post.  Moderators delete what they like: a       *)
(* mirror that is a thread was never withdrawn, live or not.               *)
(***************************************************************************)
dcLink == x1
dcBack == x2
dcEnabled == x3
dcPost == x4
dcMirror == x5
dcThread == x6
dcComment == x7
dcCount == x8
dcMember == x9
dcReq == x10
USE DEF dcLink, dcBack, dcEnabled, dcPost, dcMirror, dcThread, dcComment, dcCount, dcMember, dcReq

\* The component counts with its own copy of Cardinality.
LEMMA DiscussionsCard == \A S : Discussions!Cardinality(S) = Cardinality(S)
  BY DEF Discussions!Cardinality, Cardinality

MirrorRow == [post : Posts, group : Groups, live : BOOLEAN, withdrawn : BOOLEAN, orphan : BOOLEAN]
CommentRow == [post : Posts, root : Nat, live : BOOLEAN]
Quiet == {"idle", "mirror"}
Holding == {"claim", "withdraw"}
Commenting == {"join", "send", "store", "count", "stats"}
DiscRequest == [at : Quiet \cup Holding \cup Commenting, job : {"none", "observe", "comment"}, post : Posts \cup {"none"},
                group : Groups \cup {"none"}, mirror : Nat, count : Nat]

LinksMatch ==
    /\ dcLink \in [Channels -> Groups \cup {"none"}] /\ dcBack \in [Groups -> Channels \cup {"none"}]
    /\ \A c \in Channels, g \in Groups : dcLink[c] = g <=> dcBack[g] = c

\* What the handler h is sure of.
HandlerKnows(h) ==
    /\ dcReq[h] \in DiscRequest
    /\ dcReq[h].at = "mirror" => dcReq[h].post \in Posts /\ dcReq[h].group \in Groups
    /\ dcReq[h].at \in Holding =>
          /\ dcReq[h].post \in Posts /\ dcReq[h].mirror \in 1 .. Len(dcMirror)
          /\ dcMirror[dcReq[h].mirror].post = dcReq[h].post
          /\ ~ dcMirror[dcReq[h].mirror].withdrawn
          /\ \A p \in Posts : dcThread[p] # dcReq[h].mirror
    /\ dcReq[h].at = "withdraw" => dcThread[dcReq[h].post] # 0
    /\ dcReq[h].at \in Commenting =>
          dcReq[h].post \in Posts /\ dcReq[h].mirror # 0 /\ dcThread[dcReq[h].post] = dcReq[h].mirror

ThreadsStand ==
    /\ dcThread \in [Posts -> Nat]
    /\ \A p \in Posts : dcThread[p] # 0 =>
          dcThread[p] \in 1 .. Len(dcMirror) /\ ~ dcMirror[dcThread[p]].withdrawn /\ dcMirror[dcThread[p]].post = p

CommentsAnswer ==
    /\ dcComment \in Seq(CommentRow)
    /\ \A i \in 1 .. Len(dcComment) : dcComment[i].root # 0 /\ dcComment[i].root = dcThread[dcComment[i].post]

Held(m) == \E h \in Handlers : dcReq[h].at \in Holding /\ dcReq[h].mirror = m

CopiesAccounted ==
    /\ dcMirror \in Seq(MirrorRow)
    /\ \A m \in 1 .. Len(dcMirror) :
          dcMirror[m].live /\ ~ dcMirror[m].orphan /\ dcThread[dcMirror[m].post] # m => Held(m)

OneHolder ==
    \A h, k \in Handlers :
       dcReq[h].at \in Holding /\ dcReq[k].at \in Holding /\ dcReq[h].mirror = dcReq[k].mirror => h = k

DiscInv ==
    /\ DOMAIN dcReq = Handlers /\ \A h \in Handlers : HandlerKnows(h)
    /\ LinksMatch /\ ThreadsStand /\ CommentsAnswer /\ CopiesAccounted /\ OneHolder

LEMMA DiscInvImplies == DiscInv => Discussions!OneThreadAPost
  BY DEF DiscInv, Discussions!OneThreadAPost, LinksMatch, ThreadsStand, CommentsAnswer, CopiesAccounted, Held, Holding

LEMMA DiscIdle == Discussions!Idle \in DiscRequest /\ Discussions!Idle.at = "idle" /\ Discussions!Idle.mirror = 0
  BY DEF Discussions!Idle, DiscRequest, Quiet

LEMMA DiscRows ==
  ASSUME DiscInv
  PROVE  /\ \A m \in 1 .. Len(dcMirror) : dcMirror[m] \in MirrorRow /\ dcMirror[m].post \in Posts
         /\ \A i \in 1 .. Len(dcComment) :
               /\ dcComment[i] \in CommentRow /\ dcComment[i].post \in Posts
               /\ dcComment[i].root \in 1 .. Len(dcMirror) /\ dcThread[dcComment[i].post] # 0
  <1>1. \A m \in 1 .. Len(dcMirror) : dcMirror[m] \in MirrorRow
    BY DEF DiscInv, CopiesAccounted
  <1>2. \A m \in 1 .. Len(dcMirror) : dcMirror[m].post \in Posts
    BY <1>1 DEF MirrorRow
  <1>3. \A i \in 1 .. Len(dcComment) : dcComment[i] \in CommentRow
    BY DEF DiscInv, CommentsAnswer
  <1>4. \A i \in 1 .. Len(dcComment) : dcComment[i].post \in Posts
    BY <1>3 DEF CommentRow
  <1>5. \A i \in 1 .. Len(dcComment) : dcThread[dcComment[i].post] # 0 /\ dcComment[i].root = dcThread[dcComment[i].post]
    BY DEF DiscInv, CommentsAnswer
  <1>6. \A i \in 1 .. Len(dcComment) : dcComment[i].root \in 1 .. Len(dcMirror)
    BY <1>4, <1>5 DEF DiscInv, ThreadsStand
  <1> QED
    BY <1>1, <1>2, <1>3, <1>4, <1>5, <1>6

LEMMA DiscInit == Discussions!Init => DiscInv
  <1> SUFFICES ASSUME Discussions!Init PROVE DiscInv
    OBVIOUS
  <1>1. \A h \in Handlers : dcReq[h] = Discussions!Idle
    BY DEF Discussions!Init
  <1>2. \A h \in Handlers : HandlerKnows(h)
    BY <1>1 DEF HandlerKnows, Discussions!Idle, DiscRequest, Quiet, Holding, Commenting
  <1>3. LinksMatch
    BY LinkNames DEF Discussions!Init, LinksMatch
  <1>4. ThreadsStand /\ CommentsAnswer /\ CopiesAccounted
    BY DEF Discussions!Init, ThreadsStand, CommentsAnswer, CopiesAccounted
  <1>5. OneHolder
    BY <1>1 DEF OneHolder, Discussions!Idle, Holding
  <1> QED
    BY <1>2, <1>3, <1>4, <1>5 DEF DiscInv, Discussions!Init

LEMMA DiscLinks ==
  ASSUME DiscInv, NEW c \in Channels,
         \/ Discussions!unlinkDiscussion(c) \/ \E g \in Groups : Discussions!linkDiscussion(c, g)
  PROVE  DiscInv'
  <1>1. UNCHANGED <<dcMirror, dcThread, dcComment, dcReq>>
    BY DEF Discussions!unlinkDiscussion, Discussions!linkDiscussion
  <1>2. LinksMatch'
    <2>1. CASE Discussions!unlinkDiscussion(c)
      <3>1. PICK g \in Groups : g = dcLink[c]
        BY <2>1 DEF Discussions!unlinkDiscussion, Discussions!UnlinkDiscussion, DiscInv, LinksMatch
      <3>2. dcLink' = [dcLink EXCEPT ![c] = "none"] /\ dcBack' = [dcBack EXCEPT ![g] = "none"]
        BY <2>1, <3>1 DEF Discussions!unlinkDiscussion, Discussions!UnlinkDiscussion
      <3> QED
        BY <3>1, <3>2, LinkNames DEF DiscInv, LinksMatch
    <2>2. ASSUME NEW g \in Groups, Discussions!linkDiscussion(c, g) PROVE LinksMatch'
      <3>1. /\ dcLink[c] \in {"none", g} /\ dcBack[g] \in {"none", c}
            /\ dcLink' = [dcLink EXCEPT ![c] = g] /\ dcBack' = [dcBack EXCEPT ![g] = c]
        BY <2>2 DEF Discussions!linkDiscussion, Discussions!LinkDiscussion
      <3> QED
        BY <3>1, LinkNames DEF DiscInv, LinksMatch
    <2> QED
      BY <2>1, <2>2
  <1>3. \A h \in Handlers : HandlerKnows(h)'
    BY <1>1 DEF DiscInv, HandlerKnows
  <1>4. ThreadsStand' /\ CommentsAnswer'
    BY <1>1 DEF DiscInv, ThreadsStand, CommentsAnswer
  <1>5. CopiesAccounted' /\ OneHolder'
    BY <1>1 DEF DiscInv, CopiesAccounted, Held, OneHolder
  <1> QED
    BY <1>1, <1>2, <1>3, <1>4, <1>5 DEF DiscInv

\* A handler moves, knowing no more than it did, and holds no mirror it did not hold.
LEMMA DiscHandlerMoves ==
  ASSUME DiscInv, NEW h \in Handlers, NEW q, dcReq' = [dcReq EXCEPT ![h] = q],
         UNCHANGED <<dcLink, dcBack, dcMirror, dcThread, dcComment>>,
         HandlerKnows(h)',
         dcReq[h].at \in Holding <=> q.at \in Holding,
         q.at \in Holding => q.mirror = dcReq[h].mirror
  PROVE  DiscInv'
  <1>1. DOMAIN dcReq' = Handlers /\ dcReq'[h] = q /\ \A g \in Handlers : g # h => dcReq'[g] = dcReq[g]
    BY DEF DiscInv
  <1>2. \A g \in Handlers : HandlerKnows(g)'
    <2> SUFFICES ASSUME NEW g \in Handlers, g # h PROVE HandlerKnows(g)'
      OBVIOUS
    <2> QED
      BY <1>1 DEF DiscInv, HandlerKnows
  <1>3. LinksMatch' /\ ThreadsStand' /\ CommentsAnswer'
    BY DEF DiscInv, LinksMatch, ThreadsStand, CommentsAnswer
  <1>4. \A m : Held(m)' <=> Held(m)
    BY <1>1 DEF Held
  <1>5. CopiesAccounted'
    BY <1>4 DEF DiscInv, CopiesAccounted
  <1>6. OneHolder'
    BY <1>1 DEF DiscInv, OneHolder
  <1> QED
    BY <1>1, <1>2, <1>3, <1>5, <1>6 DEF DiscInv

LEMMA DiscStutters ==
  ASSUME DiscInv, UNCHANGED <<dcLink, dcBack, dcMirror, dcThread, dcComment, dcReq>>
  PROVE  DiscInv'
  <1>1. \A h \in Handlers : HandlerKnows(h)'
    BY DEF DiscInv, HandlerKnows
  <1>2. LinksMatch' /\ ThreadsStand' /\ CommentsAnswer'
    BY DEF DiscInv, LinksMatch, ThreadsStand, CommentsAnswer
  <1>3. CopiesAccounted' /\ OneHolder'
    BY DEF DiscInv, CopiesAccounted, Held, OneHolder
  <1> QED
    BY <1>1, <1>2, <1>3 DEF DiscInv

\* A request begins with the link it reads, and the thread there is.
LEMMA DiscStarts ==
  ASSUME DiscInv, NEW h \in Handlers, NEW p \in Posts, NEW job \in {"observe", "comment"}, NEW at \in {"mirror", "join"},
         Discussions!Start(h, job, p, at), Discussions!In(h, "idle"), Discussions!Discussion # "none", at = "join" => dcThread[p] # 0,
         UNCHANGED <<dcLink, dcBack, dcMirror, dcThread, dcComment>>
  PROVE  DiscInv'
  <1>1. PICK q : /\ q = [at |-> at, job |-> job, post |-> p, group |-> Discussions!Discussion, mirror |-> dcThread[p], count |-> 0]
                 /\ dcReq' = [dcReq EXCEPT ![h] = q]
    BY DEF Discussions!Start
  <1>2. /\ q.at = at /\ q.post = p /\ q.group \in Groups /\ q.mirror = dcThread[p] /\ q.job = job /\ q.count = 0
        /\ dcReq'[h] = q /\ q \in DiscRequest
    <2>1. Discussions!Discussion \in Groups /\ dcThread[p] \in Nat /\ dcReq'[h] = q
      BY <1>1, LinkNames DEF Discussions!Discussion, DiscInv, LinksMatch, ThreadsStand
    <2> QED
      BY <1>1, <2>1 DEF DiscRequest, Quiet, Commenting
  <1>3. HandlerKnows(h)'
    BY <1>2 DEF HandlerKnows, Quiet, Holding, Commenting
  <1>4. dcReq[h].at \notin Holding /\ q.at \notin Holding
    BY <1>2 DEF Discussions!In, Holding
  <1> QED
    BY <1>1, <1>3, <1>4, DiscHandlerMoves

\* The copy that is sent is a new one, held by the handler that sent it.
LEMMA DiscMirrors ==
  ASSUME DiscInv, NEW h \in Handlers, Discussions!mirrorPost(h), dcPost[dcReq[h].post] = "live"
  PROVE  DiscInv'
  <1>1. PICK n, row, q :
           /\ n = Len(dcMirror) + 1
           /\ row = [post |-> dcReq[h].post, group |-> dcReq[h].group, live |-> TRUE, withdrawn |-> FALSE, orphan |-> FALSE]
           /\ q = [dcReq[h] EXCEPT !.at = "claim", !.mirror = Len(dcMirror) + 1]
    OBVIOUS
  <1>2. /\ dcReq[h].at = "mirror" /\ dcMirror' = Append(dcMirror, row)
        /\ UNCHANGED <<dcLink, dcBack, dcThread, dcComment>>
    BY <1>1 DEF Discussions!mirrorPost, Discussions!In
  <1>3. dcReq' = [dcReq EXCEPT ![h] = q]
    BY <1>1 DEF Discussions!mirrorPost
  <1>4. dcReq[h].post \in Posts /\ dcReq[h].group \in Groups /\ HandlerKnows(h)
    BY <1>2 DEF DiscInv, HandlerKnows
  <1>5. row \in MirrorRow
    BY <1>1, <1>4 DEF MirrorRow
  <1>6. /\ dcMirror' \in Seq(MirrorRow) /\ Len(dcMirror') = n /\ n \in Nat /\ n = Len(dcMirror) + 1 /\ dcMirror'[n] = row
        /\ \A m \in 1 .. Len(dcMirror) : dcMirror'[m] = dcMirror[m]
    BY <1>1, <1>2, <1>5 DEF DiscInv, CopiesAccounted
  <1>7. DOMAIN dcReq' = Handlers /\ dcReq'[h] = q /\ \A g \in Handlers : g # h => dcReq'[g] = dcReq[g]
    BY <1>3 DEF DiscInv
  <1>8. q.at = "claim" /\ q.mirror = n /\ q.post = dcReq[h].post /\ q \in DiscRequest
    <2>1. PICK r \in DiscRequest : r = dcReq[h]
      BY <1>4 DEF HandlerKnows
    <2>2. q = [r EXCEPT !.at = "claim", !.mirror = n]
      BY <1>1, <2>1
    <2> QED
      BY <1>6, <2>1, <2>2 DEF DiscRequest, Holding
  <1>9. ThreadsStand'
    BY <1>2, <1>6 DEF DiscInv, ThreadsStand
  <1>10. CommentsAnswer'
    <2>1. \A i \in 1 .. Len(dcComment) : dcComment[i].root \in 1 .. Len(dcMirror)
      BY DiscRows
    <2> QED
      BY <1>2, <1>6, <2>1 DEF DiscInv, CommentsAnswer
  <1>11. HandlerKnows(h)'
    <2>1. \A p \in Posts : dcThread[p] # n
      BY <1>6 DEF DiscInv, ThreadsStand
    <2> QED
      BY <1>1, <1>2, <1>4, <1>6, <1>7, <1>8, <2>1 DEF HandlerKnows, Holding, Commenting
  <1>12. ASSUME NEW g \in Handlers, g # h PROVE HandlerKnows(g)'
    <2>1. HandlerKnows(g) /\ dcReq'[g] = dcReq[g]
      BY <1>7, <1>12 DEF DiscInv
    <2>2. dcReq[g].at \in Commenting => dcReq[g].mirror \in 1 .. Len(dcMirror)
      BY <2>1 DEF DiscInv, HandlerKnows, ThreadsStand
    <2> QED
      BY <1>2, <1>6, <2>1, <2>2 DEF HandlerKnows, Commenting
  <1>13. OneHolder'
    <2>1. \A g \in Handlers : dcReq[g].at \in Holding => dcReq[g].mirror # n
      BY <1>6 DEF DiscInv, HandlerKnows
    <2> QED
      BY <1>7, <1>8, <2>1 DEF DiscInv, OneHolder
  <1>14. CopiesAccounted'
    <2>1. \A m : Held(m) => Held(m)'
      BY <1>2, <1>7 DEF Held, Holding
    <2>2. Held(n)'
      BY <1>7, <1>8 DEF Held, Holding
    <2> QED
      BY <1>2, <1>6, <2>1, <2>2 DEF DiscInv, CopiesAccounted
  <1>15. LinksMatch'
    BY <1>2 DEF DiscInv, LinksMatch
  <1> QED
    BY <1>7, <1>9, <1>10, <1>11, <1>12, <1>13, <1>14, <1>15 DEF DiscInv

\* The first claim makes the copy the thread of the post.
LEMMA DiscClaims ==
  ASSUME DiscInv, NEW h \in Handlers, Discussions!claimMirror(h), dcThread[dcReq[h].post] = 0
  PROVE  DiscInv'
  <1>1. PICK p, n, q : p = dcReq[h].post /\ n = dcReq[h].mirror /\ q = Discussions!After(h)
    OBVIOUS
  <1>2. /\ dcThread' = [dcThread EXCEPT ![p] = n] /\ dcReq' = [dcReq EXCEPT ![h] = q]
        /\ dcReq[h].at = "claim" /\ dcThread[p] = 0
        /\ UNCHANGED <<dcLink, dcBack, dcMirror, dcComment>>
    BY <1>1 DEF Discussions!claimMirror, Discussions!RecordCommentThread, Discussions!In
  <1>3. /\ p \in Posts /\ n \in 1 .. Len(dcMirror) /\ dcMirror[n].post = p /\ ~ dcMirror[n].withdrawn
        /\ dcReq[h] \in DiscRequest
    BY <1>1, <1>2 DEF DiscInv, HandlerKnows, Holding
  <1>4. n \in Nat \ {0}
    BY <1>3 DEF DiscInv, CopiesAccounted
  <1>5. /\ dcThread' \in [Posts -> Nat] /\ dcThread'[p] = n /\ \A r \in Posts : r # p => dcThread'[r] = dcThread[r]
    BY <1>2, <1>3, <1>4 DEF DiscInv, ThreadsStand
  <1>6. DOMAIN dcReq' = Handlers /\ dcReq'[h] = q /\ \A g \in Handlers : g # h => dcReq'[g] = dcReq[g]
    BY <1>2 DEF DiscInv
  <1>7. q \in DiscRequest /\ (q.at = "idle" \/ (q.at = "join" /\ q.post = p /\ q.mirror = n))
    <2>1. PICK r \in DiscRequest : r = dcReq[h]
      BY <1>3
    <2>2. CASE r.job = "observe"
      <3>1. q = Discussions!Idle
        BY <1>1, <2>1, <2>2 DEF Discussions!After
      <3>2. q \in DiscRequest /\ q.at = "idle"
        BY <3>1, DiscIdle
      <3> QED
        BY <3>2
    <2>3. CASE r.job # "observe"
      <3>1. q = [r EXCEPT !.at = "join"]
        BY <1>1, <2>1, <2>3 DEF Discussions!After
      <3> QED
        BY <1>1, <2>1, <3>1 DEF DiscRequest, Commenting
    <2> QED
      BY <2>2, <2>3
  <1>8. HandlerKnows(h)'
    BY <1>3, <1>4, <1>5, <1>6, <1>7 DEF HandlerKnows, Holding, Commenting
  <1>9. ASSUME NEW g \in Handlers, g # h PROVE HandlerKnows(g)'
    <2>1. HandlerKnows(g) /\ dcReq'[g] = dcReq[g]
      BY <1>6, <1>9 DEF DiscInv
    <2>2. dcReq[g].at \in Holding => dcReq[g].mirror # n
      BY <1>1, <1>2, <1>9 DEF DiscInv, OneHolder, Holding
    <2>3. dcReq[g].at \in Commenting \cup {"withdraw"} => dcReq[g].post # p /\ dcReq[g].post \in Posts
      BY <1>2, <2>1 DEF HandlerKnows, Holding
    <2> QED
      BY <1>2, <1>5, <2>1, <2>2, <2>3 DEF HandlerKnows
  <1>10. ThreadsStand'
    BY <1>2, <1>3, <1>5 DEF DiscInv, ThreadsStand
  <1>11. CommentsAnswer'
    <2>1. \A i \in 1 .. Len(dcComment) : dcComment[i].post # p /\ dcComment[i].post \in Posts
      BY <1>2, DiscRows
    <2> QED
      BY <1>2, <1>5, <2>1 DEF DiscInv, CommentsAnswer
  <1>12. OneHolder'
    BY <1>6, <1>7 DEF DiscInv, OneHolder, Holding
  <1>13. CopiesAccounted'
    <2>1. \A m : Held(m) /\ m # n => Held(m)'
      BY <1>1, <1>6 DEF Held
    <2>2. \A m \in 1 .. Len(dcMirror) : dcMirror[m].post \in Posts
      BY DiscRows
    <2>3. dcThread[p] # n
      BY <1>2, <1>4
    <2> QED
      BY <1>2, <1>3, <1>5, <2>1, <2>2, <2>3 DEF DiscInv, CopiesAccounted
  <1>14. LinksMatch'
    BY <1>2 DEF DiscInv, LinksMatch
  <1> QED
    BY <1>6, <1>8, <1>9, <1>10, <1>11, <1>12, <1>13, <1>14 DEF DiscInv

\* A copy that lost, or whose handler fails, is withdrawn or left behind; it is no thread.
LEMMA DiscLets ==
  ASSUME DiscInv, NEW h \in Handlers, dcReq[h].at \in Holding, NEW q \in DiscRequest,
         NEW row \in MirrorRow, row.post = dcReq[h].post, ~ row.live \/ row.orphan,
         dcMirror' = [dcMirror EXCEPT ![dcReq[h].mirror] = row],
         dcReq' = [dcReq EXCEPT ![h] = q],
         \/ q.at = "idle"
         \/ q.at = "join" /\ q.post = dcReq[h].post /\ q.mirror = dcThread[q.post] /\ q.mirror # 0,
         UNCHANGED <<dcLink, dcBack, dcThread, dcComment>>
  PROVE  DiscInv'
  <1>1. PICK n : n = dcReq[h].mirror
    OBVIOUS
  <1>2. n \in 1 .. Len(dcMirror) /\ dcReq[h].post \in Posts /\ \A p \in Posts : dcThread[p] # n
    BY <1>1 DEF DiscInv, HandlerKnows
  <1>3. /\ dcMirror' \in Seq(MirrorRow) /\ Len(dcMirror') = Len(dcMirror) /\ dcMirror'[n] = row
        /\ \A m \in 1 .. Len(dcMirror) : m # n => dcMirror'[m] = dcMirror[m]
    BY <1>1, <1>2 DEF DiscInv, CopiesAccounted
  <1>4. DOMAIN dcReq' = Handlers /\ dcReq'[h] = q /\ \A g \in Handlers : g # h => dcReq'[g] = dcReq[g]
    BY DEF DiscInv
  <1>5. HandlerKnows(h)'
    BY <1>2, <1>4 DEF HandlerKnows, Holding, Commenting
  <1>6. ASSUME NEW g \in Handlers, g # h PROVE HandlerKnows(g)'
    <2>1. HandlerKnows(g) /\ dcReq'[g] = dcReq[g]
      BY <1>4, <1>6 DEF DiscInv
    <2>2. dcReq[g].at \in Holding => dcReq[g].mirror # n
      BY <1>1, <1>6 DEF DiscInv, OneHolder
    <2>3. dcReq[g].at \in Commenting => dcReq[g].mirror \in 1 .. Len(dcMirror)
      BY <2>1 DEF DiscInv, HandlerKnows, ThreadsStand
    <2> QED
      BY <1>3, <2>1, <2>2 DEF HandlerKnows
  <1>7. ThreadsStand'
    BY <1>2, <1>3 DEF DiscInv, ThreadsStand
  <1>8. CommentsAnswer'
    BY <1>3, DiscRows DEF DiscInv, CommentsAnswer
  <1>9. OneHolder'
    BY <1>4 DEF DiscInv, OneHolder, Holding
  <1>10. CopiesAccounted'
    <2>1. \A m : Held(m) /\ m # n => Held(m)'
      BY <1>1, <1>4 DEF Held
    <2> QED
      BY <1>3, <2>1 DEF DiscInv, CopiesAccounted
  <1>11. LinksMatch'
    BY DEF DiscInv, LinksMatch
  <1> QED
    BY <1>4, <1>5, <1>6, <1>7, <1>8, <1>9, <1>10, <1>11 DEF DiscInv

LEMMA DiscWithdraws ==
  ASSUME DiscInv, NEW h \in Handlers, Discussions!WithdrawMirror(h) \/ (Discussions!mirrorFails(h) /\ dcReq[h].at # "mirror")
  PROVE  DiscInv'
  <1>1. dcReq[h].at \in Holding /\ dcReq[h] \in DiscRequest
    BY DEF Discussions!WithdrawMirror, Discussions!mirrorFails, Discussions!In, Holding, DiscInv, HandlerKnows
  <1>2. PICK n, old : n = dcReq[h].mirror /\ old = dcMirror[n]
    OBVIOUS
  <1>3. n \in 1 .. Len(dcMirror) /\ old \in MirrorRow /\ old.post = dcReq[h].post
    BY <1>1, <1>2, DiscRows DEF DiscInv, HandlerKnows
  <1>4. UNCHANGED <<dcLink, dcBack, dcThread, dcComment>>
    BY DEF Discussions!WithdrawMirror, Discussions!mirrorFails
  <1>5. \/ dcMirror' = [dcMirror EXCEPT ![n] = [old EXCEPT !.live = FALSE, !.withdrawn = TRUE]]
        \/ dcMirror' = [dcMirror EXCEPT ![n] = [old EXCEPT !.orphan = TRUE]]
    BY <1>2, <1>3 DEF Discussions!WithdrawMirror, Discussions!mirrorFails, Discussions!In
  <1>6. PICK row \in MirrorRow : /\ dcMirror' = [dcMirror EXCEPT ![n] = row]
                                 /\ row.post = old.post /\ (~ row.live \/ row.orphan)
    <2>1. [old EXCEPT !.live = FALSE, !.withdrawn = TRUE] \in MirrorRow /\ [old EXCEPT !.orphan = TRUE] \in MirrorRow
      BY <1>3 DEF MirrorRow
    <2>2. /\ [old EXCEPT !.live = FALSE, !.withdrawn = TRUE].post = old.post
          /\ [old EXCEPT !.live = FALSE, !.withdrawn = TRUE].live = FALSE
      BY <1>3 DEF MirrorRow
    <2>3. /\ [old EXCEPT !.orphan = TRUE].post = old.post
          /\ [old EXCEPT !.orphan = TRUE].orphan = TRUE
      BY <1>3 DEF MirrorRow
    <2> QED
      BY <1>5, <2>1, <2>2, <2>3
  <1>7. PICK q \in DiscRequest :
           /\ dcReq' = [dcReq EXCEPT ![h] = q]
           /\ \/ q.at = "idle"
              \/ q.at = "join" /\ q.post = dcReq[h].post /\ q.mirror = dcThread[q.post] /\ q.mirror # 0
    <2>1. CASE Discussions!mirrorFails(h)
      BY <2>1, DiscIdle DEF Discussions!mirrorFails, Discussions!Rest
    <2>2. CASE Discussions!WithdrawMirror(h) /\ dcReq[h].job = "observe"
      <3>1. PICK q : q = [Discussions!Idle EXCEPT !.mirror = 0]
        OBVIOUS
      <3>2. q \in DiscRequest /\ q.at = "idle"
        BY <3>1, DiscIdle DEF DiscRequest
      <3>3. dcReq' = [dcReq EXCEPT ![h] = q]
        BY <2>2, <3>1 DEF Discussions!WithdrawMirror, Discussions!After
      <3> QED
        BY <3>2, <3>3
    <2>3. CASE Discussions!WithdrawMirror(h) /\ dcReq[h].job # "observe"
      <3>1. PICK r \in DiscRequest : r = dcReq[h]
        BY <1>1
      <3>2. r.post \in Posts /\ dcThread[r.post] # 0 /\ dcThread[r.post] \in Nat
        BY <2>3, <3>1 DEF Discussions!WithdrawMirror, Discussions!In, DiscInv, HandlerKnows, ThreadsStand, Holding
      <3>3. PICK q : q = [[r EXCEPT !.at = "join"] EXCEPT !.mirror = dcThread[r.post]]
        OBVIOUS
      <3>4. PICK k : k = [r EXCEPT !.at = "join"]
        OBVIOUS
      <3>5. q = [k EXCEPT !.mirror = dcThread[r.post]]
        BY <3>3, <3>4
      <3>8. k \in DiscRequest /\ k.at = "join" /\ k.post = r.post
        BY <3>1, <3>4 DEF DiscRequest, Commenting
      <3>6. q \in DiscRequest /\ q.at = "join" /\ q.post = r.post /\ q.mirror = dcThread[r.post]
        BY <3>2, <3>8, <3>5 DEF DiscRequest
      <3>7. dcReq' = [dcReq EXCEPT ![h] = q]
        BY <2>3, <3>1, <3>3 DEF Discussions!WithdrawMirror, Discussions!After, Discussions!CommentThread
      <3> QED
        BY <3>1, <3>2, <3>6, <3>7
    <2> QED
      BY <2>1, <2>2, <2>3
  <1> QED
    BY <1>1, <1>2, <1>3, <1>4, <1>6, <1>7, DiscLets

LEMMA DiscComments ==
  ASSUME DiscInv, NEW h \in Handlers, Discussions!Comment(h)
  PROVE  DiscInv'
  <1>1. PICK r, q, row : /\ r = dcReq[h] /\ q = [r EXCEPT !.at = "count"]
                         /\ row = [post |-> dcReq[h].post, root |-> dcReq[h].mirror, live |-> TRUE]
    OBVIOUS
  <1>2. /\ r.at = "store" /\ r \in DiscRequest /\ r.post \in Posts /\ r.mirror # 0 /\ r.mirror \in Nat
        /\ dcThread[r.post] = r.mirror
    <2>1. HandlerKnows(h) /\ r.at = "store"
      BY <1>1 DEF Discussions!Comment, Discussions!In, DiscInv
    <2> QED
      BY <1>1, <2>1 DEF HandlerKnows, Commenting, DiscRequest
  <1>3. /\ dcComment' = Append(dcComment, row) /\ UNCHANGED <<dcLink, dcBack, dcMirror, dcThread>>
        /\ dcReq' = [dcReq EXCEPT ![h] = q]
    BY <1>1 DEF Discussions!Comment, Discussions!Go
  <1>4. q \in DiscRequest /\ q.at = "count" /\ q.post = r.post /\ q.mirror = r.mirror
    BY <1>1, <1>2 DEF DiscRequest, Commenting
  <1>5. row \in CommentRow /\ row.root = r.mirror /\ row.post = r.post
    BY <1>1, <1>2 DEF CommentRow
  <1>6. /\ dcComment' \in Seq(CommentRow) /\ Len(dcComment') = Len(dcComment) + 1 /\ dcComment'[Len(dcComment) + 1] = row
        /\ \A i \in 1 .. Len(dcComment) : dcComment'[i] = dcComment[i]
    BY <1>3, <1>5 DEF DiscInv, CommentsAnswer
  <1>7. Len(dcComment) \in Nat
    BY DEF DiscInv, CommentsAnswer
  <1>8. CommentsAnswer'
    BY <1>2, <1>3, <1>5, <1>6, <1>7 DEF DiscInv, CommentsAnswer
  <1>9. DOMAIN dcReq' = Handlers /\ dcReq'[h] = q /\ \A g \in Handlers : g # h => dcReq'[g] = dcReq[g]
    BY <1>3 DEF DiscInv
  <1>10. ASSUME NEW g \in Handlers PROVE HandlerKnows(g)'
    <2>1. CASE g = h
      BY <1>2, <1>3, <1>4, <1>9, <2>1 DEF HandlerKnows, Holding, Commenting
    <2>2. CASE g # h
      BY <1>3, <1>9, <2>2 DEF DiscInv, HandlerKnows
    <2> QED
      BY <2>1, <2>2
  <1>11. LinksMatch' /\ ThreadsStand'
    BY <1>3 DEF DiscInv, LinksMatch, ThreadsStand
  <1>12. \A m : Held(m)' <=> Held(m)
    BY <1>1, <1>2, <1>4, <1>9 DEF Held, Holding
  <1>13. CopiesAccounted'
    BY <1>3, <1>12 DEF DiscInv, CopiesAccounted
  <1>14. OneHolder'
    BY <1>4, <1>9 DEF DiscInv, OneHolder, Holding
  <1> QED
    BY <1>8, <1>9, <1>10, <1>11, <1>13, <1>14 DEF DiscInv

\* A moderator deletes a mirror: it is the thread it was, or held by who held it.
LEMMA DiscDeletes ==
  ASSUME DiscInv, NEW m \in 1 .. Len(dcMirror), Discussions!deleteMirror(m)
  PROVE  DiscInv'
  <1>1. PICK row : row = [dcMirror[m] EXCEPT !.live = FALSE]
    OBVIOUS
  <1>2. dcMirror[m] \in MirrorRow
    BY DiscRows
  <1>3. row \in MirrorRow /\ row.post = dcMirror[m].post /\ row.withdrawn = dcMirror[m].withdrawn /\ ~ row.live
    BY <1>1, <1>2 DEF MirrorRow
  <1>4. dcMirror' = [dcMirror EXCEPT ![m] = row] /\ UNCHANGED <<dcLink, dcBack, dcThread, dcComment, dcReq>>
    BY <1>1 DEF Discussions!deleteMirror
  <1>5. /\ dcMirror' \in Seq(MirrorRow) /\ Len(dcMirror') = Len(dcMirror) /\ dcMirror'[m] = row
        /\ \A n \in 1 .. Len(dcMirror) : n # m => dcMirror'[n] = dcMirror[n]
    BY <1>3, <1>4 DEF DiscInv, CopiesAccounted
  <1>6. \A n \in 1 .. Len(dcMirror) : dcMirror'[n].post = dcMirror[n].post /\ dcMirror'[n].withdrawn = dcMirror[n].withdrawn
    BY <1>3, <1>5
  <1>7. \A h \in Handlers : HandlerKnows(h)'
    BY <1>4, <1>5, <1>6 DEF DiscInv, HandlerKnows
  <1>8. ThreadsStand'
    BY <1>4, <1>5, <1>6 DEF DiscInv, ThreadsStand
  <1>9. CommentsAnswer' /\ LinksMatch' /\ OneHolder'
    BY <1>4 DEF DiscInv, CommentsAnswer, LinksMatch, OneHolder
  <1>10. \A n : Held(n) => Held(n)'
    BY <1>4 DEF Held
  <1>11. CopiesAccounted'
    BY <1>3, <1>4, <1>5, <1>10 DEF DiscInv, CopiesAccounted
  <1> QED
    BY <1>4, <1>7, <1>8, <1>9, <1>11 DEF DiscInv

LEMMA DiscNext == ASSUME DiscInv, Discussions!Next PROVE DiscInv'
  <1>1. CASE Discussions!setCommentsEnabled
    BY <1>1, DiscStutters DEF Discussions!setCommentsEnabled
  <1>2. ASSUME NEW p \in Posts, Discussions!deletePost(p) PROVE DiscInv'
    BY <1>2, DiscStutters DEF Discussions!deletePost
  <1>3. ASSUME NEW p \in Posts, NEW h \in Handlers, Discussions!ObserveMessage(h, p) PROVE DiscInv'
    <2>1. CASE Discussions!Discussion # "none" /\ dcEnabled
      BY <1>3, <2>1, DiscStarts DEF Discussions!ObserveMessage
    <2>2. CASE ~ (Discussions!Discussion # "none" /\ dcEnabled)
      BY <1>3, <2>2, DiscStutters DEF Discussions!ObserveMessage
    <2> QED
      BY <2>1, <2>2
  <1>4. ASSUME NEW p \in Posts, NEW h \in Handlers, Discussions!CommentThreadFor(h, p) PROVE DiscInv'
    <2>1. CASE dcThread[p] # 0
      BY <1>4, <2>1, DiscStarts DEF Discussions!CommentThreadFor, Discussions!CommentThread
    <2>2. CASE dcThread[p] = 0
      BY <1>4, <2>2, DiscStarts DEF Discussions!CommentThreadFor, Discussions!CommentThread
    <2> QED
      BY <2>1, <2>2
  \* A handler that gives up without having sent a copy.
  <1>5. ASSUME NEW h \in Handlers, dcReq[h].at \notin Holding, Discussions!Rest(h),
               UNCHANGED <<dcLink, dcBack, dcMirror, dcThread, dcComment>>
        PROVE  DiscInv'
    <2>1. dcReq' = [dcReq EXCEPT ![h] = Discussions!Idle] /\ dcReq'[h] = Discussions!Idle
      BY <1>5 DEF Discussions!Rest, DiscInv
    <2>2. HandlerKnows(h)'
      BY <2>1, DiscIdle DEF HandlerKnows, Holding, Commenting
    <2>3. Discussions!Idle.at \notin Holding
      BY DiscIdle DEF Holding
    <2> QED
      BY <1>5, <2>1, <2>2, <2>3, DiscHandlerMoves
  <1>6. ASSUME NEW h \in Handlers, Discussions!mirrorPost(h) PROVE DiscInv'
    <2>1. CASE dcPost[dcReq[h].post] = "live"
      BY <1>6, <2>1, DiscMirrors
    <2>2. CASE dcPost[dcReq[h].post] # "live"
      BY <1>5, <1>6, <2>2 DEF Discussions!mirrorPost, Discussions!In, Holding
    <2> QED
      BY <2>1, <2>2
  <1>7. ASSUME NEW h \in Handlers, Discussions!claimMirror(h) PROVE DiscInv'
    <2>1. CASE dcThread[dcReq[h].post] = 0
      BY <1>7, <2>1, DiscClaims
    <2>2. CASE dcThread[dcReq[h].post] # 0
      <3>1. PICK r, q : r = dcReq[h] /\ q = [r EXCEPT !.at = "withdraw"]
        OBVIOUS
      <3>2. /\ dcReq' = [dcReq EXCEPT ![h] = q] /\ r.at = "claim"
            /\ UNCHANGED <<dcLink, dcBack, dcMirror, dcThread, dcComment>>
        BY <1>7, <2>2, <3>1 DEF Discussions!claimMirror, Discussions!RecordCommentThread, Discussions!Go, Discussions!In
      <3>3. HandlerKnows(h) /\ r \in DiscRequest /\ dcReq'[h] = q
        BY <3>1, <3>2 DEF DiscInv, HandlerKnows
      <3>4. q \in DiscRequest /\ q.at = "withdraw" /\ q.post = r.post /\ q.mirror = r.mirror
        BY <3>1, <3>3 DEF DiscRequest, Holding
      <3>5. HandlerKnows(h)'
        BY <2>2, <3>1, <3>2, <3>3, <3>4 DEF HandlerKnows, Holding, Commenting
      <3> QED
        BY <3>1, <3>2, <3>4, <3>5, DiscHandlerMoves DEF Holding
    <2> QED
      BY <2>1, <2>2
  <1>8. ASSUME NEW h \in Handlers, Discussions!mirrorFails(h) PROVE DiscInv'
    <2>1. CASE dcReq[h].at = "mirror"
      BY <1>5, <1>8, <2>1 DEF Discussions!mirrorFails, Discussions!In, Holding
    <2>2. CASE dcReq[h].at # "mirror"
      BY <1>8, <2>2, DiscWithdraws
    <2> QED
      BY <2>1, <2>2
  \* A handler on its way to comment takes its next step.
  <1>13. ASSUME NEW h \in Handlers, NEW at \in {"send", "store"}, dcReq[h].at \in {"join", "send"}, Discussions!Go(h, at),
                UNCHANGED <<dcLink, dcBack, dcMirror, dcThread, dcComment>>
         PROVE  DiscInv'
    <2>1. PICK r, q : r = dcReq[h] /\ q = [r EXCEPT !.at = at]
      OBVIOUS
    <2>2. dcReq' = [dcReq EXCEPT ![h] = q] /\ r.at \in {"join", "send"}
      BY <1>13, <2>1 DEF Discussions!Go
    <2>3. HandlerKnows(h) /\ r \in DiscRequest /\ dcReq'[h] = q
      BY <2>1, <2>2 DEF DiscInv, HandlerKnows
    <2>4. q \in DiscRequest /\ q.at = at /\ q.post = r.post /\ q.mirror = r.mirror
      BY <2>1, <2>3 DEF DiscRequest, Commenting
    <2>5. HandlerKnows(h)'
      BY <1>13, <2>1, <2>2, <2>3, <2>4 DEF HandlerKnows, Holding, Commenting
    <2>6. dcReq[h].at \notin Holding /\ q.at \notin Holding
      BY <1>13, <2>4 DEF Holding
    <2> QED
      BY <1>13, <2>2, <2>5, <2>6, DiscHandlerMoves
  <1>9. ASSUME NEW h \in Handlers, Discussions!Join(h) \/ Discussions!Send(h) PROVE DiscInv'
    BY <1>5, <1>9, <1>13 DEF Discussions!Join, Discussions!Send, Discussions!In, Holding
  <1>14. ASSUME NEW g \in Groups, Discussions!memberChanges(g) PROVE DiscInv'
    BY <1>14, DiscStutters DEF Discussions!memberChanges
  <1>10. ASSUME NEW h \in Handlers, Discussions!CountReplies(h) PROVE DiscInv'
    <2>1. PICK n : n = Cardinality({i \in 1 .. Len(dcComment) : dcComment[i].root = dcReq[h].mirror /\ dcComment[i].live})
      OBVIOUS
    <2>2. n \in Nat
      <3>0. Len(dcComment) \in Nat
        BY DEF DiscInv, CommentsAnswer
      <3>1. IsFiniteSet(1 .. Len(dcComment))
        BY <3>0, FS_Interval
      <3>2. IsFiniteSet({i \in 1 .. Len(dcComment) : dcComment[i].root = dcReq[h].mirror /\ dcComment[i].live})
        BY <3>1, FS_Subset
      <3> QED
        BY <2>1, <3>2, FS_CardinalityType
    <2>3. PICK r, q : r = dcReq[h] /\ q = [r EXCEPT !.at = "stats", !.count = n]
      OBVIOUS
    <2>4. /\ dcReq' = [dcReq EXCEPT ![h] = q] /\ r.at = "count"
          /\ UNCHANGED <<dcLink, dcBack, dcMirror, dcThread, dcComment>>
      BY <1>10, <2>1, <2>3, DiscussionsCard DEF Discussions!CountReplies, Discussions!In
    <2>5. HandlerKnows(h) /\ r \in DiscRequest /\ dcReq'[h] = q
      BY <2>3, <2>4 DEF DiscInv, HandlerKnows
    <2>6. q \in DiscRequest /\ q.at = "stats" /\ q.post = r.post /\ q.mirror = r.mirror
      BY <2>2, <2>3, <2>5 DEF DiscRequest, Commenting
    <2>7. HandlerKnows(h)'
      BY <2>3, <2>4, <2>5, <2>6 DEF HandlerKnows, Holding, Commenting
    <2> QED
      BY <2>3, <2>4, <2>6, <2>7, DiscHandlerMoves DEF Holding
  <1>11. ASSUME NEW h \in Handlers, Discussions!CountComments(h) \/ Discussions!commentFails(h) PROVE DiscInv'
    BY <1>5, <1>11 DEF Discussions!CountComments, Discussions!commentFails, Discussions!In, Holding
  <1>12. ASSUME NEW i \in 1 .. Len(dcComment), Discussions!deleteComment(i) PROVE DiscInv'
    <2>1. PICK row : row = [dcComment[i] EXCEPT !.live = FALSE]
      OBVIOUS
    <2>2. dcComment[i] \in CommentRow
      BY DiscRows
    <2>3. row \in CommentRow /\ row.post = dcComment[i].post /\ row.root = dcComment[i].root
      BY <2>1, <2>2 DEF CommentRow
    <2>4. dcComment' = [dcComment EXCEPT ![i] = row] /\ UNCHANGED <<dcLink, dcBack, dcMirror, dcThread, dcReq>>
      BY <1>12, <2>1 DEF Discussions!deleteComment
    <2>5. /\ dcComment' \in Seq(CommentRow) /\ Len(dcComment') = Len(dcComment)
          /\ \A k \in 1 .. Len(dcComment) : dcComment'[k].post = dcComment[k].post /\ dcComment'[k].root = dcComment[k].root
      BY <2>3, <2>4 DEF DiscInv, CommentsAnswer
    <2>6. CommentsAnswer'
      BY <2>4, <2>5 DEF DiscInv, CommentsAnswer
    <2>7. \A h \in Handlers : HandlerKnows(h)'
      BY <2>4 DEF DiscInv, HandlerKnows
    <2>8. LinksMatch' /\ ThreadsStand'
      BY <2>4 DEF DiscInv, LinksMatch, ThreadsStand
    <2>9. CopiesAccounted' /\ OneHolder'
      BY <2>4 DEF DiscInv, CopiesAccounted, Held, OneHolder
    <2> QED
      BY <2>4, <2>6, <2>7, <2>8, <2>9 DEF DiscInv
  <1> QED
    BY <1>1, <1>2, <1>3, <1>4, <1>6, <1>7, <1>8, <1>9, <1>10, <1>11, <1>12, <1>14, DiscDeletes, DiscLinks, DiscWithdraws, DiscComments DEF Discussions!Next

\* However many first comments on a post cross each other and a relinking of the channel, they answer
\* one mirror of it, which was not withdrawn (LinkDiscussion, RecordCommentThread, WithdrawMirror).
THEOREM ThreadsAreOne == Spec => []OneThreadAPost
  <1> DEFINE Holds == active = "discussions" => DiscInv
  <1>1. Init => Holds
    BY DiscInit DEF Init
  <1>2. Holds /\ [Next]_<<active, shared>> => Holds'
    <2> SUFFICES ASSUME active = "discussions", DiscInv, [Next]_<<active, shared>> PROVE DiscInv'
      BY OneMoves
    <2>1. CASE Discussions!Next
      BY <2>1, DiscNext
    <2>2. CASE UNCHANGED shared
      BY <2>2, DiscStutters DEF shared
    <2> QED
      BY <2>1, <2>2, OneMoves
  <1>3. Holds => OneThreadAPost
    BY DiscInvImplies DEF OneThreadAPost
  <1> QED
    BY <1>1, <1>2, <1>3, PTL DEF Spec

-----------------------------------------------------------------------------
(***************************************************************************)
(* Named roles: a request to define or to rewrite carries a real bundle,   *)
(* and the roles there are, with those about to be written, stay within    *)
(* one less than the limit and one for each handler.                       *)
(***************************************************************************)
rlDef == x1
rlHeld == x2
rlIn == x3
rlReq == x4
rlWanted == x5
USE DEF rlDef, rlHeld, rlIn, rlReq, rlWanted

\* The component counts with its own copy of Cardinality.
LEMMA NamedRolesCard == \A S : NamedRoles!Cardinality(S) = Cardinality(S)
  BY DEF NamedRoles!Cardinality, Cardinality

RoleRequest == [at : {"idle", "create", "update", "delete", "assign"}, role : RoleNames \cup {Alien, "none"},
                target : RoleMembers \cup {"none"}, bundle : NamedRoles!Bundles \cup {NamedRoles!Undefined}]

RoleTables ==
    /\ rlDef \in [RoleNames -> NamedRoles!Bundles \cup {NamedRoles!Undefined}]
    /\ rlHeld \in [RoleMembers -> RoleNames \cup {Alien, "none"}]
    /\ rlReq \in [Handlers -> RoleRequest]
    /\ \A h \in Handlers : rlReq[h].at \in {"create", "update"} => rlReq[h].bundle \in NamedRoles!Bundles
    /\ \A h \in Handlers : rlReq[h].at = "create" => rlReq[h].role \in RoleNames

RolesHeld ==
    /\ rlHeld = rlWanted
    /\ \A m \in RoleMembers : rlHeld[m] \in NamedRoles!Defined \cup {"none"}

Creating == {h \in Handlers : rlReq[h].at = "create"}

RolesCounted ==
    /\ IsFiniteSet(NamedRoles!Defined)
    /\ Cardinality(NamedRoles!Defined) + Cardinality(Creating) < MaxRolesPerChat + Cardinality(Handlers)

RolesNamed == \A r, s \in NamedRoles!Defined : rlDef[r].name = rlDef[s].name => r = s

RoleInv == RoleTables /\ RolesHeld /\ RolesNamed /\ RolesCounted

LEMMA BundleNames == NamedRoles!Undefined \notin NamedRoles!Bundles
  BY DEF NamedRoles!Undefined, NamedRoles!Bundles, NamedRoles!Bundle

LEMMA RoleIdleShape == NamedRoles!Idle \in RoleRequest /\ NamedRoles!Idle.at = "idle"
  BY DEF NamedRoles!Idle, RoleRequest

\* However they are chosen, the handlers that create are finitely many.
LEMMA CreatingCounts ==
  ASSUME NEW S \in SUBSET Handlers
  PROVE  /\ IsFiniteSet(S) /\ Cardinality(S) \in Nat /\ Cardinality(Handlers) \in Nat
         /\ Cardinality(S) <= Cardinality(Handlers)
  BY FiniteHandlers, FS_Subset, FS_CardinalityType

LEMMA RoleInvImplies == RoleInv => NamedRoles!HeldAsGiven
  <1> SUFFICES ASSUME RoleInv PROVE NamedRoles!HeldAsGiven
    OBVIOUS
  <1>1. Cardinality(Creating) \in Nat /\ Cardinality(NamedRoles!Defined) \in Nat /\ Cardinality(Handlers) \in Nat
    BY CreatingCounts, FS_CardinalityType DEF RoleInv, RolesCounted, Creating
  <1>2. Cardinality(NamedRoles!Defined) < MaxRolesPerChat + Cardinality(Handlers)
    BY <1>1, RoleLimit DEF RoleInv, RolesCounted
  <1> QED
    BY <1>2, NamedRolesCard DEF RoleInv, RolesHeld, RolesNamed, NamedRoles!HeldAsGiven

LEMMA RoleInit == NamedRoles!Init => RoleInv
  <1> SUFFICES ASSUME NamedRoles!Init PROVE RoleInv
    OBVIOUS
  <1>1. rlReq \in [Handlers -> RoleRequest] /\ \A h \in Handlers : rlReq[h].at = "idle"
    BY RoleIdleShape DEF NamedRoles!Init
  <1>2. RoleTables /\ RolesHeld
    BY <1>1 DEF NamedRoles!Init, RoleTables, RolesHeld
  <1>3. NamedRoles!Defined = {} /\ Creating = {}
    BY <1>1 DEF NamedRoles!Init, NamedRoles!Defined, Creating
  <1>4. IsFiniteSet({}) /\ Cardinality({}) = 0
    BY FS_EmptySet
  <1>5. Cardinality(Handlers) \in Nat
    BY FiniteHandlers, FS_CardinalityType
  <1>6. 0 + 0 < MaxRolesPerChat + Cardinality(Handlers)
    BY <1>5, RoleLimit
  <1> QED
    BY <1>2, <1>3, <1>4, <1>6 DEF RoleInv, RolesNamed, RolesCounted

\* A request is taken on.
LEMMA RoleAccepts ==
  ASSUME RoleInv, NEW h \in Handlers, NEW at \in {"create", "update", "delete", "assign"},
         NEW r \in RoleNames \cup {Alien, "none"}, NEW target \in RoleMembers \cup {"none"},
         NEW bundle \in NamedRoles!Bundles \cup {NamedRoles!Undefined}, NamedRoles!Accept(h, at, r, target, bundle),
         at \in {"create", "update"} => bundle \in NamedRoles!Bundles,
         at = "create" => r \in RoleNames /\ NamedRoles!BelowLimit
  PROVE  RoleInv'
  <1>1. PICK q : q = [at |-> at, role |-> r, target |-> target, bundle |-> bundle]
    OBVIOUS
  <1>2. q \in RoleRequest /\ q.at = at /\ q.role = r /\ q.bundle = bundle
    BY <1>1 DEF RoleRequest
  <1>3. /\ rlReq' = [rlReq EXCEPT ![h] = q] /\ UNCHANGED <<rlDef, rlHeld, rlIn, rlWanted>>
        /\ rlReq[h].at = "idle"
    BY <1>1 DEF NamedRoles!Accept, NamedRoles!In
  <1>4. /\ rlReq' \in [Handlers -> RoleRequest] /\ rlReq'[h] = q
        /\ \A g \in Handlers : g # h => rlReq'[g] = rlReq[g]
    BY <1>2, <1>3 DEF RoleInv, RoleTables
  <1>5. RoleTables'
    BY <1>2, <1>3, <1>4 DEF RoleInv, RoleTables
  <1>6. RolesHeld' /\ RolesNamed' /\ NamedRoles!Defined' = NamedRoles!Defined
    BY <1>3 DEF RoleInv, RolesHeld, RolesNamed, NamedRoles!Defined
  <1>7. RolesCounted'
    <2>1. IsFiniteSet(NamedRoles!Defined) /\ Cardinality(NamedRoles!Defined) \in Nat
      BY FS_CardinalityType DEF RoleInv, RolesCounted
    <2>2. CASE at = "create"
      <3>1. Cardinality(NamedRoles!Defined) < MaxRolesPerChat
        BY <2>2, NamedRolesCard DEF NamedRoles!BelowLimit
      <3>2. PICK S : S = Creating'
        OBVIOUS
      <3>3. Cardinality(S) \in Nat /\ Cardinality(S) <= Cardinality(Handlers) /\ Cardinality(Handlers) \in Nat
        BY <3>2, CreatingCounts DEF Creating
      <3>4. Cardinality(NamedRoles!Defined) + Cardinality(S) < MaxRolesPerChat + Cardinality(Handlers)
        BY <2>1, <3>1, <3>3, RoleLimit
      <3> QED
        BY <1>6, <2>1, <3>2, <3>4 DEF RolesCounted
    <2>3. CASE at # "create"
      <3>1. Creating' = Creating
        BY <1>2, <1>3, <1>4, <2>3 DEF Creating
      <3> QED
        BY <1>6, <3>1 DEF RoleInv, RolesCounted
    <2> QED
      BY <2>2, <2>3
  <1> QED
    BY <1>5, <1>6, <1>7 DEF RoleInv

\* Fewer roles, or as many and no more on their way, stay within the limit.
LEMMA RolesStayCounted ==
  ASSUME RolesCounted, NamedRoles!Defined' \subseteq NamedRoles!Defined, Creating' \subseteq Creating
  PROVE  RolesCounted'
  <1>1. PICK D, C : D = NamedRoles!Defined' /\ C = Creating'
    OBVIOUS
  <1>2. IsFiniteSet(D) /\ Cardinality(D) \in Nat /\ Cardinality(NamedRoles!Defined) \in Nat /\ Cardinality(D) <= Cardinality(NamedRoles!Defined)
    BY <1>1, FS_Subset, FS_CardinalityType DEF RolesCounted
  <1>3. IsFiniteSet(Creating) /\ Cardinality(Creating) \in Nat /\ Cardinality(Handlers) \in Nat
    BY CreatingCounts DEF Creating
  <1>4. Cardinality(C) \in Nat /\ Cardinality(C) <= Cardinality(Creating)
    BY <1>1, <1>3, FS_Subset, FS_CardinalityType
  <1>5. Cardinality(D) + Cardinality(C) < MaxRolesPerChat + Cardinality(Handlers)
    BY <1>2, <1>3, <1>4, RoleLimit DEF RolesCounted
  <1> QED
    BY <1>1, <1>2, <1>5 DEF RolesCounted

\* A role is written under a name that no other has.
LEMMA RoleNamed ==
  ASSUME RoleInv, NEW r \in RoleNames, NEW b \in NamedRoles!Bundles, ~NamedRoles!Taken(b.name, r), rlDef' = [rlDef EXCEPT ![r] = b]
  PROVE  RolesNamed'
  <1>1. rlDef'[r] = b /\ \A s \in RoleNames : s # r => rlDef'[s] = rlDef[s]
    BY DEF RoleInv, RoleTables
  <1>2. \A s \in NamedRoles!Defined' : s = r \/ (s \in NamedRoles!Defined /\ rlDef'[s] = rlDef[s] /\ rlDef[s].name # b.name)
    BY <1>1 DEF NamedRoles!Defined, NamedRoles!Taken
  <1> QED
    BY <1>1, <1>2 DEF RoleInv, RolesNamed

LEMMA RoleCreates == ASSUME RoleInv, NEW h \in Handlers, NamedRoles!CreateRole(h) PROVE RoleInv'
  <1>1. /\ rlReq' = [rlReq EXCEPT ![h] = NamedRoles!Idle] /\ UNCHANGED <<rlHeld, rlIn, rlWanted>> /\ h \in Creating
    BY DEF NamedRoles!CreateRole, NamedRoles!Rest, NamedRoles!In, Creating
  <1>2. /\ rlReq' \in [Handlers -> RoleRequest] /\ rlReq'[h].at = "idle"
        /\ \A g \in Handlers : g # h => rlReq'[g] = rlReq[g]
    BY <1>1, RoleIdleShape DEF RoleInv, RoleTables
  <1>3. Creating' = Creating \ {h}
    BY <1>2 DEF Creating
  <1>4. PICK r, b : r = rlReq[h].role /\ b = rlReq[h].bundle
    OBVIOUS
  <1>5. r \in RoleNames /\ b \in NamedRoles!Bundles
    BY <1>1, <1>4 DEF RoleInv, RoleTables, Creating
  <1>6. CASE r \in NamedRoles!Defined \/ NamedRoles!Taken(b.name, r)
    <2>1. rlDef' = rlDef
      BY <1>4, <1>6 DEF NamedRoles!CreateRole
    <2>2. RoleTables' /\ RolesHeld' /\ RolesNamed' /\ NamedRoles!Defined' = NamedRoles!Defined
      BY <1>1, <1>2, <2>1 DEF RoleInv, RoleTables, RolesHeld, RolesNamed, NamedRoles!Defined
    <2> QED
      BY <1>3, <2>2, RolesStayCounted DEF RoleInv
  <1>7. CASE r \notin NamedRoles!Defined /\ ~NamedRoles!Taken(b.name, r)
    <2>1. rlDef' = [rlDef EXCEPT ![r] = b]
      BY <1>4, <1>7 DEF NamedRoles!CreateRole
    <2>2. rlDef' \in [RoleNames -> NamedRoles!Bundles \cup {NamedRoles!Undefined}] /\ NamedRoles!Defined' = NamedRoles!Defined \cup {r}
      BY <1>5, <2>1, BundleNames DEF RoleInv, RoleTables, NamedRoles!Defined
    <2>5. RolesNamed'
      BY <1>4, <1>5, <1>7, <2>1, RoleNamed
    <2>3. RoleTables' /\ RolesHeld'
      BY <1>1, <1>2, <2>2 DEF RoleInv, RoleTables, RolesHeld
    <2>4. RolesCounted'
      <3>1. IsFiniteSet(NamedRoles!Defined) /\ Cardinality(NamedRoles!Defined) \in Nat
        BY FS_CardinalityType DEF RoleInv, RolesCounted
      <3>2. IsFiniteSet(NamedRoles!Defined \cup {r}) /\ Cardinality(NamedRoles!Defined \cup {r}) = Cardinality(NamedRoles!Defined) + 1
        BY <1>7, <3>1, FS_AddElement
      <3>3. IsFiniteSet(Creating) /\ Cardinality(Creating) \in Nat /\ Cardinality(Handlers) \in Nat
        BY CreatingCounts DEF Creating
      <3>4. Cardinality(Creating \ {h}) = Cardinality(Creating) - 1
        BY <1>1, <3>3, FS_RemoveElement
      <3>5. Cardinality(NamedRoles!Defined \cup {r}) + Cardinality(Creating \ {h}) < MaxRolesPerChat + Cardinality(Handlers)
        BY <3>1, <3>2, <3>3, <3>4, RoleLimit DEF RoleInv, RolesCounted
      <3> QED
        BY <1>3, <2>2, <3>2, <3>5 DEF RolesCounted
    <2> QED
      BY <2>3, <2>4, <2>5 DEF RoleInv
  <1> QED
    BY <1>6, <1>7

LEMMA RoleUpdates == ASSUME RoleInv, NEW h \in Handlers, NamedRoles!UpdateRole(h) PROVE RoleInv'
  <1>1. /\ rlReq' = [rlReq EXCEPT ![h] = NamedRoles!Idle] /\ UNCHANGED <<rlHeld, rlIn, rlWanted>>
        /\ rlDef' = IF rlReq[h].role \in NamedRoles!Defined /\ ~NamedRoles!Taken(rlReq[h].bundle.name, rlReq[h].role)
                    THEN [rlDef EXCEPT ![rlReq[h].role] = rlReq[h].bundle] ELSE rlDef
    BY DEF NamedRoles!UpdateRole, NamedRoles!Rest
  <1>b. rlReq[h].bundle \in NamedRoles!Bundles
    BY DEF NamedRoles!UpdateRole, NamedRoles!In, RoleInv, RoleTables
  <1>2. /\ rlReq' \in [Handlers -> RoleRequest] /\ rlReq'[h].at = "idle"
        /\ \A g \in Handlers : g # h => rlReq'[g] = rlReq[g]
    BY <1>1, RoleIdleShape DEF RoleInv, RoleTables
  <1>3. Creating' \subseteq Creating
    BY <1>2 DEF Creating
  <1>4. rlDef' \in [RoleNames -> NamedRoles!Bundles \cup {NamedRoles!Undefined}] /\ NamedRoles!Defined' = NamedRoles!Defined
    BY <1>1, <1>b, BundleNames DEF RoleInv, RoleTables, NamedRoles!Defined
  <1>5. RoleTables' /\ RolesHeld'
    BY <1>1, <1>2, <1>4 DEF RoleInv, RoleTables, RolesHeld
  <1>6. RolesNamed'
    <2>1. PICK r, b : r = rlReq[h].role /\ b = rlReq[h].bundle
      OBVIOUS
    <2>2. CASE r \in NamedRoles!Defined /\ ~NamedRoles!Taken(b.name, r)
      BY <1>1, <1>b, <2>1, <2>2, RoleNamed DEF NamedRoles!Defined
    <2>3. CASE ~(r \in NamedRoles!Defined /\ ~NamedRoles!Taken(b.name, r))
      <3>1. UNCHANGED rlDef
        BY <1>1, <2>1, <2>3
      <3> QED
        BY <3>1 DEF RoleInv, RolesNamed, NamedRoles!Defined
    <2> QED
      BY <2>2, <2>3
  <1> QED
    BY <1>3, <1>4, <1>5, <1>6, RolesStayCounted DEF RoleInv

LEMMA RoleDeletes == ASSUME RoleInv, NEW h \in Handlers, NamedRoles!DeleteRole(h) PROVE RoleInv'
  <1>1. PICK r : r = rlReq[h].role
    OBVIOUS
  <1>2. /\ rlDef' = [n \in RoleNames |-> IF n = r THEN NamedRoles!Undefined ELSE rlDef[n]]
        /\ rlHeld' = NamedRoles!Without(rlHeld, r) /\ rlWanted' = NamedRoles!Without(rlWanted, r)
    BY <1>1 DEF NamedRoles!DeleteRole
  <1>3. ASSUME NEW g \in Handlers
        PROVE  /\ rlReq'[g] \in RoleRequest
               /\ rlReq'[g].at \in {rlReq[g].at, "idle"}
               /\ rlReq'[g].at # "idle" => rlReq'[g].bundle = rlReq[g].bundle
               /\ rlReq'[g].at = "create" => rlReq'[g] = rlReq[g]
    <2>0. rlReq[g] \in RoleRequest
      BY DEF RoleInv, RoleTables
    <2>1. CASE g = h
      BY <2>1, RoleIdleShape DEF NamedRoles!DeleteRole
    <2>2. CASE g # h /\ rlReq[g].role = r /\ rlReq[g].at # "create"
      <3>1. PICK q : q = [rlReq[g] EXCEPT !.role = Alien]
        OBVIOUS
      <3>2. q \in RoleRequest /\ q.at = rlReq[g].at /\ q.bundle = rlReq[g].bundle
        BY <2>0, <3>1 DEF RoleRequest
      <3>3. rlReq'[g] = q
        BY <1>1, <2>2, <3>1 DEF NamedRoles!DeleteRole
      <3> QED
        BY <2>2, <3>2, <3>3
    <2>3. CASE g # h /\ ~(rlReq[g].role = r /\ rlReq[g].at # "create")
      <3>1. rlReq'[g] = rlReq[g]
        BY <1>1, <2>3 DEF NamedRoles!DeleteRole
      <3> QED
        BY <2>0, <3>1
    <2> QED
      BY <2>1, <2>2, <2>3
  <1>4. rlReq' \in [Handlers -> RoleRequest] /\ Creating' \subseteq Creating
    <2>1. DOMAIN rlReq' = Handlers /\ rlReq' = [g \in Handlers |-> rlReq'[g]]
      BY DEF NamedRoles!DeleteRole
    <2> QED
      BY <1>3, <2>1 DEF Creating
  <1>5. rlDef' \in [RoleNames -> NamedRoles!Bundles \cup {NamedRoles!Undefined}] /\ NamedRoles!Defined' = NamedRoles!Defined \ {r}
    BY <1>2 DEF RoleInv, RoleTables, NamedRoles!Defined
  <1>6. /\ rlHeld' \in [RoleMembers -> RoleNames \cup {Alien, "none"}] /\ rlHeld' = rlWanted'
        /\ \A m \in RoleMembers : rlHeld'[m] \in (NamedRoles!Defined \ {r}) \cup {"none"}
    BY <1>2 DEF NamedRoles!Without, RoleInv, RoleTables, RolesHeld
  <1>7. RoleTables' /\ RolesHeld'
    <2>1. RoleTables'
      BY <1>3, <1>4, <1>5, <1>6 DEF RoleInv, RoleTables
    <2>2. RolesHeld'
      BY <1>5, <1>6 DEF RolesHeld
    <2> QED
      BY <2>1, <2>2
  <1>8. RolesNamed'
    BY <1>2, <1>5 DEF RoleInv, RolesNamed, NamedRoles!Defined
  <1> QED
    BY <1>4, <1>5, <1>7, <1>8, RolesStayCounted DEF RoleInv

LEMMA RoleWrites == ASSUME RoleInv, NEW h \in Handlers, NamedRoles!writeRole(h) PROVE RoleInv'
  <1>1. PICK t, r : t = rlReq[h].target /\ r = rlReq[h].role
    OBVIOUS
  <1>2. /\ rlReq' = [rlReq EXCEPT ![h] = NamedRoles!Idle] /\ UNCHANGED <<rlDef, rlIn>>
        /\ rlHeld' = IF NamedRoles!Assignable(t, r) THEN [rlHeld EXCEPT ![t] = r] ELSE rlHeld
        /\ rlWanted' = IF NamedRoles!Assignable(t, r) THEN [rlWanted EXCEPT ![t] = r] ELSE rlWanted
    BY <1>1 DEF NamedRoles!writeRole, NamedRoles!AssignRole, NamedRoles!Rest
  <1>3. /\ rlReq' \in [Handlers -> RoleRequest] /\ rlReq'[h].at = "idle"
        /\ \A g \in Handlers : g # h => rlReq'[g] = rlReq[g]
    BY <1>2, RoleIdleShape DEF RoleInv, RoleTables
  <1>4. Creating' \subseteq Creating /\ NamedRoles!Defined' = NamedRoles!Defined /\ NamedRoles!Defined \subseteq RoleNames
    BY <1>2, <1>3 DEF Creating, NamedRoles!Defined
  <1>5. /\ rlHeld' \in [RoleMembers -> RoleNames \cup {Alien, "none"}] /\ rlHeld' = rlWanted'
        /\ \A m \in RoleMembers : rlHeld'[m] \in NamedRoles!Defined \cup {"none"}
    BY <1>2, <1>4 DEF NamedRoles!Assignable, RoleInv, RoleTables, RolesHeld
  <1>6. RoleTables' /\ RolesHeld'
    BY <1>2, <1>3, <1>4, <1>5 DEF RoleInv, RoleTables, RolesHeld
  <1>7. RolesNamed'
    BY <1>2, <1>4 DEF RoleInv, RolesNamed
  <1> QED
    BY <1>4, <1>6, <1>7, RolesStayCounted DEF RoleInv

LEMMA RoleNext == ASSUME RoleInv, NamedRoles!Next PROVE RoleInv'
  <1>1. ASSUME NEW m \in RoleMembers, NamedRoles!LeaveOrReturn(m) PROVE RoleInv'
    <2>1. UNCHANGED <<rlDef, rlHeld, rlReq, rlWanted>>
      BY <1>1 DEF NamedRoles!LeaveOrReturn
    <2>2. RoleTables' /\ RolesHeld' /\ RolesNamed' /\ NamedRoles!Defined' = NamedRoles!Defined /\ Creating' = Creating
      BY <2>1 DEF RoleInv, RoleTables, RolesHeld, RolesNamed, NamedRoles!Defined, Creating
    <2> QED
      BY <2>2, RolesStayCounted DEF RoleInv
  <1>2. ASSUME NEW m \in RoleMembers, NEW h \in Handlers, NEW r \in RoleNames, NamedRoles!deleteRole(h, m, r) PROVE RoleInv'
    BY <1>2, RoleAccepts DEF NamedRoles!deleteRole
  <1>3. ASSUME NEW m \in RoleMembers, NEW h \in Handlers, NEW r \in RoleNames, NEW bundle \in NamedRoles!Bundles,
               NamedRoles!createRole(h, m, r, bundle) \/ NamedRoles!updateRole(h, m, r, bundle)
        PROVE  RoleInv'
    BY <1>3, RoleAccepts DEF NamedRoles!createRole, NamedRoles!updateRole
  <1>4. ASSUME NEW m \in RoleMembers, NEW h \in Handlers, NEW target \in RoleMembers,
               NEW r \in RoleNames \cup {Alien, "none"}, NamedRoles!assignRole(h, m, target, r)
        PROVE  RoleInv'
    BY <1>4, RoleAccepts DEF NamedRoles!assignRole
  <1> QED
    BY <1>1, <1>2, <1>3, <1>4, RoleCreates, RoleUpdates, RoleDeletes, RoleWrites DEF NamedRoles!Next

\* For any members, roles and handlers, a member holds the role last given to them, never a deleted
\* one, no two roles have one name, and the limit is passed by no more than the requests that counted
\* together (CreateRole, UpdateRole, AssignRole, DeleteRole).
THEOREM RolesAsGiven == Spec => []HeldAsGiven
  <1> DEFINE Holds == active = "roles" => RoleInv
  <1>1. Init => Holds
    BY RoleInit DEF Init
  <1>2. Holds /\ [Next]_<<active, shared>> => Holds'
    <2> SUFFICES ASSUME active = "roles", RoleInv, [Next]_<<active, shared>> PROVE RoleInv'
      BY OneMoves
    <2>1. CASE NamedRoles!Next
      BY <2>1, RoleNext
    <2>2. CASE UNCHANGED shared
      BY <2>2 DEF shared, RoleInv, RoleTables, RolesHeld, RolesNamed, RolesCounted,
          NamedRoles!Bundles, NamedRoles!Undefined, RoleRequest, NamedRoles!Defined, Creating,
          NamedRoles!Bundle
    <2> QED
      BY <2>1, <2>2, OneMoves
  <1>3. Holds => HeldAsGiven
    BY RoleInvImplies DEF HeldAsGiven
  <1> QED
    BY <1>1, <1>2, <1>3, PTL DEF Spec

-----------------------------------------------------------------------------
(***************************************************************************)
(* News: whoever announces or indexes an article has seen it published,    *)
(* and an article that was published once stays marked as such.            *)
(***************************************************************************)
nwArt == x1
nwViews == x2
nwReader == x3
nwCategory == x4
nwGallery == x5
nwTrans == x6
nwReq == x7
nwJobs == x8
nwIndex == x9
nwMoved == x10
nwClock == x11
USE DEF nwArt, nwViews, nwReader, nwCategory, nwGallery, nwTrans, nwReq, nwJobs, nwIndex, nwMoved, nwClock

\* The component counts with its own copy of Cardinality.
LEMMA NewsCard == \A S : News!Cardinality(S) = Cardinality(S)
  BY DEF News!Cardinality, Cardinality

ArticleRow == [status : News!Statuses, text : Nat, breaking : BOOLEAN, due : BOOLEAN, out : BOOLEAN, views : Nat]

DeskTables ==
    /\ nwArt \in ArticleRow
    /\ nwJobs = [index |-> nwJobs.index, breaking |-> nwJobs.breaking]
    /\ nwClock \in [edit : Nat, day : Nat]
    /\ DOMAIN nwReq = Desks
    /\ \A h \in Desks : nwReq[h] = [at |-> nwReq[h].at, text |-> nwReq[h].text, breaking |-> nwReq[h].breaking,
                                     rows |-> nwReq[h].rows, trans |-> nwReq[h].trans]

AnnouncedWasOut ==
    \/ nwArt.out
    \/ /\ nwArt.status # "published" /\ nwViews = {} /\ nwIndex = 0 /\ nwJobs.index = 0
       /\ \A h \in Desks : nwReq[h].at \notin {"read", "index"}

DeskInv ==
    /\ DeskTables /\ AnnouncedWasOut
    /\ nwMoved = "editor"
    /\ IsFiniteSet(nwViews) /\ nwArt.views = Cardinality(nwViews)

\* A request that has found the article found it published.
ReadersFound ==
    /\ nwReader \in [Readers -> [mark : BOOLEAN, follow : BOOLEAN, reading : BOOLEAN]]
    /\ nwArt.out \/ \A u \in Readers : ~nwReader[u].reading

NewsInv == DeskInv /\ ReadersFound

LEMMA NewsInvImplies == NewsInv => News!OnlyEditorsMoveTheFeed
  BY NewsCard DEF NewsInv, DeskInv, DeskTables, ArticleRow, AnnouncedWasOut, News!OnlyEditorsMoveTheFeed, News!Feed, News!Bookmarks

LEMMA NewsInit == News!Init => NewsInv
  <1> SUFFICES ASSUME News!Init PROVE NewsInv
    OBVIOUS
  <1>1. nwArt \in ArticleRow /\ nwArt.status = "draft" /\ nwArt.views = 0
    BY DEF News!Init, ArticleRow, News!Statuses
  <1>2. DeskTables
    BY <1>1 DEF News!Init, DeskTables, News!Idle
  <1>3. AnnouncedWasOut
    BY <1>1 DEF News!Init, AnnouncedWasOut, News!Idle
  <1>4. ReadersFound
    BY DEF News!Init, ReadersFound
  <1> QED
    BY <1>1, <1>2, <1>3, <1>4, FS_EmptySet DEF News!Init, NewsInv, DeskInv

LEMMA DeskStutters ==
  ASSUME DeskInv, UNCHANGED <<nwArt, nwViews, nwReq, nwJobs, nwIndex, nwMoved, nwClock>>
  PROVE  DeskInv'
  BY DEF DeskInv, DeskTables, AnnouncedWasOut

\* A desk moves: it announces only what was published.
LEMMA DeskMoves ==
  ASSUME DeskInv, NEW h \in Desks, NEW q, nwReq' = [nwReq EXCEPT ![h] = q],
         q = [at |-> q.at, text |-> q.text, breaking |-> q.breaking, rows |-> q.rows, trans |-> q.trans],
         q.at \in {"read", "index"} => nwArt.out,
         UNCHANGED <<nwArt, nwViews, nwJobs, nwIndex, nwMoved, nwClock>>
  PROVE  DeskInv'
  <1>1. DOMAIN nwReq' = Desks /\ nwReq'[h] = q /\ \A g \in Desks : g # h => nwReq'[g] = nwReq[g]
    BY DEF DeskInv, DeskTables
  <1>2. DeskTables'
    BY <1>1 DEF DeskInv, DeskTables
  <1>3. AnnouncedWasOut'
    BY <1>1 DEF DeskInv, AnnouncedWasOut
  <1> QED
    BY <1>2, <1>3 DEF DeskInv

LEMMA DeskIdle ==
  /\ News!Idle = [at |-> News!Idle.at, text |-> News!Idle.text, breaking |-> News!Idle.breaking, rows |-> News!Idle.rows, trans |-> News!Idle.trans]
  /\ News!Idle.at = "idle"
  BY DEF News!Idle

\* The article is written; what was published stays so.
LEMMA ArticleWritten ==
  ASSUME DeskInv, NEW row \in ArticleRow, nwArt' = row, row.views = nwArt.views,
         nwArt.out => row.out, row.status = "published" => row.out,
         UNCHANGED <<nwViews, nwReq, nwJobs, nwIndex, nwMoved>>,
         nwClock' \in [edit : Nat, day : Nat]
  PROVE  DeskInv'
  <1>1. DeskTables'
    BY DEF DeskInv, DeskTables
  <1>2. AnnouncedWasOut'
    BY DEF DeskInv, AnnouncedWasOut
  <1> QED
    BY <1>1, <1>2 DEF DeskInv

\* SetStatus lets an author neither publish nor take out of the feed.
LEMMA StatusSet ==
  ASSUME DeskInv, NEW h \in Desks, NEW who \in News!Staff, NEW status \in News!Statuses, News!setStatus(h, who, status)
  PROVE  DeskInv'
  <1>1. PICK out : out = (nwArt.out \/ status = "published")
    OBVIOUS
  <1>2. out \in BOOLEAN /\ (nwArt.out => out) /\ (status = "published" => out)
    BY <1>1
  <1>3. PICK row : row = [nwArt EXCEPT !.status = status, !.due = FALSE, !.out = out]
    OBVIOUS
  <1>4. nwArt' = row
    BY <1>1, <1>3 DEF News!setStatus, News!SetStatus
  <1>5. nwArt \in ArticleRow
    BY DEF DeskInv, DeskTables
  <1>6. row \in ArticleRow /\ row.status = status /\ row.out = out /\ row.views = nwArt.views
    BY <1>2, <1>3, <1>5 DEF ArticleRow
  <1>7. UNCHANGED <<nwViews, nwJobs, nwIndex, nwClock>>
    BY DEF News!setStatus
  <1>8. nwMoved' = "editor"
    <2>1. CASE who = "editor"
      BY <2>1 DEF News!setStatus, DeskInv
    <2>2. CASE who # "editor"
      <3>1. status \notin News!publishStates
        BY <2>2 DEF News!setStatus, News!Permitted
      <3>2. status = "draft" \/ status = "review"
        BY <3>1 DEF News!Statuses, News!publishStates
      <3>3. nwArt.status # "published"
        BY <3>2 DEF News!setStatus, News!SetStatus, News!AllowedFrom, News!transitions
      <3> QED
        BY <3>2, <3>3 DEF News!setStatus, DeskInv
    <2> QED
      BY <2>1, <2>2
  <1>9. PICK q : q = [nwReq[h] EXCEPT !.at = "read"]
    OBVIOUS
  <1>10. q = [at |-> "read", text |-> q.text, breaking |-> q.breaking, rows |-> q.rows, trans |-> q.trans]
    BY <1>9 DEF DeskInv, DeskTables
  <1>11. CASE status = "published"
    <2>1. nwReq' = [nwReq EXCEPT ![h] = q]
      BY <1>9, <1>11 DEF News!setStatus
    <2>2. DOMAIN nwReq' = Desks /\ nwReq'[h] = q /\ \A g \in Desks : g # h => nwReq'[g] = nwReq[g]
      BY <2>1 DEF DeskInv, DeskTables
    <2>3. DeskTables'
      BY <1>4, <1>6, <1>7, <1>10, <2>2 DEF DeskInv, DeskTables
    <2>4. AnnouncedWasOut'
      BY <1>2, <1>4, <1>6, <1>11 DEF AnnouncedWasOut
    <2> QED
      BY <1>4, <1>6, <1>7, <1>8, <2>3, <2>4 DEF DeskInv
  <1>12. CASE status # "published"
    <2>1. UNCHANGED nwReq
      BY <1>12 DEF News!setStatus
    <2>2. DeskTables'
      BY <1>4, <1>6, <1>7, <2>1 DEF DeskInv, DeskTables
    <2>3. AnnouncedWasOut'
      BY <1>2, <1>4, <1>6, <1>7, <1>12, <2>1 DEF DeskInv, AnnouncedWasOut
    <2> QED
      BY <1>4, <1>6, <1>7, <1>8, <2>2, <2>3 DEF DeskInv
  <1> QED
    BY <1>11, <1>12

LEMMA Announced ==
  ASSUME DeskInv, NEW h \in Desks, News!announcePublication(h)
  PROVE  DeskInv'
  <1>1. UNCHANGED <<nwArt, nwViews, nwIndex, nwMoved, nwClock>>
    BY DEF News!announcePublication
  <1>2. PICK k \in [index : {nwJobs.index, nwReq[h].text}, breaking : {nwJobs.breaking, nwReq[h].text}] :
           nwJobs' = k /\ (k.index = nwJobs.index \/ nwReq[h].at = "index")
    <2>1. nwJobs = [index |-> nwJobs.index, breaking |-> nwJobs.breaking]
      BY DEF DeskInv, DeskTables
    <2>2. CASE News!In(h, "index")
      BY <2>1, <2>2 DEF News!announcePublication, News!In
    <2>3. CASE News!In(h, "announce")
      BY <2>1, <2>3 DEF News!announcePublication, News!In
    <2> QED
      BY <2>2, <2>3 DEF News!announcePublication
  <1>3. PICK q : /\ nwReq' = [nwReq EXCEPT ![h] = q] /\ q.at \in {"idle", "announce"}
                 /\ q = [at |-> q.at, text |-> q.text, breaking |-> q.breaking, rows |-> q.rows, trans |-> q.trans]
    <2>1. PICK m : m = [nwReq[h] EXCEPT !.at = "announce"]
      OBVIOUS
    <2>2. m = [at |-> "announce", text |-> m.text, breaking |-> m.breaking, rows |-> m.rows, trans |-> m.trans]
      BY <2>1 DEF DeskInv, DeskTables
    <2>3. nwReq' = [nwReq EXCEPT ![h] = m] \/ nwReq' = [nwReq EXCEPT ![h] = News!Idle]
      BY <2>1 DEF News!announcePublication, News!Done
    <2> QED
      BY <2>2, <2>3, DeskIdle
  <1>4. DOMAIN nwReq' = Desks /\ nwReq'[h] = q /\ \A g \in Desks : g # h => nwReq'[g] = nwReq[g]
    BY <1>3 DEF DeskInv, DeskTables
  <1>5. nwJobs' = [index |-> nwJobs'.index, breaking |-> nwJobs'.breaking] /\ nwJobs'.index = k.index
    BY <1>2
  <1>6. DeskTables'
    BY <1>1, <1>3, <1>4, <1>5 DEF DeskInv, DeskTables
  <1>7. AnnouncedWasOut'
    BY <1>1, <1>2, <1>3, <1>4, <1>5 DEF DeskInv, AnnouncedWasOut
  <1> QED
    BY <1>1, <1>6, <1>7 DEF DeskInv

LEMMA DeskNext == ASSUME DeskInv, ReadersFound, News!Next PROVE DeskInv'
  <1>0. nwArt \in ArticleRow /\ nwClock \in [edit : Nat, day : Nat]
    BY DEF DeskInv, DeskTables
  <1>1. ASSUME NEW b \in BOOLEAN, News!saveArticle(b) PROVE DeskInv'
    <2>0. PICK n \in Nat : n = nwClock.edit + 1
      BY <1>0
    <2>1. PICK row : row = [nwArt EXCEPT !.text = n, !.breaking = b]
      OBVIOUS
    <2>2. row \in ArticleRow /\ row.views = nwArt.views /\ row.out = nwArt.out /\ row.status = nwArt.status
      BY <1>0, <2>1 DEF ArticleRow
    <2>3. nwArt' = row /\ nwClock' = [nwClock EXCEPT !.edit = nwClock.edit + 1]
          /\ UNCHANGED <<nwViews, nwReq, nwJobs, nwIndex, nwMoved>>
      BY <1>1, <2>0, <2>1 DEF News!saveArticle, News!Save
    <2>4. nwClock' \in [edit : Nat, day : Nat]
      BY <1>0, <2>3
    <2>5. nwArt.status = "published" => nwArt.out
      BY DEF DeskInv, AnnouncedWasOut
    <2> QED
      BY <2>2, <2>3, <2>4, <2>5, ArticleWritten
  <1>2. ASSUME NEW h \in Desks, News!ByID(h) PROVE DeskInv'
    <2>1. PICK r, q : r = nwReq[h] /\ q = [r EXCEPT !.at = "index", !.text = nwArt.text, !.breaking = nwArt.breaking]
      OBVIOUS
    <2>0. r = [at |-> r.at, text |-> r.text, breaking |-> r.breaking, rows |-> r.rows, trans |-> r.trans]
      BY <2>1 DEF DeskInv, DeskTables
    <2>b. q = [at |-> "index", text |-> nwArt.text, breaking |-> nwArt.breaking, rows |-> r.rows, trans |-> r.trans]
      BY <2>1, <2>0
    <2>2. q.at = "index" /\ q = [at |-> q.at, text |-> q.text, breaking |-> q.breaking, rows |-> q.rows, trans |-> q.trans]
      BY <2>b
    <2>3. nwArt.out
      BY <1>2 DEF News!ByID, News!In, DeskInv, AnnouncedWasOut
    <2> QED
      BY <1>2, <2>1, <2>2, <2>3, DeskMoves DEF News!ByID
  <1>3. ASSUME NEW h \in Desks, News!Abandon(h) PROVE DeskInv'
    BY <1>3, DeskIdle, DeskMoves DEF News!Abandon, News!Done
  <1>4. ASSUME NEW h \in Desks, News!ClearGallery(h) PROVE DeskInv'
    <2>1. PICK r, q : r = nwReq[h] /\ q = [r EXCEPT !.at = "gallery", !.rows = nwGallery]
      OBVIOUS
    <2>0. r = [at |-> r.at, text |-> r.text, breaking |-> r.breaking, rows |-> r.rows, trans |-> r.trans]
      BY <2>1 DEF DeskInv, DeskTables
    <2>b. q = [at |-> "gallery", text |-> r.text, breaking |-> r.breaking, rows |-> nwGallery, trans |-> r.trans]
      BY <2>1, <2>0
    <2>2. q.at = "gallery" /\ q = [at |-> q.at, text |-> q.text, breaking |-> q.breaking, rows |-> q.rows, trans |-> q.trans]
      BY <2>b
    <2> QED
      BY <1>4, <2>1, <2>2, DeskMoves DEF News!ClearGallery
  <1>5. ASSUME NEW h \in Desks, NEW items, News!ReplaceGallery(h, items) PROVE DeskInv'
    BY <1>5, DeskIdle, DeskMoves DEF News!ReplaceGallery, News!Done
  <1>6. ASSUME NEW h \in Desks, News!Translation(h) PROVE DeskInv'
    <2>1. PICK r, q : r = nwReq[h] /\ q = [r EXCEPT !.at = "approve", !.trans = nwTrans]
      OBVIOUS
    <2>0. r = [at |-> r.at, text |-> r.text, breaking |-> r.breaking, rows |-> r.rows, trans |-> r.trans]
      BY <2>1 DEF DeskInv, DeskTables
    <2>b. q = [at |-> "approve", text |-> r.text, breaking |-> r.breaking, rows |-> r.rows, trans |-> nwTrans]
      BY <2>1, <2>0
    <2>2. q.at = "approve" /\ q = [at |-> q.at, text |-> q.text, breaking |-> q.breaking, rows |-> q.rows, trans |-> q.trans]
      BY <2>b
    <2> QED
      BY <1>6, <2>1, <2>2, DeskMoves DEF News!Translation
  <1>7. ASSUME NEW h \in Desks, News!ApproveTranslation(h) PROVE DeskInv'
    BY <1>7, DeskIdle, DeskMoves DEF News!ApproveTranslation, News!Done
  <1>8. CASE News!handleSearchIndexing
    BY <1>8 DEF News!handleSearchIndexing, DeskInv, DeskTables, AnnouncedWasOut
  <1>9. CASE News!Due
    <2>1. PICK row : row = [nwArt EXCEPT !.due = TRUE]
      OBVIOUS
    <2>2. row \in ArticleRow /\ row.views = nwArt.views /\ row.out = nwArt.out /\ row.status = nwArt.status
      BY <1>0, <2>1 DEF ArticleRow
    <2>3. nwArt' = row /\ UNCHANGED <<nwViews, nwReq, nwJobs, nwIndex, nwMoved, nwClock>>
      BY <1>9, <2>1 DEF News!Due
    <2>4. nwArt.status # "published"
      BY <1>9 DEF News!Due
    <2> QED
      BY <1>0, <2>2, <2>3, <2>4, ArticleWritten
  <1>10. CASE News!publishScheduledArticles
    <2>1. PICK row : row = [nwArt EXCEPT !.status = "published", !.out = TRUE]
      OBVIOUS
    <2>2. row \in ArticleRow /\ row.views = nwArt.views /\ row.out = TRUE
      BY <1>0, <2>1 DEF ArticleRow, News!Statuses
    <2>3. nwArt' = row /\ UNCHANGED <<nwViews, nwReq, nwJobs, nwIndex, nwMoved, nwClock>>
      BY <1>10, <2>1 DEF News!publishScheduledArticles, DeskInv
    <2> QED
      BY <1>0, <2>2, <2>3, ArticleWritten
  <1>11. ASSUME NEW u \in Readers, News!recordView(u) PROVE DeskInv'
    <2>1. nwArt.out /\ UNCHANGED <<nwReq, nwJobs, nwIndex, nwMoved, nwClock>>
      BY <1>11 DEF News!recordView, ReadersFound
    <2>2. PICK v : v = <<u, nwClock.day>>
      OBVIOUS
    <2>3. CASE UNCHANGED <<nwArt, nwViews>>
      BY <2>1, <2>3, DeskStutters
    <2>4. CASE News!RecordView(v) /\ v \in nwViews
      <3>1. nwViews' = nwViews /\ nwArt' = nwArt
        BY <2>4 DEF News!RecordView, News!Inserted
      <3> QED
        BY <2>1, <3>1, DeskStutters
    <2>5. CASE News!RecordView(v) /\ v \notin nwViews
      <3>1. PICK row : row = [nwArt EXCEPT !.views = nwArt.views + 1]
        OBVIOUS
      <3>2. row \in ArticleRow /\ row.views = nwArt.views + 1 /\ row.out = nwArt.out
        BY <1>0, <3>1 DEF ArticleRow
      <3>3. nwArt' = row /\ nwViews' = nwViews \cup {v}
        BY <2>5, <3>1 DEF News!RecordView, News!Inserted
      <3>4. IsFiniteSet(nwViews \cup {v}) /\ Cardinality(nwViews \cup {v}) = Cardinality(nwViews) + 1
        BY <2>5, FS_AddElement DEF DeskInv
      <3>5. DeskTables'
        BY <2>1, <3>2, <3>3 DEF DeskInv, DeskTables
      <3>6. AnnouncedWasOut'
        BY <2>1, <3>2, <3>3 DEF AnnouncedWasOut
      <3> QED
        BY <2>1, <3>2, <3>3, <3>4, <3>5, <3>6 DEF DeskInv
    <2> QED
      BY <1>11, <2>2, <2>3, <2>4, <2>5 DEF News!recordView
  <1>17. ASSUME NEW u \in Readers, News!article(u) PROVE DeskInv'
    BY <1>17, DeskStutters DEF News!article
  <1>12. ASSUME NEW u \in Readers, NEW on \in BOOLEAN, News!bookmark(u, on) \/ News!setFollow(u, on) PROVE DeskInv'
    BY <1>12, DeskStutters DEF News!bookmark, News!setFollow
  <1>13. ASSUME NEW source, News!saveTranslation(source) PROVE DeskInv'
    BY <1>13, DeskStutters DEF News!saveTranslation
  <1>14. CASE News!DeleteTranslation \/ News!category
    BY <1>14, DeskStutters DEF News!DeleteTranslation, News!category
  <1>15. CASE News!NextDay
    <2>1. /\ nwClock' = [nwClock EXCEPT !.day = nwClock.day + 1]
          /\ UNCHANGED <<nwArt, nwViews, nwReq, nwJobs, nwIndex, nwMoved>>
      BY <1>15 DEF News!NextDay
    <2>2. nwClock' \in [edit : Nat, day : Nat]
      BY <1>0, <2>1
    <2> QED
      BY <2>1, <2>2 DEF DeskInv, DeskTables, AnnouncedWasOut
  <1>16. ASSUME NEW h \in Desks, News!replaceGallery(h) PROVE DeskInv'
    BY <1>4, <1>5, <1>16 DEF News!replaceGallery
  <1> QED
    BY <1>1, <1>2, <1>3, <1>6, <1>7, <1>8, <1>9, <1>10, <1>11, <1>12, <1>13, <1>14, <1>15, <1>16, <1>17, StatusSet, Announced
       DEF News!Next

\* What was published once stays so marked.
LEMMA OutStays ==
  ASSUME DeskInv, News!Next, nwArt.out
  PROVE  nwArt'.out
  <1>1. nwArt \in ArticleRow
    BY DEF DeskInv, DeskTables
  <1>2. CASE UNCHANGED nwArt
    BY <1>2
  <1>3. ASSUME NEW text, NEW breaking, News!Save(text, breaking) PROVE nwArt'.out
    BY <1>1, <1>3 DEF News!Save, ArticleRow
  <1>4. ASSUME NEW status, News!SetStatus(status) PROVE nwArt'.out
    <2>1. nwArt' = [nwArt EXCEPT !.status = status, !.due = FALSE, !.out = TRUE]
      BY <1>1, <1>4 DEF News!SetStatus, ArticleRow
    <2> QED
      BY <1>1, <2>1 DEF ArticleRow
  <1>5. CASE nwArt' = [nwArt EXCEPT !.due = TRUE] \/ nwArt' = [nwArt EXCEPT !.status = "published", !.out = TRUE]
    BY <1>1, <1>5 DEF ArticleRow
  <1>6. ASSUME NEW v, News!RecordView(v) PROVE nwArt'.out
    BY <1>1, <1>6 DEF News!RecordView, ArticleRow
  <1> QED
    BY <1>2, <1>3, <1>4, <1>5, <1>6
       DEF News!Next, News!saveArticle, News!setStatus, News!ByID, News!announcePublication, News!Abandon, News!replaceGallery, News!ClearGallery,
           News!ReplaceGallery, News!Translation, News!ApproveTranslation, News!handleSearchIndexing, News!Due, News!publishScheduledArticles,
           News!saveTranslation, News!DeleteTranslation, News!category, News!NextDay, News!article, News!recordView, News!bookmark, News!setFollow

LEMMA ReadersNext ==
  ASSUME DeskInv, ReadersFound, News!Next
  PROVE  ReadersFound'
  <1> DEFINE Row == [mark : BOOLEAN, follow : BOOLEAN, reading : BOOLEAN]
  <1>1. nwReader \in [Readers -> Row]
    BY DEF ReadersFound
  <1>2. CASE UNCHANGED nwReader
    BY <1>2, OutStays DEF ReadersFound
  <1>3. ASSUME NEW u \in Readers, NEW row \in Row, nwReader' = [nwReader EXCEPT ![u] = row],
               row.reading => nwReader[u].reading \/ nwArt.out
        PROVE  ReadersFound'
    BY <1>1, <1>3, OutStays DEF ReadersFound
  <1>4. ASSUME NEW u \in Readers, News!article(u) PROVE ReadersFound'
    <2>1. PICK row : row = [nwReader[u] EXCEPT !.reading = TRUE]
      OBVIOUS
    <2>2. row \in Row /\ nwReader' = [nwReader EXCEPT ![u] = row]
      BY <1>1, <1>4, <2>1 DEF News!article
    <2>3. nwArt.out
      BY <1>4 DEF News!article, News!BySlug, DeskInv, AnnouncedWasOut
    <2> QED
      BY <1>3, <2>2, <2>3
  <1>5. ASSUME NEW u \in Readers, News!recordView(u) PROVE ReadersFound'
    <2>1. PICK row : row = [nwReader[u] EXCEPT !.reading = FALSE]
      OBVIOUS
    <2>2. row \in Row /\ ~row.reading /\ nwReader' = [nwReader EXCEPT ![u] = row]
      BY <1>1, <1>5, <2>1 DEF News!recordView
    <2> QED
      BY <1>3, <2>2
  <1>6. ASSUME NEW u \in Readers, NEW on \in BOOLEAN, News!bookmark(u, on) PROVE ReadersFound'
    <2>1. PICK row : row = [nwReader[u] EXCEPT !.mark = on]
      OBVIOUS
    <2>2. row \in Row /\ row.reading = nwReader[u].reading /\ nwReader' = [nwReader EXCEPT ![u] = row]
      BY <1>1, <1>6, <2>1 DEF News!bookmark, News!SetBookmark
    <2> QED
      BY <1>3, <2>2
  <1>7. ASSUME NEW u \in Readers, NEW on \in BOOLEAN, News!setFollow(u, on) PROVE ReadersFound'
    <2>1. PICK row : row = [nwReader[u] EXCEPT !.follow = on]
      OBVIOUS
    <2>2. row \in Row /\ row.reading = nwReader[u].reading /\ nwReader' = [nwReader EXCEPT ![u] = row]
      BY <1>1, <1>7, <2>1 DEF News!setFollow, News!SetFollow
    <2> QED
      BY <1>3, <2>2
  <1> QED
    BY <1>2, <1>4, <1>5, <1>6, <1>7
       DEF News!Next, News!saveArticle, News!setStatus, News!ByID, News!announcePublication, News!Abandon, News!replaceGallery, News!ClearGallery,
           News!ReplaceGallery, News!Translation, News!ApproveTranslation, News!handleSearchIndexing, News!Due, News!publishScheduledArticles,
           News!saveTranslation, News!DeleteTranslation, News!category, News!NextDay

LEMMA NewsNext == ASSUME NewsInv, News!Next PROVE NewsInv'
  BY DeskNext, ReadersNext DEF NewsInv

LEMMA NewsStutters ==
  ASSUME NewsInv, UNCHANGED <<nwArt, nwViews, nwReader, nwReq, nwJobs, nwIndex, nwMoved, nwClock>>
  PROVE  NewsInv'
  BY DeskStutters DEF NewsInv, ReadersFound

\* For any number of edits, readers and days, only an editor's decision moves an article into or out
\* of the feed, and views count readers once a day (SetStatus, publishScheduledArticles, RecordView).
THEOREM FeedIsEditorial == Spec => []OnlyEditorsMoveTheFeed
  <1> DEFINE Holds == active = "news" => NewsInv
  <1>1. Init => Holds
    BY NewsInit DEF Init
  <1>2. Holds /\ [Next]_<<active, shared>> => Holds'
    <2> SUFFICES ASSUME active = "news", NewsInv, [Next]_<<active, shared>> PROVE NewsInv'
      BY OneMoves
    <2>1. CASE News!Next
      BY <2>1, NewsNext
    <2>2. CASE UNCHANGED shared
      BY <2>2, NewsStutters DEF shared
    <2> QED
      BY <2>1, <2>2, OneMoves
  <1>3. Holds => OnlyEditorsMoveTheFeed
    BY NewsInvImplies DEF OnlyEditorsMoveTheFeed
  <1> QED
    BY <1>1, <1>2, <1>3, PTL DEF Spec

-----------------------------------------------------------------------------
(***************************************************************************)
(* Bots: a row that is not committed is held by one request, and of what   *)
(* waits nothing up to an update the bot was given is unknown to it, other *)
(* than what was committed after that update was handed over.              *)
(***************************************************************************)
buBot == x1
buRow == x2
buReq == x3
buShown == x4
buOver == x5
buKeys == x6
buTap == x7
buAsk == x8
buAlien == x9
USE DEF buBot, buRow, buReq, buShown, buOver, buKeys, buTap, buAsk, buAlien

\* The component counts with its own copy of Cardinality.
LEMMA BotsCard == \A S : Bots!Cardinality(S) = Cardinality(S)
  BY DEF Bots!Cardinality, Cardinality

Counted == {"pending", "done", "trimmed"}
LaterCounted(i) == {j \in Bots!Ids : j > i /\ buRow[j] \in Counted}

UpdateTables ==
    /\ buRow \in [Bots!Ids -> {"none", "open", "void"} \cup Counted]
    /\ buShown \subseteq Bots!Ids
    /\ buReq \in [Handlers -> [at : {"idle", "enqueue", "commit"}, id : Nat]]

RowsAreHeld ==
    \A h \in Handlers : Bots!In(h, "commit") =>
       /\ buReq[h].id \in Bots!Ids /\ buRow[buReq[h].id] = "open"
       /\ \A g \in Handlers : Bots!In(g, "commit") /\ buReq[g].id = buReq[h].id => g = h

ShownInOrder ==
    \A i \in Bots!Ids, j \in buShown : buRow[i] = "pending" /\ i <= j => i \in buShown \cup buOver

TrimmedIsOld == \A i \in Bots!Ids : buRow[i] = "trimmed" => Cardinality(LaterCounted(i)) >= UpdateBacklog

DoneWasShown == \A i \in Bots!Ids : buRow[i] = "done" => i \in buShown \cup buOver

BotInv == UpdateTables /\ RowsAreHeld /\ ShownInOrder /\ TrimmedIsOld /\ DoneWasShown

LEMMA BotInvImplies == BotInv => Bots!UpdatesReachTheBot
  BY BotsCard DEF BotInv, TrimmedIsOld, DoneWasShown, LaterCounted, Counted, Bots!UpdatesReachTheBot

LEMMA BotInit == Bots!Init => BotInv
  BY DEF Bots!Init, BotInv, UpdateTables, RowsAreHeld, ShownInOrder, TrimmedIsOld, DoneWasShown, Counted, Bots!Idle, Bots!In

\* Counting one set of identifiers within another.
LEMMA FewerUpdates ==
  ASSUME NEW S \in SUBSET Bots!Ids, NEW T \in SUBSET S
  PROVE  Cardinality(T) <= Cardinality(S) /\ Cardinality(S) \in Nat /\ Cardinality(T) \in Nat
  <1>1. IsFiniteSet(Bots!Ids)
    BY UpdateBounds, FS_Interval DEF Bots!Ids
  <1>2. IsFiniteSet(S)
    BY <1>1, FS_Subset
  <1> QED
    BY <1>2, FS_Subset, FS_CardinalityType

\* Trimmed rows stay old as long as no row that counts ceases to.
LEMMA StaysOld ==
  ASSUME TrimmedIsOld, \A j \in Bots!Ids : buRow[j] \in Counted => buRow'[j] \in Counted
  PROVE  \A i \in Bots!Ids : buRow[i] = "trimmed" => Cardinality(LaterCounted(i)') >= UpdateBacklog
  <1> SUFFICES ASSUME NEW i \in Bots!Ids, buRow[i] = "trimmed" PROVE Cardinality(LaterCounted(i)') >= UpdateBacklog
    OBVIOUS
  <1>1. LaterCounted(i) \subseteq LaterCounted(i)' /\ LaterCounted(i)' \subseteq Bots!Ids
    BY DEF LaterCounted
  <1>2. Cardinality(LaterCounted(i)) <= Cardinality(LaterCounted(i)') /\ Cardinality(LaterCounted(i)) \in Nat /\ Cardinality(LaterCounted(i)') \in Nat
    BY <1>1, FewerUpdates
  <1> QED
    BY <1>2, UpdateBounds DEF TrimmedIsOld

\* A step that moves requests only, none of them to a row.
LEMMA BotIdles ==
  ASSUME BotInv, UNCHANGED <<buRow, buShown, buOver>>,
         buReq' \in [Handlers -> [at : {"idle", "enqueue", "commit"}, id : Nat]],
         \A h \in Handlers : buReq'[h].at = "commit" => buReq'[h] = buReq[h]
  PROVE  BotInv'
  <1>1. UpdateTables'
    BY DEF BotInv, UpdateTables
  <1>2. RowsAreHeld'
    BY DEF BotInv, RowsAreHeld, Bots!In
  <1>3. ShownInOrder' /\ DoneWasShown'
    BY DEF BotInv, ShownInOrder, DoneWasShown
  <1>4. TrimmedIsOld'
    BY StaysOld DEF BotInv, TrimmedIsOld
  <1> QED
    BY <1>1, <1>2, <1>3, <1>4 DEF BotInv

LEMMA BotStutters ==
  ASSUME BotInv, UNCHANGED <<buRow, buReq, buShown, buOver>>
  PROVE  BotInv'
  BY BotIdles DEF BotInv, UpdateTables

\* Something has happened that the bot is to be told.
LEMMA BotIsTold ==
  ASSUME BotInv, NEW h \in Handlers, buReq' = [buReq EXCEPT ![h].at = "enqueue"], UNCHANGED <<buRow, buShown, buOver>>
  PROVE  BotInv'
  <1>1. buReq[h] \in [at : {"idle", "enqueue", "commit"}, id : Nat]
    BY DEF BotInv, UpdateTables
  <1>2. PICK q : q = [buReq[h] EXCEPT !.at = "enqueue"]
    OBVIOUS
  <1>3. q \in [at : {"idle", "enqueue", "commit"}, id : Nat] /\ q.at = "enqueue"
    BY <1>1, <1>2
  <1>4. buReq' = [buReq EXCEPT ![h] = q]
    BY <1>2
  <1>5. buReq' \in [Handlers -> [at : {"idle", "enqueue", "commit"}, id : Nat]]
        /\ \A g \in Handlers : buReq'[g].at = "commit" => buReq'[g] = buReq[g]
    BY <1>3, <1>4 DEF BotInv, UpdateTables
  <1> QED
    BY <1>5, BotIdles

LEMMA UpdateDrawn ==
  ASSUME BotInv, NEW h \in Handlers, Bots!enqueueUpdate(h)
  PROVE  BotInv'
  <1>1. PICK i \in Bots!Ids : /\ buRow[i] = "none" /\ buRow' = [buRow EXCEPT ![i] = "open"]
                              /\ buReq' = [buReq EXCEPT ![h] = [at |-> "commit", id |-> i]]
    <2>1. Bots!Rows("none") \subseteq Bots!Ids /\ Bots!Ids \subseteq Nat /\ Bots!Rows("none") # {}
      BY UpdateBounds DEF Bots!Rows, Bots!Ids, Bots!enqueueUpdate
    <2>2. \E x \in Bots!Rows("none") : \A y \in Bots!Rows("none") : x <= y
      BY <2>1, LeastNumber
    <2>3. Bots!Min(Bots!Rows("none")) \in Bots!Rows("none")
      BY <2>2 DEF Bots!Min
    <2> QED
      BY <2>3 DEF Bots!enqueueUpdate, Bots!Rows
  <1>2. UNCHANGED <<buShown, buOver>>
    BY DEF Bots!enqueueUpdate
  <1>3. /\ buRow' \in [Bots!Ids -> {"none", "open", "void"} \cup Counted] /\ buRow'[i] = "open"
        /\ \A j \in Bots!Ids : j # i => buRow'[j] = buRow[j]
    BY <1>1 DEF BotInv, UpdateTables
  <1>4. i \in Nat
    BY UpdateBounds DEF Bots!Ids
  <1>5. /\ buReq' \in [Handlers -> [at : {"idle", "enqueue", "commit"}, id : Nat]]
        /\ buReq'[h] = [at |-> "commit", id |-> i] /\ \A g \in Handlers : g # h => buReq'[g] = buReq[g]
    BY <1>1, <1>4 DEF BotInv, UpdateTables
  <1>6. UpdateTables'
    BY <1>2, <1>3, <1>5 DEF BotInv, UpdateTables
  <1>7. RowsAreHeld'
    <2>1. \A g \in Handlers : Bots!In(g, "commit") => buReq[g].id # i
      BY <1>1 DEF BotInv, RowsAreHeld
    <2> QED
      BY <1>3, <1>5, <2>1 DEF BotInv, RowsAreHeld, Bots!In
  <1>8. ShownInOrder' /\ DoneWasShown'
    BY <1>2, <1>3 DEF BotInv, ShownInOrder, DoneWasShown
  <1>9. TrimmedIsOld'
    BY <1>1, <1>3, StaysOld DEF BotInv, TrimmedIsOld, Counted
  <1> QED
    BY <1>6, <1>7, <1>8, <1>9 DEF BotInv

\* The row is committed: what the backlog pushes out has UpdateBacklog rows after it.
LEMMA UpdateCommitted ==
  ASSUME BotInv, NEW h \in Handlers, Bots!Enqueue(h)
  PROVE  BotInv'
  <1>1. PICK i, pending, old : i = buReq[h].id /\ pending = Bots!Rows("pending") \cup {i} /\ old = Bots!Oldest(pending)
    OBVIOUS
  <1>2. Bots!In(h, "commit") /\ i \in Bots!Ids /\ buRow[i] = "open"
    BY <1>1 DEF Bots!Enqueue, BotInv, RowsAreHeld
  <1>3. /\ buRow' = [j \in Bots!Ids |-> IF j \in old THEN "trimmed" ELSE IF j = i THEN "pending" ELSE buRow[j]]
        /\ buOver' = (IF \E j \in buShown : j > i THEN buOver \cup {i} ELSE buOver)
        /\ buReq' = [buReq EXCEPT ![h] = Bots!Idle] /\ UNCHANGED buShown
    BY <1>1 DEF Bots!Enqueue
  <1>4. pending \subseteq Bots!Ids /\ old \subseteq pending
    BY <1>1, <1>2 DEF Bots!Rows, Bots!Oldest
  <1>5. \A j \in pending : buRow'[j] \in {"pending", "trimmed"}
    BY <1>1, <1>3, <1>4 DEF Bots!Rows
  <1>6. \A j \in Bots!Ids : buRow[j] \in Counted => buRow'[j] \in Counted
    BY <1>2, <1>3 DEF Counted
  <1>7. buReq' \in [Handlers -> [at : {"idle", "enqueue", "commit"}, id : Nat]]
        /\ buReq'[h].at = "idle" /\ \A g \in Handlers : g # h => buReq'[g] = buReq[g]
    BY <1>3 DEF BotInv, UpdateTables, Bots!Idle
  <1>8. UpdateTables'
    <2>1. buRow' \in [Bots!Ids -> {"none", "open", "void"} \cup Counted]
      BY <1>3 DEF BotInv, UpdateTables, Counted
    <2> QED
      BY <1>3, <1>7, <2>1 DEF BotInv, UpdateTables
  <1>9. RowsAreHeld'
    <2>1. \A j \in Bots!Ids : buRow[j] = "open" /\ j # i => buRow'[j] = "open"
      BY <1>1, <1>3, <1>4 DEF Bots!Rows
    <2>2. \A g \in Handlers : Bots!In(g, "commit")' => g # h /\ Bots!In(g, "commit") /\ buReq'[g] = buReq[g]
      BY <1>7 DEF Bots!In
    <2>3. \A g \in Handlers : Bots!In(g, "commit") /\ g # h => buReq[g].id # i
      BY <1>1, <1>2 DEF BotInv, RowsAreHeld
    <2> QED
      BY <2>1, <2>2, <2>3 DEF BotInv, RowsAreHeld
  <1>10. TrimmedIsOld'
    <2> SUFFICES ASSUME NEW j \in Bots!Ids, buRow'[j] = "trimmed" PROVE Cardinality(LaterCounted(j)') >= UpdateBacklog
      BY DEF TrimmedIsOld
    <2>1. CASE j \in old
      <3>1. PICK later : later = {k \in pending : k > j}
        OBVIOUS
      <3>2. Cardinality(later) >= UpdateBacklog
        BY <1>1, <2>1, <3>1, BotsCard DEF Bots!Oldest
      <3>3. later \subseteq LaterCounted(j)' /\ LaterCounted(j)' \subseteq Bots!Ids
        BY <1>4, <1>5, <3>1 DEF LaterCounted, Counted
      <3>4. Cardinality(later) <= Cardinality(LaterCounted(j)') /\ Cardinality(later) \in Nat /\ Cardinality(LaterCounted(j)') \in Nat
        BY <3>3, FewerUpdates
      <3> QED
        BY <3>2, <3>4, UpdateBounds
    <2>2. CASE j \notin old
      <3>1. buRow[j] = "trimmed"
        BY <1>3, <2>2
      <3> QED
        BY <1>6, <3>1, StaysOld DEF BotInv
    <2> QED
      BY <2>1, <2>2
  <1>11. DoneWasShown'
    BY <1>3 DEF BotInv, DoneWasShown
  <1>12. ShownInOrder'
    <2> SUFFICES ASSUME NEW k \in Bots!Ids, NEW j \in buShown, buRow'[k] = "pending", k <= j PROVE k \in buShown \cup buOver'
      BY <1>3 DEF ShownInOrder
    <2>1. CASE k = i
      <3>1. k = j \/ j > i
        BY <2>1, UpdateBounds DEF BotInv, UpdateTables, Bots!Ids
      <3> QED
        BY <1>3, <2>1, <3>1
    <2>2. CASE k # i
      BY <1>3, <2>2 DEF BotInv, ShownInOrder
    <2> QED
      BY <2>1, <2>2
  <1> QED
    BY <1>8, <1>9, <1>10, <1>11, <1>12 DEF BotInv

LEMMA EnqueueFailed ==
  ASSUME BotInv, NEW h \in Handlers, Bots!Fails(h)
  PROVE  BotInv'
  <1>1. /\ buReq' \in [Handlers -> [at : {"idle", "enqueue", "commit"}, id : Nat]]
        /\ buReq'[h].at = "idle" /\ \A g \in Handlers : g # h => buReq'[g] = buReq[g]
    BY DEF Bots!Fails, BotInv, UpdateTables, Bots!Idle
  <1>2. UNCHANGED <<buShown, buOver>>
    BY DEF Bots!Fails
  <1>3. CASE ~ Bots!In(h, "commit")
    <2>1. UNCHANGED buRow
      BY <1>3 DEF Bots!Fails
    <2> QED
      BY <1>1, <1>2, <2>1, BotIdles
  <1>4. CASE Bots!In(h, "commit")
    <2>1. PICK i \in Bots!Ids : i = buReq[h].id /\ buRow[i] = "open" /\ buRow' = [buRow EXCEPT ![i] = "void"]
      BY <1>4 DEF Bots!Fails, BotInv, RowsAreHeld
    <2>2. /\ buRow' \in [Bots!Ids -> {"none", "open", "void"} \cup Counted] /\ buRow'[i] = "void"
          /\ \A j \in Bots!Ids : j # i => buRow'[j] = buRow[j]
      BY <2>1 DEF BotInv, UpdateTables
    <2>3. UpdateTables'
      BY <1>1, <1>2, <2>2 DEF BotInv, UpdateTables
    <2>4. RowsAreHeld'
      <3>1. \A g \in Handlers : Bots!In(g, "commit")' => g # h /\ Bots!In(g, "commit") /\ buReq'[g] = buReq[g]
        BY <1>1 DEF Bots!In
      <3>2. \A g \in Handlers : Bots!In(g, "commit") /\ g # h => buReq[g].id # i
        BY <1>4, <2>1 DEF BotInv, RowsAreHeld
      <3> QED
        BY <2>2, <3>1, <3>2 DEF BotInv, RowsAreHeld
    <2>5. ShownInOrder' /\ DoneWasShown'
      BY <1>2, <2>2 DEF BotInv, ShownInOrder, DoneWasShown
    <2>6. TrimmedIsOld'
      BY <2>1, <2>2, StaysOld DEF BotInv, TrimmedIsOld, Counted
    <2> QED
      BY <2>3, <2>4, <2>5, <2>6 DEF BotInv
  <1> QED
    BY <1>3, <1>4

\* A page is a beginning of what is left, and what is not left is confirmed.
LEMMA UpdatesPolled ==
  ASSUME BotInv, NEW offset \in buShown \cup {0}, Bots!apiGetUpdates(offset)
  PROVE  BotInv'
  <1>1. /\ buRow' = [i \in Bots!Ids |-> IF i \in Bots!Confirmed(offset) THEN "done" ELSE buRow[i]]
        /\ buShown' = buShown \cup Bots!Page(offset) /\ UNCHANGED <<buReq, buOver>>
    BY DEF Bots!apiGetUpdates, Bots!Poll
  <1>2. offset \in Nat /\ \A i \in Bots!Ids : i \in Nat /\ i > 0
    BY UpdateBounds DEF BotInv, UpdateTables, Bots!Ids
  <1>3. \A i \in Bots!Ids : i \in Bots!Confirmed(offset) <=> buRow[i] = "pending" /\ offset > 0 /\ i <= offset
    BY DEF Bots!Confirmed, Bots!Rows
  <1>4. PICK left : left = {i \in Bots!Rows("pending") \ Bots!Confirmed(offset) : i > offset}
    OBVIOUS
  <1>5. left \subseteq Bots!Ids /\ Bots!Page(offset) = {i \in left : Cardinality({j \in left : j < i}) < PollLimit}
    BY <1>4, BotsCard DEF Bots!Page, Bots!Rows
  <1>6. ASSUME NEW i \in left, NEW j \in Bots!Page(offset), i <= j PROVE i \in Bots!Page(offset)
    <2>1. i \in Nat /\ j \in Nat /\ j \in left
      BY <1>2, <1>5
    <2>2. {k \in left : k < i} \subseteq {k \in left : k < j} /\ {k \in left : k < j} \subseteq Bots!Ids
      <3>1. \A k \in left : k \in Nat /\ k \in Bots!Ids
        BY <1>2, <1>5
      <3>2. \A k \in left : k < i => k < j
        BY <1>6, <2>1, <3>1
      <3> QED
        BY <3>1, <3>2
    <2>3. /\ Cardinality({k \in left : k < i}) <= Cardinality({k \in left : k < j})
          /\ Cardinality({k \in left : k < i}) \in Nat /\ Cardinality({k \in left : k < j}) \in Nat
      BY <2>2, FewerUpdates
    <2>4. Cardinality({k \in left : k < j}) < PollLimit
      BY <1>5
    <2> QED
      BY <1>5, <2>3, <2>4, UpdateBounds
  <1>7. UpdateTables'
    BY <1>1, <1>5 DEF BotInv, UpdateTables, Counted
  <1>8. RowsAreHeld'
    BY <1>1, <1>3 DEF BotInv, RowsAreHeld, Bots!In
  <1>9. DoneWasShown'
    BY <1>1, <1>2, <1>3 DEF BotInv, DoneWasShown, ShownInOrder
  <1>10. ShownInOrder'
    <2> SUFFICES ASSUME NEW i \in Bots!Ids, NEW j \in buShown', buRow'[i] = "pending", i <= j
                 PROVE  i \in buShown' \cup buOver'
      BY DEF ShownInOrder
    <2>1. buRow[i] = "pending" /\ i \notin Bots!Confirmed(offset)
      BY <1>1
    <2>2. CASE j \in buShown
      BY <1>1, <2>1, <2>2 DEF BotInv, ShownInOrder
    <2>3. CASE j \in Bots!Page(offset)
      <3>1. i \in left
        BY <1>2, <1>3, <1>4, <2>1 DEF Bots!Rows
      <3> QED
        BY <1>1, <1>6, <2>3, <3>1
    <2> QED
      BY <1>1, <2>2, <2>3
  <1>11. TrimmedIsOld'
    BY <1>1, <1>3, StaysOld DEF BotInv, TrimmedIsOld, Counted
  <1> QED
    BY <1>7, <1>8, <1>9, <1>10, <1>11 DEF BotInv

LEMMA BotNext == ASSUME BotInv, Bots!Next PROVE BotInv'
  <1>1. ASSUME NEW h \in Handlers,
               \/ Bots!StartInlineQuery(h)
               \/ \E kind \in Bots!Kinds : Bots!ObserveMessage(h, kind)
               \/ \E data \in Buttons : Bots!Tap(h, data)
               \/ \E r \in Results : Bots!ChooseInlineResult(h, r)
        PROVE  BotInv'
    BY <1>1, BotIsTold DEF Bots!StartInlineQuery, Bots!ObserveMessage, Bots!Tap, Bots!ChooseInlineResult
  <1>2. ASSUME \/ \E keys \in SUBSET Buttons : Bots!apiKeyboard(keys)
               \/ Bots!apiAnswerCallback \/ Bots!Expire
               \/ \E results \in SUBSET Results : Bots!apiAnswerInlineQuery(results)
               \/ \E on \in BOOLEAN : Bots!updateSettings(on)
        PROVE  BotInv'
    BY <1>2, BotStutters DEF Bots!apiKeyboard, Bots!apiAnswerCallback, Bots!Expire, Bots!apiAnswerInlineQuery, Bots!updateSettings
  <1> QED
    BY <1>1, <1>2, UpdateDrawn, UpdateCommitted, EnqueueFailed, UpdatesPolled DEF Bots!Next

\* For any backlog, page and number of writers, an update leaves the queue only when the bot was given
\* it, or the backlog overflowed, or it was committed after a later one was handed over (Enqueue,
\* Poll).
THEOREM UpdatesArrive == Spec => []UpdatesReachTheBot
  <1> DEFINE Holds == active = "bots" => BotInv
  <1>1. Init => Holds
    BY BotInit DEF Init
  <1>2. Holds /\ [Next]_<<active, shared>> => Holds'
    <2> SUFFICES ASSUME active = "bots", BotInv, [Next]_<<active, shared>> PROVE BotInv'
      BY OneMoves
    <2>1. CASE Bots!Next
      BY <2>1, BotNext
    <2>2. CASE UNCHANGED shared
      BY <2>2, BotStutters DEF shared
    <2> QED
      BY <2>1, <2>2, OneMoves
  <1>3. Holds => UpdatesReachTheBot
    BY BotInvImplies DEF UpdatesReachTheBot
  <1> QED
    BY <1>1, <1>2, <1>3, PTL DEF Spec

-----------------------------------------------------------------------------
(***************************************************************************)
(* BotFather: a conversation about deleting a bot stands only where the    *)
(* person's words have got that far, and a message read in it is the next  *)
(* word; a token is counted or issued only for a bot that exists.          *)
(***************************************************************************)
bfDialog == x1
bfBot == x2
bfReq == x3
bfWord == x4
bfRequest == x5
bfFirst == x6
USE DEF bfDialog, bfBot, bfReq, bfWord, bfRequest, bfFirst

Dialog == [flow : {"none", "newbot", "revoke", "setname", "delete"},
           step : {"none", "name", "username", "target", "value", "confirm"},
           bot : Handles \cup {"none"}]
BotRow == [state : {"free", "active", "inactive"}, live : Nat, privacy : BOOLEAN]
DialogRequest == [at : {"idle", "act", "create", "count", "issue"}, text : BotFather!Commands \cup BotFather!Answers \cup {"none"},
                  dialog : Dialog, owned : SUBSET Handles]

FatherTables ==
    /\ bfDialog \in Dialog
    /\ bfBot \in [Handles -> BotRow]
    /\ bfReq \in [Handlers -> DialogRequest]
    /\ bfWord \in [Handles -> 0 .. 3]

\* The bot b was the person's first, and is there.
First(b) == b = bfFirst /\ bfBot[b].state # "free"

\* The words have passed n, or reached it where b was the only bot.
Far(b, n) == bfWord[b] >= n + 1 \/ (bfWord[b] >= n /\ First(b))

\* How far the words go where the conversation stands at d.
Said(d) ==
    /\ d.flow = "delete" /\ d.step = "target" => \A b \in Handles : bfWord[b] >= 1
    /\ d.flow = "delete" /\ d.step = "confirm" => d.bot \in Handles /\ Far(d.bot, 1)

RequestHolds(q) ==
    /\ q.at = "act" /\ q.text = "deletebot" =>
          (\A b \in Handles : bfWord[b] >= 1) /\ (\A b \in Handles : q.owned = {b} => First(b))
    /\ q.at = "act" /\ q.text \in Handles /\ q.dialog.flow = "delete" =>
          /\ q.dialog.step = "target" => bfWord[q.text] >= 2
          /\ q.dialog.step = "confirm" /\ q.dialog.bot = q.text => Far(q.text, 2)
    /\ q.at \in {"create", "count", "issue"} => q.text \in Handles
    /\ q.at \in {"count", "issue"} => bfBot[q.text].state # "free"

FatherInv ==
    /\ FatherTables /\ Said(bfDialog) /\ BotFather!DeletedOnPurpose
    /\ BotFather!ListForOwner # {} => bfFirst \in BotFather!ListForOwner
    /\ \A h \in Handlers : RequestHolds(bfReq[h])

LEMMA SilenceShape == BotFather!Silence \in Dialog /\ BotFather!Silence.flow = "none"
  BY DEF BotFather!Silence, Dialog

LEMMA FatherIdle == BotFather!Idle \in DialogRequest /\ BotFather!Idle.at = "idle" /\ BotFather!Idle.dialog = BotFather!Silence
  BY SilenceShape DEF BotFather!Idle, DialogRequest

LEMMA FatherInit == BotFather!Init => FatherInv
  <1> SUFFICES ASSUME BotFather!Init PROVE FatherInv
    OBVIOUS
  <1>1. /\ bfReq \in [Handlers -> DialogRequest]
        /\ \A h \in Handlers : bfReq[h].at = "idle" /\ bfReq[h].dialog = BotFather!Silence
    BY FatherIdle DEF BotFather!Init
  <1>2. PICK row : row = [state |-> "free", live |-> 0, privacy |-> TRUE]
    OBVIOUS
  <1>3. row \in BotRow /\ row.state = "free" /\ row.live = 0 /\ \A b \in Handles : bfBot[b] = row
    BY <1>2 DEF BotRow, BotFather!Init
  <1>4. bfBot \in [Handles -> BotRow] /\ bfDialog = BotFather!Silence
    BY <1>2, <1>3 DEF BotFather!Init
  <1>5. FatherTables /\ Said(bfDialog)
    BY <1>1, <1>4, SilenceShape DEF FatherTables, Said, BotFather!Init
  <1>6. BotFather!DeletedOnPurpose /\ BotFather!ListForOwner = {}
    BY <1>3 DEF BotFather!DeletedOnPurpose, BotFather!ListForOwner
  <1> QED
    BY <1>1, <1>5, <1>6 DEF FatherInv, RequestHolds

\* Words are not taken back, no bot goes away, and the first stays the first.
FatherGrows ==
    /\ bfWord' \in [Handles -> 0 .. 3] /\ \A b \in Handles : bfWord'[b] >= bfWord[b]
    /\ bfBot' \in [Handles -> BotRow]
    /\ \A b \in Handles : bfBot[b].state # "free" => bfBot'[b].state # "free"
    /\ UNCHANGED bfFirst \/ BotFather!ListForOwner = {}
    /\ (BotFather!ListForOwner # {} => bfFirst \in BotFather!ListForOwner)'

LEMMA FarStays ==
  ASSUME FatherInv, FatherGrows, NEW b \in Handles
  PROVE  /\ First(b) => First(b)'
         /\ \A n \in Nat : Far(b, n) => Far(b, n)'
  <1>1. First(b) => First(b)'
    BY DEF FatherGrows, First, BotFather!ListForOwner
  <1>2. bfWord[b] \in Nat /\ bfWord'[b] \in Nat /\ bfWord'[b] >= bfWord[b]
    BY DEF FatherInv, FatherTables, FatherGrows
  <1> QED
    BY <1>1, <1>2 DEF Far

LEMMA SaidStays ==
  ASSUME FatherInv, FatherGrows, NEW d, Said(d)
  PROVE  Said(d)'
  <1>1. \A b \in Handles : bfWord[b] \in Nat /\ bfWord'[b] \in Nat /\ bfWord'[b] >= bfWord[b]
    BY DEF FatherInv, FatherTables, FatherGrows
  <1>2. d.bot \in Handles /\ Far(d.bot, 1) => Far(d.bot, 1)'
    BY FarStays
  <1> QED
    BY <1>1, <1>2 DEF Said

LEMMA RequestStays ==
  ASSUME FatherInv, FatherGrows, NEW q, RequestHolds(q)
  PROVE  RequestHolds(q)'
  <1>1. \A b \in Handles : bfWord[b] \in Nat /\ bfWord'[b] \in Nat /\ bfWord'[b] >= bfWord[b]
    BY DEF FatherInv, FatherTables, FatherGrows
  <1>2. \A b \in Handles : (First(b) => First(b)') /\ (Far(b, 2) => Far(b, 2)')
    BY FarStays
  <1> QED
    BY <1>1, <1>2 DEF RequestHolds, FatherGrows

\* A handler ends up with q; everything else grows.
LEMMA FatherStep ==
  ASSUME FatherInv, NEW h \in Handlers, NEW q \in DialogRequest, bfReq' = [bfReq EXCEPT ![h] = q],
         FatherGrows, bfDialog' \in Dialog, Said(bfDialog)', RequestHolds(q)', BotFather!DeletedOnPurpose'
  PROVE  FatherInv'
  <1>1. /\ bfReq' \in [Handlers -> DialogRequest] /\ bfReq'[h] = q
        /\ \A g \in Handlers : g # h => bfReq'[g] = bfReq[g]
    BY DEF FatherInv, FatherTables
  <1>2. FatherTables'
    BY <1>1 DEF FatherTables, FatherGrows
  <1>3. ASSUME NEW g \in Handlers PROVE RequestHolds(bfReq[g])'
    <2>1. CASE g = h
      BY <1>1, <2>1 DEF RequestHolds
    <2>2. CASE g # h
      <3>1. PICK k : k = bfReq[g]
        OBVIOUS
      <3>2. RequestHolds(k)'
        BY <3>1, RequestStays DEF FatherInv
      <3> QED
        BY <1>1, <2>2, <3>1, <3>2 DEF RequestHolds
    <2> QED
      BY <2>1, <2>2
  <1> QED
    BY <1>2, <1>3 DEF FatherInv, FatherGrows

\* A handler that is done holds nothing that could be wrong.
LEMMA IdleHolds == RequestHolds(BotFather!Idle)'
  BY FatherIdle DEF RequestHolds

\* Where no bot changes, none is switched off.
LEMMA FatherSame ==
  ASSUME FatherInv, UNCHANGED <<bfBot, bfRequest, bfFirst, bfWord>>
  PROVE  FatherGrows /\ BotFather!DeletedOnPurpose'
  <1>1. BotFather!ListForOwner' = BotFather!ListForOwner
    BY DEF BotFather!ListForOwner
  <1>2. \A b \in Handles : bfWord[b] >= bfWord[b]
    BY DEF FatherInv, FatherTables
  <1> QED
    BY <1>1, <1>2 DEF FatherInv, FatherTables, FatherGrows, BotFather!DeletedOnPurpose

\* One bot's row becomes another that says as much.
LEMMA FatherRow ==
  ASSUME FatherInv, NEW b \in Handles, NEW row \in BotRow, bfBot' = [bfBot EXCEPT ![b] = row],
         UNCHANGED bfWord, \A c \in Handles : c # b => (c \in bfRequest' <=> c \in bfRequest),
         bfBot[b].state # "free" => row.state # "free",
         row.state # "free", bfFirst' = IF BotFather!ListForOwner = {} THEN b ELSE bfFirst,
         row.state = "inactive" => b \in bfRequest' \/ bfWord[b] = 3 \/ (bfWord[b] = 2 /\ b = bfFirst /\ BotFather!ListForOwner # {})
  PROVE  FatherGrows /\ BotFather!DeletedOnPurpose' /\ bfBot'[b] = row
  <1>1. bfBot' \in [Handles -> BotRow] /\ bfBot'[b] = row /\ \A c \in Handles : c # b => bfBot'[c] = bfBot[c]
    BY DEF FatherInv, FatherTables
  <1>2. BotFather!ListForOwner' = BotFather!ListForOwner \cup {b}
    BY <1>1 DEF BotFather!ListForOwner
  <1>3. \A c \in Handles : bfWord[c] >= bfWord[c]
    BY DEF FatherInv, FatherTables
  <1>4. FatherGrows
    BY <1>1, <1>2, <1>3 DEF FatherInv, FatherTables, FatherGrows
  <1>5. ASSUME NEW c \in Handles, c # b, bfBot[c].state = "inactive"
        PROVE  c \in bfRequest' \/ bfWord'[c] = 3 \/ (bfWord'[c] = 2 /\ c = bfFirst')
    <2>1. BotFather!ListForOwner # {}
      BY <1>5 DEF BotFather!ListForOwner
    <2> QED
      BY <1>5, <2>1 DEF FatherInv, BotFather!DeletedOnPurpose
  <1>6. BotFather!DeletedOnPurpose'
    BY <1>1, <1>5 DEF FatherInv, BotFather!DeletedOnPurpose
  <1> QED
    BY <1>1, <1>4, <1>6

\* A step that ends a handler and leaves the bots alone.
LEMMA FatherEnds ==
  ASSUME FatherInv, NEW h \in Handlers, BotFather!Done(h), UNCHANGED <<bfBot, bfWord, bfRequest, bfFirst>>,
         bfDialog' \in Dialog, Said(bfDialog')
  PROVE  FatherInv'
  <1>1. bfReq' = [bfReq EXCEPT ![h] = BotFather!Idle]
    BY DEF BotFather!Done
  <1>2. FatherGrows /\ BotFather!DeletedOnPurpose'
    BY FatherSame
  <1>3. PICK d : d = bfDialog'
    OBVIOUS
  <1>4. Said(d)'
    BY <1>2, <1>3, SaidStays
  <1>5. Said(bfDialog)'
    BY <1>3, <1>4 DEF Said
  <1> QED
    BY <1>1, <1>2, <1>5, FatherIdle, IdleHolds, FatherStep

\* One that ends it with no conversation, or the one there was.
LEMMA FatherQuiet ==
  ASSUME FatherInv, FatherGrows, bfDialog' = BotFather!Silence \/ UNCHANGED bfDialog
  PROVE  bfDialog' \in Dialog /\ Said(bfDialog)'
  <1>1. CASE bfDialog' = BotFather!Silence
    BY <1>1, SilenceShape DEF Said
  <1>2. CASE UNCHANGED bfDialog
    <2>1. PICK d : d = bfDialog
      OBVIOUS
    <2>2. Said(d)'
      BY <2>1, SaidStays DEF FatherInv
    <2> QED
      BY <1>2, <2>1, <2>2 DEF Said, FatherInv, FatherTables
  <1> QED
    BY <1>1, <1>2

\* A word more for the bot a message names, or for every bot at the first /deletebot.
LEMMA FatherWords ==
  ASSUME FatherInv, NEW text, bfWord' = BotFather!Heard(text)
  PROVE  /\ bfWord' \in [Handles -> 0 .. 3] /\ \A b \in Handles : bfWord'[b] >= bfWord[b]
         /\ text = "deletebot" => \A b \in Handles : bfWord'[b] >= 1
         /\ text \in Handles => /\ bfWord[text] >= 1 => bfWord'[text] >= 2
                                /\ bfWord[text] >= 2 => bfWord'[text] >= 3
  <1>1. \A b \in Handles : bfWord[b] \in 0 .. 3
    BY DEF FatherInv, FatherTables
  <1>2. \A b \in Handles : bfWord'[b] = IF (text = "deletebot" /\ bfWord[b] = 0) \/ (text = b /\ bfWord[b] \in {1, 2})
                                       THEN bfWord[b] + 1 ELSE bfWord[b]
    BY DEF BotFather!Heard
  <1>3. \A b \in Handles : bfWord'[b] \in 0 .. 3 /\ bfWord'[b] >= bfWord[b]
    BY <1>1, <1>2
  <1>4. bfWord' \in [Handles -> 0 .. 3]
    BY <1>3 DEF BotFather!Heard
  <1> QED
    BY <1>1, <1>2, <1>3, <1>4

LEMMA FatherHears ==
  ASSUME FatherInv, NEW h \in Handlers, NEW text \in BotFather!Commands \cup BotFather!Answers, BotFather!Handle(h, text)
  PROVE  FatherInv'
  <1>1. PICK d, o : /\ d = IF text \in BotFather!Commands THEN BotFather!Silence ELSE bfDialog
                    /\ o = IF text \in DOMAIN BotFather!FlowOf THEN BotFather!ListForOwner ELSE {}
    OBVIOUS
  <1>2. d \in Dialog /\ o \in SUBSET Handles /\ Said(d)
    BY <1>1, SilenceShape DEF FatherInv, FatherTables, Said, BotFather!ListForOwner
  <1>3. PICK q : q = [at |-> "act", text |-> text, dialog |-> d, owned |-> o]
    OBVIOUS
  <1>4. q \in DialogRequest /\ q.at = "act" /\ q.text = text /\ q.dialog = d /\ q.owned = o
    BY <1>2, <1>3 DEF DialogRequest
  <1>5. /\ bfReq' = [bfReq EXCEPT ![h] = q] /\ UNCHANGED <<bfDialog, bfBot, bfRequest, bfFirst>>
        /\ bfWord' = BotFather!Heard(text)
    BY <1>1, <1>3 DEF BotFather!Handle, BotFather!loadState
  <1>6. /\ bfWord' \in [Handles -> 0 .. 3] /\ \A b \in Handles : bfWord'[b] >= bfWord[b]
        /\ text = "deletebot" => \A b \in Handles : bfWord'[b] >= 1
        /\ text \in Handles => /\ bfWord[text] >= 1 => bfWord'[text] >= 2
                               /\ bfWord[text] >= 2 => bfWord'[text] >= 3
    BY <1>5, FatherWords
  <1>7. FatherGrows /\ BotFather!ListForOwner' = BotFather!ListForOwner
    BY <1>5, <1>6 DEF FatherGrows, FatherInv, FatherTables, BotFather!ListForOwner
  <1>8. BotFather!DeletedOnPurpose'
    <2>1. \A b \in Handles : bfWord[b] \in 0 .. 3 /\ bfWord'[b] \in 0 .. 3 /\ bfWord'[b] >= bfWord[b]
      BY <1>6 DEF FatherInv, FatherTables
    <2> QED
      BY <1>5, <2>1 DEF FatherInv, BotFather!DeletedOnPurpose
  <1>9. bfDialog' \in Dialog /\ Said(bfDialog)'
    BY <1>5, <1>7, FatherQuiet
  <1>10. RequestHolds(q)'
    <2>1. ASSUME text = "deletebot", NEW b \in Handles, o = {b} PROVE First(b)'
      <3>1. BotFather!ListForOwner = {b}
        BY <1>1, <2>1 DEF BotFather!FlowOf
      <3>2. bfFirst = b /\ bfBot[b].state # "free"
        BY <3>1 DEF FatherInv, BotFather!ListForOwner
      <3> QED
        BY <1>5, <3>2 DEF First
    <2>2. ASSUME text \in Handles, d.flow = "delete", d.step = "target" PROVE bfWord'[text] >= 2
      <3>1. bfWord[text] >= 1
        BY <1>2, <2>2 DEF Said
      <3> QED
        BY <1>6, <2>2, <3>1
    <2>3. ASSUME text \in Handles, d.flow = "delete", d.step = "confirm", d.bot = text PROVE Far(text, 2)'
      <3>1. Far(text, 1)
        BY <1>2, <2>3 DEF Said
      <3>2. First(text) => First(text)'
        BY <1>7, <2>3, FarStays
      <3>3. bfWord[text] \in Nat /\ bfWord'[text] \in Nat
        BY <1>6, <2>3 DEF FatherInv, FatherTables
      <3>4. bfWord[text] >= 2 \/ (bfWord[text] >= 1 /\ First(text))
        BY <3>1, <3>3 DEF Far
      <3>5. bfWord'[text] >= 3 \/ (bfWord'[text] >= 2 /\ First(text)')
        BY <1>6, <2>3, <3>2, <3>4
      <3> QED
        BY <3>3, <3>5 DEF Far
    <2> QED
      BY <1>4, <1>6, <2>1, <2>2, <2>3 DEF RequestHolds
  <1> QED
    BY <1>4, <1>5, <1>7, <1>8, <1>9, <1>10, FatherStep

LEMMA FatherAsks ==
  ASSUME FatherInv, NEW h \in Handlers, NEW flow \in {"none", "newbot", "revoke", "setname", "delete"},
         NEW b \in Handles, flow = "delete" => Far(b, 1), BotFather!advanceAfterTarget(h, flow, b)
  PROVE  FatherInv'
  <1>1. PICK step : step = IF flow = "setname" THEN "value" ELSE "confirm"
    OBVIOUS
  <1>2. PICK d : d = [flow |-> flow, step |-> step, bot |-> b]
    OBVIOUS
  <1>3. d \in Dialog /\ d.flow = flow /\ d.bot = b /\ d.step = step
    BY <1>1, <1>2 DEF Dialog
  <1>4. bfDialog' = d /\ BotFather!Done(h) /\ UNCHANGED <<bfBot, bfWord, bfRequest, bfFirst>>
    BY <1>1, <1>2 DEF BotFather!advanceAfterTarget, BotFather!saveState
  <1>5. Said(d)
    BY <1>1, <1>3 DEF Said
  <1> QED
    BY <1>3, <1>4, <1>5, FatherEnds

\* A handler ends, the bots being what they were.
LEMMA FatherRests ==
  ASSUME FatherInv, NEW h \in Handlers, BotFather!Done(h), bfDialog' = BotFather!Silence \/ UNCHANGED bfDialog,
         UNCHANGED <<bfBot, bfWord, bfRequest, bfFirst>>
  PROVE  FatherInv'
  <1>1. CASE bfDialog' = BotFather!Silence
    BY <1>1, SilenceShape, FatherEnds DEF Said
  <1>2. CASE UNCHANGED bfDialog
    BY <1>2, FatherEnds DEF FatherInv, FatherTables
  <1> QED
    BY <1>1, <1>2

LEMMA FatherCommands == ASSUME FatherInv, NEW h \in Handlers, BotFather!handleCommand(h) PROVE FatherInv'
  <1>1. CASE bfReq[h].text = "cancel" /\ BotFather!finishAnd(h) /\ UNCHANGED <<bfBot, bfWord, bfRequest, bfFirst>>
    BY <1>1, FatherRests DEF BotFather!finishAnd, BotFather!clearState
  <1>2. CASE bfReq[h].text = "newbot" /\ BotFather!saveState([flow |-> "newbot", step |-> "name", bot |-> "none"])
             /\ BotFather!Done(h) /\ UNCHANGED <<bfBot, bfWord, bfRequest, bfFirst>>
    <2>1. PICK d : d = [flow |-> "newbot", step |-> "name", bot |-> "none"]
      OBVIOUS
    <2>2. d \in Dialog /\ Said(d) /\ bfDialog' = d
      BY <1>2, <2>1 DEF Dialog, Said, BotFather!saveState
    <2> QED
      BY <1>2, <2>2, FatherEnds
  <1>3. ASSUME NEW c \in DOMAIN BotFather!FlowOf, bfReq[h].text = c, BotFather!In(h, "act"), BotFather!startTargetedFlow(h, BotFather!FlowOf[c]) PROVE FatherInv'
    <2>1. PICK flow \in {"revoke", "setname", "delete"} : flow = BotFather!FlowOf[c] /\ (flow = "delete" => c = "deletebot")
      BY DEF BotFather!FlowOf
    <2>2. BotFather!startTargetedFlow(h, flow) /\ bfReq[h].owned \subseteq Handles /\ RequestHolds(bfReq[h])
      BY <1>3, <2>1 DEF FatherInv, FatherTables, DialogRequest
    <2>3. flow = "delete" => /\ \A b \in Handles : bfWord[b] >= 1
                             /\ \A b \in Handles : bfReq[h].owned = {b} => First(b)
      BY <1>3, <2>1, <2>2 DEF RequestHolds, BotFather!In
    <2>4. ASSUME NEW b \in bfReq[h].owned, bfReq[h].owned = {b}, BotFather!advanceAfterTarget(h, flow, b) PROVE FatherInv'
      <3>1. b \in Handles /\ (flow = "delete" => Far(b, 1))
        BY <2>2, <2>3, <2>4 DEF Far
      <3> QED
        BY <2>4, <3>1, FatherAsks
    <2>5. CASE BotFather!Done(h) /\ UNCHANGED <<bfDialog, bfBot, bfWord, bfRequest, bfFirst>>
      BY <2>5, FatherRests
    <2>6. CASE BotFather!saveState([flow |-> flow, step |-> "target", bot |-> "none"]) /\ BotFather!Done(h)
               /\ UNCHANGED <<bfBot, bfWord, bfRequest, bfFirst>>
      <3>1. PICK d : d = [flow |-> flow, step |-> "target", bot |-> "none"]
        OBVIOUS
      <3>2. d \in Dialog /\ Said(d) /\ bfDialog' = d
        BY <2>3, <2>6, <3>1 DEF Dialog, Said, BotFather!saveState
      <3> QED
        BY <2>6, <3>2, FatherEnds
    <2> QED
      BY <2>2, <2>4, <2>5, <2>6 DEF BotFather!startTargetedFlow
  <1> QED
    BY <1>1, <1>2, <1>3 DEF BotFather!handleCommand

\* A handler is sent on to write a bot or to count its tokens.
LEMMA FatherSends ==
  ASSUME FatherInv, NEW h \in Handlers, NEW at \in {"create", "count", "issue"}, NEW b \in Handles,
         bfReq' = [bfReq EXCEPT ![h] = [bfReq[h] EXCEPT !.at = at, !.text = b]],
         UNCHANGED bfDialog, FatherGrows, BotFather!DeletedOnPurpose', at # "create" => bfBot'[b].state # "free"
  PROVE  FatherInv'
  <1>1. PICK q : q = [bfReq[h] EXCEPT !.at = at, !.text = b]
    OBVIOUS
  <1>2. bfReq[h] \in DialogRequest
    BY DEF FatherInv, FatherTables
  <1>3. q \in DialogRequest /\ q.at = at /\ q.text = b
    BY <1>1, <1>2 DEF DialogRequest, BotFather!Answers
  <1>4. bfDialog' \in Dialog /\ Said(bfDialog)'
    BY FatherQuiet
  <1>5. RequestHolds(q)'
    BY <1>3 DEF RequestHolds
  <1> QED
    BY <1>1, <1>3, <1>4, <1>5, FatherStep

\* A step that ends a handler, with the bots as they may become.
LEMMA FatherEndsWith ==
  ASSUME FatherInv, NEW h \in Handlers, BotFather!Done(h), FatherGrows, BotFather!DeletedOnPurpose',
         bfDialog' = BotFather!Silence \/ UNCHANGED bfDialog
  PROVE  FatherInv'
  <1>1. bfReq' = [bfReq EXCEPT ![h] = BotFather!Idle]
    BY DEF BotFather!Done
  <1>2. bfDialog' \in Dialog /\ Said(bfDialog)'
    BY FatherQuiet
  <1> QED
    BY <1>1, <1>2, FatherIdle, IdleHolds, FatherStep

LEMMA FatherNames ==
  ASSUME FatherInv, NEW h \in Handlers, NEW answer, BotFather!continueNewBot(h, answer)
  PROVE  FatherInv'
  <1>1. CASE bfReq[h].dialog.step = "name" /\ BotFather!saveState([bfReq[h].dialog EXCEPT !.step = "username"])
             /\ BotFather!Done(h) /\ UNCHANGED <<bfBot, bfWord, bfRequest, bfFirst>>
    <2>1. bfReq[h].dialog \in Dialog
      BY DEF FatherInv, FatherTables, DialogRequest
    <2>2. PICK d : d = [bfReq[h].dialog EXCEPT !.step = "username"]
      OBVIOUS
    <2>3. d \in Dialog /\ d.step = "username" /\ bfDialog' = d
      BY <1>1, <2>1, <2>2 DEF Dialog, BotFather!saveState
    <2>4. Said(d)
      BY <2>3 DEF Said
    <2> QED
      BY <1>1, <2>3, <2>4, FatherEnds
  <1>2. CASE BotFather!CountOwned(h, answer) /\ UNCHANGED <<bfDialog, bfBot, bfWord, bfRequest, bfFirst>>
    <2>1. answer \in Handles
      BY <1>2 DEF BotFather!CountOwned, BotFather!Registrable
    <2>2. bfReq' = [bfReq EXCEPT ![h] = [bfReq[h] EXCEPT !.at = "create", !.text = answer]]
      BY <1>2 DEF BotFather!CountOwned, FatherInv, FatherTables
    <2>3. FatherGrows /\ BotFather!DeletedOnPurpose'
      BY <1>2, FatherSame
    <2> QED
      BY <1>2, <2>1, <2>2, <2>3, FatherSends
  <1>3. CASE BotFather!Done(h) /\ UNCHANGED <<bfDialog, bfBot, bfWord, bfRequest, bfFirst>>
    BY <1>3, FatherRests
  <1> QED
    BY <1>1, <1>2, <1>3 DEF BotFather!continueNewBot

LEMMA FatherDeletes ==
  ASSUME FatherInv, NEW h \in Handlers, BotFather!In(h, "act"), bfReq[h].dialog.flow = "delete",
         bfReq[h].dialog.step = "confirm", BotFather!confirmDelete(h, bfReq[h].text)
  PROVE  FatherInv'
  <1>1. PICK b : b = bfReq[h].dialog.bot
    OBVIOUS
  <1>2. /\ BotFather!Done(h) /\ (bfDialog' = BotFather!Silence \/ UNCHANGED bfDialog) /\ UNCHANGED <<bfWord, bfRequest, bfFirst>>
        /\ IF bfReq[h].text = b /\ b \in BotFather!ListForOwner
           THEN bfBot' = [bfBot EXCEPT ![b] = [bfBot[b] EXCEPT !.state = "inactive"]] ELSE UNCHANGED bfBot
    BY <1>1 DEF BotFather!confirmDelete, BotFather!TypedBack, BotFather!ownedBotByHandle, BotFather!UpdateSettings, BotFather!finishAnd, BotFather!clearState
  <1>3. CASE bfReq[h].text = b /\ b \in BotFather!ListForOwner
    <2>1. b \in Handles /\ bfBot[b] \in BotRow /\ bfWord[b] \in 0 .. 3
      BY <1>3 DEF BotFather!ListForOwner, FatherInv, FatherTables
    <2>2. Far(b, 2)
      BY <1>1, <1>3, <2>1 DEF FatherInv, RequestHolds, BotFather!In
    <2>3. bfWord[b] = 3 \/ (bfWord[b] = 2 /\ b = bfFirst /\ BotFather!ListForOwner # {})
      BY <1>3, <2>1, <2>2 DEF Far, First
    <2>4. PICK row : row = [bfBot[b] EXCEPT !.state = "inactive"]
      OBVIOUS
    <2>5. row \in BotRow /\ row.state = "inactive"
      BY <2>1, <2>4 DEF BotRow
    <2>6. FatherGrows /\ BotFather!DeletedOnPurpose'
      BY <1>2, <1>3, <2>1, <2>3, <2>4, <2>5, FatherRow
    <2> QED
      BY <1>2, <2>6, FatherEndsWith
  <1>4. CASE ~(bfReq[h].text = b /\ b \in BotFather!ListForOwner)
    BY <1>2, <1>4, FatherRests
  <1> QED
    BY <1>3, <1>4

\* The number of live tokens of a bot changes.
LEMMA FatherTokens ==
  ASSUME FatherInv, NEW b \in Handles, NEW n \in Nat, bfBot' = [bfBot EXCEPT ![b].live = n],
         UNCHANGED <<bfWord, bfRequest, bfFirst>>, bfBot[b].state # "free"
  PROVE  FatherGrows /\ BotFather!DeletedOnPurpose' /\ bfBot'[b].state = bfBot[b].state
  <1>1. bfBot[b] \in BotRow /\ BotFather!ListForOwner # {}
    BY DEF FatherInv, FatherTables, BotFather!ListForOwner
  <1>2. PICK row : row = [bfBot[b] EXCEPT !.live = n]
    OBVIOUS
  <1>3. row \in BotRow /\ row.state = bfBot[b].state /\ row.live = n
    BY <1>1, <1>2 DEF BotRow
  <1>4. bfBot' = [bfBot EXCEPT ![b] = row]
    BY <1>2 DEF FatherInv, FatherTables
  <1>5. row.state = "inactive" => b \in bfRequest' \/ bfWord[b] = 3 \/ (bfWord[b] = 2 /\ b = bfFirst /\ BotFather!ListForOwner # {})
    BY <1>1, <1>3 DEF FatherInv, BotFather!DeletedOnPurpose
  <1> QED
    BY <1>1, <1>3, <1>4, <1>5, FatherRow

LEMMA FatherRevokes ==
  ASSUME FatherInv, NEW h \in Handlers, NEW answer, BotFather!confirmRevoke(h, answer)
  PROVE  FatherInv'
  <1>1. PICK b : b = bfReq[h].dialog.bot
    OBVIOUS
  <1>2. CASE /\ b \in BotFather!ListForOwner /\ bfBot' = [bfBot EXCEPT ![b].live = 0]
             /\ bfReq' = [bfReq EXCEPT ![h].at = "count", ![h].text = b]
             /\ UNCHANGED <<bfDialog, bfWord, bfRequest, bfFirst>>
    <2>1. b \in Handles /\ bfBot[b].state # "free"
      BY <1>2 DEF BotFather!ListForOwner
    <2>2. FatherGrows /\ BotFather!DeletedOnPurpose' /\ bfBot'[b].state = bfBot[b].state
      BY <1>2, <2>1, FatherTokens
    <2>3. bfReq' = [bfReq EXCEPT ![h] = [bfReq[h] EXCEPT !.at = "count", !.text = b]]
      BY <1>2 DEF FatherInv, FatherTables
    <2> QED
      BY <1>2, <2>1, <2>2, <2>3, FatherSends
  <1>3. CASE BotFather!finishAnd(h) /\ UNCHANGED <<bfBot, bfWord, bfRequest, bfFirst>>
    BY <1>3, FatherRests DEF BotFather!finishAnd, BotFather!clearState
  <1> QED
    BY <1>1, <1>2, <1>3 DEF BotFather!confirmRevoke, BotFather!ownedBotByHandle, BotFather!RevokeAllTokens

LEMMA FatherContinues == ASSUME FatherInv, NEW h \in Handlers, BotFather!continueFlow(h) PROVE FatherInv'
  <1>1. ASSUME BotFather!Done(h), UNCHANGED <<bfDialog, bfBot, bfWord, bfRequest, bfFirst>> PROVE FatherInv'
    BY <1>1, FatherRests
  <1>2. CASE bfReq[h].dialog.step = "target" /\ BotFather!ownedBotByHandle(bfReq[h].text)
             /\ BotFather!In(h, "act") /\ BotFather!advanceAfterTarget(h, bfReq[h].dialog.flow, bfReq[h].text)
    <2>1. PICK flow, b : flow = bfReq[h].dialog.flow /\ b = bfReq[h].text
      OBVIOUS
    <2>2. /\ flow \in {"none", "newbot", "revoke", "setname", "delete"} /\ b \in Handles
          /\ bfWord[b] \in Nat
      BY <1>2, <2>1 DEF BotFather!ownedBotByHandle, BotFather!ListForOwner, FatherInv, FatherTables, DialogRequest, Dialog
    <2>3. flow = "delete" => Far(b, 1)
      <3>1. flow = "delete" => bfWord[b] >= 2
        BY <1>2, <2>1, <2>2 DEF FatherInv, RequestHolds, BotFather!In
      <3> QED
        BY <2>2, <3>1 DEF Far
    <2> QED
      BY <1>2, <2>1, <2>2, <2>3, FatherAsks
  <1>3. CASE BotFather!applyValue(h)
    BY <1>3, FatherRests DEF BotFather!applyValue, BotFather!finishAnd, BotFather!clearState
  <1> QED
    BY <1>1, <1>2, <1>3, FatherNames, FatherDeletes, FatherRevokes DEF BotFather!continueFlow

LEMMA FatherRegisters == ASSUME FatherInv, NEW h \in Handlers, BotFather!Register(h) PROVE FatherInv'
  <1>1. PICK b : b = bfReq[h].text
    OBVIOUS
  <1>2. b \in Handles
    BY <1>1 DEF BotFather!Register, BotFather!In, FatherInv, RequestHolds
  <1>3. /\ BotFather!Done(h) /\ UNCHANGED <<bfWord, bfRequest>> /\ (bfDialog' = BotFather!Silence \/ UNCHANGED bfDialog)
        /\ bfBot' = IF bfBot[b].state = "free" THEN [bfBot EXCEPT ![b].state = "active", ![b].live = 1] ELSE bfBot
        /\ bfFirst' = IF BotFather!ListForOwner = {} THEN b ELSE bfFirst
    BY <1>1 DEF BotFather!Register, BotFather!Create, BotFather!clearState
  <1>4. CASE bfBot[b].state = "free"
    <2>1. bfBot[b] \in BotRow
      BY <1>2 DEF FatherInv, FatherTables
    <2>2. PICK row : row = [bfBot[b] EXCEPT !.state = "active", !.live = 1]
      OBVIOUS
    <2>3. row \in BotRow /\ row.state = "active"
      BY <2>1, <2>2 DEF BotRow
    <2>4. bfBot' = [bfBot EXCEPT ![b] = row]
      BY <1>2, <1>3, <1>4, <2>2 DEF FatherInv, FatherTables
    <2>5. FatherGrows /\ BotFather!DeletedOnPurpose'
      BY <1>2, <1>3, <2>3, <2>4, FatherRow
    <2> QED
      BY <1>3, <2>5, FatherEndsWith
  <1>5. CASE bfBot[b].state # "free"
    <2>1. BotFather!ListForOwner # {}
      BY <1>2, <1>5 DEF BotFather!ListForOwner
    <2> QED
      BY <1>3, <1>5, <2>1, FatherRests
  <1> QED
    BY <1>4, <1>5

LEMMA FatherCounts == ASSUME FatherInv, NEW h \in Handlers, BotFather!CountTokens(h) PROVE FatherInv'
  <1>1. PICK b : b = bfReq[h].text
    OBVIOUS
  <1>2. b \in Handles /\ bfBot[b].state # "free" /\ bfReq[h] \in DialogRequest
    BY <1>1 DEF BotFather!CountTokens, BotFather!In, FatherInv, FatherTables, RequestHolds
  <1>3. UNCHANGED <<bfDialog, bfBot, bfWord, bfRequest, bfFirst>>
    BY DEF BotFather!CountTokens
  <1>4. FatherGrows /\ BotFather!DeletedOnPurpose'
    BY <1>3, FatherSame
  <1>5. CASE bfBot[b].live < MaxTokensPerBot
    <2>1. PICK q : q = [bfReq[h] EXCEPT !.at = "issue"]
      OBVIOUS
    <2>2. q = [bfReq[h] EXCEPT !.at = "issue", !.text = b]
      BY <1>1, <1>2, <2>1 DEF DialogRequest
    <2>3. bfReq' = [bfReq EXCEPT ![h] = q]
      BY <1>1, <1>5, <2>1 DEF BotFather!CountTokens
    <2> QED
      BY <1>2, <1>3, <1>4, <2>2, <2>3, FatherSends
  <1>6. CASE ~(bfBot[b].live < MaxTokensPerBot)
    <2>1. BotFather!Done(h)
      BY <1>1, <1>6 DEF BotFather!CountTokens, BotFather!Done
    <2> QED
      BY <1>3, <1>4, <2>1, FatherEndsWith
  <1> QED
    BY <1>5, <1>6

LEMMA FatherIssues == ASSUME FatherInv, NEW h \in Handlers, BotFather!IssueToken(h) PROVE FatherInv'
  <1>1. PICK b : b = bfReq[h].text
    OBVIOUS
  <1>2. b \in Handles /\ bfBot[b].state # "free" /\ bfBot[b].live \in Nat
    BY <1>1 DEF BotFather!IssueToken, BotFather!In, FatherInv, FatherTables, RequestHolds, BotRow
  <1>3. PICK n \in Nat : n = bfBot[b].live + 1
    BY <1>2
  <1>4. /\ BotFather!Done(h) /\ UNCHANGED <<bfWord, bfRequest, bfFirst>> /\ (bfDialog' = BotFather!Silence \/ UNCHANGED bfDialog)
        /\ bfBot' = [bfBot EXCEPT ![b].live = n]
    BY <1>1, <1>3 DEF BotFather!IssueToken, BotFather!issueToken, BotFather!clearState
  <1> QED
    BY <1>2, <1>4, FatherTokens, FatherEndsWith

LEMMA FatherNext == ASSUME FatherInv, BotFather!Next PROVE FatherInv'
  <1>1. ASSUME UNCHANGED bfReq, FatherGrows, BotFather!DeletedOnPurpose', bfDialog' = BotFather!Silence \/ UNCHANGED bfDialog
        PROVE  FatherInv'
    <2>1. bfDialog' \in Dialog /\ Said(bfDialog)'
      BY <1>1, FatherQuiet
    <2>2. FatherTables'
      BY <1>1, <2>1 DEF FatherInv, FatherTables, FatherGrows
    <2>3. ASSUME NEW h \in Handlers PROVE RequestHolds(bfReq[h])'
      <3>1. PICK q : q = bfReq[h]
        OBVIOUS
      <3>2. RequestHolds(q)'
        BY <1>1, <3>1, RequestStays DEF FatherInv
      <3> QED
        BY <1>1, <3>1, <3>2 DEF RequestHolds
    <2> QED
      BY <1>1, <2>1, <2>2, <2>3 DEF FatherInv, FatherGrows
  <1>2. CASE BotFather!Lapse
    BY <1>1, <1>2, FatherSame DEF BotFather!Lapse, BotFather!clearState
  <1>3. ASSUME NEW h \in Handlers, NEW b \in Handles, BotFather!register(h, b) PROVE FatherInv'
    <2>1. bfReq' = [bfReq EXCEPT ![h] = [bfReq[h] EXCEPT !.at = "create", !.text = b]]
      BY <1>3 DEF BotFather!register, BotFather!CountOwned, FatherInv, FatherTables
    <2> QED
      BY <1>3, <2>1, FatherSame, FatherSends DEF BotFather!register
  <1>4. ASSUME NEW h \in Handlers, NEW b \in Handles, BotFather!requestToken(h, b) PROVE FatherInv'
    <2>1. PICK q : q = [BotFather!Idle EXCEPT !.at = "count", !.text = b]
      OBVIOUS
    <2>2. q \in DialogRequest /\ q.at = "count" /\ q.text = b /\ q.dialog = BotFather!Silence
      BY <2>1, FatherIdle, SilenceShape DEF DialogRequest, BotFather!Answers, BotFather!Idle
    <2>3. /\ bfReq' = [bfReq EXCEPT ![h] = q] /\ UNCHANGED <<bfDialog, bfBot, bfWord, bfRequest, bfFirst>>
          /\ bfBot[b].state # "free"
      BY <1>4, <2>1 DEF BotFather!requestToken, BotFather!ownedBotByHandle, BotFather!ListForOwner
    <2>4. FatherGrows /\ BotFather!DeletedOnPurpose'
      BY <2>3, FatherSame
    <2>5. bfDialog' \in Dialog /\ Said(bfDialog)'
      BY <2>3, <2>4, FatherQuiet
    <2>6. RequestHolds(q)'
      BY <2>2, <2>3 DEF RequestHolds
    <2> QED
      BY <2>2, <2>3, <2>4, <2>5, <2>6, FatherStep
  <1>5. ASSUME NEW h \in Handlers, NEW b \in Handles, BotFather!toggleFlag(h, b) PROVE FatherInv'
    <2>1. bfBot[b] \in BotRow /\ bfBot[b].state # "free" /\ BotFather!ListForOwner # {}
      BY <1>5 DEF FatherInv, FatherTables, BotFather!toggleFlag, BotFather!ownedBotByHandle, BotFather!ListForOwner
    <2>2. PICK p \in BOOLEAN : p = ~ bfBot[b].privacy
      BY <2>1 DEF BotRow
    <2>3. PICK row : row = [bfBot[b] EXCEPT !.privacy = p]
      OBVIOUS
    <2>4. row \in BotRow /\ row.state = bfBot[b].state
      BY <2>1, <2>2, <2>3 DEF BotRow
    <2>5. bfBot' = [bfBot EXCEPT ![b] = row] /\ UNCHANGED <<bfDialog, bfReq, bfWord, bfRequest, bfFirst>>
      BY <1>5, <2>2, <2>3 DEF BotFather!toggleFlag, BotFather!UpdateSettings
    <2>6. row.state = "inactive" => b \in bfRequest' \/ bfWord[b] = 3 \/ (bfWord[b] = 2 /\ b = bfFirst /\ BotFather!ListForOwner # {})
      BY <2>1, <2>4, <2>5 DEF FatherInv, BotFather!DeletedOnPurpose
    <2>7. FatherGrows /\ BotFather!DeletedOnPurpose'
      BY <2>1, <2>4, <2>5, <2>6, FatherRow
    <2> QED
      BY <1>1, <2>5, <2>7
  <1>7. ASSUME NEW b \in Handles, NEW on \in BOOLEAN, BotFather!updateSettings(b, on) PROVE FatherInv'
    <2>1. bfBot[b] \in BotRow /\ bfBot[b].state # "free" /\ BotFather!ListForOwner # {}
      BY <1>7 DEF FatherInv, FatherTables, BotFather!updateSettings, BotFather!ownedBotByHandle, BotFather!ListForOwner
    <2>2. PICK s \in {"active", "inactive"} : s = IF on THEN "active" ELSE "inactive"
      OBVIOUS
    <2>3. PICK row : row = [bfBot[b] EXCEPT !.state = s]
      OBVIOUS
    <2>4. row \in BotRow /\ row.state = s
      BY <2>1, <2>3 DEF BotRow
    <2>5. /\ bfBot' = [bfBot EXCEPT ![b] = row] /\ UNCHANGED <<bfDialog, bfReq, bfWord, bfFirst>>
          /\ bfRequest' = IF on THEN bfRequest \ {b} ELSE bfRequest \cup {b}
      BY <1>7, <2>2, <2>3 DEF BotFather!updateSettings, BotFather!UpdateSettings
    <2>6. FatherGrows /\ BotFather!DeletedOnPurpose'
      BY <2>1, <2>2, <2>4, <2>5, FatherRow
    <2> QED
      BY <1>1, <2>5, <2>6
  <1>8. ASSUME NEW h \in Handlers, BotFather!Fails(h) PROVE FatherInv'
    BY <1>8, FatherRests DEF BotFather!Fails
  <1>6. ASSUME NEW b \in Handles, BotFather!revokeToken(b) PROVE FatherInv'
    <2>1. bfBot[b].live \in Nat /\ bfBot[b].live > 0
      BY <1>6 DEF BotFather!revokeToken, BotFather!RevokeToken, FatherInv, FatherTables, BotRow
    <2>2. PICK n \in Nat : n = bfBot[b].live - 1
      BY <2>1
    <2>3. bfBot' = [bfBot EXCEPT ![b].live = n] /\ UNCHANGED <<bfDialog, bfReq, bfWord, bfRequest, bfFirst>>
      BY <1>6, <2>2 DEF BotFather!revokeToken, BotFather!RevokeToken
    <2>4. bfBot[b].state # "free"
      BY <2>1 DEF FatherInv, BotFather!DeletedOnPurpose
    <2> QED
      BY <1>1, <2>3, <2>4, FatherTokens
  <1> QED
    BY <1>2, <1>3, <1>4, <1>5, <1>6, <1>7, <1>8, FatherHears, FatherCommands, FatherContinues, FatherRegisters,
       FatherCounts, FatherIssues DEF BotFather!Next

\* Whatever messages of one person are handled at once, a bot that is off was switched off by a
\* management request, or the person said /deletebot and after it the bot's handle twice, or once when
\* it was the first bot, which need not be named (confirmDelete, advanceAfterTarget, updateSettings).
THEOREM BotsDeletedOnPurpose == Spec => []DeletedOnPurpose
  <1> DEFINE Holds == active = "botfather" => FatherInv
  <1>1. Init => Holds
    BY FatherInit DEF Init
  <1>2. Holds /\ [Next]_<<active, shared>> => Holds'
    <2> SUFFICES ASSUME active = "botfather", FatherInv, [Next]_<<active, shared>> PROVE FatherInv'
      BY OneMoves
    <2>1. CASE BotFather!Next
      BY <2>1, FatherNext
    <2>2. CASE UNCHANGED shared
      BY <2>2 DEF shared, FatherInv, FatherTables, Said, BotFather!DeletedOnPurpose,
          BotFather!ListForOwner, RequestHolds, Dialog, BotRow, DialogRequest, Far, First,
          BotFather!Commands, BotFather!Answers
    <2> QED
      BY <2>1, <2>2, OneMoves
  <1>3. Holds => DeletedOnPurpose
    BY DEF FatherInv, DeletedOnPurpose
  <1> QED
    BY <1>1, <1>2, <1>3, PTL DEF Spec

-----------------------------------------------------------------------------
(***************************************************************************)
(* Presence: until a command to Redis fails, a key has a connection that   *)
(* will remove it, and a user announced online one that will tell.         *)
(***************************************************************************)
at == x1
device == x2
key == x3
listed == x4
lastSeen == x5
announced == x6
failed == x7
USE DEF at, device, key, listed, lastSeen, announced, failed

\* Where a connection still has something to take back.
Underway == {"marking", "announcing", "serving", "left"}
Open == Underway \cup {"unlisting", "checking", "retracting"}

\* A user announced online has a connection that has yet to end: the last of
\* them to look finds no key, because a key has an owner that is underway.
SomeoneWillTell ==
    \A u \in People : announced[u] = "online" => \E s \in Connections : Presence!User(s) = u /\ at[s] \in Open

Seen ==
    \A s \in Connections : at[s] \in {"checking", "retracting", "done"} => Presence!User(s) \in lastSeen

KeysOwned ==
    \A d \in key : \E s \in Connections : device[s] = d /\ at[s] \in Underway

\* What holds as long as no command has failed.
Agreement == KeysOwned /\ SomeoneWillTell /\ Seen

PresenceInv == Presence!TypeOK /\ (failed \/ Agreement)

LEMMA UsersOfConnections == Presence!TypeOK => \A s \in Connections : Presence!User(s) \in People
  BY PhoneOwners DEF Presence!TypeOK, Presence!User

\* Initially nobody is online.
LEMMA PresenceInit == Presence!Init => PresenceInv
  <1> SUFFICES ASSUME Presence!Init PROVE Presence!TypeOK /\ Agreement
    BY DEF PresenceInv
  <1>1. Presence!TypeOK
    BY DEF Presence!Init, Presence!TypeOK, Presence!Steps
  <1>2. Agreement
    BY DEF Presence!Init, Agreement, KeysOwned, SomeoneWillTell, Seen
  <1> QED
    BY <1>1, <1>2

\* No step breaks the types, whether or not commands fail.
LEMMA PresenceTypes ==
  ASSUME Presence!TypeOK, Presence!Next
  PROVE  Presence!TypeOK'
  <1> USE DEF Presence!User, Presence!Goto, Presence!Works, Presence!Fails, Presence!Steps, Presence!TypeOK
  <1>u. \A s \in Connections : Presence!User(s) \in People
    BY UsersOfConnections
  <1>2. ASSUME NEW s \in Connections, Presence!MarkOnline(s) \/ Presence!AddDevice(s) \/ Presence!AnnounceOnline(s) \/ Presence!Leave(s)
        PROVE  Presence!TypeOK'
    BY <1>2, <1>u DEF Presence!MarkOnline, Presence!AddDevice, Presence!AnnounceOnline, Presence!Leave
  <1>3. ASSUME NEW s \in Connections, Presence!MarkOffline(s)
        PROVE  Presence!TypeOK'
    BY <1>3, <1>u DEF Presence!MarkOffline, Presence!DeleteKey, Presence!RemoveDevice, Presence!CheckLast, Presence!AnnounceOffline
  <1>4. CASE Presence!Lapse
    BY <1>4 DEF Presence!Lapse
  <1>5. CASE Presence!Finished
    BY <1>5 DEF Presence!Finished, Presence!vars
  <1> QED
    BY <1>2, <1>3, <1>4, <1>5 DEF Presence!Next

\* Every command of MarkOnline and MarkOffline, and every key that lapses,
\* preserves it.
LEMMA AgreementStep ==
  ASSUME Presence!TypeOK, Agreement, Presence!Next, ~ Presence!Fails
  PROVE  Agreement'
  <1> USE DEF Presence!User, Presence!Goto, Underway, Open, Presence!Steps
  <1>u. \A s \in Connections : Presence!User(s) \in People
    BY UsersOfConnections
  <1>2. ASSUME NEW s \in Connections, Presence!MarkOnline(s)
        PROVE  Agreement'
    BY <1>2 DEF Presence!MarkOnline, Agreement, Presence!TypeOK, KeysOwned, SomeoneWillTell, Seen
  <1>3. ASSUME NEW s \in Connections, Presence!AddDevice(s)
        PROVE  Agreement'
    BY <1>3 DEF Presence!AddDevice, Agreement, Presence!TypeOK, KeysOwned, SomeoneWillTell, Seen
  <1>4. ASSUME NEW s \in Connections, Presence!AnnounceOnline(s)
        PROVE  Agreement'
    BY <1>4, <1>u DEF Presence!AnnounceOnline, Agreement, Presence!TypeOK, KeysOwned, SomeoneWillTell, Seen
  <1>5. ASSUME NEW s \in Connections, Presence!Leave(s)
        PROVE  Agreement'
    BY <1>5 DEF Presence!Leave, Agreement, Presence!TypeOK, KeysOwned, SomeoneWillTell, Seen
  <1>6. ASSUME NEW s \in Connections, Presence!DeleteKey(s)
        PROVE  Agreement'
    BY <1>6 DEF Presence!DeleteKey, Agreement, Presence!TypeOK, KeysOwned, SomeoneWillTell, Seen
  <1>7. ASSUME NEW s \in Connections, Presence!RemoveDevice(s)
        PROVE  Agreement'
    BY <1>7, <1>u DEF Presence!RemoveDevice, Agreement, Presence!TypeOK, KeysOwned, SomeoneWillTell, Seen
  <1>8. ASSUME NEW s \in Connections, Presence!CheckLast(s)
        PROVE  Agreement'
    <2>1. KeysOwned' /\ Seen'
      BY <1>8 DEF Presence!CheckLast, Agreement, Presence!TypeOK, KeysOwned, Seen
    <2>2. SomeoneWillTell'
      <3>1. SUFFICES ASSUME NEW u \in People, announced[u] = "online"
                     PROVE  \E t \in Connections : Presence!User(t) = u /\ at'[t] \in Open
        BY <1>8 DEF Presence!CheckLast, SomeoneWillTell
      <3>2. CASE Presence!IsOnline(Presence!User(s)) /\ Presence!User(s) = u
        <4>1. PICK d \in key : Owner[d] = u
          BY <3>2 DEF Presence!IsOnline
        <4>2. PICK t \in Connections : device[t] = d /\ at[t] \in Underway
          BY <4>1 DEF Agreement, KeysOwned
        <4>3. t # s /\ at'[t] = at[t]
          BY <1>8, <4>2 DEF Presence!CheckLast, Presence!TypeOK
        <4> QED
          BY <4>1, <4>2, <4>3
      <3>3. CASE ~ Presence!IsOnline(Presence!User(s)) \/ Presence!User(s) # u
        <4>1. PICK t \in Connections : Presence!User(t) = u /\ at[t] \in Open
          BY <3>1 DEF Agreement, SomeoneWillTell
        <4>2. at'[t] \in Open
          BY <1>8, <3>3, <4>1 DEF Presence!CheckLast, Presence!TypeOK
        <4> QED
          BY <4>1, <4>2
      <3> QED
        BY <3>2, <3>3
    <2> QED
      BY <2>1, <2>2 DEF Agreement
  <1>9. ASSUME NEW s \in Connections, Presence!AnnounceOffline(s)
        PROVE  Agreement'
    BY <1>9, <1>u DEF Presence!AnnounceOffline, Agreement, Presence!TypeOK, KeysOwned, SomeoneWillTell, Seen
  <1>10. CASE Presence!Lapse
    BY <1>10 DEF Presence!Lapse, Agreement, Presence!TypeOK, KeysOwned, SomeoneWillTell, Seen
  <1>11. CASE Presence!Finished
    BY <1>11 DEF Presence!Finished, Presence!vars, Agreement, KeysOwned, SomeoneWillTell, Seen
  <1> QED
    BY <1>2, <1>3, <1>4, <1>5, <1>6, <1>7, <1>8, <1>9, <1>10, <1>11 DEF Presence!Next, Presence!MarkOffline

\* A failure is not forgotten.
LEMMA FailedStays ==
  ASSUME failed, Presence!Next
  PROVE  failed'
  <1> USE DEF Presence!Works, Presence!Fails
  <1>1. ASSUME NEW s \in Connections, Presence!MarkOnline(s) \/ Presence!AddDevice(s) \/ Presence!AnnounceOnline(s) \/ Presence!Leave(s)
        PROVE  failed'
    BY <1>1, Zenon DEF Presence!MarkOnline, Presence!AddDevice, Presence!AnnounceOnline, Presence!Leave
  <1>2. ASSUME NEW s \in Connections, Presence!MarkOffline(s)
        PROVE  failed'
    BY <1>2, Zenon DEF Presence!MarkOffline, Presence!DeleteKey, Presence!RemoveDevice, Presence!CheckLast, Presence!AnnounceOffline
  <1> QED
    BY <1>1, <1>2, Zenon DEF Presence!Next, Presence!Lapse, Presence!Finished, Presence!vars

LEMMA PresenceNext ==
  ASSUME PresenceInv, Presence!Next
  PROVE  PresenceInv'
  <1>1. Presence!TypeOK'
    BY PresenceTypes DEF PresenceInv
  <1>2. CASE failed'
    BY <1>1, <1>2, Zenon DEF PresenceInv
  <1>3. CASE ~ failed'
    <2>1. Presence!TypeOK /\ Agreement
      BY <1>3, FailedStays, Zenon DEF PresenceInv
    <2>2. ~ Presence!Fails
      BY <1>3, Zenon DEF Presence!Fails
    <2>3. Agreement'
      BY <2>1, <2>2, AgreementStep, Zenon
    <2> QED
      BY <1>1, <2>3, Zenon DEF PresenceInv
  <1> QED
    BY <1>2, <1>3

LEMMA PresenceStutters ==
  ASSUME PresenceInv, UNCHANGED <<at, device, key, listed, lastSeen, announced, failed>>
  PROVE  PresenceInv'
  <1>1. Presence!TypeOK'
    BY DEF PresenceInv, Presence!TypeOK
  <1>2. Agreement => Agreement'
    BY DEF Agreement, KeysOwned, SomeoneWillTell, Seen, Presence!User
  <1> QED
    BY <1>1, <1>2, Zenon DEF PresenceInv

LEMMA NoGhostHolds == PresenceInv => Presence!NoGhostDevice
  BY Zenon DEF PresenceInv, Agreement, KeysOwned, Underway, Presence!NoGhostDevice

LEMMA QuietHolds == PresenceInv => Presence!QuietMeansOffline
  <1> SUFFICES ASSUME PresenceInv, ~failed, NEW u \in People,
                      \A s \in Connections : Presence!User(s) = u => at[s] \in {"new", "done"},
                      NEW t \in Connections, Presence!User(t) = u, at[t] = "done"
               PROVE  ~ Presence!IsOnline(u) /\ announced[u] = "offline" /\ u \in lastSeen
    BY Zenon DEF Presence!QuietMeansOffline
  <1>1. Presence!TypeOK /\ Agreement
    BY Zenon DEF PresenceInv
  <1>2. ~ Presence!IsOnline(u)
    BY <1>1 DEF Presence!IsOnline, Agreement, KeysOwned, Underway, Presence!User
  <1>3. announced[u] = "offline"
    BY <1>1 DEF Agreement, SomeoneWillTell, Presence!TypeOK, Open, Underway
  <1>4. u \in lastSeen
    BY <1>1 DEF Agreement, Seen
  <1> QED
    BY <1>2, <1>3, <1>4

\* Until a command to Redis fails, every presence key belongs to a connection that has yet to remove
\* it (MarkOnline and MarkOffline in ServeHTTP).
THEOREM KeysHaveOwners == Spec => []NoGhostDevice
  <1> DEFINE Holds == active = "presence" => PresenceInv
  <1>1. Init => Holds
    BY PresenceInit DEF Init
  <1>2. Holds /\ [Next]_<<active, shared>> => Holds'
    <2> SUFFICES ASSUME active = "presence", PresenceInv, [Next]_<<active, shared>> PROVE PresenceInv'
      BY OneMoves
    <2>1. CASE Presence!Next
      BY <2>1, PresenceNext
    <2>2. CASE UNCHANGED shared
      BY <2>2, PresenceStutters DEF shared
    <2> QED
      BY <2>1, <2>2, OneMoves
  <1>3. Holds => NoGhostDevice
    BY NoGhostHolds DEF NoGhostDevice
  <1> QED
    BY <1>1, <1>2, <1>3, PTL DEF Spec

\* Until a command to Redis fails, a user whose connections have all gone is offline, was last
\* announced offline and has a last_seen, however the steps of MarkOnline and MarkOffline of several
\* connections interleave.
THEOREM QuietUsersAreOffline == Spec => []QuietMeansOffline
  <1> DEFINE Holds == active = "presence" => PresenceInv
  <1>1. Init => Holds
    BY PresenceInit DEF Init
  <1>2. Holds /\ [Next]_<<active, shared>> => Holds'
    <2> SUFFICES ASSUME active = "presence", PresenceInv, [Next]_<<active, shared>> PROVE PresenceInv'
      BY OneMoves
    <2>1. CASE Presence!Next
      BY <2>1, PresenceNext
    <2>2. CASE UNCHANGED shared
      BY <2>2, PresenceStutters DEF shared
    <2> QED
      BY <2>1, <2>2, OneMoves
  <1>3. Holds => QuietMeansOffline
    BY QuietHolds DEF QuietMeansOffline
  <1> QED
    BY <1>1, <1>2, <1>3, PTL DEF Spec
=============================================================================
