------------------------------- MODULE Polls --------------------------------
(***************************************************************************)
(* Polls (backend/internal/polls): a poll is stored, published as a chat   *)
(* message and attached to it in three separate commits; a ballot replaces *)
(* the voter's previous one and the stored tallies under the lock of the   *)
(* poll's row.                                                             *)
(*                                                                         *)
(* Texts are abstracted away; an option is a member of Options.  A ballot  *)
(* is two steps, the locking reads and the commit.                         *)
(***************************************************************************)
EXTENDS Naturals, FiniteSets

CONSTANTS
    Voters,          \* users who create polls and vote
    Options,         \* the answers of a poll
    PollHandlers,    \* requests in flight at the same time
    MaxPolls         \* bound on the polls created

PollIds == 1 .. MaxPolls

VARIABLES
    poPoll,     \* polls and poll_options: id -> row
    poVotes,    \* poll_votes: <<poll, option, voter>>
    poMsg,      \* the message of a client_message_id: the poll its payload and its column name
    poReq,      \* handler -> what it does and what it has read
    poShown,    \* (ghost) <<poll, voter>>: the right answer of the quiz was in an answer
    poFinal     \* (ghost) poll -> its ballots when it was closed

poVars == <<poPoll, poVotes, poMsg, poReq, poShown, poFinal>>

NoPoll == [by |-> "nobody", multiple |-> FALSE, quiz |-> FALSE, due |-> FALSE, closed |-> FALSE,
           total |-> 0, count |-> [o \in Options |-> 0]]
Idle == [at |-> "idle", poll |-> 0, who |-> "nobody", ballot |-> {}, had |-> FALSE]
In(h, at) == poReq[h].at = at
Done(h) == poReq' = [poReq EXCEPT ![h] = Idle]
Exists(p) == poPoll[p] # NoPoll
Ballot(p, u) == {o \in Options : <<p, o, u>> \in poVotes}

Init ==
    /\ poPoll = [p \in PollIds |-> NoPoll]
    /\ poVotes = {}
    /\ poMsg = [payload |-> 0, poll |-> 0]
    /\ poReq = [h \in PollHandlers |-> Idle]
    /\ poShown = {}
    /\ poFinal = [p \in PollIds |-> {}]

\* A quiz has one right answer, so it takes one.
Validated(multiple, quiz) == IF quiz THEN multiple = FALSE ELSE TRUE

\* The poll and its options are one transaction ...
InsertPoll(p, u, multiple, quiz) ==
    /\ ~Exists(p) /\ \A q \in PollIds : q < p => Exists(q)
    /\ poPoll' = [poPoll EXCEPT ![p] = [NoPoll EXCEPT !.by = u, !.multiple = multiple, !.quiz = quiz]]

create(h, u, multiple, quiz) ==
    /\ In(h, "idle") /\ Validated(multiple, quiz)
    /\ \E p \in PollIds :
        /\ InsertPoll(p, u, multiple, quiz)
        /\ poReq' = [poReq EXCEPT ![h] = [Idle EXCEPT !.at = "send", !.poll = p]]
    /\ UNCHANGED <<poVotes, poMsg, poShown, poFinal>>

\* ... the message that carries it another, found again by its client_message_id ...
Create(h) ==
    /\ In(h, "send")
    /\ poMsg' = IF poMsg.payload = 0 THEN [poMsg EXCEPT !.payload = poReq[h].poll] ELSE poMsg
    /\ poReq' = [poReq EXCEPT ![h].at = "attach"]
    /\ UNCHANGED <<poPoll, poVotes, poShown, poFinal>>

\* ... and the link between them a third.
AttachToMessage(h) ==
    /\ In(h, "attach")
    /\ poMsg' = [poMsg EXCEPT !.poll = poReq[h].poll]
    /\ Done(h)
    /\ UNCHANGED <<poPoll, poVotes, poShown, poFinal>>

\* The request ends where it stands: a refused send, a lost connection, a rolled back ballot.
Abandon(h) ==
    /\ ~In(h, "idle")
    /\ Done(h)
    /\ UNCHANGED <<poPoll, poVotes, poMsg, poShown, poFinal>>

\* A form in which the poll is read without FOR UPDATE.
NotLocked(p) == TRUE

\* SELECT ... FOR UPDATE waits for the ballot that holds the poll's row.
PollLocked(p) == \A h \in PollHandlers : ~(In(h, "ballot") /\ poReq[h].poll = p)

\* A poll that is open, and one answer where it takes one.
Admitted(p, ballot) ==
    /\ ~poPoll[p].closed /\ ~poPoll[p].due
    /\ poPoll[p].multiple \/ Cardinality(ballot) <= 1

vote(h, u, p, ballot) ==
    /\ In(h, "idle") /\ Exists(p)
    /\ PollLocked(p)
    /\ Admitted(p, ballot)
    /\ poReq' = [poReq EXCEPT ![h] = [at |-> "ballot", poll |-> p, who |-> u, ballot |-> ballot,
                                      had |-> Ballot(p, u) # {}]]
    /\ UNCHANGED <<poPoll, poVotes, poMsg, poShown, poFinal>>

Less(n) == IF n = 0 THEN 0 ELSE n - 1

\* The previous ballot is withdrawn, the new one recorded; an empty one retracts the vote.
Tallied(row, before, ballot, had) ==
    [row EXCEPT
        !.count = [o \in Options |->
            LET kept == IF o \in before THEN Less(row.count[o]) ELSE row.count[o]
            IN  IF o \in ballot THEN kept + 1 ELSE kept],
        !.total = IF ballot = {} THEN (IF had THEN Less(row.total) ELSE row.total)
                  ELSE IF had THEN row.total ELSE row.total + 1]

\* Service.Vote answers with Service.Get: the right answer of a quiz is left out for a reader
\* without a vote while the poll is not closed.
Shown(p, u) == poPoll[p].quiz /\ (Ballot(p, u) # {} \/ poPoll[p].closed)

Vote(h) ==
    LET r == poReq[h] IN
    /\ In(h, "ballot")
    /\ poPoll' = [poPoll EXCEPT ![r.poll] = Tallied(@, Ballot(r.poll, r.who), r.ballot, r.had)]
    /\ poVotes' = (poVotes \ {<<r.poll, o, r.who>> : o \in Options})
                    \cup {<<r.poll, o, r.who>> : o \in r.ballot}
    /\ poShown' = IF poPoll[r.poll].quiz /\ r.ballot # {} THEN poShown \cup {<<r.poll, r.who>>} ELSE poShown
    /\ Done(h)
    /\ UNCHANGED <<poMsg, poFinal>>

get(p, u) ==
    /\ Exists(p) /\ Shown(p, u)
    /\ poShown' = poShown \cup {<<p, u>>}
    /\ UNCHANGED <<poPoll, poVotes, poMsg, poReq, poFinal>>

\* UPDATE ... WHERE created_by AND closed_at IS NULL, which waits for the row like any other.
Close(p, u) ==
    /\ Exists(p) /\ poPoll[p].by = u /\ ~poPoll[p].closed
    /\ PollLocked(p)
    /\ poPoll' = [poPoll EXCEPT ![p].closed = TRUE]

close(p, u) ==
    /\ Close(p, u)
    /\ poFinal' = [poFinal EXCEPT ![p] = {v \in poVotes : v[1] = p}]
    /\ UNCHANGED <<poVotes, poMsg, poReq, poShown>>

\* closes_at passes.
ClosesAt(p) ==
    /\ Exists(p) /\ ~poPoll[p].due
    /\ poPoll' = [poPoll EXCEPT ![p].due = TRUE]
    /\ UNCHANGED <<poVotes, poMsg, poReq, poShown, poFinal>>

Next ==
    \/ \E h \in PollHandlers :
        \/ \E u \in Voters, multiple, quiz \in BOOLEAN : create(h, u, multiple, quiz)
        \/ Create(h) \/ AttachToMessage(h) \/ Abandon(h) \/ Vote(h)
        \/ \E u \in Voters, p \in PollIds, ballot \in SUBSET Options : vote(h, u, p, ballot)
    \/ \E p \in PollIds : ClosesAt(p) \/ \E u \in Voters : get(p, u) \/ close(p, u)

Spec == Init /\ [][Next]_poVars

-----------------------------------------------------------------------------
(* Properties *)

\* The counters of the options and of the poll say what the stored ballots say, whatever
\* ballots of one voter cross, a poll of one answer holds one from each, and the ballots of a
\* closed poll are those it was closed with (Repository.Vote, Repository.Close).
TalliesMatchBallots ==
    \A p \in PollIds :
        /\ poPoll[p].total = Cardinality({u \in Voters : Ballot(p, u) # {}})
        /\ \A o \in Options : poPoll[p].count[o] = Cardinality({u \in Voters : o \in Ballot(p, u)})
        /\ ~poPoll[p].multiple => \A u \in Voters : Cardinality(Ballot(p, u)) <= 1
        /\ poPoll[p].closed => poFinal[p] = {v \in poVotes : v[1] = p}

-----------------------------------------------------------------------------
(* What the repository says of this code and the code does not do *)

\* polls.go:527 asks for a client_message_id, "required for idempotent delivery": the retry of
\* a create stores a second poll, and the one message names one in its payload and the other
\* in its column.
MessageNamesOnePoll == poMsg.poll # 0 => poMsg.poll = poMsg.payload

\* polls.go:427 says "A quiz hides its answer until the reader has committed to one.": the
\* answer is shown to a voter, who may then vote again.
ShownAnswerIsCommitted ==
    [][\A v \in poShown : Ballot(v[1], v[2])' = Ballot(v[1], v[2])]_poVars
=============================================================================
