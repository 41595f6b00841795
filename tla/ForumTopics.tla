---------------------------- MODULE ForumTopics ----------------------------
(* A group as a forum: internal/messaging/topics.go with resolveTopic of service.go and the       *)
(* counters that CreateMessage of repository.go moves.                                            *)
(*                                                                                                *)
(* One group.  A message is filed by the sending handler, which decides on a topic first and      *)
(* writes the message in a later transaction; an edit of a topic is decided on the row as it was  *)
(* read.  In between the group may be converted, and the topic closed or deleted.  Topic 0 is the *)
(* General topic.                                                                                 *)
EXTENDS Integers, FiniteSets, Sequences

CONSTANTS
    TopicUsers,     \* the group's members
    TopicStaff,     \* those of them with EditGroup and DeleteMessages
    TopicReader,    \* the member whose read cursors are followed
    ReadTopics,     \* the topics that member reads
    TopicHandlers,  \* sends and edits in progress at once
    MaxTopics,      \* bound: topics opened besides General
    MaxPosts        \* bound: messages sent

VARIABLES
    tpForum,    \* groups.is_forum
    tpTopic,    \* topic -> [state : none, open or deleted, closed, count : message_count, by]
    tpPost,     \* the messages in the order of their numbers: [topic or -1, live, by, late]
    tpRead,     \* topic -> the reader's row: [row, cursor : last_read_seq, unread : unread_count]
    tpReq,      \* handler -> what it decided, and for whom
    tpRule      \* topic -> whether a moderator's last word on it was to close it

tpVars == <<tpForum, tpTopic, tpPost, tpRead, tpReq, tpRule>>

General == 0
Nowhere == -1
Topics == 0 .. MaxTopics
Idle == [at |-> "idle", topic |-> Nowhere, by |-> "nobody", closed |-> FALSE]
In(h, at) == tpReq[h].at = at
Seqs == 1 .. Len(tpPost)
Filed(t) == {s \in Seqs : tpPost[s].topic = t}
Exists(t) == tpTopic[t].state = "open"

Init ==
    /\ tpForum = FALSE
    /\ tpTopic = [t \in Topics |-> [state |-> "none", closed |-> FALSE, count |-> 0, by |-> "nobody"]]
    /\ tpPost = << >>
    /\ tpRead = [t \in Topics |-> [row |-> FALSE, cursor |-> 0, unread |-> 0]]
    /\ tpReq = [h \in TopicHandlers |-> Idle]
    /\ tpRule = [t \in Topics |-> FALSE]

-----------------------------------------------------------------------------
(* Converting the group *)

markForum(forum) == tpForum' = forum

\* The first time, a General topic and the messages that have none filed under it and counted;
\* afterwards the General topic as it is.
EnableForum(actor) ==
    LET loose == Filed(Nowhere) IN
    /\ markForum(TRUE)
    /\ \/ Exists(General) /\ UNCHANGED <<tpTopic, tpPost>>
       \/ /\ ~Exists(General)
          /\ tpTopic' = [tpTopic EXCEPT ![General] =
                [state |-> "open", closed |-> FALSE, count |-> Cardinality(loose), by |-> actor]]
          /\ tpPost' = [s \in Seqs |-> IF s \in loose THEN [tpPost[s] EXCEPT !.topic = General] ELSE tpPost[s]]

DisableForum == markForum(FALSE) /\ UNCHANGED <<tpTopic, tpPost>>

\* Only staff may do either.
authorizeTopics(actor, needsAdmin) == actor \in TopicUsers /\ (needsAdmin => actor \in TopicStaff)

setForum(actor, forum) ==
    /\ authorizeTopics(actor, TRUE) /\ tpForum # forum
    /\ IF forum THEN EnableForum(actor) ELSE DisableForum
    /\ UNCHANGED <<tpRead, tpReq, tpRule>>

-----------------------------------------------------------------------------
(* Sending *)

\* Outside a forum a topic is dropped; in one a message that names none goes to General, and a
\* closed topic is open to staff only.
resolveTopic(h, actor, named) ==
    /\ In(h, "idle") /\ Len(tpPost) < MaxPosts
    /\ tpForum /\ named # Nowhere =>
          Exists(named) /\ (tpTopic[named].closed => actor \in TopicStaff)
    /\ tpReq' = [tpReq EXCEPT ![h] =
          [Idle EXCEPT !.at = "send", !.by = actor,
              !.topic = CASE ~tpForum -> Nowhere
                          [] tpForum /\ named = Nowhere -> General
                          [] OTHER -> named]]
    /\ UNCHANGED <<tpForum, tpTopic, tpPost, tpRead, tpRule>>

\* The topic's counters move with the message.
AdvanceTopic(t, actor) ==
    IF t = Nowhere THEN UNCHANGED <<tpTopic, tpRead>>
    ELSE /\ tpTopic' = [tpTopic EXCEPT ![t].count = @ + 1]
         /\ tpRead' = IF tpRead[t].row /\ actor # TopicReader
                      THEN [tpRead EXCEPT ![t].unread = @ + 1] ELSE tpRead

CreateMessage(h) ==
    LET t == tpReq[h].topic IN
    /\ In(h, "send") /\ Len(tpPost) < MaxPosts
    /\ tpPost' = Append(tpPost, [topic |-> t, live |-> TRUE, by |-> tpReq[h].by,
                                 late |-> t # Nowhere /\ ~Exists(t)])
    /\ AdvanceTopic(t, tpReq[h].by)
    /\ tpReq' = [tpReq EXCEPT ![h] = Idle]
    /\ UNCHANGED <<tpForum, tpRule>>

-----------------------------------------------------------------------------
(* Topics *)

\* Any member who may post opens one, forum or not.
CreateTopic(actor, t) ==
    /\ authorizeTopics(actor, FALSE)
    /\ t # General /\ tpTopic[t].state = "none"
    /\ \A u \in 1 .. t - 1 : tpTopic[u].state # "none"
    /\ tpTopic' = [tpTopic EXCEPT ![t] = [@ EXCEPT !.state = "open", !.by = actor]]
    /\ UNCHANGED <<tpForum, tpPost, tpRead, tpReq, tpRule>>

TopicByID(t) == tpTopic[t]

\* Moderating is for staff, a new title also for who opened the topic, a new icon for any member;
\* decided on what was read.
readTopic(h, actor, t, moderating, title) ==
    /\ In(h, "idle") /\ authorizeTopics(actor, FALSE)
    /\ Exists(t)
    /\ moderating => actor \in TopicStaff
    /\ title => actor \in TopicStaff \/ TopicByID(t).by = actor
    /\ tpReq' = [tpReq EXCEPT ![h] =
          [at |-> IF moderating THEN "moderate" ELSE "edit", topic |-> t, by |-> actor,
           closed |-> TopicByID(t).closed]]
    /\ UNCHANGED <<tpForum, tpTopic, tpPost, tpRead, tpRule>>

\* A form that writes the whole row as it was read.
ReplaceTopic(h, closed) ==
    tpTopic' = [tpTopic EXCEPT ![tpReq[h].topic].closed = IF In(h, "edit") THEN tpReq[h].closed ELSE closed]

\* The fields that were supplied; the rest is left as it is.
UpdateTopic(h, closed) ==
    tpTopic' = IF In(h, "moderate") THEN [tpTopic EXCEPT ![tpReq[h].topic].closed = closed] ELSE tpTopic

updateTopic(h, closed) ==
    /\ In(h, "moderate") \/ (In(h, "edit") /\ ~closed)
    /\ IF Exists(tpReq[h].topic)
       THEN /\ UpdateTopic(h, closed)
            /\ tpRule' = IF In(h, "moderate") THEN [tpRule EXCEPT ![tpReq[h].topic] = closed] ELSE tpRule
       ELSE UNCHANGED <<tpTopic, tpRule>>
    /\ tpReq' = [tpReq EXCEPT ![h] = Idle]
    /\ UNCHANGED <<tpForum, tpPost, tpRead>>

Deletable(t) == Exists(t) /\ t # General

\* What was said in it is tombstoned with it.
DeleteTopic(t) ==
    /\ Deletable(t)
    /\ tpPost' = [s \in Seqs |-> IF s \in Filed(t) THEN [tpPost[s] EXCEPT !.live = FALSE] ELSE tpPost[s]]
    /\ tpTopic' = [tpTopic EXCEPT ![t].state = "deleted"]

deleteTopic(actor, t) ==
    /\ authorizeTopics(actor, FALSE) /\ actor \in TopicStaff
    /\ DeleteTopic(t)
    /\ UNCHANGED <<tpForum, tpRead, tpReq, tpRule>>

Unread(t, cursor) == Cardinality({s \in Filed(t) : tpPost[s].live /\ s > cursor})

\* The first read of a topic writes a row with nothing unread; later ones count again.
MarkTopicRead(t, upto) ==
    LET cursor == IF tpRead[t].cursor > upto THEN tpRead[t].cursor ELSE upto IN
    tpRead' = [tpRead EXCEPT ![t] =
        IF @.row THEN [row |-> TRUE, cursor |-> cursor, unread |-> Unread(t, cursor)]
                 ELSE [row |-> TRUE, cursor |-> upto, unread |-> 0]]

markTopicRead(t, upto) ==
    /\ Exists(t)
    /\ MarkTopicRead(t, upto)
    /\ UNCHANGED <<tpForum, tpTopic, tpPost, tpReq, tpRule>>

Next ==
    \/ \E actor \in TopicUsers :
        \/ \E forum \in BOOLEAN : setForum(actor, forum)
        \/ \E t \in Topics : CreateTopic(actor, t) \/ deleteTopic(actor, t)
        \/ \E h \in TopicHandlers :
            \/ \E named \in Topics \cup {Nowhere} : resolveTopic(h, actor, named)
            \/ \E t \in Topics, moderating, title \in BOOLEAN : readTopic(h, actor, t, moderating, title)
    \/ \E h \in TopicHandlers :
        \/ CreateMessage(h)
        \/ \E closed \in BOOLEAN : updateTopic(h, closed)
    \/ \E t \in ReadTopics, upto \in 0 .. MaxPosts : upto <= Len(tpPost) /\ markTopicRead(t, upto)

Spec == Init /\ [][Next]_tpVars

-----------------------------------------------------------------------------
(* Properties *)

\* A forum always has its General topic; every topic's counter is the number of messages filed
\* under it, across conversions and sends that cross them; a deleted topic leaves no message to
\* be read but those sent into it by a handler that had already looked it up; and a topic is
\* closed exactly when a moderator last said so, whoever renames it at the same time
\* (EnableForum, CreateMessage, DeleteTopic, UpdateTopic).
TopicsHoldTheirMessages ==
    /\ tpForum => Exists(General)
    /\ \A t \in Topics :
        /\ tpTopic[t].count = Cardinality(Filed(t))
        /\ tpTopic[t].state = "deleted" => \A s \in Filed(t) : tpPost[s].live => tpPost[s].late
        /\ tpTopic[t].closed = tpRule[t]

-----------------------------------------------------------------------------
(* What the repository says of this code and the code does not do *)

\* topics.go:5 says of a forum "Every message in such a group belongs to exactly one" topic: what is
\* said while the forum is switched off is filed under none when it is switched on again, and so
\* is a message whose handler looked before the first conversion.
EveryMessageHasATopic == tpForum => Filed(Nowhere) = {}

\* topics.go:335 says that messages left behind by a deleted topic would be "in a forum with no
\* thread to open them from": a send that had looked the topic up leaves one there.
NothingIsLeftBehind ==
    \A t \in Topics : tpTopic[t].state = "deleted" => \A s \in Filed(t) : ~tpPost[s].live

\* topics.go:56 says that the unread count is "from their per-topic cursor": the first read sets it
\* to nothing whatever the cursor, and a later one counts the reader's own messages.
UnreadFollowsTheCursor ==
    \A t \in Topics :
        tpRead[t].row /\ Exists(t) =>
            tpRead[t].unread = Cardinality({s \in Filed(t) :
                tpPost[s].live /\ s > tpRead[t].cursor /\ tpPost[s].by # TopicReader})
=============================================================================
