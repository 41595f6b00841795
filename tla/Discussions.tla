---------------------------- MODULE Discussions ----------------------------
(* Comments on the posts of a channel: internal/groups/comments.go.                               *)
(*                                                                                                *)
(* The posts of one channel, mirrored into a discussion group as they go out, or when somebody    *)
(* first opens their comments.  A mirror is sent and claimed as the root of the post's comments   *)
(* in two transactions, by several handlers at once; a handler may fail at any of them.  The link *)
(* between the channel and a group comes and goes, and the group may be wanted by other channels. *)
EXTENDS Naturals, FiniteSets, Sequences

CONSTANTS
    Channels,          \* the channels; the posts are Channel's
    Channel,
    Groups,            \* the groups
    Posts,             \* the posts
    CommentHandlers,   \* requests and observers in progress at once
    MaxMirrors,        \* bound: mirrors sent
    MaxComments        \* bound: comments sent

VARIABLES
    dcLink,      \* channel -> discussion_chat_id, or "none"
    dcBack,      \* group -> linked_channel_id, or "none"
    dcEnabled,   \* channels.comments_enabled of Channel
    dcPost,      \* post -> none, live or deleted
    dcMirror,    \* the mirrors: [post, group, live, withdrawn, orphan : its handler failed]
    dcThread,    \* post -> the mirror its row in channel_post_comments names, or 0
    dcComment,   \* the comments: [post, root, live]
    dcCount,     \* post -> comment_count
    dcMember,    \* the groups the reader is in as a member
    dcReq        \* handler -> what it is doing

dcVars == <<dcLink, dcBack, dcEnabled, dcPost, dcMirror, dcThread, dcComment, dcCount, dcMember, dcReq>>

Idle == [at |-> "idle", job |-> "none", post |-> "none", group |-> "none", mirror |-> 0, count |-> 0]
In(h, at) == dcReq[h].at = at
Go(h, at) == dcReq' = [dcReq EXCEPT ![h].at = at]
Rest(h) == dcReq' = [dcReq EXCEPT ![h] = Idle]

Init ==
    /\ dcLink = [c \in Channels |-> "none"]
    /\ dcBack = [g \in Groups |-> "none"]
    /\ dcEnabled = TRUE
    /\ dcPost = [p \in Posts |-> "none"]
    /\ dcMirror = << >>
    /\ dcThread = [p \in Posts |-> 0]
    /\ dcComment = << >>
    /\ dcCount = [p \in Posts |-> 0]
    /\ dcMember = {}
    /\ dcReq = [h \in CommentHandlers |-> Idle]

-----------------------------------------------------------------------------
(* The link *)

\* Both ways or not at all; linking the same pair again changes nothing.
LinkDiscussion(c, g) ==
    /\ dcLink[c] \in {"none", g} /\ dcBack[g] \in {"none", c}
    /\ dcLink' = [dcLink EXCEPT ![c] = g]
    /\ dcBack' = [dcBack EXCEPT ![g] = c]

linkDiscussion(c, g) ==
    /\ LinkDiscussion(c, g)
    /\ UNCHANGED <<dcEnabled, dcPost, dcMirror, dcThread, dcComment, dcCount, dcMember, dcReq>>

UnlinkDiscussion(c) ==
    /\ dcLink[c] # "none"
    /\ dcLink' = [dcLink EXCEPT ![c] = "none"]
    /\ dcBack' = [dcBack EXCEPT ![dcLink[c]] = "none"]

unlinkDiscussion(c) ==
    /\ UnlinkDiscussion(c)
    /\ UNCHANGED <<dcEnabled, dcPost, dcMirror, dcThread, dcComment, dcCount, dcMember, dcReq>>

\* The link as a handler reads it.
Discussion == dcLink[Channel]

setCommentsEnabled ==
    /\ dcEnabled' = ~dcEnabled
    /\ UNCHANGED <<dcLink, dcBack, dcPost, dcMirror, dcThread, dcComment, dcCount, dcMember, dcReq>>

-----------------------------------------------------------------------------
(* The mirror of a post *)

Start(h, job, p, at) ==
    dcReq' = [dcReq EXCEPT ![h] =
        [at |-> at, job |-> job, post |-> p, group |-> Discussion, mirror |-> dcThread[p], count |-> 0]]

\* The post stands; where there is a link and comments are on, its mirror follows.
ObserveMessage(h, p) ==
    /\ In(h, "idle") /\ dcPost[p] = "none"
    /\ dcPost' = [dcPost EXCEPT ![p] = "live"]
    /\ IF Discussion # "none" /\ dcEnabled THEN Start(h, "observe", p, "mirror") ELSE UNCHANGED dcReq
    /\ UNCHANGED <<dcLink, dcBack, dcEnabled, dcMirror, dcThread, dcComment, dcCount, dcMember>>

CommentThread(p) == dcThread[p]

\* The thread there is, or one to be made.
CommentThreadFor(h, p) ==
    /\ In(h, "idle") /\ dcPost[p] # "none" /\ Len(dcComment) < MaxComments
    /\ Discussion # "none" /\ dcEnabled
    /\ Start(h, "comment", p, IF CommentThread(p) # 0 THEN "join" ELSE "mirror")
    /\ UNCHANGED <<dcLink, dcBack, dcEnabled, dcPost, dcMirror, dcThread, dcComment, dcCount, dcMember>>

\* The copy is sent into the group the handler read; a deleted post has none.
mirrorPost(h) ==
    LET p == dcReq[h].post IN
    /\ In(h, "mirror")
    /\ IF dcPost[p] = "live"
       THEN /\ Len(dcMirror) < MaxMirrors
            /\ dcMirror' = Append(dcMirror,
                  [post |-> p, group |-> dcReq[h].group, live |-> TRUE, withdrawn |-> FALSE, orphan |-> FALSE])
            /\ dcReq' = [dcReq EXCEPT ![h].at = "claim", ![h].mirror = Len(dcMirror) + 1]
       ELSE Rest(h) /\ UNCHANGED dcMirror
    /\ UNCHANGED <<dcLink, dcBack, dcEnabled, dcPost, dcThread, dcComment, dcCount, dcMember>>

After(h) == IF dcReq[h].job = "observe" THEN Idle ELSE [dcReq[h] EXCEPT !.at = "join"]

\* A form in which the last claim wins.
LastClaim(h) ==
    /\ dcThread' = [dcThread EXCEPT ![dcReq[h].post] = dcReq[h].mirror]
    /\ dcReq' = [dcReq EXCEPT ![h] = After(h)]

\* One row a post: who comes second withdraws its copy.
RecordCommentThread(h) ==
    IF dcThread[dcReq[h].post] = 0
    THEN /\ dcThread' = [dcThread EXCEPT ![dcReq[h].post] = dcReq[h].mirror]
         /\ dcReq' = [dcReq EXCEPT ![h] = After(h)]
    ELSE Go(h, "withdraw") /\ UNCHANGED dcThread

claimMirror(h) ==
    /\ In(h, "claim")
    /\ RecordCommentThread(h)
    /\ UNCHANGED <<dcLink, dcBack, dcEnabled, dcPost, dcMirror, dcComment, dcCount, dcMember>>

\* The thread is then the one that won, also when the withdrawal fails.
WithdrawMirror(h) ==
    /\ In(h, "withdraw")
    /\ \/ dcMirror' = [dcMirror EXCEPT ![dcReq[h].mirror].live = FALSE, ![dcReq[h].mirror].withdrawn = TRUE]
       \/ dcMirror' = [dcMirror EXCEPT ![dcReq[h].mirror].orphan = TRUE]
    /\ dcReq' = [dcReq EXCEPT ![h] = [After(h) EXCEPT !.mirror = IF dcReq[h].job = "observe" THEN 0
                                                                 ELSE CommentThread(dcReq[h].post)]]
    /\ UNCHANGED <<dcLink, dcBack, dcEnabled, dcPost, dcThread, dcComment, dcCount, dcMember>>

\* Sending or claiming fails, or the process ends: the post stands, and a copy that was sent stays.
mirrorFails(h) ==
    /\ dcReq[h].at \in {"mirror", "claim", "withdraw"}
    /\ dcMirror' = IF In(h, "mirror") THEN dcMirror
                   ELSE [dcMirror EXCEPT ![dcReq[h].mirror].orphan = TRUE]
    /\ Rest(h)
    /\ UNCHANGED <<dcLink, dcBack, dcEnabled, dcPost, dcThread, dcComment, dcCount, dcMember>>

-----------------------------------------------------------------------------
(* Comments *)

\* The reader comes into a group by another way, leaves it, or is removed.
memberChanges(g) ==
    /\ dcMember' = IF g \in dcMember THEN dcMember \ {g} ELSE dcMember \cup {g}
    /\ UNCHANGED <<dcLink, dcBack, dcEnabled, dcPost, dcMirror, dcThread, dcComment, dcCount, dcReq>>

\* Commenting joins the group the thread is in.
Join(h) ==
    /\ In(h, "join")
    /\ dcMember' = dcMember \cup {dcMirror[dcReq[h].mirror].group}
    /\ Go(h, "send")
    /\ UNCHANGED <<dcLink, dcBack, dcEnabled, dcPost, dcMirror, dcThread, dcComment, dcCount>>

\* The messenger looks for itself whether the author is in the group, and stores what it let through.
Send(h) ==
    /\ In(h, "send")
    /\ IF dcMirror[dcReq[h].mirror].group \in dcMember THEN Go(h, "store") ELSE Rest(h)
    /\ UNCHANGED <<dcLink, dcBack, dcEnabled, dcPost, dcMirror, dcThread, dcComment, dcCount, dcMember>>

Comment(h) ==
    /\ In(h, "store") /\ Len(dcComment) < MaxComments
    /\ dcComment' = Append(dcComment, [post |-> dcReq[h].post, root |-> dcReq[h].mirror, live |-> TRUE])
    /\ Go(h, "count")
    /\ UNCHANGED <<dcLink, dcBack, dcEnabled, dcPost, dcMirror, dcThread, dcCount, dcMember>>

\* The replies are counted in one statement and the count written in the next.
CountReplies(h) ==
    /\ In(h, "count")
    /\ dcReq' = [dcReq EXCEPT ![h].at = "stats", ![h].count =
          Cardinality({i \in 1 .. Len(dcComment) : dcComment[i].root = dcReq[h].mirror /\ dcComment[i].live})]
    /\ UNCHANGED <<dcLink, dcBack, dcEnabled, dcPost, dcMirror, dcThread, dcComment, dcCount, dcMember>>

CountComments(h) ==
    /\ In(h, "stats")
    /\ dcCount' = [dcCount EXCEPT ![dcReq[h].post] = dcReq[h].count]
    /\ Rest(h)
    /\ UNCHANGED <<dcLink, dcBack, dcEnabled, dcPost, dcMirror, dcThread, dcComment, dcMember>>

commentFails(h) ==
    /\ dcReq[h].at \in {"join", "send", "store", "count", "stats"}
    /\ Rest(h)
    /\ UNCHANGED <<dcLink, dcBack, dcEnabled, dcPost, dcMirror, dcThread, dcComment, dcCount, dcMember>>

\* The messenger's own deletions, of a post, a comment and a mirror: by a moderator, or with time
\* (autoDeleteMessages).
deletePost(p) ==
    /\ dcPost[p] = "live"
    /\ dcPost' = [dcPost EXCEPT ![p] = "deleted"]
    /\ UNCHANGED <<dcLink, dcBack, dcEnabled, dcMirror, dcThread, dcComment, dcCount, dcMember, dcReq>>

deleteComment(i) ==
    /\ dcComment[i].live
    /\ dcComment' = [dcComment EXCEPT ![i].live = FALSE]
    /\ UNCHANGED <<dcLink, dcBack, dcEnabled, dcPost, dcMirror, dcThread, dcCount, dcMember, dcReq>>

deleteMirror(m) ==
    /\ dcMirror[m].live
    /\ dcMirror' = [dcMirror EXCEPT ![m].live = FALSE]
    /\ UNCHANGED <<dcLink, dcBack, dcEnabled, dcPost, dcThread, dcComment, dcCount, dcMember, dcReq>>

Next ==
    \/ \E c \in Channels : unlinkDiscussion(c) \/ \E g \in Groups : linkDiscussion(c, g)
    \/ setCommentsEnabled
    \/ \E p \in Posts : deletePost(p) \/ \E h \in CommentHandlers : ObserveMessage(h, p) \/ CommentThreadFor(h, p)
    \/ \E h \in CommentHandlers :
        \/ mirrorPost(h) \/ claimMirror(h) \/ WithdrawMirror(h) \/ mirrorFails(h)
        \/ Join(h) \/ Send(h) \/ Comment(h) \/ CountReplies(h) \/ CountComments(h) \/ commentFails(h)
    \/ \E g \in Groups : memberChanges(g)
    \/ \E i \in 1 .. Len(dcComment) : deleteComment(i)
    \/ \E m \in 1 .. Len(dcMirror) : deleteMirror(m)

Spec == Init /\ [][Next]_dcVars

-----------------------------------------------------------------------------
(* Properties *)

\* A channel and its group name each other; all the comments of a post, whoever mirrored it and
\* whichever group the channel is linked to by now, answer one and the same mirror, which is of that
\* post and was not withdrawn; and every other copy of the post that is still shown is about to be
\* withdrawn, or was left by a handler that failed, also where moderators delete mirrors meanwhile
\* (LinkDiscussion, UnlinkDiscussion, RecordCommentThread, WithdrawMirror).
OneThreadAPost ==
    /\ \A c \in Channels, g \in Groups : dcLink[c] = g <=> dcBack[g] = c
    /\ \A i \in 1 .. Len(dcComment) : dcComment[i].root = dcThread[dcComment[i].post]
    /\ \A p \in Posts : dcThread[p] # 0 => ~dcMirror[dcThread[p]].withdrawn /\ dcMirror[dcThread[p]].post = p
    /\ \A m \in 1 .. Len(dcMirror) :
        dcMirror[m].live /\ ~dcMirror[m].orphan /\ dcThread[dcMirror[m].post] # m =>
            \E h \in CommentHandlers : dcReq[h].at \in {"claim", "withdraw"} /\ dcReq[h].mirror = m

-----------------------------------------------------------------------------
(* What the repository says of this code and the code does not do *)

\* comments.go:401 withdraws a copy "rather than leave two copies of the same post in the group": a
\* claim or a withdrawal that fails leaves both.
NoSecondCopy ==
    \A m, n \in 1 .. Len(dcMirror) :
        m # n /\ dcMirror[m].live /\ dcMirror[n].live /\ dcMirror[m].post = dcMirror[n].post =>
            \E h \in CommentHandlers : dcReq[h].at \in {"claim", "withdraw"}

\* comments.go:447 says that a reader who is not in the group "is joined by commenting": a comment may
\* still be stored for one who left, or was removed, after the messenger looked.
AuthorsAreIn ==
    [][\A h \in CommentHandlers : In(h, "store") /\ dcReq'[h].at = "count" =>
          dcMirror[dcReq[h].mirror].group \in dcMember]_dcVars

\* comments.go:224 says that a counter that was not recounted "would drift away from the thread it
\* claims to describe": a deleted comment starts no recount, and of two recounts the older may be
\* written last.
CountDescribesTheThread ==
    (\A h \in CommentHandlers : In(h, "idle")) =>
        \A p \in Posts : dcCount[p] = Cardinality({i \in 1 .. Len(dcComment) :
            dcComment[i].post = p /\ dcComment[i].live})
=============================================================================
