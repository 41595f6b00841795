------------------------------ MODULE MCChats -------------------------------
(* Small instances, for TLC, of what people do in chats and channels. *)
EXTENDS Chats, TLC

\* Two devices of one user, one of another.
Owners == [d \in Devices |-> IF d = "d3" THEN "b" ELSE "a"]

\* The handles of bots and the groups of a channel are the same names, which nothing tells apart;
\* so are the connections of presence and the people of a call.
Symmetry == Permutations(Groups) \cup Permutations(Handlers) \cup Permutations(Connections)

\* A bound: of a forum's two topics it is the one besides General that is renamed and closed.
OneTopicModerated ==
    active = "topics" =>
        \A h \in Handlers : ForumTopics!In(h, "moderate") \/ ForumTopics!In(h, "edit") => x5[h].topic = 1

\* A bound: the bots of a person keep their flags and have a token at most, and one at most is
\* switched off by request; of two messages or requests in progress one is about deleting a bot,
\* none about tokens, and each bot has one.
DeletionUnderWay ==
    active = "botfather" =>
        /\ \A b \in Handles : x2[b].privacy /\ x2[b].live <= 1
        /\ Cardinality(x5) <= 1
        /\ \A h, g \in Handlers : h # g /\ x3[h].at # "idle" /\ x3[g].at # "idle" =>
              /\ x3[h].at \in {"act", "create"}
              /\ \A b \in Handles : x2[b].state # "free" => x2[b].live = 1
              /\ \E k \in {h, g} : x3[k].text = "deletebot" \/ x3[k].dialog.flow = "delete"

\* A bound: a bot has buttons only in a chat it is in, and who reads an article, one
\* without pictures, has it neither bookmarked nor followed.
ReadersAndButtons ==
    /\ active = "bots" => x1.member \/ x6 = {}
    /\ active = "news" => \A u \in Readers : x3[u].reading => ~x3[u].mark /\ ~x3[u].follow /\ x5 = {}

\* A bound: the other channel has a group, and comments are switched off, only before the post; the
\* reader is in a group only with a mirror; and of the post, its comments and its mirrors one at
\* most is deleted.
OnePostDiscussed ==
    active = "discussions" =>
        /\ x4["p"] # "none" => x1["c2"] = "none"
        /\ x5 # << >> => x3
        /\ x9 \subseteq {x5[m].group : m \in DOMAIN x5}
        /\ Cardinality({p \in Posts : x4[p] = "deleted"}) + Cardinality({i \in DOMAIN x7 : ~x7[i].live})
             + Cardinality({m \in DOMAIN x5 : ~x5[m].live /\ ~x5[m].withdrawn}) <= 1
=============================================================================
