----------------------------- MODULE MCAccounts -----------------------------
(* Small instances, for TLC, of the components that serve one account. *)
EXTENDS Accounts, TLC

Symmetry == Permutations(Handlers) \cup Permutations(Workers)

\* A bound: of the requests that complete an upload and the workers that process it, two are
\* busy at once with a video, which has the most steps, and one with anything else; and the sweeper
\* queues a file again when the first job is through or never was published.
TwoAtAFile ==
    active = "media" =>
        /\ Cardinality({h \in Handlers : ~Media!In(h, "idle")})
             + Cardinality({w \in Workers : ~Media!At(w, "idle")}) <= IF x1.kind = "video" THEN 2 ELSE 1
        /\ x5["retry"] = 0 \/ x5["first"] \in {0, MaxDeliver + 1}

\* A bound: behind a story that names two people on its lists, or names one for a channel, or more
\* than two contacts, close friends, posters and erased accounts in all, nothing further happens.
FewNamed ==
    active = "stories" =>
        /\ \A s \in Stories!StoryIds :
              Cardinality(x1[s].allow) + Cardinality(x1[s].deny) + (IF x1[s].channel THEN 1 ELSE 0) <= 1
        /\ Cardinality(x3) + Cardinality(x4) + Cardinality(x5) + Cardinality(x7) <= 2

\* A bound: while a pass over the audience is under way no push is sent, no token registered and
\* nothing read, and the job is delivered again when all that is done; one account has a night.
PassAlone ==
    active = "notifications" =>
        /\ \A w \in NewsWorkers :
              Notifications!At(w, "idle") \/
                 /\ x7 = Notifications!NoPushJob /\ \A t \in Tokens : x3[t].owner = 0
                 /\ \A u \in Notifications!Accounts \ x5[w].failed : x2[u] = x5[w].told[u] /\ x6[u] <= x2[u]
        /\ \A u \in Notifications!Accounts : x1[u].quiet => u = 1
=============================================================================
