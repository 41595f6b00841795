--------------------------- MODULE ScheduledMessages ---------------------------
(***************************************************************************)
(* Scheduled posts: the queue of backend/internal/messaging/organise.go,   *)
(* the author who schedules, revises and cancels, and the publishers       *)
(* (worker.schedulerLoop) that claim due posts under a lease and send them *)
(* through Service.Send.                                                   *)
(*                                                                         *)
(* One author, one chat; a post is named by its client_message_id.  The    *)
(* store behind Service.Send is the one of ChatStore, reduced to what it   *)
(* promises: a second send of the same client_message_id answers with the  *)
(* first message.  The checks of Service.Send come before that lookup.     *)
(***************************************************************************)
EXTENDS Integers, FiniteSets

CONSTANTS
    Posts,          \* client_message_ids the author uses
    Workers,        \* processes running schedulerLoop
    Batch,          \* schedulerBatch: how many posts one claim takes
    MaxAttempts,    \* maxScheduledPublishAttempts
    Author,         \* what the author does besides the first scheduling
    Faults,         \* what goes wrong in this instance
    MaxVersions,    \* bound on what the author writes, first versions and revisions
    MaxClaims,      \* bound on the claims of one version, which may be lost for ever
    MaxCrashes      \* bound on crashes of publishers and on outcomes not recorded

ASSUME SchedBatch == Batch \in Nat \ {0}
ASSUME SchedAttempts == MaxAttempts \in Nat \ {0}
ASSUME SchedAuthor == Author \subseteq {"revise", "cancel"}
ASSUME SchedFaults == Faults \subseteq {"crash", "slow", "restrict", "unrecorded"}
ASSUME SchedBounds == MaxVersions \in Nat \ {0} /\ MaxCrashes \in Nat /\ MaxClaims \in Nat

VARIABLES
    queue,       \* scheduled_messages: post -> its row
    scheduled,   \* how many versions the author has written
    stored,      \* messages: post -> the versions stored under its key
    may,         \* Service.Send lets the author post now
    batch,       \* publisher -> posts it has claimed and not dealt with
    current,     \* publisher -> the post it is sending, or has sent
    at,          \* publisher -> where it stands
    crashes,
    cancelled    \* (ghost) posts whose cancellation was the author's last word

publishers == <<batch, current, at, crashes>>
vars == <<queue, scheduled, stored, may, publishers, cancelled>>

\* A row: its id (0 when there is none), the version it holds, whether its time
\* has come, claimed_until is in the future, and what became of it.
Row == [id : Nat, version : Nat, due : BOOLEAN, leased : BOOLEAN, attempts : Nat,
        published : BOOLEAN, abandoned : BOOLEAN, error : BOOLEAN]
NoRow == [id |-> 0, version |-> 0, due |-> FALSE, leased |-> FALSE, attempts |-> 0,
          published |-> FALSE, abandoned |-> FALSE, error |-> FALSE]

\* What a claim returns and the publisher then works from.
Item == [post : Posts, id : Nat, version : Nat]

Init ==
    /\ queue = [k \in Posts |-> NoRow]
    /\ scheduled = 0
    /\ stored = [k \in Posts |-> {}]
    /\ may = TRUE
    /\ batch = [w \in Workers |-> {}]
    /\ current = [w \in Workers |-> {}]
    /\ at = [w \in Workers |-> "idle"]
    /\ crashes = 0
    /\ cancelled = {}

--------------------------------------------------------------------------------
(* The author                                                                *)

\* A post with this key that is queued is revised in place with a fresh start;
\* one that has published is left alone and the author is told.
Rescheduled(k) ==
    IF queue[k].id = 0
    THEN [NoRow EXCEPT !.id = scheduled + 1, !.version = scheduled + 1]
    ELSE [NoRow EXCEPT !.id = queue[k].id, !.version = scheduled + 1]

Schedule(k) ==
    /\ may /\ scheduled < MaxVersions
    /\ queue[k].id # 0 => "revise" \in Author
    /\ ~queue[k].published
    /\ queue' = [queue EXCEPT ![k] = Rescheduled(k)]
    /\ scheduled' = scheduled + 1
    /\ cancelled' = cancelled \ {k}
    /\ UNCHANGED <<stored, may, publishers>>

CancelScheduled(k) ==
    /\ "cancel" \in Author
    /\ queue[k].id # 0 /\ ~queue[k].published
    /\ queue' = [queue EXCEPT ![k] = NoRow]
    /\ cancelled' = cancelled \cup {k}
    /\ UNCHANGED <<scheduled, stored, may, publishers>>

\* The author is removed, restricted or held by slow mode, and let in again.
RestrictOrLift ==
    /\ "restrict" \in Faults
    /\ may' = ~may
    /\ UNCHANGED <<queue, scheduled, stored, publishers, cancelled>>

--------------------------------------------------------------------------------
(* Time                                                                      *)

ComeDue(k) ==
    /\ queue[k].id # 0 /\ ~queue[k].due
    /\ queue' = [queue EXCEPT ![k].due = TRUE]
    /\ UNCHANGED <<scheduled, stored, may, publishers, cancelled>>

\* A lease runs out two minutes after the claim: behind a publisher that died or
\* has dealt with the post, and, where publishers may be slow, before it has.
Holds(w, k) == \E i \in batch[w] \cup current[w] : i.post = k /\ i.id = queue[k].id

LeaseExpires(k) ==
    /\ queue[k].leased
    /\ "slow" \in Faults \/ \A w \in Workers : ~Holds(w, k)
    /\ queue' = [queue EXCEPT ![k].leased = FALSE]
    /\ UNCHANGED <<scheduled, stored, may, publishers, cancelled>>

--------------------------------------------------------------------------------
(* PublishDue                                                                *)

ClaimableOnce(k) ==
    LET q == queue[k]
    IN  q.id # 0 /\ ~q.published /\ ~q.abandoned /\ q.due /\ ~q.leased /\ q.attempts = 0

Claimable(k) ==
    LET q == queue[k]
    IN  q.id # 0 /\ ~q.published /\ ~q.abandoned /\ q.due /\ ~q.leased

\* Concurrent claims skip each other's rows, so a claim may get any part of what is due.
ClaimDueScheduled(w) ==
    /\ at[w] = "idle"
    /\ \E s \in SUBSET {k \in Posts : Claimable(k)} :
          /\ s # {} /\ Cardinality(s) <= Batch
          /\ \A k \in s : queue[k].attempts < MaxClaims
          /\ queue' = [k \in Posts |->
                         IF k \in s THEN [queue[k] EXCEPT !.attempts = @ + 1, !.leased = TRUE]
                         ELSE queue[k]]
          /\ batch' = [batch EXCEPT ![w] =
                         {[post |-> k, id |-> queue[k].id, version |-> queue[k].version] : k \in s}]
    /\ at' = [at EXCEPT ![w] = "next"]
    /\ UNCHANGED <<scheduled, stored, may, current, crashes, cancelled>>

\* Repository.Send: the message under this key, or a new one.
StoreAnother(k, v) == stored[k] \cup {v}

Store(k, v) == IF stored[k] = {} THEN {v} ELSE stored[k]

Outcome(sent) == IF sent THEN "sent" ELSE "failed"

Send(w) ==
    /\ at[w] = "next" /\ batch[w] # {}
    /\ \E i \in batch[w] :
          /\ batch' = [batch EXCEPT ![w] = @ \ {i}]
          /\ current' = [current EXCEPT ![w] = {i}]
          /\ stored' = IF may THEN [stored EXCEPT ![i.post] = Store(i.post, i.version)] ELSE stored
    /\ at' = [at EXCEPT ![w] = Outcome(may)]
    /\ UNCHANGED <<queue, scheduled, may, crashes, cancelled>>

Done(w) ==
    /\ current' = [current EXCEPT ![w] = {}]
    /\ at' = [at EXCEPT ![w] = "next"]
    /\ UNCHANGED <<scheduled, stored, may, batch, cancelled>>

\* The row with this id, unless it is gone or has published meanwhile.
Marked(i, row) ==
    IF queue[i.post].id = i.id /\ ~queue[i.post].published
    THEN [queue EXCEPT ![i.post] = row] ELSE queue

MarkScheduledPublished(w) ==
    /\ at[w] = "sent"
    /\ \E i \in current[w] :
          queue' = Marked(i, [queue[i.post] EXCEPT !.published = TRUE, !.error = FALSE])
    /\ Done(w)
    /\ UNCHANGED crashes

GiveUpAt(n) == n >= MaxAttempts

MarkScheduledFailed(w) ==
    /\ at[w] = "failed"
    /\ \E i \in current[w] :
          queue' = Marked(i, [queue[i.post] EXCEPT !.error = TRUE,
                                                   !.abandoned = @ \/ GiveUpAt(queue[i.post].attempts)])
    /\ Done(w)
    /\ UNCHANGED crashes

\* Recording the outcome fails; that is logged and the batch goes on.
OutcomeLost(w) ==
    /\ "unrecorded" \in Faults /\ crashes < MaxCrashes
    /\ at[w] \in {"sent", "failed"}
    /\ crashes' = crashes + 1
    /\ UNCHANGED queue
    /\ Done(w)

EndBatch(w) ==
    /\ at[w] = "next" /\ batch[w] = {}
    /\ at' = [at EXCEPT ![w] = "idle"]
    /\ UNCHANGED <<queue, scheduled, stored, may, batch, current, crashes, cancelled>>

\* The process dies with its batch; another one takes its place.
Crash(w) ==
    /\ "crash" \in Faults /\ crashes < MaxCrashes
    /\ at[w] # "idle"
    /\ batch' = [batch EXCEPT ![w] = {}]
    /\ current' = [current EXCEPT ![w] = {}]
    /\ at' = [at EXCEPT ![w] = "idle"]
    /\ crashes' = crashes + 1
    /\ UNCHANGED <<queue, scheduled, stored, may, cancelled>>

--------------------------------------------------------------------------------
PublishDue(w) ==
    \/ ClaimDueScheduled(w) \/ Send(w) \/ MarkScheduledPublished(w)
    \/ MarkScheduledFailed(w) \/ OutcomeLost(w) \/ EndBatch(w)

Next ==
    \/ \E k \in Posts : Schedule(k) \/ CancelScheduled(k) \/ ComeDue(k) \/ LeaseExpires(k)
    \/ RestrictOrLift
    \/ \E w \in Workers : PublishDue(w) \/ Crash(w)

Spec == Init /\ [][Next]_vars

\* Time passes, and a publisher's ticker keeps firing.
FairSpec ==
    /\ Spec
    /\ \A k \in Posts : WF_vars(ComeDue(k)) /\ WF_vars(LeaseExpires(k))
    /\ \A w \in Workers : WF_vars(PublishDue(w))

--------------------------------------------------------------------------------
(* Properties                                                                *)

TypeOK ==
    /\ queue \in [Posts -> Row]
    /\ scheduled \in 0..MaxVersions
    /\ stored \in [Posts -> SUBSET (1..MaxVersions)]
    /\ may \in BOOLEAN
    /\ batch \in [Workers -> SUBSET Item]
    /\ current \in [Workers -> SUBSET Item]
    /\ at \in [Workers -> {"idle", "next", "sent", "failed"}]
    /\ crashes \in 0..MaxCrashes
    /\ cancelled \subseteq Posts

\* Publication is exactly-once: however publishers crash, overlap after a lease
\* ran out or send what was revised meanwhile, at most one message carries the
\* key of a post, and a row marked published has its message.
ExactlyOnce ==
    \A k \in Posts : /\ Cardinality(stored[k]) <= 1
                     /\ queue[k].published => stored[k] # {}

\* Both together, as the run checks them (ClaimDueScheduled, Send, MarkScheduledPublished).
PublishedOnce == TypeOK /\ ExactlyOnce

\* A post whose time has come is published, abandoned with its reason or
\* withdrawn in the end, whatever crashes its publishers suffer.
Settles ==
    \A k \in Posts :
        queue[k].due ~> (queue[k].published \/ queue[k].abandoned \/ queue[k].id = 0)

-----------------------------------------------------------------------------
\* What the repository says of this code and the code does not do. These
\* formulas are violated; README.md says under which constants.

\* A cancelled post is removed before it publishes: it is not sent any more.
CancelledStaysUnsent ==
    [][\A k \in cancelled : stored'[k] = stored[k]]_vars

\* What the author revised last is what is published.
RevisionIsPublished ==
    \A k \in Posts : queue[k].published => stored[k] = {queue[k].version}

\* The compose screen explains a post that did not go out: a post shown with an
\* error is not in the conversation.
FailureIsHonest == \A k \in Posts : queue[k].error => stored[k] = {}
================================================================================
