----------------------- MODULE ScheduledMessages_proofs -----------------------
(***************************************************************************)
(* Publication of scheduled posts for every number of posts, publishers,   *)
(* claims and crashes: a lease that runs out under a slow publisher, a     *)
(* publisher that dies with its batch, an outcome that is not recorded and *)
(* a revision of what has been claimed put no second message under a key.  *)
(***************************************************************************)
EXTENDS ScheduledMessages, TLAPS, FiniteSetTheorems

\* What publishers work from.
Held(w) == batch[w] \cup current[w]

\* A queued row and what was claimed of it hold a version the author wrote.
RowsWritten == \A k \in Posts : queue[k].id # 0 => queue[k].version \in 1..scheduled
ItemsWritten == \A w \in Workers : \A i \in Held(w) : i.version \in 1..scheduled

\* A publisher that is about to record a publication has its message in the
\* store, whatever happened to the row since it was claimed.
SentIsInStore == \A w \in Workers : at[w] = "sent" => \A i \in current[w] : stored[i.post] # {}

OneVersion == \A k \in Posts : \A v1, v2 \in stored[k] : v1 = v2
PublishedIsStored == \A k \in Posts : queue[k].published => stored[k] # {}

SchedInv ==
    /\ TypeOK
    /\ RowsWritten /\ ItemsWritten
    /\ SentIsInStore /\ OneVersion /\ PublishedIsStored

\* Rows stay rows when one or two of their columns are written.
LEMMA RowWrites ==
  ASSUME NEW r \in Row
  PROVE  /\ [r EXCEPT !.due = TRUE] \in Row /\ [r EXCEPT !.leased = FALSE] \in Row
         /\ [r EXCEPT !.attempts = r.attempts + 1, !.leased = TRUE] \in Row
         /\ [r EXCEPT !.published = TRUE, !.error = FALSE] \in Row
         /\ \A b \in BOOLEAN : [r EXCEPT !.error = TRUE, !.abandoned = b] \in Row
<1> USE DEF Row
<1>1. [r EXCEPT !.due = TRUE] \in Row /\ [r EXCEPT !.leased = FALSE] \in Row
  OBVIOUS
<1>2. [r EXCEPT !.attempts = r.attempts + 1, !.leased = TRUE] \in Row
  <2>1. r.attempts + 1 \in Nat
    OBVIOUS
  <2>2. ASSUME NEW n \in Nat PROVE [r EXCEPT !.attempts = n, !.leased = TRUE] \in Row
    OBVIOUS
  <2> QED
    BY <2>1, <2>2
<1>3. [r EXCEPT !.published = TRUE, !.error = FALSE] \in Row
  OBVIOUS
<1>4. ASSUME NEW b \in BOOLEAN PROVE [r EXCEPT !.error = TRUE, !.abandoned = b] \in Row
  OBVIOUS
<1> QED
  BY <1>1, <1>2, <1>3, <1>4

LEMMA SchedInit == Init => SchedInv
<1> SUFFICES ASSUME Init PROVE SchedInv
  OBVIOUS
<1>1. TypeOK
  BY SchedBounds DEF Init, TypeOK, Row, NoRow
<1>2. RowsWritten /\ ItemsWritten /\ SentIsInStore /\ OneVersion /\ PublishedIsStored
  BY DEF Init, RowsWritten, ItemsWritten, Held, SentIsInStore, OneVersion, PublishedIsStored, NoRow
<1> QED
  BY <1>1, <1>2 DEF SchedInv

\* The author and the clock touch the queue only: a revision starts a row
\* afresh and never one that has published.
LEMMA AuthorStep ==
  ASSUME SchedInv, NEW k \in Posts, Schedule(k) \/ CancelScheduled(k) \/ ComeDue(k) \/ LeaseExpires(k)
  PROVE  SchedInv'
<1> USE DEF SchedInv
<1>0. queue[k] \in Row /\ scheduled \in Nat
  BY SchedBounds DEF TypeOK
<1>1. /\ queue' \in [Posts -> Row] /\ scheduled' \in 0..MaxVersions /\ scheduled <= scheduled'
      /\ \A p \in Posts : /\ queue'[p].published => queue[p].published
                          /\ queue'[p].id # 0 => queue'[p].version \in 1..scheduled'
  <2>1. CASE Schedule(k)
    <3>1. scheduled < MaxVersions /\ scheduled' = scheduled + 1
      BY <2>1 DEF Schedule
    <3>2. /\ Rescheduled(k) \in Row /\ ~Rescheduled(k).published
          /\ Rescheduled(k).version = scheduled + 1
      <4>3. scheduled + 1 \in Nat
        BY <1>0
      <4>1. queue[k].id \in Nat
        BY <1>0 DEF Row
      <4>2. ASSUME NEW i \in Nat, NEW v \in Nat
            PROVE  /\ [NoRow EXCEPT !.id = i, !.version = v] \in Row
                   /\ ~[NoRow EXCEPT !.id = i, !.version = v].published
                   /\ [NoRow EXCEPT !.id = i, !.version = v].version = v
        BY DEF NoRow, Row
      <4> QED
        BY <4>1, <4>2, <4>3 DEF Rescheduled
    <3>3. queue' = [queue EXCEPT ![k] = Rescheduled(k)]
      BY <2>1 DEF Schedule
    <3> QED
      BY <1>0, <3>1, <3>2, <3>3, SchedBounds DEF TypeOK, RowsWritten, Row
  <2>2. CASE CancelScheduled(k)
    BY <1>0, <2>2 DEF CancelScheduled, NoRow, Row, TypeOK, RowsWritten
  <2>3. CASE ComeDue(k)
    <3>1. queue' = [queue EXCEPT ![k] = [queue[k] EXCEPT !.due = TRUE]] /\ scheduled' = scheduled
      BY <2>3 DEF ComeDue, TypeOK
    <3>2. queue' \in [Posts -> Row]
      BY <1>0, <3>1, RowWrites DEF TypeOK
    <3> QED
      BY <1>0, <3>1, <3>2 DEF Row, TypeOK, RowsWritten
  <2>4. CASE LeaseExpires(k)
    <3>1. queue' = [queue EXCEPT ![k] = [queue[k] EXCEPT !.leased = FALSE]] /\ scheduled' = scheduled
      BY <2>4 DEF LeaseExpires, TypeOK
    <3>2. queue' \in [Posts -> Row]
      BY <1>0, <3>1, RowWrites DEF TypeOK
    <3> QED
      BY <1>0, <3>1, <3>2 DEF Row, TypeOK, RowsWritten
  <2> QED
    BY <2>1, <2>2, <2>3, <2>4
<1>2. UNCHANGED <<stored, batch, current, at, crashes, may>> /\ cancelled' \subseteq Posts
  BY DEF Schedule, CancelScheduled, ComeDue, LeaseExpires, publishers, TypeOK
<1>3. TypeOK'
  BY <1>1, <1>2 DEF TypeOK
<1>5. RowsWritten'
  BY <1>1 DEF RowsWritten
<1>6. ItemsWritten'
  BY <1>0, <1>1, <1>2 DEF ItemsWritten, Held, TypeOK, Item
<1>7. SentIsInStore' /\ OneVersion' /\ PublishedIsStored'
  BY <1>1, <1>2 DEF SentIsInStore, OneVersion, PublishedIsStored
<1> QED
  BY <1>3, <1>5, <1>6, <1>7

\* A claim takes rows as they stand.
LEMMA ClaimStep ==
  ASSUME SchedInv, NEW w \in Workers, ClaimDueScheduled(w)
  PROVE  SchedInv'
<1> USE DEF SchedInv
<1>1. PICK s \in SUBSET {k \in Posts : Claimable(k)} :
        /\ queue' = [k \in Posts |->
                       IF k \in s THEN [queue[k] EXCEPT !.attempts = @ + 1, !.leased = TRUE]
                       ELSE queue[k]]
        /\ batch' = [batch EXCEPT ![w] =
                       {[post |-> k, id |-> queue[k].id, version |-> queue[k].version] : k \in s}]
  BY DEF ClaimDueScheduled
<1>2. /\ UNCHANGED <<scheduled, stored, may, current, crashes, cancelled>>
      /\ at' = [at EXCEPT ![w] = "next"]
  BY DEF ClaimDueScheduled
<1>3. \A k \in Posts : queue[k] \in Row
  BY DEF TypeOK
<1>4. queue' \in [Posts -> Row]
  <2>1. \A k \in Posts : [queue[k] EXCEPT !.attempts = @ + 1, !.leased = TRUE] \in Row
    BY <1>3, RowWrites
  <2> QED
    BY <1>1, <1>3, <2>1
<1>5. \A k \in Posts : /\ queue'[k].id = queue[k].id /\ queue'[k].version = queue[k].version
                       /\ queue'[k].published = queue[k].published
  BY <1>1, <1>3 DEF Row
<1>6. \A k \in s : /\ [post |-> k, id |-> queue[k].id, version |-> queue[k].version] \in Item
                   /\ queue[k].version \in 1..scheduled
  BY <1>1, <1>3 DEF Claimable, RowsWritten, Row, Item
<1>7. batch' \in [Workers -> SUBSET Item]
  BY <1>1, <1>6, ZenonT(30) DEF TypeOK
<1>8. TypeOK'
  BY <1>2, <1>4, <1>7 DEF TypeOK
<1>9. RowsWritten' /\ PublishedIsStored' /\ OneVersion'
  BY <1>2, <1>5 DEF RowsWritten, PublishedIsStored, OneVersion
<1>10. ItemsWritten'
  <2> SUFFICES ASSUME NEW v \in Workers, NEW i \in batch'[v] \cup current'[v]
               PROVE  i.version \in 1..scheduled
    BY <1>2 DEF ItemsWritten, Held
  <2>1. CASE v = w /\ i \in batch'[v]
    <3>1. PICK k \in s : i = [post |-> k, id |-> queue[k].id, version |-> queue[k].version]
      BY <1>1, <2>1 DEF TypeOK
    <3> QED
      BY <1>6, <3>1
  <2>2. CASE i \in batch[v] \cup current[v]
    BY <2>2 DEF ItemsWritten, Held
  <2> QED
    BY <1>1, <1>2, <2>1, <2>2 DEF TypeOK
<1>11. SentIsInStore'
  BY <1>2 DEF SentIsInStore, TypeOK
<1> QED
  BY <1>8, <1>9, <1>10, <1>11

\* A send stores a message under a key that has none, and answers with the
\* message that is there otherwise.
LEMMA SendStep ==
  ASSUME SchedInv, NEW w \in Workers, Send(w)
  PROVE  SchedInv'
<1> USE DEF SchedInv
<1>1. PICK i \in batch[w] :
        /\ batch' = [batch EXCEPT ![w] = @ \ {i}]
        /\ current' = [current EXCEPT ![w] = {i}]
        /\ stored' = IF may THEN [stored EXCEPT ![i.post] = Store(i.post, i.version)] ELSE stored
  BY DEF Send
<1>2. /\ at' = [at EXCEPT ![w] = Outcome(may)]
      /\ UNCHANGED <<queue, scheduled, may, crashes, cancelled>>
  BY DEF Send
<1>3. i \in Item /\ i.version \in 1..scheduled /\ i.post \in Posts
  BY DEF TypeOK, ItemsWritten, Held, Item
<1>4. i.version \in 1..MaxVersions
  BY <1>3, SchedBounds DEF TypeOK
<1>5. stored' \in [Posts -> SUBSET (1..MaxVersions)]
  BY <1>1, <1>3, <1>4 DEF Store, TypeOK
<1>6. batch' \in [Workers -> SUBSET Item] /\ current' \in [Workers -> SUBSET Item]
  BY <1>1, <1>3 DEF TypeOK
<1>7. TypeOK'
  BY <1>2, <1>5, <1>6 DEF TypeOK, Outcome
<1>8. \A k \in Posts : stored[k] # {} => stored'[k] = stored[k]
  BY <1>1, <1>3 DEF Store, TypeOK
<1>9. may => stored'[i.post] # {}
  BY <1>1, <1>3 DEF Store, TypeOK
<1>10. OneVersion'
  BY <1>1, <1>3 DEF Store, TypeOK, OneVersion
<1>11. RowsWritten' /\ PublishedIsStored'
  BY <1>2, <1>8 DEF RowsWritten, PublishedIsStored
<1>12. ItemsWritten'
  BY <1>1, <1>2, <1>3 DEF ItemsWritten, Held, TypeOK
<1>13. SentIsInStore'
  BY <1>1, <1>2, <1>3, <1>8, <1>9 DEF SentIsInStore, Outcome, TypeOK, Item
<1> QED
  BY <1>7, <1>10, <1>11, <1>12, <1>13

\* Recording what became of a post changes a row that has not published, and
\* calls it published only after its message was stored.
LEMMA RecordStep ==
  ASSUME SchedInv, NEW w \in Workers,
         MarkScheduledPublished(w) \/ MarkScheduledFailed(w) \/ OutcomeLost(w)
  PROVE  SchedInv'
<1> USE DEF SchedInv
<1>1. /\ current' = [current EXCEPT ![w] = {}] /\ at' = [at EXCEPT ![w] = "next"]
      /\ UNCHANGED <<scheduled, stored, may, batch, cancelled>>
  BY DEF MarkScheduledPublished, MarkScheduledFailed, OutcomeLost, Done
<1>0. crashes' \in 0..MaxCrashes
  <2>1. crashes' = crashes \/ (crashes < MaxCrashes /\ crashes' = crashes + 1)
    BY DEF MarkScheduledPublished, MarkScheduledFailed, OutcomeLost
  <2> QED
    BY <2>1, SchedBounds DEF TypeOK
<1>2. queue' \in [Posts -> Row]
  <2>1. ASSUME NEW i \in current[w], queue' = Marked(i, [queue[i.post] EXCEPT !.published = TRUE, !.error = FALSE])
        PROVE  queue' \in [Posts -> Row]
    BY <2>1, ZenonT(30) DEF Marked, TypeOK, Item, Row
  <2>2. ASSUME NEW i \in current[w],
               queue' = Marked(i, [queue[i.post] EXCEPT !.error = TRUE,
                                     !.abandoned = @ \/ GiveUpAt(queue[i.post].attempts)])
        PROVE  queue' \in [Posts -> Row]
    <3>1. i.post \in Posts /\ queue[i.post] \in Row
      BY DEF TypeOK, Item
    <3>2. (queue[i.post].abandoned \/ GiveUpAt(queue[i.post].attempts)) \in BOOLEAN
      OBVIOUS
    <3>3. [queue[i.post] EXCEPT !.error = TRUE,
              !.abandoned = queue[i.post].abandoned \/ GiveUpAt(queue[i.post].attempts)] \in Row
      BY <3>1, <3>2, RowWrites
    <3> QED
      BY <2>2, <3>1, <3>3 DEF Marked, TypeOK
  <2> QED
    BY <2>1, <2>2 DEF MarkScheduledPublished, MarkScheduledFailed, OutcomeLost, TypeOK
<1>3. \A k \in Posts : /\ queue'[k].id = queue[k].id /\ queue'[k].version = queue[k].version
                       /\ queue'[k].published => queue[k].published \/ stored[k] # {}
  <2>1. ASSUME NEW i \in current[w], at[w] = "sent",
               queue' = Marked(i, [queue[i.post] EXCEPT !.published = TRUE, !.error = FALSE])
        PROVE  \A k \in Posts : /\ queue'[k].id = queue[k].id /\ queue'[k].version = queue[k].version
                                /\ queue'[k].published => queue[k].published \/ stored[k] # {}
    BY <2>1 DEF Marked, TypeOK, Item, Row, SentIsInStore
  <2>2. ASSUME NEW i \in current[w],
               queue' = Marked(i, [queue[i.post] EXCEPT !.error = TRUE,
                                     !.abandoned = @ \/ GiveUpAt(queue[i.post].attempts)])
        PROVE  \A k \in Posts : /\ queue'[k].id = queue[k].id /\ queue'[k].version = queue[k].version
                                /\ queue'[k].published = queue[k].published
    BY <2>2 DEF Marked, TypeOK, Item, Row
  <2> QED
    BY <2>1, <2>2 DEF MarkScheduledPublished, MarkScheduledFailed, OutcomeLost
<1>4. TypeOK'
  BY <1>0, <1>1, <1>2 DEF TypeOK
<1>5. RowsWritten' /\ PublishedIsStored' /\ OneVersion'
  BY <1>1, <1>3 DEF RowsWritten, PublishedIsStored, OneVersion
<1>6. ItemsWritten' /\ SentIsInStore'
  BY <1>1 DEF ItemsWritten, SentIsInStore, Held, TypeOK
<1> QED
  BY <1>4, <1>5, <1>6

LEMMA SchedStep == SchedInv /\ [Next]_vars => SchedInv'
<1> SUFFICES ASSUME SchedInv, [Next]_vars PROVE SchedInv'
  OBVIOUS
<1>1. CASE UNCHANGED vars
  BY <1>1 DEF vars, publishers, SchedInv, TypeOK, RowsWritten, ItemsWritten, Held, SentIsInStore,
              OneVersion, PublishedIsStored
<1>2. CASE RestrictOrLift
  BY <1>2 DEF RestrictOrLift, publishers, SchedInv, TypeOK, RowsWritten, ItemsWritten, Held, SentIsInStore,
              OneVersion, PublishedIsStored
<1>3. ASSUME NEW w \in Workers, EndBatch(w) \/ Crash(w)
      PROVE  SchedInv'
  <2>1. /\ UNCHANGED <<queue, scheduled, stored, may, cancelled>>
        /\ batch' \in [Workers -> SUBSET Item] /\ current' \in [Workers -> SUBSET Item]
        /\ \A v \in Workers : batch'[v] \subseteq batch[v] /\ current'[v] \subseteq current[v]
        /\ at' = [at EXCEPT ![w] = "idle"]
        /\ crashes' \in 0..MaxCrashes
    BY <1>3, SchedBounds DEF EndBatch, Crash, SchedInv, TypeOK
  <2>2. TypeOK'
    BY <2>1 DEF SchedInv, TypeOK
  <2>3. RowsWritten' /\ ItemsWritten' /\ OneVersion' /\ PublishedIsStored'
    BY <2>1 DEF SchedInv, RowsWritten, ItemsWritten, Held, OneVersion, PublishedIsStored
  <2>4. SentIsInStore'
    BY <2>1 DEF SchedInv, SentIsInStore, TypeOK
  <2> QED
    BY <2>2, <2>3, <2>4 DEF SchedInv
<1> QED
  BY <1>1, <1>2, <1>3, AuthorStep, ClaimStep, SendStep, RecordStep DEF Next, PublishDue

\* Two equal elements at most means at most one.
LEMMA AtMostOneVersion ==
  ASSUME NEW S, \A x, y \in S : x = y
  PROVE  Cardinality(S) <= 1
<1>1. CASE S = {}
  BY <1>1, FS_EmptySet
<1>2. ASSUME NEW x \in S PROVE S = {x}
  OBVIOUS
<1> QED
  BY <1>1, <1>2, FS_Singleton

\* However publishers crash, overlap after a lease ran out, send what was
\* revised meanwhile or fail to record it, at most one message carries the key
\* of a post and a row marked published has its message (ClaimDueScheduled,
\* Service.Send, MarkScheduledPublished).
THEOREM ScheduledPublishedOnce == Spec => []PublishedOnce
<1>1. SchedInv => PublishedOnce
  BY AtMostOneVersion DEF SchedInv, PublishedOnce, ExactlyOnce, OneVersion, PublishedIsStored
<1> QED
  BY <1>1, SchedInit, SchedStep, PTL DEF Spec
================================================================================
