----------------------------- MODULE Outbox_proofs -----------------------------
(***************************************************************************)
(* Sending from the mobile app for every number of messages and of         *)
(* abandoned requests, and under any of the faults: what the screen says   *)
(* of a message is what became of it.                                      *)
(***************************************************************************)
EXTENDS Outbox, TLAPS, FiniteSetTheorems

StoredKeys == {k \in ClientIds : stored[k] # 0}

\* Where an attempt is in progress.
Busy == {"wait", "give_up", "retry_later", "drop", "defer"}

\* The flush works through entries that are still in the outbox: the one it
\* attempts is not among those it has yet to take up.
FlushOwnsItsEntries ==
    /\ batch \subseteq outbox /\ entry \subseteq outbox
    /\ entry \cap batch = {} /\ \A j, k \in entry : j = k
    /\ step \notin Busy => entry = {}

\* There is an answer only while one is waited for, and at most one request is
\* waited for, until it has its answer.
OneAnswer ==
    /\ step # "wait" => reply = NoReply
    /\ \A r \in requests : r.awaited => step = "wait" /\ entry = {r.cmid} /\ reply.result = "none"
    /\ \A r, q \in requests : r.awaited /\ q.awaited => r = q

\* An answer says what the server did: the number of the stored message, or
\* that the server refuses the message, unless slow mode held it up or its
\* permission changed.
AnswerIsTrue ==
    \A k \in entry :
        /\ reply.result = "ok" => stored[k] # 0 /\ reply.seq = stored[k]
        /\ ~slow_mode /\ k \notin wavered /\ (reply.result = "rejected" \/ step \in {"give_up", "drop"})
             => k \in refused

RefusedIsNotStored == \A k \in refused \ wavered : stored[k] = 0

\* Of a message that is not written yet there is nothing anywhere.
Unwritten ==
    \A k \in ClientIds : row[k].id = "none" =>
        row[k] = NoRow /\ stored[k] = 0 /\ \A q \in requests : q.cmid # k

\* A row has an entry until it is shown as sent or the server refused it.
LeftTheOutbox ==
    /\ \A k \in outbox : row[k].id # "none"
    /\ \A k \in ClientIds : step = "drop" /\ k \in entry /\ row[k].id = "client" => row[k].status = "failed"
    /\ ~slow_mode => \A k \in ClientIds \ wavered :
         /\ row[k].id # "none" /\ k \notin outbox => row[k].status = "sent" \/ k \in refused
         /\ row[k].status = "failed" => k \in refused

OutboxInv ==
    /\ TypeOK /\ IsFiniteSet(StoredKeys)
    /\ FlushOwnsItsEntries /\ OneAnswer
    /\ AnswerIsTrue /\ RefusedIsNotStored /\ Unwritten /\ LeftTheOutbox
    /\ NothingForgotten /\ SentIsStored

\* An empty store, and what the first message makes of it.
LEMMA NumbersGrow ==
  ASSUME IsFiniteSet(StoredKeys), stored \in [ClientIds -> 0..LastSeq]
  PROVE  LastSeq \in Nat
  BY FS_CardinalityType DEF StoredKeys, LastSeq

\* Repository.Send: the numbers stay within the count of what is stored.
LEMMA StoreNumbers ==
  ASSUME TypeOK, IsFiniteSet(StoredKeys), NEW k \in ClientIds, stored' = Store(k)
  PROVE  /\ stored' \in [ClientIds -> 0..LastSeq'] /\ IsFiniteSet(StoredKeys')
         /\ stored'[k] # 0
         /\ \A j \in ClientIds : (stored[j] # 0 \/ j # k) => stored'[j] = stored[j]
<1>1. LastSeq \in Nat
  BY NumbersGrow DEF TypeOK
<1>2. CASE stored[k] # 0
  BY <1>2 DEF Store, TypeOK, StoredKeys, LastSeq
<1>3. CASE stored[k] = 0
  <2>1. stored' = [stored EXCEPT ![k] = LastSeq + 1]
    BY <1>3 DEF Store
  <2>2. StoredKeys' = StoredKeys \cup {k} /\ k \notin StoredKeys
    BY <1>1, <1>3, <2>1 DEF StoredKeys, TypeOK
  <2>3. IsFiniteSet(StoredKeys') /\ Cardinality(StoredKeys') = Cardinality(StoredKeys) + 1
    BY <2>2, FS_AddElement
  <2>4. LastSeq' = LastSeq + 1
    BY <2>3 DEF StoredKeys, LastSeq
  <2>5. \A j \in ClientIds : stored'[j] \in 0..(LastSeq + 1)
    BY <1>1, <2>1 DEF TypeOK
  <2>6. stored' \in [ClientIds -> 0..LastSeq']
    BY <2>1, <2>4, <2>5 DEF TypeOK
  <2>7. /\ stored'[k] # 0
        /\ \A j \in ClientIds : (stored[j] # 0 \/ j # k) => stored'[j] = stored[j]
    BY <1>1, <1>3, <2>1 DEF TypeOK
  <2> QED
    BY <2>3, <2>6, <2>7
<1> QED
  BY <1>2, <1>3

\* Nothing is written, stored or under way at first.
LEMMA OutboxInit == Init => OutboxInv
<1> SUFFICES ASSUME Init PROVE OutboxInv
  OBVIOUS
<1>1. StoredKeys = {}
  BY DEF Init, StoredKeys
<1>2. IsFiniteSet(StoredKeys) /\ LastSeq = 0
  BY <1>1, FS_EmptySet DEF StoredKeys, LastSeq
<1>3. TypeOK
  <2>1. NoRow \in Row /\ NoReply \in Reply
    BY DEF NoRow, Row, NoReply, Reply, MessageStatus
  <2>2. stored \in [ClientIds -> 0..LastSeq]
    BY <1>2 DEF Init
  <2> QED
    BY <2>1, <2>2, OutboxRefused, OutboxSlow DEF Init, TypeOK, Steps
<1> QED
  BY <1>2, <1>3, OutboxRefused DEF Init, OutboxInv, FlushOwnsItsEntries, OneAnswer, AnswerIsTrue,
     RefusedIsNotStored, Unwritten, LeftTheOutbox, NothingForgotten, SentIsStored, NoRow, NoReply, Busy

\* While the server's tables stand still, so do the numbers.
LEMMA StillNumbers ==
  ASSUME TypeOK, IsFiniteSet(StoredKeys), stored' = stored
  PROVE  stored' \in [ClientIds -> 0..LastSeq'] /\ IsFiniteSet(StoredKeys')
  BY DEF TypeOK, StoredKeys, LastSeq

\* The user writes a message; an echo arrives; an entry comes due.
LEMMA LocalStep ==
  ASSUME OutboxInv, NEW k \in ClientIds, send(k) \/ storeMessage(k) \/ Tick(k)
  PROVE  OutboxInv'
<1> USE DEF OutboxInv
<1>0. UNCHANGED <<stored, refused, slow_mode, wavered, cooling, requests, connected, step, batch, entry, reply>>
  BY DEF send, storeMessage, Tick, server, rules, flush
<1>1. row' \in [ClientIds -> Row]
  BY DEF send, storeMessage, Tick, upsertMessage, TypeOK, Row, MessageStatus
<1>2. TypeOK' /\ IsFiniteSet(StoredKeys')
  BY <1>0, <1>1, StillNumbers DEF TypeOK, send, storeMessage, Tick
<1>3. outbox \subseteq outbox'
  BY <1>0 DEF send, storeMessage, Tick
<1>4. FlushOwnsItsEntries' /\ OneAnswer' /\ AnswerIsTrue' /\ RefusedIsNotStored'
  BY <1>0, <1>3 DEF FlushOwnsItsEntries, OneAnswer, AnswerIsTrue, RefusedIsNotStored
<1>5. LeftTheOutbox' /\ NothingForgotten' /\ SentIsStored'
  <2>1. CASE send(k)
    <3>1. /\ outbox' = outbox \cup {k} /\ row[k].id = "none"
          /\ row' = [row EXCEPT ![k] = [id |-> "client", status |-> "pending", seq |-> 0]]
      BY <2>1 DEF send
    <3>2. k \notin outbox /\ k \notin entry
      BY <3>1 DEF LeftTheOutbox, FlushOwnsItsEntries
    <3>3. LeftTheOutbox'
      BY <1>0, <3>1, <3>2 DEF LeftTheOutbox, TypeOK
    <3>4. NothingForgotten' /\ SentIsStored'
      BY <1>0, <3>1 DEF NothingForgotten, SentIsStored, TypeOK
    <3> QED
      BY <3>3, <3>4
  <2>2. CASE storeMessage(k)
    BY <1>0, <2>2 DEF storeMessage, upsertMessage, LeftTheOutbox, NothingForgotten, SentIsStored, TypeOK
  <2>3. CASE Tick(k)
    BY <1>0, <2>3 DEF Tick, LeftTheOutbox, NothingForgotten, SentIsStored
  <2> QED
    BY <2>1, <2>2, <2>3
<1>6. Unwritten'
  BY <1>0 DEF Unwritten, send, storeMessage, Tick, upsertMessage, TypeOK
<1> QED
  BY <1>2, <1>4, <1>5, <1>6

\* The flush takes up an entry that is still in the outbox.
LEMMA AttemptStep ==
  ASSUME OutboxInv, NEW k \in ClientIds, attempt(k)
  PROVE  OutboxInv'
<1> USE DEF OutboxInv
<1>0. /\ UNCHANGED <<stored, refused, slow_mode, wavered, cooling, connected, outbox, due, echoed>>
      /\ step = "next" /\ k \in batch /\ step' = "wait" /\ entry' = {k} /\ batch' = batch \ {k}
      /\ reply' = NoReply /\ row' = [row EXCEPT ![k].status = "sending"]
  BY DEF attempt, server, rules, MarkStatus
<1>1. PICK v \in {"socket", "rest"} :
        requests' = requests \cup {[cmid |-> k, via |-> v, awaited |-> TRUE]}
  BY DEF attempt
<1>2. row' \in [ClientIds -> Row]
  BY <1>0 DEF TypeOK, Row, MessageStatus
<1>3. requests' \subseteq RequestType
  <2>1. [cmid |-> k, via |-> v, awaited |-> TRUE] \in RequestType
    BY DEF RequestType
  <2> QED
    BY <1>1, <2>1 DEF TypeOK
<1>4. TypeOK' /\ IsFiniteSet(StoredKeys')
  BY <1>0, <1>2, <1>3, StillNumbers DEF TypeOK, Reply, NoReply, Steps
<1>5. FlushOwnsItsEntries' /\ RefusedIsNotStored' /\ AnswerIsTrue'
  BY <1>0 DEF FlushOwnsItsEntries, RefusedIsNotStored, AnswerIsTrue, NoReply, Busy
<1>6. OneAnswer'
  <2>1. \A r \in requests : ~r.awaited
    BY <1>0 DEF OneAnswer
  <2> DEFINE mine == [cmid |-> k, via |-> v, awaited |-> TRUE]
  <2>3. mine.cmid = k
    OBVIOUS
  <2>4. \A r \in requests' : r.awaited => r = mine
    BY <1>1, <2>1
  <2>5. NoReply.result = "none"
    BY DEF NoReply
  <2> QED
    BY <1>0, <2>3, <2>4, <2>5 DEF OneAnswer
<1>7. LeftTheOutbox' /\ NothingForgotten' /\ SentIsStored'
  BY <1>0 DEF LeftTheOutbox, NothingForgotten, SentIsStored, TypeOK, FlushOwnsItsEntries, Row
<1>8. Unwritten'
  <2>1. row[k].id # "none"
    BY <1>0 DEF LeftTheOutbox, FlushOwnsItsEntries
  <2> QED
    BY <1>0, <1>1, <2>1 DEF Unwritten, TypeOK
<1> QED
  BY <1>4, <1>5, <1>6, <1>7, <1>8

\* The answer arrives: the row is promoted and the entry goes, or the failure
\* is about to be recorded.
LEMMA ReplyStep ==
  ASSUME OutboxInv, NEW k \in ClientIds, onReply(k)
  PROVE  OutboxInv'
<1> USE DEF OutboxInv
<1>0. /\ UNCHANGED <<stored, refused, slow_mode, wavered, cooling, connected, requests, echoed, batch>>
      /\ step = "wait" /\ k \in entry /\ reply' = NoReply /\ reply.result # "none"
  BY DEF onReply, server, rules, FailWith
<1>1. \A r \in requests : ~r.awaited
  BY <1>0 DEF OneAnswer
<1>u. Unwritten'
  <2>1. row[k].id # "none" /\ \A j \in ClientIds \ {k} : row'[j] = row[j]
    BY <1>0 DEF LeftTheOutbox, FlushOwnsItsEntries, onReply, confirmMessage, database, TypeOK
  <2>2. row'[k].id # "none"
    BY <1>0, <2>1 DEF onReply, confirmMessage, database, TypeOK
  <2> QED
    BY <1>0, <2>1, <2>2 DEF Unwritten
<1>2. CASE reply.result = "ok"
  <2>1. /\ row' = [row EXCEPT ![k] = [id |-> "server", status |-> "sent", seq |-> reply.seq]]
        /\ outbox' = outbox \ {k} /\ due' = due \ {k} /\ step' = "next" /\ entry' = {}
    BY <1>2 DEF onReply, confirmMessage
  <2>2. reply.seq = stored[k] /\ stored[k] # 0 /\ reply.seq \in Nat
    BY <1>0, <1>2 DEF AnswerIsTrue, TypeOK, Reply
  <2>3. row' \in [ClientIds -> Row]
    BY <2>1, <2>2 DEF TypeOK, Row, MessageStatus
  <2>4. TypeOK' /\ IsFiniteSet(StoredKeys')
    BY <1>0, <2>1, <2>3, StillNumbers DEF TypeOK, Reply, NoReply, Steps
  <2>5. FlushOwnsItsEntries' /\ RefusedIsNotStored' /\ AnswerIsTrue' /\ OneAnswer'
    BY <1>0, <1>1, <2>1 DEF FlushOwnsItsEntries, RefusedIsNotStored, AnswerIsTrue, OneAnswer, NoReply
  <2>6. LeftTheOutbox' /\ NothingForgotten' /\ SentIsStored'
    BY <1>0, <2>1, <2>2 DEF LeftTheOutbox, NothingForgotten, SentIsStored, TypeOK
  <2> QED
    BY <1>u, <2>4, <2>5, <2>6
<1>3. CASE reply.result # "ok"
  <2>1. /\ UNCHANGED <<row, outbox, due, entry>>
        /\ step' \in {"retry_later", "give_up"}
        /\ step' = "give_up" => reply.result = "rejected"
    BY <1>3 DEF onReply, FailWith, isRetryable, database
  <2>2. TypeOK' /\ IsFiniteSet(StoredKeys')
    BY <1>0, <2>1, StillNumbers DEF TypeOK, Reply, NoReply, Steps
  <2>3. FlushOwnsItsEntries' /\ RefusedIsNotStored' /\ OneAnswer'
    BY <1>0, <1>1, <2>1 DEF FlushOwnsItsEntries, RefusedIsNotStored, OneAnswer, Busy
  <2>4. AnswerIsTrue'
    BY <1>0, <2>1 DEF AnswerIsTrue, NoReply
  <2>5. LeftTheOutbox' /\ NothingForgotten' /\ SentIsStored'
    BY <1>0, <2>1 DEF LeftTheOutbox, NothingForgotten, SentIsStored
  <2> QED
    BY <1>u, <2>2, <2>3, <2>4, <2>5
<1> QED
  BY <1>2, <1>3

\* The failure is recorded: first the status, then the entry.
LEMMA FailureStep ==
  ASSUME OutboxInv, NEW k \in ClientIds, markFailure(k) \/ settleFailure(k)
  PROVE  OutboxInv'
<1> USE DEF OutboxInv
<1>0. /\ UNCHANGED <<stored, refused, slow_mode, wavered, cooling, connected, requests, echoed, batch, reply>>
      /\ k \in entry
  BY DEF markFailure, settleFailure, server, rules
<1>u. Unwritten'
  BY <1>0 DEF Unwritten, LeftTheOutbox, FlushOwnsItsEntries, markFailure, settleFailure, MarkStatus,
     TypeOK, Row
<1>1. CASE markFailure(k)
  <2>1. /\ UNCHANGED <<outbox, due, entry>>
        /\ \/ step = "give_up" /\ step' = "drop" /\ row' = [row EXCEPT ![k].status = "failed"]
           \/ step = "retry_later" /\ step' = "defer" /\ row' = [row EXCEPT ![k].status = "pending"]
    BY <1>1 DEF markFailure, MarkStatus
  <2>2. row' \in [ClientIds -> Row]
    BY <2>1 DEF TypeOK, Row, MessageStatus
  <2>3. TypeOK' /\ IsFiniteSet(StoredKeys')
    BY <1>0, <2>1, <2>2, StillNumbers DEF TypeOK, Steps
  <2>4. FlushOwnsItsEntries' /\ RefusedIsNotStored' /\ OneAnswer'
    BY <1>0, <2>1 DEF FlushOwnsItsEntries, RefusedIsNotStored, OneAnswer, Busy
  <2>5. AnswerIsTrue'
    BY <1>0, <2>1 DEF AnswerIsTrue
  <2>6. NothingForgotten' /\ SentIsStored'
    BY <1>0, <2>1 DEF NothingForgotten, SentIsStored, TypeOK, FlushOwnsItsEntries, Row
  <2>7. LeftTheOutbox'
    <3>1. /\ \A j \in ClientIds \ {k} : row'[j] = row[j] /\ j \notin entry
          /\ row'[k].id = row[k].id /\ k \in outbox
      BY <1>0, <2>1 DEF TypeOK, FlushOwnsItsEntries, Row
    <3>2. /\ step' = "drop" => row'[k].status = "failed"
          /\ row'[k].status = "failed" => step = "give_up"
      BY <1>0, <2>1 DEF TypeOK, Row
    <3>3. ~slow_mode /\ k \notin wavered /\ step = "give_up" => k \in refused
      BY <1>0 DEF AnswerIsTrue
    <3>4. ASSUME NEW j \in ClientIds
          PROVE  /\ j \in outbox => row'[j].id # "none"
                 /\ step' = "drop" /\ j \in entry /\ row'[j].id = "client" => row'[j].status = "failed"
                 /\ ~slow_mode /\ j \notin wavered =>
                      /\ row'[j].id # "none" /\ j \notin outbox => row'[j].status = "sent" \/ j \in refused
                      /\ row'[j].status = "failed" => j \in refused
      <4>1. CASE j = k
        BY <3>1, <3>2, <3>3, <4>1 DEF LeftTheOutbox
      <4>2. CASE j # k
        BY <3>1, <4>2 DEF LeftTheOutbox
      <4> QED
        BY <4>1, <4>2
    <3>5. UNCHANGED <<outbox, entry, slow_mode, wavered, refused>> /\ outbox \subseteq ClientIds
      BY <1>0, <2>1 DEF TypeOK
    <3> QED
      BY <3>4, <3>5 DEF LeftTheOutbox
  <2> QED
    BY <1>u, <2>3, <2>4, <2>5, <2>6, <2>7
<1>2. CASE settleFailure(k)
  <2>1. /\ outbox' = IF step = "drop" THEN outbox \ {k} ELSE outbox
        /\ due' = due \ {k} /\ step \in {"drop", "defer"} /\ step' = "next" /\ entry' = {}
        /\ UNCHANGED row
    BY <1>2 DEF settleFailure, SettleEntry
  <2>2. TypeOK' /\ IsFiniteSet(StoredKeys')
    BY <1>0, <2>1, StillNumbers DEF TypeOK, Steps
  <2>3. FlushOwnsItsEntries' /\ RefusedIsNotStored' /\ OneAnswer' /\ AnswerIsTrue' /\ SentIsStored'
    BY <1>0, <2>1 DEF FlushOwnsItsEntries, RefusedIsNotStored, OneAnswer, AnswerIsTrue, SentIsStored
  <2>4. NothingForgotten'
    BY <1>0, <2>1 DEF NothingForgotten, LeftTheOutbox
  <2>5. LeftTheOutbox'
    BY <1>0, <2>1 DEF LeftTheOutbox, AnswerIsTrue
  <2> QED
    BY <1>u, <2>2, <2>3, <2>4, <2>5
<1> QED
  BY <1>1, <1>2

\* A flush starts and ends; the socket opens; the slow-mode interval passes.
LEMMA QuietStep ==
  ASSUME OutboxInv, flushOutbox \/ endFlush \/ Connect \/ CoolDown
  PROVE  OutboxInv'
<1> USE DEF OutboxInv
<1>0. /\ UNCHANGED <<stored, refused, slow_mode, wavered, requests, row, outbox, due, entry, reply, echoed>>
      /\ cooling' \in BOOLEAN /\ connected' \in BOOLEAN
      /\ \/ step' = step /\ batch' = batch
         \/ step = "idle" /\ step' = "next" /\ batch' = due
         \/ step = "next" /\ step' = "idle" /\ batch' = batch
  BY DEF flushOutbox, endFlush, Connect, CoolDown, server, rules, database, flush, TypeOK
<1>1. TypeOK' /\ IsFiniteSet(StoredKeys')
  BY <1>0, StillNumbers DEF TypeOK, Steps
<1>2. FlushOwnsItsEntries' /\ OneAnswer' /\ AnswerIsTrue' /\ RefusedIsNotStored'
  BY <1>0 DEF FlushOwnsItsEntries, OneAnswer, AnswerIsTrue, RefusedIsNotStored, TypeOK, Busy
<1>3. Unwritten' /\ LeftTheOutbox' /\ NothingForgotten' /\ SentIsStored'
  BY <1>0 DEF Unwritten, LeftTheOutbox, NothingForgotten, SentIsStored
<1> QED
  BY <1>1, <1>2, <1>3

\* The permission to send a message changes.  Before the message is written
\* nothing hangs on it; afterwards the message is one that wavered.
LEMMA PermissionStep ==
  ASSUME OutboxInv, NEW k \in ClientIds, PermissionChanges(k)
  PROVE  OutboxInv'
<1> USE DEF OutboxInv
<1>0. /\ UNCHANGED <<stored, slow_mode, cooling, requests, row, outbox, due, connected, step, batch,
                     entry, reply, echoed>>
      /\ refused' \subseteq refused \cup {k} /\ refused \subseteq refused' \cup {k}
      /\ wavered' = IF row[k].id = "none" THEN wavered ELSE wavered \cup {k}
  BY DEF PermissionChanges, database, flush
<1>1. row[k].id = "none" => /\ k \notin outbox /\ k \notin entry
                            /\ stored[k] = 0 /\ row[k].status = "pending"
  BY DEF LeftTheOutbox, FlushOwnsItsEntries, Unwritten, NoRow
<1>2. TypeOK' /\ IsFiniteSet(StoredKeys')
  BY <1>0, StillNumbers DEF TypeOK
<1>3. FlushOwnsItsEntries' /\ OneAnswer' /\ Unwritten' /\ NothingForgotten' /\ SentIsStored'
  BY <1>0 DEF FlushOwnsItsEntries, OneAnswer, Unwritten, NothingForgotten, SentIsStored
<1>4. AnswerIsTrue' /\ RefusedIsNotStored' /\ LeftTheOutbox'
  <2>1. CASE row[k].id = "none"
    BY <1>0, <1>1, <2>1 DEF AnswerIsTrue, RefusedIsNotStored, LeftTheOutbox
  <2>2. CASE row[k].id # "none"
    BY <1>0, <2>2 DEF AnswerIsTrue, RefusedIsNotStored, LeftTheOutbox
  <2> QED
    BY <2>1, <2>2
<1> QED
  BY <1>2, <1>3, <1>4

\* The device gives a request up: at a time-out, with the socket, with the app.
LEMMA AbandonStep ==
  ASSUME OutboxInv, timeout \/ Disconnect \/ Restart
  PROVE  OutboxInv'
<1> USE DEF OutboxInv
<1>0. /\ UNCHANGED <<stored, refused, slow_mode, wavered, cooling, row, outbox, due, echoed>>
      /\ connected' \in BOOLEAN
      /\ \/ UNCHANGED <<step, batch, entry, reply, requests>>
         \/ /\ requests' = Abandoned /\ reply' = NoReply
            /\ \/ step = "wait" /\ step' = "retry_later" /\ UNCHANGED <<batch, entry>>
               \/ step' = "idle" /\ batch' = {} /\ entry' = {}
  BY DEF timeout, Disconnect, Restart, FailWith, server, rules, database, flush, TypeOK
<1>1. Abandoned \subseteq RequestType /\ \A r \in Abandoned : ~r.awaited
  BY DEF Abandoned, RequestType, TypeOK
<1>2. TypeOK' /\ IsFiniteSet(StoredKeys')
  BY <1>0, <1>1, StillNumbers DEF TypeOK, Steps, Reply, NoReply
<1>3. FlushOwnsItsEntries' /\ RefusedIsNotStored'
  BY <1>0 DEF FlushOwnsItsEntries, RefusedIsNotStored, Busy
<1>4. OneAnswer' /\ AnswerIsTrue'
  BY <1>0, <1>1 DEF OneAnswer, AnswerIsTrue, NoReply
<1>5. Unwritten' /\ LeftTheOutbox' /\ NothingForgotten' /\ SentIsStored'
  <2>1. \A q \in requests' : \E p \in requests : q.cmid = p.cmid
    BY <1>0 DEF Abandoned, TypeOK, RequestType
  <2> QED
    BY <1>0, <2>1 DEF Unwritten, LeftTheOutbox, NothingForgotten, SentIsStored
<1> QED
  BY <1>2, <1>3, <1>4, <1>5

\* The server handles a request, which the device may have given up long ago.
LEMMA ServerStep ==
  ASSUME OutboxInv, NEW r \in requests, Send(r)
  PROVE  OutboxInv'
<1> USE DEF OutboxInv
<1>0. /\ UNCHANGED <<refused, slow_mode, wavered, row, outbox, due, connected, step, batch, entry, echoed>>
      /\ requests' = requests \ {r} /\ r \in RequestType
  BY DEF Send, database, server, rules, TypeOK
<1>a. r.cmid \in ClientIds /\ r.via \in {"socket", "rest"} /\ r.awaited \in BOOLEAN
  BY <1>0 DEF RequestType
<1>1. \/ stored' = stored /\ cooling' = cooling /\ Rejects(r.cmid) /\ Answer(r, "rejected", 0)
      \/ stored' = stored /\ cooling' = cooling /\ Answer(r, "error", 0)
      \/ /\ stored' = Store(r.cmid) /\ ~Rejects(r.cmid) /\ cooling' \in BOOLEAN
         /\ Answer(r, "ok", stored'[r.cmid]) \/ Answer(r, "lost", 0)
  BY DEF Send, server, rules
<1>2. /\ stored' \in [ClientIds -> 0..LastSeq'] /\ IsFiniteSet(StoredKeys')
      /\ \A j \in ClientIds : stored[j] # 0 => stored'[j] = stored[j]
      /\ \A j \in ClientIds : stored'[j] # stored[j] => j = r.cmid /\ ~Rejects(j)
      /\ LastSeq' \in Nat
  BY <1>1, <1>a, StillNumbers, StoreNumbers, FS_CardinalityType DEF TypeOK, StoredKeys, LastSeq
<1>3. /\ ~r.awaited => reply' = reply
      /\ r.awaited => /\ reply' \in Reply /\ reply'.result # "none"
                      /\ reply'.result = "ok" => stored'[r.cmid] # 0 /\ reply'.seq = stored'[r.cmid]
                      /\ reply'.result = "rejected" => Rejects(r.cmid)
  BY <1>1, <1>2, <1>a, StoreNumbers DEF Answer, Reply
<1>4. TypeOK'
  BY <1>0, <1>1, <1>2, <1>3 DEF TypeOK
<1>5. FlushOwnsItsEntries'
  BY <1>0 DEF FlushOwnsItsEntries
<1>6. OneAnswer'
  BY <1>0, <1>3 DEF OneAnswer
<1>7. RefusedIsNotStored'
  BY <1>0, <1>2 DEF RefusedIsNotStored, Rejects, TypeOK
<1>8. AnswerIsTrue'
  <2>1. CASE ~r.awaited
    BY <1>0, <1>2, <1>3, <2>1 DEF AnswerIsTrue, TypeOK
  <2>2. CASE r.awaited
    BY <1>0, <1>2, <1>3, <2>2 DEF AnswerIsTrue, OneAnswer, Rejects
  <2> QED
    BY <2>1, <2>2, <1>a
<1>9. LeftTheOutbox' /\ NothingForgotten' /\ SentIsStored'
  BY <1>0, <1>2 DEF LeftTheOutbox, NothingForgotten, SentIsStored
<1>10. Unwritten'
  BY <1>0, <1>2 DEF Unwritten
<1> QED
  BY <1>2, <1>4, <1>5, <1>6, <1>7, <1>8, <1>9, <1>10

LEMMA OutboxStep == OutboxInv /\ [Next]_vars => OutboxInv'
<1> SUFFICES ASSUME OutboxInv, [Next]_vars PROVE OutboxInv'
  OBVIOUS
<1>1. CASE UNCHANGED vars
  <2>1. UNCHANGED <<stored, refused, slow_mode, wavered, cooling, requests, row, outbox, due, connected, step,
                    batch, entry, reply, echoed>>
    BY <1>1 DEF vars, server, rules, database, flush
  <2> QED
    BY <2>1 DEF OutboxInv, TypeOK, StoredKeys, LastSeq, FlushOwnsItsEntries, OneAnswer, AnswerIsTrue,
       RefusedIsNotStored, Unwritten, LeftTheOutbox, NothingForgotten, SentIsStored
<1> QED
  BY <1>1, LocalStep, AttemptStep, ReplyStep, FailureStep, PermissionStep, QuietStep, AbandonStep,
     ServerStep DEF Next

\* A message that is shown as on its way is in the outbox, and one that is shown
\* as sent is stored under the number shown; one that the outbox is done with is
\* shown as sent if the server has it, and as failed only if the server refuses
\* it, unless slow mode is on or the permission to send it changed under way:
\* through lost answers, time-outs, server errors, dropped sockets, restarts and
\* requests handled long after they were given up (flushOutbox, _handleFailure,
\* confirmMessage, Service.Send).
THEOREM OutboxHonest == Spec => []OutboxIsHonest
<1>1. OutboxInv => OutboxIsHonest
  BY DEF OutboxInv, OutboxIsHonest, SettlesHonestly, Settled, LeftTheOutbox, RefusedIsNotStored
<1> QED
  BY <1>1, OutboxInit, OutboxStep, PTL DEF Spec
================================================================================
