--------------------------- MODULE DeviceSync_proofs ---------------------------
(***************************************************************************)
(* Synchronisation for every number of devices, overlapping catch-ups,     *)
(* connections and events, every page size, and under any of the faults:   *)
(* what a device has not acknowledged stays readable, and a device that    *)
(* keeps to the protocol has applied what it acknowledged.                 *)
(***************************************************************************)
EXTENDS DeviceSync, TLAPS, FiniteSetTheorems, WellFoundedInduction

Catchup ==
    [step : {"idle", "get", "apply", "done"}, dev : Devices \cup {NoDevice}, page : 0..MaxPages,
     from : Nat, cursor : Nat, upto : Nat, batch : SUBSET Nat, events : Nat, top : Nat,
     more : BOOLEAN]

\* A catch-up that has started is some device's, and within the log.
CatchupsAreShaped ==
    /\ run \in [Runs -> Catchup]
    /\ \A r \in Runs :
         /\ run[r].step # "idle" => run[r].dev \in Devices
         /\ run[r].cursor <= head /\ run[r].top <= head /\ run[r].batch \subseteq 1..head

\* A frame is about an event that was written, or repeats a cursor that the
\* device's has not fallen behind.
FrameHolds(d, f) ==
    /\ f.event = "message" => f.seq \in 1..head
    /\ f.event = "connected" => f.cursor <= sync_cursor[d]

FramesHold ==
    /\ \A d \in Devices : \A i \in 1..Len(wire[d]) : FrameHolds(d, wire[d][i])
    /\ \A d \in Devices : \A i \in 1..Len(hello[d]) : FrameHolds(d, hello[d][i])

\* Only a device that is signed in has a socket.
SocketsAreSignedIn ==
    /\ registered \subseteq SignedIn
    /\ \A d \in Devices : wire[d] # <<>> \/ hello[d] # <<>> => d \in SignedIn

\* Device d has applied what was written since it signed in, up to c.
Has(d, c) == \A e \in 1..c : e > since[d] => e \in applied[d]

\* What a device acknowledges, and where it goes on reading, it has applied;
\* what a page held it has applied or is about to.
CatchupKeepsUp(r) ==
    /\ run[r].step = "get" => Has(run[r].dev, run[r].cursor)
    /\ run[r].step = "apply" =>
         \A e \in 1..run[r].top : e > since[run[r].dev] => e \in applied[run[r].dev] \cup run[r].batch

ProtocolKept ==
    /\ \A d \in SignedIn \ Mobile : \A c \in acks[d] : Has(d, c)
    /\ \A r \in Runs : run[r].dev \in SignedIn \ Mobile => CatchupKeepsUp(r)

SyncInv ==
    /\ TypeOK /\ CatchupsAreShaped
    /\ FramesHold /\ SocketsAreSignedIn
    /\ UnackedStaysReadable /\ AckedIsApplied /\ ProtocolKept

-----------------------------------------------------------------------------
(* Numbers *)

\* The naturals are well ordered: a set of sequence numbers has a least one ...
LEMMA LeastIsLeast ==
  ASSUME NEW S \in SUBSET Nat, S # {}
  PROVE  Least(S) \in S /\ \A y \in S : Least(S) <= y
<1> DEFINE R == {ss \in Nat \X Nat : ss[1] < ss[2]}
<1>1. IsWellFoundedOn(R, Nat)
  BY NatLessThanWellFounded DEF OpToRel
<1>2. PICK x \in S : \A y \in S : ~ (<<y, x>> \in R)
  BY <1>1, WFMin
<1>3. ASSUME NEW y \in S PROVE x <= y
  <2>1. CASE y < x
    BY <1>2, <2>1
  <2> QED
    BY <2>1
<1> QED
  BY <1>3 DEF Least

\* ... and one that is bounded has a greatest.
LEMMA GreatestExists ==
  ASSUME NEW n \in Nat, NEW S \in SUBSET (0..n), S # {}
  PROVE  \E x \in S : \A y \in S : y <= x
<1> DEFINE D == {n - y : y \in S}
<1>0. \A y \in S : y \in Nat /\ n - y \in Nat
  OBVIOUS
<1>1. D \in SUBSET Nat /\ D # {}
  BY <1>0
<1>2. Least(D) \in D /\ \A z \in D : Least(D) <= z
  BY <1>1, LeastIsLeast
<1>3. PICK x \in S : Least(D) = n - x
  BY <1>2
<1>4. ASSUME NEW y \in S PROVE y <= x
  <2>1. n - y \in D
    OBVIOUS
  <2>2. n - x <= n - y
    BY <1>2, <1>3, <2>1
  <2> QED
    BY <1>0, <2>2
<1> QED
  BY <1>4

\* EventsSince: the page reaches a greatest event and skips nothing below it.
LEMMA PageIsDense ==
  ASSUME TypeOK, NEW c \in Nat, NEW top \in EventsSince(c), NEW e \in log, c < e, e <= top
  PROVE  e \in EventsSince(c)
<1> DEFINE Below(x) == {f \in log : c < f /\ f < x}
<1>1. log \in SUBSET Nat /\ head \in Nat
  BY SyncBounds DEF TypeOK
<1>2. IsFiniteSet(log)
  <2>1. \A f \in log : f <= head
    BY <1>1 DEF TypeOK
  <2> QED
    BY <1>1, <2>1, FS_BoundedSetOfNaturals
<1>3. Below(e) \subseteq Below(top) /\ IsFiniteSet(Below(top))
  <2>1. Below(e) \subseteq Below(top)
    <3>1. top \in Nat /\ e \in Nat /\ \A f \in log : f \in Nat
      BY <1>1 DEF EventsSince
    <3>2. ASSUME NEW f \in log, f < e PROVE f < top
      BY <3>1, <3>2
    <3> QED
      BY <3>2
  <2>2. IsFiniteSet(Below(top))
    BY <1>2, FS_Subset
  <2> QED
    BY <2>1, <2>2
<1>4. /\ Cardinality(Below(e)) \in Nat /\ Cardinality(Below(top)) \in Nat
      /\ Cardinality(Below(e)) <= Cardinality(Below(top))
  BY <1>3, FS_Subset, FS_CardinalityType
<1>5. Cardinality(Below(top)) < PageSize
  BY DEF EventsSince
<1> QED
  BY <1>4, <1>5, SyncBounds DEF EventsSince

-----------------------------------------------------------------------------
(* The invariant *)

LEMMA SyncInit == Init => SyncInv
<1> SUFFICES ASSUME Init PROVE SyncInv
  OBVIOUS
<1>1. Idle \in Catchup
  BY SyncBounds DEF Idle, Catchup
<1>2. TypeOK
  BY SyncBounds DEF Init, TypeOK, Idle, Statuses
<1>3. CatchupsAreShaped
  BY <1>1 DEF Init, CatchupsAreShaped, Idle
<1>4. FramesHold /\ SocketsAreSignedIn
  BY DEF Init, FramesHold, SocketsAreSignedIn
<1>5. UnackedStaysReadable /\ AckedIsApplied /\ ProtocolKept
  BY DEF Init, UnackedStaysReadable, AckedIsApplied, ProtocolKept, SignedIn
<1> QED
  BY <1>2, <1>3, <1>4, <1>5 DEF SyncInv

\* The log grows by one event.
LEMMA CommitStep ==
  ASSUME SyncInv, NEW b \in BOOLEAN, Commit(b)
  PROVE  SyncInv'
<1> USE DEF SyncInv
<1>0. /\ head \in Nat /\ head' = head + 1 /\ head' \in 0..MaxEvents /\ log' = log \cup {head + 1}
      /\ numbered' \subseteq numbered \cup {head + 1} /\ publishing' = publishing \cup {head + 1}
      /\ UNCHANGED <<live, sync_cursor, since, acks, hello, hellos, wire, registered, status,
                     cursor, applied, run>>
  BY SyncBounds DEF Commit, TypeOK, link, local
<1>1. TypeOK'
  <2>1. 0..head \subseteq 0..head' /\ 1..head \subseteq 1..head' /\ head + 1 \in 1..head'
    BY <1>0
  <2> QED
    BY <1>0, <2>1 DEF TypeOK
<1>2. CatchupsAreShaped'
  <2>1. \A r \in Runs : run[r].cursor \in Nat /\ run[r].top \in Nat
    BY DEF CatchupsAreShaped, Catchup
  <2> QED
    BY <1>0, <2>1 DEF CatchupsAreShaped
<1>3. FramesHold' /\ SocketsAreSignedIn'
  <2>1. \A d \in Devices : \A f : FrameHolds(d, f) => FrameHolds(d, f)'
    BY <1>0 DEF FrameHolds
  <2> QED
    BY <1>0, <2>1 DEF FramesHold, SocketsAreSignedIn, SignedIn
<1>4. UnackedStaysReadable'
  BY <1>0 DEF UnackedStaysReadable
<1>5. AckedIsApplied' /\ ProtocolKept'
  BY <1>0 DEF AckedIsApplied, ProtocolKept, CatchupKeepsUp, Has, SignedIn
<1> QED
  BY <1>1, <1>2, <1>3, <1>4, <1>5

\* broadcast and the pruning leave the devices' own state alone.
LEMMA BroadcastStep ==
  ASSUME SyncInv, NEW e \in publishing, broadcast(e)
  PROVE  SyncInv'
<1> USE DEF SyncInv
<1>0. /\ UNCHANGED <<head, log, numbered, live, sync_cursor, since, acks, hello, hellos, registered,
                     status, cursor, applied, run>>
      /\ publishing' = publishing \ {e}
  BY DEF broadcast, local
<1> DEFINE f == [event |-> "message", cursor |-> 0, seq |-> e]
<1>1. PICK got \in SUBSET registered :
        wire' = [d \in Devices |-> IF d \in got THEN Append(wire[d], f) ELSE wire[d]]
  BY DEF broadcast
<1>2. f \in Frame /\ \A d \in Devices : FrameHolds(d, f)
  BY DEF Frame, FrameHolds, TypeOK
<1> HIDE DEF f
<1>3. wire' \in [Devices -> Seq(Frame)]
  BY <1>1, <1>2 DEF TypeOK
<1>4. TypeOK' /\ CatchupsAreShaped'
  BY <1>0, <1>3 DEF TypeOK, CatchupsAreShaped
<1>5. \A d \in Devices : \A i \in 1..Len(wire'[d]) : FrameHolds(d, wire'[d][i])
  <2> SUFFICES ASSUME NEW d \in Devices, NEW i \in 1..Len(wire'[d])
               PROVE  FrameHolds(d, wire'[d][i])
    OBVIOUS
  <2>1. wire[d] \in Seq(Frame)
    BY DEF TypeOK
  <2>2. CASE wire'[d] = wire[d]
    BY <2>2 DEF FramesHold
  <2>3. CASE wire'[d] = Append(wire[d], f)
    <3>1. i \in 1..Len(wire[d]) \/ i = Len(wire[d]) + 1
      BY <2>1, <2>3, <1>2
    <3> QED
      BY <2>1, <2>3, <3>1, <1>2 DEF FramesHold
  <2> QED
    BY <1>1, <2>2, <2>3
<1>6. FramesHold'
  BY <1>0, <1>5 DEF FramesHold, FrameHolds
<1>7. SocketsAreSignedIn'
  BY <1>0, <1>1 DEF SocketsAreSignedIn, SignedIn
<1>8. UnackedStaysReadable' /\ AckedIsApplied' /\ ProtocolKept'
  BY <1>0 DEF UnackedStaysReadable, AckedIsApplied, ProtocolKept, CatchupKeepsUp, Has, SignedIn
<1> QED
  BY <1>4, <1>6, <1>7, <1>8

\* The worker takes away what the slowest live device has consumed.
LEMMA PruneStep ==
  ASSUME SyncInv, NEW k \in Event, PruneEvents(k)
  PROVE  SyncInv'
<1> USE DEF SyncInv
<1>0. /\ UNCHANGED <<head, numbered, publishing, live, sync_cursor, since, acks, hello, hellos, wire,
                     registered, status, cursor, applied, run>>
      /\ log' = {e \in log : ~ (e <= k /\ e <= Consumed)}
  BY DEF PruneEvents, link, local
<1>1. TypeOK' /\ CatchupsAreShaped' /\ FramesHold' /\ SocketsAreSignedIn' /\ AckedIsApplied' /\ ProtocolKept'
  BY <1>0 DEF TypeOK, CatchupsAreShaped, FramesHold, FrameHolds, SocketsAreSignedIn, AckedIsApplied,
     ProtocolKept, CatchupKeepsUp, Has, SignedIn
<1>2. UnackedStaysReadable'
  <2> SUFFICES ASSUME NEW d \in live, NEW e \in 1..head, e > since[d], e > sync_cursor[d]
               PROVE  e \in log'
    BY <1>0 DEF UnackedStaysReadable
  <2>1. e \in log
    BY DEF UnackedStaysReadable
  <2> DEFINE S == {sync_cursor[x] : x \in live}
  <2>2. S \in SUBSET Nat /\ sync_cursor[d] \in S
    BY DEF TypeOK
  <2>3. Consumed \in Nat /\ Consumed <= sync_cursor[d]
    <3>1. Consumed = Least(S)
      BY DEF Consumed
    <3>2. Least(S) \in S /\ Least(S) <= sync_cursor[d]
      BY <2>2, LeastIsLeast
    <3> QED
      BY <2>2, <3>1, <3>2
  <2> QED
    BY <1>0, <2>1, <2>2, <2>3
<1> QED
  BY <1>1, <1>2

\* Signing in starts with the log as it is; signing out leaves the protocol.
LEMMA SignStep ==
  ASSUME SyncInv, NEW d \in Devices, SignIn(d) \/ SignOut(d)
  PROVE  SyncInv'
<1> USE DEF SyncInv
<1>0. UNCHANGED <<head, log, numbered, publishing, sync_cursor, acks, hellos, run>>
  BY DEF SignIn, SignOut, DropLink, link
<1>n. head \in Nat
  BY DEF TypeOK
<1>1. CASE SignIn(d)
  <2>1. /\ UNCHANGED <<hello, wire, registered, cursor, applied>> /\ status[d] = "none"
        /\ live' = live \cup {d} /\ since' = [since EXCEPT ![d] = head]
        /\ status' = [status EXCEPT ![d] = "disconnected"]
    BY <1>1 DEF SignIn, link
  <2>2. TypeOK' /\ CatchupsAreShaped' /\ FramesHold'
    <3>1. TypeOK'
      BY <1>0, <1>n, <2>1 DEF TypeOK, Statuses
    <3>2. CatchupsAreShaped'
      BY <1>0 DEF CatchupsAreShaped
    <3>3. FramesHold'
      BY <1>0, <2>1 DEF FramesHold, FrameHolds
    <3> QED
      BY <3>1, <3>2, <3>3
  <2>3. SignedIn' = SignedIn \cup {d}
    BY <2>1 DEF SignedIn, TypeOK
  <2>4. SocketsAreSignedIn'
    BY <2>1, <2>3 DEF SocketsAreSignedIn
  <2>5. UnackedStaysReadable'
    BY <1>0, <1>n, <2>1 DEF UnackedStaysReadable, TypeOK
  <2>6. \A c \in 0..head : \A e \in 1..c : ~ (e > since'[d])
    BY <1>n, <2>1 DEF TypeOK
  <2>7. AckedIsApplied'
    BY <1>0, <2>1, <2>3, <2>6 DEF AckedIsApplied, TypeOK
  <2>8. ProtocolKept'
    <3>1. \A x \in Devices \ {d} : since'[x] = since[x]
      BY <2>1 DEF TypeOK
    <3>2. ASSUME NEW x \in SignedIn' \ Mobile, NEW c \in acks'[x] PROVE Has(x, c)'
      BY <1>0, <2>1, <2>3, <2>6, <3>1, <3>2 DEF ProtocolKept, Has, TypeOK, SignedIn
    <3>3. ASSUME NEW r \in Runs, run'[r].dev \in SignedIn' \ Mobile PROVE CatchupKeepsUp(r)'
      <4>1. run[r].cursor \in 0..head /\ run[r].top \in 0..head
        BY <1>n DEF CatchupsAreShaped, Catchup
      <4> QED
        BY <1>0, <2>1, <2>3, <2>6, <3>1, <3>3, <4>1 DEF ProtocolKept, CatchupKeepsUp, Has, SignedIn
    <3> QED
      BY <3>2, <3>3 DEF ProtocolKept
  <2> QED
    BY <2>2, <2>4, <2>5, <2>7, <2>8
<1>2. CASE SignOut(d)
  <2>1. /\ live' \subseteq live /\ UNCHANGED since
        /\ registered' = registered \ {d} /\ wire' = [wire EXCEPT ![d] = <<>>]
        /\ hello' = [hello EXCEPT ![d] = <<>>]
        /\ status' = [status EXCEPT ![d] = "signed_out"]
        /\ cursor' = [cursor EXCEPT ![d] = 0] /\ applied' = [applied EXCEPT ![d] = {}]
    BY <1>2 DEF SignOut, DropLink
  <2>2. <<>> \in Seq(Frame)
    OBVIOUS
  <2>3. TypeOK' /\ CatchupsAreShaped'
    BY <1>0, <1>n, <2>1, <2>2 DEF TypeOK, CatchupsAreShaped, Statuses
  <2>4. FramesHold'
    <3>1. \A x \in Devices : wire'[x] \in {wire[x], <<>>} /\ hello'[x] \in {hello[x], <<>>}
      BY <2>1 DEF TypeOK
    <3>2. \A i \in 1..Len(<<>>) : FALSE
      OBVIOUS
    <3>3. \A x \in Devices : \A f : FrameHolds(x, f) => FrameHolds(x, f)'
      BY <1>0 DEF FrameHolds
    <3> QED
      BY <3>1, <3>2, <3>3 DEF FramesHold
  <2>5. SignedIn' = SignedIn \ {d} /\ \A x \in SignedIn' : applied'[x] = applied[x] /\ x \in Devices
    BY <2>1 DEF SignedIn, TypeOK
  <2>6. SocketsAreSignedIn'
    BY <2>1, <2>5 DEF SocketsAreSignedIn, TypeOK
  <2>7. UnackedStaysReadable'
    BY <1>0, <2>1 DEF UnackedStaysReadable
  <2>8. AckedIsApplied' /\ ProtocolKept'
    BY <1>0, <2>1, <2>5 DEF AckedIsApplied, ProtocolKept, CatchupKeepsUp, Has
  <2> QED
    BY <2>3, <2>4, <2>6, <2>7, <2>8
<1> QED
  BY <1>1, <1>2

\* A socket opens, is registered and drops: the first frame repeats the cursor.
LEMMA SocketStep ==
  ASSUME SyncInv, NEW d \in Devices, Handshake(d) \/ register(d) \/ Disconnect(d) \/ Restart(d)
  PROVE  SyncInv'
<1> USE DEF SyncInv
<1>0. UNCHANGED <<head, log, numbered, publishing, live, sync_cursor, since, acks, cursor, applied>>
  BY DEF Handshake, register, Disconnect, Restart, DropLink, server, local
<1>1. /\ status' \in [Devices -> Statuses] /\ SignedIn' = SignedIn
  BY DEF Handshake, register, Disconnect, Restart, local, TypeOK, Statuses, SignedIn
<1>2. \A r \in Runs : run'[r] = run[r] \/ run'[r] = Idle
  BY DEF Handshake, register, Disconnect, Restart, local
<1>3. CatchupsAreShaped' /\ \A r \in Runs : run'[r].page \in 0..MaxPages
  <2>1. Idle \in Catchup /\ Idle.step = "idle" /\ Idle.cursor = 0 /\ Idle.top = 0 /\ Idle.batch = {}
    BY SyncBounds DEF Idle, Catchup
  <2>2. run' \in [Runs -> Catchup]
    BY <2>1 DEF Handshake, register, Disconnect, Restart, local, CatchupsAreShaped
  <2> QED
    <3>1. head' = head /\ head \in Nat
      BY <1>0 DEF TypeOK
    <3>2. ASSUME NEW r \in Runs
          PROVE  /\ run'[r].step # "idle" => run'[r].dev \in Devices
                 /\ run'[r].cursor <= head /\ run'[r].top <= head /\ run'[r].batch \subseteq 1..head
      BY <1>2, <2>1, <3>1 DEF CatchupsAreShaped
    <3>3. \A r \in Runs : run'[r].page \in 0..MaxPages
      BY <2>2 DEF Catchup
    <3> QED
      BY <2>2, <3>1, <3>2, <3>3 DEF CatchupsAreShaped
<1>4. /\ hello' \in [Devices -> Seq(Frame)] /\ wire' \in [Devices -> Seq(Frame)]
      /\ registered' \subseteq Devices /\ FramesHold' /\ SocketsAreSignedIn'
  <2>1. CASE Handshake(d)
    <3> DEFINE f == [event |-> "connected", cursor |-> sync_cursor[d], seq |-> head]
    <3>1. hello' = [hello EXCEPT ![d] = <<f>>] /\ UNCHANGED <<wire, registered>> /\ d \in SignedIn
      BY <2>1 DEF Handshake, SignedIn
    <3>2. f \in Frame /\ FrameHolds(d, f)
      BY DEF Frame, FrameHolds, TypeOK
    <3> HIDE DEF f
    <3>3. <<f>> \in Seq(Frame) /\ Len(<<f>>) = 1 /\ <<f>>[1] = f
      BY <3>2
    <3>4. \A x \in Devices : \A i \in 1..Len(hello'[x]) : FrameHolds(x, hello'[x][i])
      BY <3>1, <3>2, <3>3 DEF FramesHold, TypeOK
    <3>5. FramesHold'
      BY <1>0, <3>1, <3>4 DEF FramesHold, FrameHolds
    <3> QED
      BY <1>1, <3>1, <3>3, <3>5 DEF TypeOK, SocketsAreSignedIn
  <2>2. CASE register(d)
    <3>1. /\ wire' = [wire EXCEPT ![d] = hello[d]] /\ hello' = [hello EXCEPT ![d] = <<>>]
          /\ registered' = registered \cup {d} /\ hello[d] # <<>>
      BY <2>2 DEF register
    <3> QED
      BY <1>0, <1>1, <3>1, SMTT(30) DEF TypeOK, FramesHold, FrameHolds, SocketsAreSignedIn
  <2>3. CASE Disconnect(d) \/ Restart(d)
    <3>1. /\ wire' = [wire EXCEPT ![d] = <<>>] /\ hello' = [hello EXCEPT ![d] = <<>>]
          /\ registered' = registered \ {d}
      BY <2>3 DEF Disconnect, Restart, DropLink
    <3> QED
      BY <1>0, <1>1, <3>1, SMTT(30) DEF TypeOK, FramesHold, FrameHolds, SocketsAreSignedIn
  <2> QED
    BY <2>1, <2>2, <2>3
<1>5. TypeOK'
  BY <1>0, <1>1, <1>3, <1>4 DEF TypeOK, CatchupsAreShaped, Catchup
<1>6. UnackedStaysReadable' /\ AckedIsApplied'
  BY <1>0, <1>1 DEF UnackedStaysReadable, AckedIsApplied
<1>7. ProtocolKept'
  <2>1. Idle.step = "idle"
    BY DEF Idle
  <2> QED
    BY <1>0, <1>1, <1>2, <2>1 DEF ProtocolKept, CatchupKeepsUp, Has
<1> QED
  BY <1>3, <1>4, <1>5, <1>6, <1>7

\* An acknowledgement raises the cursor to something the device has applied.
LEMMA AckStep ==
  ASSUME SyncInv, NEW d \in Devices, handleSyncAck(d)
  PROVE  SyncInv'
<1> USE DEF SyncInv
<1>0. UNCHANGED <<head, log, numbered, publishing, live, since, hello, hellos, wire, registered,
                  status, cursor, applied, run>>
  BY DEF handleSyncAck, local
<1>1. PICK c \in acks[d] : /\ sync_cursor' = [sync_cursor EXCEPT ![d] = Larger(sync_cursor[d], c)]
                           /\ acks' = [acks EXCEPT ![d] = @ \ {c}]
  BY DEF handleSyncAck, UpdateSyncCursor
<1>2. c \in 0..head /\ sync_cursor[d] \in 0..head /\ head \in Nat
  BY DEF TypeOK
<1>3. sync_cursor' \in [Devices -> 0..head] /\ \A x \in Devices : sync_cursor[x] <= sync_cursor'[x]
  BY <1>1, <1>2 DEF Larger, TypeOK
<1>4. TypeOK' /\ CatchupsAreShaped' /\ SocketsAreSignedIn'
  BY <1>0, <1>1, <1>3 DEF TypeOK, CatchupsAreShaped, SocketsAreSignedIn, SignedIn
<1>5. FramesHold'
  <2>1. \A x \in Devices, f \in Frame : FrameHolds(x, f) => FrameHolds(x, f)'
    BY <1>0, <1>2, <1>3, SMTT(30) DEF FrameHolds, Frame, TypeOK
  <2>2. \A x \in Devices : /\ \A i \in 1..Len(wire[x]) : wire[x][i] \in Frame
                           /\ \A i \in 1..Len(hello[x]) : hello[x][i] \in Frame
    BY SMTT(30) DEF TypeOK
  <2> QED
    BY <1>0, <2>1, <2>2 DEF FramesHold
<1>6. UnackedStaysReadable'
  BY <1>0, <1>2, <1>3 DEF UnackedStaysReadable, TypeOK
<1>7. AckedIsApplied'
  BY <1>0, <1>1, <1>2 DEF AckedIsApplied, ProtocolKept, Has, Larger, TypeOK, SignedIn
<1>8. ProtocolKept'
  BY <1>0, <1>1 DEF ProtocolKept, CatchupKeepsUp, Has, SignedIn, TypeOK
<1> QED
  BY <1>4, <1>5, <1>6, <1>7, <1>8

\* One catch-up moves, within the log.
LEMMA ShapeKept ==
  ASSUME CatchupsAreShaped, head \in Nat, head' = head, NEW r \in Runs, NEW q \in Catchup,
         q.step # "idle" => q.dev \in Devices,
         q.cursor <= head, q.top <= head, q.batch \subseteq 1..head,
         run' = [run EXCEPT ![r] = q]
  PROVE  CatchupsAreShaped'
<1>1. run' \in [Runs -> Catchup]
  BY DEF CatchupsAreShaped
<1>2. ASSUME NEW s \in Runs
      PROVE  /\ run'[s].step # "idle" => run'[s].dev \in Devices
             /\ run'[s].cursor <= head /\ run'[s].top <= head /\ run'[s].batch \subseteq 1..head
  <2>1. run'[s] = IF s = r THEN q ELSE run[s]
    BY DEF CatchupsAreShaped
  <2> QED
    BY <2>1 DEF CatchupsAreShaped
<1> QED
  BY <1>1, <1>2 DEF CatchupsAreShaped

\* A cursor or an acknowledgement of one device within the log.
LEMMA CursorsInLog ==
  ASSUME NEW h \in Nat, NEW c \in 0..h, NEW d \in Devices, NEW f \in [Devices -> 0..h],
         NEW g \in [Devices -> SUBSET (0..h)]
  PROVE  /\ [f EXCEPT ![d] = Larger(f[d], c)] \in [Devices -> 0..h]
         /\ [g EXCEPT ![d] = g[d] \cup {c}] \in [Devices -> SUBSET (0..h)]
<1>1. Larger(f[d], c) \in 0..h
  BY DEF Larger
<1>2. g[d] \cup {c} \in SUBSET (0..h)
  OBVIOUS
<1> QED
  BY <1>1, <1>2

\* Taking a frame off the socket leaves the others.
LEMMA TailHolds ==
  ASSUME SyncInv, NEW d \in Devices, wire[d] # <<>>, wire' = [wire EXCEPT ![d] = Tail(@)],
         UNCHANGED <<head, sync_cursor, hello>>
  PROVE  /\ wire' \in [Devices -> Seq(Frame)] /\ FramesHold'
         /\ Head(wire[d]) \in Frame /\ FrameHolds(d, Head(wire[d]))
         /\ \A x \in Devices : wire'[x] # <<>> => wire[x] # <<>>
<1> USE DEF SyncInv
<1>1. wire[d] \in Seq(Frame) /\ wire \in [Devices -> Seq(Frame)]
  BY DEF TypeOK
<1>2. /\ Tail(wire[d]) \in Seq(Frame) /\ Len(Tail(wire[d])) = Len(wire[d]) - 1
      /\ \A i \in 1..Len(Tail(wire[d])) : Tail(wire[d])[i] = wire[d][i + 1] /\ i + 1 \in 1..Len(wire[d])
      /\ Head(wire[d]) = wire[d][1] /\ 1 \in 1..Len(wire[d]) /\ wire[d][1] \in Frame
  BY <1>1
<1>3. wire' \in [Devices -> Seq(Frame)]
  BY <1>1, <1>2
<1>4. \A x \in Devices : \A f : FrameHolds(x, f) => FrameHolds(x, f)'
  BY DEF FrameHolds
<1>5. \A x \in Devices : \A i \in 1..Len(wire'[x]) : FrameHolds(x, wire'[x][i])
  BY <1>1, <1>2 DEF FramesHold
<1>6. FramesHold'
  BY <1>4, <1>5 DEF FramesHold
<1> QED
  BY <1>1, <1>2, <1>3, <1>6 DEF FramesHold

\* The first frame: a catch-up starts at a cursor the device has reached.
LEMMA ConnectedStep ==
  ASSUME SyncInv, NEW d \in Devices, onConnected(d)
  PROVE  SyncInv'
<1> USE DEF SyncInv
<1>0. /\ UNCHANGED <<head, log, numbered, publishing, live, sync_cursor, since, acks, hello, hellos,
                     registered, cursor, applied>>
      /\ wire[d] # <<>> /\ Head(wire[d]).event = "connected" /\ wire' = [wire EXCEPT ![d] = Tail(@)]
  BY DEF onConnected, server
<1>1. /\ wire' \in [Devices -> Seq(Frame)] /\ FramesHold'
      /\ Head(wire[d]) \in Frame /\ FrameHolds(d, Head(wire[d]))
      /\ \A x \in Devices : wire'[x] # <<>> => wire[x] # <<>>
  BY <1>0, TailHolds
<1>2. d \in SignedIn
  BY <1>0 DEF SocketsAreSignedIn
<1>3. status' \in [Devices -> Statuses] /\ SignedIn' = SignedIn
  BY <1>2 DEF onConnected, TypeOK, Statuses, SignedIn
<1>4. SocketsAreSignedIn'
  BY <1>0, <1>1, <1>3 DEF SocketsAreSignedIn
<1>n. head \in Nat /\ cursor[d] \in 0..head /\ sync_cursor[d] \in 0..head
  BY DEF TypeOK
<1>5. \/ UNCHANGED run
      \/ \E c \in 0..head : /\ startCatchUp(d, c)
                            /\ d \notin Mobile => c <= sync_cursor[d]
  <2>1. Head(wire[d]).cursor \in Nat /\ Head(wire[d]).cursor <= sync_cursor[d]
    BY <1>0, <1>1 DEF FrameHolds, Frame
  <2>2. Head(wire[d]).cursor \in 0..head
    BY <1>n, <2>1
  <2> QED
    BY <1>n, <2>1, <2>2 DEF onConnected
<1>6. CASE UNCHANGED run
  <2>1. TypeOK' /\ CatchupsAreShaped'
    BY <1>0, <1>1, <1>3, <1>6 DEF TypeOK, CatchupsAreShaped
  <2>2. UnackedStaysReadable' /\ AckedIsApplied' /\ ProtocolKept'
    BY <1>0, <1>3, <1>6 DEF UnackedStaysReadable, AckedIsApplied, ProtocolKept, CatchupKeepsUp, Has
  <2> QED
    BY <1>1, <1>4, <2>1, <2>2
<1>7. ASSUME NEW c \in 0..head, startCatchUp(d, c), d \notin Mobile => c <= sync_cursor[d]
      PROVE  SyncInv'
  <2> DEFINE q == [Idle EXCEPT !.step = "get", !.dev = d, !.page = 1, !.from = c, !.cursor = c,
                               !.upto = head]
  <2>1. PICK r \in Runs : run' = [run EXCEPT ![r] = q]
    BY <1>7 DEF startCatchUp
  <2>2. /\ q \in Catchup /\ q.step = "get" /\ q.dev = d /\ q.cursor = c /\ q.top = 0 /\ q.batch = {}
        /\ q.page \in 0..MaxPages
    <3>1. 1 \in 0..MaxPages /\ c \in Nat /\ head \in Nat /\ {} \in SUBSET Nat
      BY <1>n, SyncBounds
    <3>2. Idle \in Catchup /\ Idle.top = 0 /\ Idle.batch = {}
      BY SyncBounds DEF Idle, Catchup
    <3> QED
      BY <3>1, <3>2 DEF Catchup
  <2> HIDE DEF q
  <2>3. CatchupsAreShaped'
    <3>1. q.cursor <= head /\ q.top <= head
      BY <1>n, <2>2
    <3> QED
      BY <1>0, <1>n, <2>1, <2>2, <3>1, ShapeKept
  <2>4. TypeOK'
    BY <1>0, <1>1, <1>3, <2>3 DEF TypeOK, CatchupsAreShaped, Catchup
  <2>5. UnackedStaysReadable' /\ AckedIsApplied'
    BY <1>0, <1>3 DEF UnackedStaysReadable, AckedIsApplied
  <2>6. d \notin Mobile => Has(d, c)
    BY <1>2, <1>7, <1>n DEF AckedIsApplied, Has
  <2>7. ProtocolKept'
    BY <1>0, <1>3, <2>1, <2>2, <2>6 DEF ProtocolKept, CatchupKeepsUp, Has, CatchupsAreShaped
  <2> QED
    BY <1>1, <1>4, <2>3, <2>4, <2>5, <2>7
<1> QED
  BY <1>5, <1>6, <1>7

\* A live frame is applied; in the app it may move the cursor of the database.
LEMMA FrameStep ==
  ASSUME SyncInv, NEW d \in Devices, onFrame(d)
  PROVE  SyncInv'
<1> USE DEF SyncInv
<1>0. /\ UNCHANGED <<head, log, numbered, publishing, live, sync_cursor, since, acks, hello, hellos,
                     registered, status, run>>
      /\ wire[d] # <<>> /\ Head(wire[d]).event = "message" /\ wire' = [wire EXCEPT ![d] = Tail(@)]
      /\ applied' = [applied EXCEPT ![d] = @ \cup {Head(wire[d]).seq}]
      /\ cursor' = cursor \/ cursor' = advanceSyncCursor(d, Head(wire[d]).seq)
  BY DEF onFrame, server
<1>1. /\ wire' \in [Devices -> Seq(Frame)] /\ FramesHold' /\ FrameHolds(d, Head(wire[d]))
      /\ \A x \in Devices : wire'[x] # <<>> => wire[x] # <<>>
  BY <1>0, TailHolds
<1>2. Head(wire[d]).seq \in 1..head
  BY <1>0, <1>1 DEF FrameHolds
<1>3. applied' \in [Devices -> SUBSET (1..head)] /\ \A x \in Devices : applied[x] \subseteq applied'[x]
  BY <1>0, <1>2 DEF TypeOK
<1>4. cursor' \in [Devices -> 0..head]
  <2>1. head \in Nat /\ Head(wire[d]).seq \in 0..head /\ cursor \in [Devices -> 0..head]
         /\ acks \in [Devices -> SUBSET (0..head)]
    BY <1>2 DEF TypeOK
  <2>2. [cursor EXCEPT ![d] = Larger(cursor[d], Head(wire[d]).seq)] \in [Devices -> 0..head]
    BY <2>1, CursorsInLog
  <2> QED
    BY <1>0, <2>1, <2>2 DEF advanceSyncCursor
<1>5. TypeOK' /\ CatchupsAreShaped'
  BY <1>0, <1>1, <1>3, <1>4 DEF TypeOK, CatchupsAreShaped
<1>6. SocketsAreSignedIn' /\ UnackedStaysReadable'
  BY <1>0, <1>1 DEF SocketsAreSignedIn, UnackedStaysReadable, SignedIn
<1>7. AckedIsApplied' /\ ProtocolKept'
  BY <1>0, <1>3 DEF AckedIsApplied, ProtocolKept, CatchupKeepsUp, Has, SignedIn
<1> QED
  BY <1>1, <1>5, <1>6, <1>7

\* A page: of what lies between the cursor and its greatest event, the part the
\* device has not acknowledged is still in the log, and so on the page.
LEMMA GetPageStep ==
  ASSUME SyncInv, NEW r \in Runs, getPage(r)
  PROVE  SyncInv'
<1> USE DEF SyncInv
<1> DEFINE page == EventsSince(run[r].cursor)
           top == IF page = {} THEN run[r].cursor ELSE CHOOSE e \in page : \A f \in page : f <= e
           q == [run[r] EXCEPT !.step = "apply", !.batch = page, !.events = Cardinality(page),
                               !.top = top, !.more = page # {} /\ top < head]
<1>0. /\ UNCHANGED <<head, log, numbered, publishing, live, sync_cursor, since, acks, hello, hellos, wire,
                     registered, status, cursor, applied>>
      /\ run[r].step = "get" /\ run[r].dev \in live /\ run' = [run EXCEPT ![r] = q]
  BY DEF getPage, server, link
<1>1. /\ head \in Nat /\ run[r] \in Catchup /\ run[r].cursor \in 0..head /\ run[r].dev \in Devices
      /\ page \subseteq 1..head
  BY <1>0 DEF TypeOK, CatchupsAreShaped, Catchup, EventsSince
<1>2. page # {} => top \in page /\ \A f \in page : f <= top
  <2> SUFFICES ASSUME page # {} PROVE top \in page /\ \A f \in page : f <= top
    OBVIOUS
  <2> HIDE DEF page
  <2>1. \E x \in page : \A y \in page : y <= x
    <3>1. page \in SUBSET (0..head)
      BY <1>1
    <3> QED
      BY <1>1, <3>1, GreatestExists
  <2> QED
    BY <2>1
<1>3. top \in 0..head /\ Cardinality(page) \in Nat
  <2>1. IsFiniteSet(page)
    <3>1. page \in SUBSET Nat /\ \A f \in page : f <= head
      BY <1>1
    <3> QED
      BY <1>1, <3>1, FS_BoundedSetOfNaturals
  <2>2. top \in 0..head
    BY <1>1, <1>2
  <2> QED
    BY <2>1, <2>2, FS_CardinalityType
<1>4. ASSUME run[r].dev \in SignedIn \ Mobile, NEW e \in 1..top, e > since[run[r].dev]
      PROVE  e \in applied[run[r].dev] \cup page
  <2>1. CASE e <= run[r].cursor
    BY <1>0, <1>4, <2>1 DEF ProtocolKept, CatchupKeepsUp, Has, CatchupsAreShaped, Catchup
  <2>2. CASE e <= sync_cursor[run[r].dev]
    BY <1>4, <2>2 DEF AckedIsApplied, TypeOK
  <2>3. CASE e > run[r].cursor /\ e > sync_cursor[run[r].dev]
    <3>1. e \in log
      BY <1>0, <1>1, <1>3, <1>4, <2>3 DEF UnackedStaysReadable
    <3>2. page # {}
      BY <1>1, <2>3
    <3>3. top \in page /\ e <= top
      BY <1>2, <1>3, <3>2
    <3> QED
      BY <1>1, <2>3, <3>1, <3>3, PageIsDense
  <2> QED
    BY <1>1, <1>3, <2>1, <2>2, <2>3, SMTT(30) DEF TypeOK
<1>5. /\ q \in Catchup /\ q.step = "apply" /\ q.dev = run[r].dev /\ q.cursor = run[r].cursor
      /\ q.top = top /\ q.batch = page
  <2>1. page \in SUBSET Nat /\ top \in Nat
    BY <1>1, <1>3
  <2> HIDE DEF page, top
  <2>2. (page # {} /\ top < head) \in BOOLEAN
    OBVIOUS
  <2> QED
    BY <1>1, <1>3, <2>1, <2>2 DEF Catchup
<1> HIDE DEF q, top, page
<1>6. CatchupsAreShaped'
  <2>1. q.cursor <= head /\ q.top <= head
    BY <1>1, <1>3, <1>5
  <2> QED
    BY <1>0, <1>1, <1>5, <2>1, ShapeKept
<1>7. TypeOK' /\ FramesHold' /\ SocketsAreSignedIn' /\ UnackedStaysReadable' /\ AckedIsApplied'
  BY <1>0, <1>6 DEF TypeOK, CatchupsAreShaped, Catchup, FramesHold, FrameHolds, SocketsAreSignedIn,
     UnackedStaysReadable, AckedIsApplied, SignedIn
<1>8. ProtocolKept'
  <2>1. \A x \in SignedIn' \ Mobile : \A c \in acks'[x] : Has(x, c)'
    BY <1>0 DEF ProtocolKept, Has, SignedIn
  <2>2. ASSUME NEW s \in Runs, run'[s].dev \in SignedIn' \ Mobile PROVE CatchupKeepsUp(s)'
    <3>1. CASE s = r
      BY <1>0, <1>4, <1>5, <2>2, <3>1 DEF CatchupKeepsUp, SignedIn, CatchupsAreShaped
    <3>2. CASE s # r
      BY <1>0, <2>2, <3>2 DEF CatchupKeepsUp, ProtocolKept, Has, SignedIn, CatchupsAreShaped
    <3> QED
      BY <3>1, <3>2
  <2> QED
    BY <2>1, <2>2 DEF ProtocolKept
<1> QED
  BY <1>6, <1>7, <1>8

\* One event of the page is applied.
LEMMA ApplyStep ==
  ASSUME SyncInv, NEW r \in Runs, applyEvent(r)
  PROVE  SyncInv'
<1> USE DEF SyncInv
<1> DEFINE e == Least(run[r].batch)  d == run[r].dev
<1>0. /\ UNCHANGED <<head, log, numbered, publishing, live, sync_cursor, since, acks, hello, hellos, wire,
                     registered, status, cursor>>
      /\ run[r].step = "apply" /\ run[r].batch # {} /\ applied' = [applied EXCEPT ![d] = @ \cup {e}]
      /\ run' = [run EXCEPT ![r] = [run[r] EXCEPT !.batch = run[r].batch \ {e}]]
  BY DEF applyEvent, server, link
<1>1. d \in Devices /\ head \in Nat /\ run[r] \in Catchup /\ run[r].batch \subseteq 1..head
  BY <1>0 DEF CatchupsAreShaped, TypeOK
<1>2. e \in run[r].batch
  BY <1>0, <1>1, LeastIsLeast
<1>3. e \in 1..head
  BY <1>1, <1>2
<1> HIDE DEF e
<1>4. applied' \in [Devices -> SUBSET (1..head)] /\ \A x \in Devices : applied[x] \subseteq applied'[x]
  BY <1>0, <1>1, <1>3 DEF TypeOK
<1> DEFINE q == [run[r] EXCEPT !.batch = run[r].batch \ {e}]
<1>5. /\ q \in Catchup /\ q.step = "apply" /\ q.dev = d /\ q.cursor = run[r].cursor
      /\ q.top = run[r].top /\ q.batch = run[r].batch \ {e}
  BY <1>0, <1>1 DEF Catchup
<1> HIDE DEF q
<1>6. run' = [run EXCEPT ![r] = q]
  BY <1>0 DEF q
<1>7. CatchupsAreShaped'
  BY <1>0, <1>1, <1>5, <1>6 DEF CatchupsAreShaped
<1>8. TypeOK' /\ FramesHold' /\ SocketsAreSignedIn' /\ UnackedStaysReadable'
  BY <1>0, <1>4, <1>7 DEF TypeOK, CatchupsAreShaped, Catchup, FramesHold, FrameHolds, SocketsAreSignedIn,
     UnackedStaysReadable, SignedIn
<1>9. AckedIsApplied'
  BY <1>0, <1>4 DEF AckedIsApplied, SignedIn
<1>10. ProtocolKept'
  <2>1. \A x \in SignedIn' \ Mobile : \A c \in acks'[x] : Has(x, c)'
    BY <1>0, <1>4 DEF ProtocolKept, Has, SignedIn
  <2>2. ASSUME NEW s \in Runs, run'[s].dev \in SignedIn' \ Mobile PROVE CatchupKeepsUp(s)'
    <3>1. CASE s = r
      <4>1. e \in applied'[d]
        BY <1>0, <1>1 DEF TypeOK
      <4> QED
        BY <1>0, <1>4, <1>5, <1>6, <2>2, <3>1, <4>1 DEF CatchupKeepsUp, ProtocolKept, SignedIn, CatchupsAreShaped
    <3>2. CASE s # r
      BY <1>0, <1>4, <1>6, <2>2, <3>2 DEF CatchupKeepsUp, ProtocolKept, Has, SignedIn, CatchupsAreShaped
    <3> QED
      BY <3>1, <3>2
  <2> QED
    BY <2>1, <2>2 DEF ProtocolKept
<1> QED
  BY <1>7, <1>8, <1>9, <1>10

\* A page is done: the app goes on or acknowledges its own cursor, the protocol
\* acknowledges the page.
LEMMA PageDoneStep ==
  ASSUME SyncInv, NEW r \in Runs, endPage(r) \/ ackBatch(r) \/ failPage(r)
  PROVE  SyncInv'
<1> USE DEF SyncInv
<1> DEFINE d == run[r].dev
<1>0. UNCHANGED <<head, log, numbered, publishing, live, sync_cursor, since, hello, hellos, wire,
                  registered, status, applied>>
  BY DEF endPage, ackBatch, failPage, server, link
<1>1. /\ head \in Nat /\ run[r] \in Catchup /\ run[r].cursor \in 0..head /\ run[r].top \in 0..head
      /\ run[r].step # "idle" /\ d \in Devices
  BY DEF endPage, ackBatch, failPage, CatchupsAreShaped, Catchup, TypeOK
<1>2. CASE endPage(r)
  <2>0. /\ d \in Mobile /\ latest(r) = run[r].cursor /\ Larger(run[r].cursor, latest(r)) = run[r].cursor
    BY <1>1, <1>2 DEF endPage, latest, Larger
  <2>1. cursor' = cursor /\ run[r].step = "apply"
    BY <1>1, <1>2, <2>0 DEF endPage
  <2>2. \E p \in 0..MaxPages : \E s \in {"get", "done"} :
          run' = [run EXCEPT ![r] = [run[r] EXCEPT !.step = s, !.cursor = run[r].cursor, !.page = p]]
    <3>1. run[r].page \in 0..MaxPages /\ MaxPages \in Nat
      BY <1>1, SyncBounds DEF Catchup
    <3>2. CASE run[r].events < PageSize \/ run[r].page = MaxPages
      <4>1. run' = [run EXCEPT ![r] = [run[r] EXCEPT !.step = "done", !.cursor = run[r].cursor]]
        BY <1>2, <2>0, <3>2 DEF endPage, CatchupsAreShaped
      <4>2. [run[r] EXCEPT !.step = "done", !.cursor = run[r].cursor]
              = [run[r] EXCEPT !.step = "done", !.cursor = run[r].cursor, !.page = run[r].page]
        BY <1>1 DEF Catchup
      <4> QED
        BY <3>1, <4>1, <4>2
    <3>3. CASE ~(run[r].events < PageSize \/ run[r].page = MaxPages)
      <4>1. run' = [run EXCEPT ![r] = [run[r] EXCEPT !.step = "get", !.cursor = run[r].cursor,
                                                     !.page = run[r].page + 1]]
        BY <1>2, <2>0, <3>3 DEF endPage, CatchupsAreShaped
      <4>2. run[r].page + 1 \in 0..MaxPages
        BY <3>1, <3>3
      <4> QED
        BY <4>1, <4>2
    <3> QED
      BY <3>2, <3>3
  <2>3. acks' = acks \/ acks' = [acks EXCEPT ![d] = @ \cup {run[r].cursor}]
    BY <1>2, <2>0 DEF endPage
  <2>4. PICK p \in 0..MaxPages, s \in {"get", "done"} :
          run' = [run EXCEPT ![r] = [run[r] EXCEPT !.step = s, !.cursor = run[r].cursor, !.page = p]]
    BY <2>2
  <2> DEFINE q == [run[r] EXCEPT !.step = s, !.cursor = run[r].cursor, !.page = p]
  <2>5. /\ q \in Catchup /\ q.dev = d /\ q.cursor = run[r].cursor /\ q.top = run[r].top
        /\ q.batch = run[r].batch
    BY <1>1 DEF Catchup
  <2> HIDE DEF q
  <2>6. run' = [run EXCEPT ![r] = q]
    BY <2>4 DEF q
  <2>7. CatchupsAreShaped'
    BY <1>0, <1>1, <2>5, <2>6 DEF CatchupsAreShaped
  <2>8. acks' \in [Devices -> SUBSET (0..head)] /\ \A x \in Devices \ Mobile : acks'[x] = acks[x]
    <3>1. acks \in [Devices -> SUBSET (0..head)] /\ cursor \in [Devices -> 0..head]
      BY DEF TypeOK
    <3>2. [acks EXCEPT ![d] = acks[d] \cup {run[r].cursor}] \in [Devices -> SUBSET (0..head)]
      BY <1>1, <3>1, CursorsInLog
    <3> QED
      BY <1>1, <2>0, <2>3, <3>1, <3>2
  <2>9. TypeOK' /\ FramesHold' /\ SocketsAreSignedIn' /\ UnackedStaysReadable' /\ AckedIsApplied'
    BY <1>0, <2>1, <2>7, <2>8 DEF TypeOK, CatchupsAreShaped, Catchup, FramesHold, FrameHolds,
       SocketsAreSignedIn, UnackedStaysReadable, AckedIsApplied, SignedIn
  <2>10. ProtocolKept'
    BY <1>0, <2>0, <2>5, <2>6, <2>8 DEF ProtocolKept, CatchupKeepsUp, Has, SignedIn, CatchupsAreShaped
  <2> QED
    BY <2>7, <2>9, <2>10
<1>3. CASE ackBatch(r)
  <2>1. /\ run[r].step = "apply" /\ run[r].batch = {} /\ d \notin Mobile /\ status[d] = "syncing"
        /\ acks' = [acks EXCEPT ![d] = @ \cup {run[r].top}]
        /\ cursor' = advanceSyncCursor(d, run[r].top)
    BY <1>3 DEF ackBatch
  <2>2. PICK s \in {"get", "done"} :
          run' = [run EXCEPT ![r] = [run[r] EXCEPT !.step = s, !.cursor = run[r].top]]
    <3>1. run' = [run EXCEPT ![r] = [run[r] EXCEPT !.step = IF run[r].more THEN "get" ELSE "done",
                                                   !.cursor = run[r].top]]
      BY <1>3 DEF ackBatch, CatchupsAreShaped
    <3> QED
      BY <3>1
  <2> DEFINE q == [run[r] EXCEPT !.step = s, !.cursor = run[r].top]
  <2>3. /\ q \in Catchup /\ q.dev = d /\ q.cursor = run[r].top /\ q.top = run[r].top
        /\ q.batch = run[r].batch /\ q.step # "apply"
    BY <1>1 DEF Catchup
  <2> HIDE DEF q
  <2>4. run' = [run EXCEPT ![r] = q]
    BY <2>2 DEF q
  <2>5. CatchupsAreShaped'
    BY <1>0, <1>1, <2>3, <2>4 DEF CatchupsAreShaped
  <2>6. acks' \in [Devices -> SUBSET (0..head)] /\ cursor' \in [Devices -> 0..head]
    BY <1>1, <2>1 DEF TypeOK, advanceSyncCursor, Larger
  <2>7. TypeOK' /\ FramesHold' /\ SocketsAreSignedIn' /\ UnackedStaysReadable' /\ AckedIsApplied'
    BY <1>0, <2>5, <2>6 DEF TypeOK, CatchupsAreShaped, Catchup, FramesHold, FrameHolds,
       SocketsAreSignedIn, UnackedStaysReadable, AckedIsApplied, SignedIn
  <2>8. Has(d, run[r].top)
    BY <1>1, <2>1 DEF ProtocolKept, CatchupKeepsUp, Has, SignedIn
  <2>9. ProtocolKept'
    <3>1. \A x \in SignedIn' \ Mobile : \A c \in acks'[x] : Has(x, c)'
      BY <1>0, <1>1, <2>1, <2>8 DEF ProtocolKept, Has, SignedIn, TypeOK
    <3>2. \A u \in Runs : run'[u].dev \in SignedIn' \ Mobile => CatchupKeepsUp(u)'
      BY <1>0, <2>3, <2>4, <2>8 DEF ProtocolKept, CatchupKeepsUp, Has, SignedIn, CatchupsAreShaped
    <3> QED
      BY <3>1, <3>2 DEF ProtocolKept
  <2> QED
    BY <2>5, <2>7, <2>9
<1>4. CASE failPage(r)
  <2>1. UNCHANGED <<acks, cursor>> /\ run' = [run EXCEPT ![r] = Idle]
    BY <1>4 DEF failPage, link
  <2>2. Idle \in Catchup /\ Idle.step = "idle" /\ Idle.cursor = 0 /\ Idle.top = 0 /\ Idle.batch = {}
    BY SyncBounds DEF Idle, Catchup
  <2>3. CatchupsAreShaped'
    BY <1>0, <1>1, <2>1, <2>2 DEF CatchupsAreShaped
  <2>4. TypeOK' /\ FramesHold' /\ SocketsAreSignedIn' /\ UnackedStaysReadable' /\ AckedIsApplied'
    BY <1>0, <2>1, <2>3 DEF TypeOK, CatchupsAreShaped, Catchup, FramesHold, FrameHolds,
       SocketsAreSignedIn, UnackedStaysReadable, AckedIsApplied, SignedIn
  <2>5. ProtocolKept'
    BY <1>0, <2>1, <2>2 DEF ProtocolKept, CatchupKeepsUp, Has, SignedIn, CatchupsAreShaped
  <2> QED
    BY <2>3, <2>4, <2>5
<1> QED
  BY <1>2, <1>3, <1>4

LEMMA SyncStep == SyncInv /\ [Next]_vars => SyncInv'
<1> SUFFICES ASSUME SyncInv, [Next]_vars PROVE SyncInv'
  OBVIOUS
<1>1. CASE UNCHANGED vars
  <2>1. UNCHANGED <<head, log, numbered, publishing, live, sync_cursor, since, acks, hello, hellos, wire,
                    registered, status, cursor, applied, run>>
    BY <1>1 DEF vars, server, link, local
  <2> QED
    BY <2>1 DEF SyncInv, TypeOK, CatchupsAreShaped, FramesHold, FrameHolds, SocketsAreSignedIn,
       UnackedStaysReadable, AckedIsApplied, ProtocolKept, CatchupKeepsUp, Has, SignedIn
<1> QED
  BY <1>1, CommitStep, BroadcastStep, PruneStep, SignStep, SocketStep, AckStep, ConnectedStep, FrameStep,
     GetPageStep, ApplyStep, PageDoneStep DEF Next

\* UpdateSyncCursor and advanceSyncCursor take the larger of two cursors.
LEMMA CursorsAdvance ==
  ASSUME SyncInv, [Next]_vars, NEW d \in Devices
  PROVE  sync_cursor'[d] >= sync_cursor[d] /\ (status'[d] # "signed_out" => cursor'[d] >= cursor[d])
<1>0. /\ sync_cursor \in [Devices -> Nat] /\ cursor \in [Devices -> Nat]
      /\ \A x \in Devices : acks[x] \subseteq Nat
  BY DEF SyncInv, TypeOK
<1>1. ASSUME UNCHANGED <<sync_cursor, cursor>>
      PROVE  sync_cursor'[d] >= sync_cursor[d] /\ cursor'[d] >= cursor[d]
  BY <1>0, <1>1
<1>2. ASSUME NEW x \in Devices, handleSyncAck(x)
      PROVE  sync_cursor'[d] >= sync_cursor[d] /\ cursor'[d] >= cursor[d]
  BY <1>0, <1>2 DEF handleSyncAck, UpdateSyncCursor, Larger, local
<1>3. ASSUME NEW x \in Devices, NEW c \in Nat, UNCHANGED sync_cursor, cursor' = advanceSyncCursor(x, c)
      PROVE  sync_cursor'[d] >= sync_cursor[d] /\ cursor'[d] >= cursor[d]
  BY <1>0, <1>3 DEF advanceSyncCursor, Larger
<1>4. ASSUME NEW x \in Devices, SignOut(x)
      PROVE  sync_cursor'[d] >= sync_cursor[d] /\ (status'[d] # "signed_out" => cursor'[d] >= cursor[d])
  BY <1>0, <1>4 DEF SignOut, SyncInv, TypeOK
<1>5. ASSUME NEW x \in Devices, onFrame(x)
      PROVE  sync_cursor'[d] >= sync_cursor[d] /\ cursor'[d] >= cursor[d]
  <2>1. Head(wire[x]).seq \in Nat
    BY <1>5, TailHolds DEF onFrame, server, Frame
  <2> QED
    BY <1>1, <1>3, <1>5, <2>1 DEF onFrame, server
<1>6. ASSUME NEW r \in Runs, endPage(r) \/ ackBatch(r)
      PROVE  sync_cursor'[d] >= sync_cursor[d] /\ cursor'[d] >= cursor[d]
  <2>1. run[r].dev \in Devices /\ run[r].cursor \in Nat /\ run[r].top \in Nat
    BY <1>6 DEF endPage, ackBatch, SyncInv, CatchupsAreShaped, Catchup
  <2>2. UNCHANGED sync_cursor
    BY <1>6 DEF endPage, ackBatch, server
  <2>3. cursor' = cursor \/ \E c \in Nat : cursor' = advanceSyncCursor(run[r].dev, c)
    BY <1>6, <2>1 DEF endPage, ackBatch, latest, Larger
  <2> QED
    BY <1>1, <1>3, <2>1, <2>2, <2>3
<1>7. CASE \/ UNCHANGED vars \/ \E b \in BOOLEAN : Commit(b)
           \/ \E e \in publishing : broadcast(e)
           \/ \E k \in Event : PruneEvents(k)
           \/ \E x \in Devices : \/ SignIn(x) \/ Handshake(x) \/ register(x) \/ Disconnect(x)
                                 \/ Restart(x) \/ onConnected(x)
           \/ \E r \in Runs : getPage(r) \/ applyEvent(r) \/ failPage(r)
  <2>1. UNCHANGED <<sync_cursor, cursor>>
    BY <1>7 DEF vars, server, local, Commit, broadcast, PruneEvents, SignIn, Handshake, register,
       Disconnect, Restart, onConnected, getPage, applyEvent, failPage
  <2> QED
    BY <1>1, <2>1
<1> QED
  BY <1>2, <1>4, <1>5, <1>6, <1>7 DEF Next

\* No event is lost between the log and a device that keeps to the protocol:
\* the worker prunes nothing a live device has yet to acknowledge, what such a
\* device has acknowledged it has applied, and no cursor goes back, however
\* frames are lost, sockets drop, apps restart and catch-ups overlap
\* (PruneEvents, UpdateSyncCursor, EventsSince, sync.ack).
THEOREM SyncLosesNothing == Spec => NoEventIsLost
<1>1. SyncInv => TypeOK /\ UnackedStaysReadable /\ AckedIsApplied
  BY DEF SyncInv
<1>2. SyncInv /\ [Next]_vars
        => [\A d \in Devices : /\ sync_cursor'[d] >= sync_cursor[d]
                               /\ status'[d] # "signed_out" => cursor'[d] >= cursor[d]]_vars
  BY CursorsAdvance
<1> QED
  BY <1>1, <1>2, SyncInit, SyncStep, PTL DEF Spec, NoEventIsLost, CursorsOnlyAdvance
================================================================================
