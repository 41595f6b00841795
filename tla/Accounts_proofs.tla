-------------------------- MODULE Accounts_proofs ---------------------------
(***************************************************************************)
(* Each component has an inductive invariant of its own; a behaviour of    *)
(* the whole is one of the component `active`, so the invariant holds      *)
(* wherever it is that one.                                                *)
(*                                                                         *)
(* x1, x2, ... are read under the names the active component gives them.   *)
(***************************************************************************)
EXTENDS Accounts, Sequences, FiniteSetTheorems, NaturalsInduction, WellFoundedInduction, TLAPS

-----------------------------------------------------------------------------
(* Numbers *)

\* A set of natural numbers that is not empty has a least element.
LEMMA LeastNumber ==
  ASSUME NEW S \in SUBSET Nat, S # {}
  PROVE  \E n \in S : \A m \in S : n <= m
  <1> DEFINE R == {ss \in Nat \X Nat : ss[1] < ss[2]}
  <1>1. IsWellFoundedOn(R, Nat)
    BY NatLessThanWellFounded DEF OpToRel
  <1>2. PICK n \in S : \A m \in S : ~ (<<m, n>> \in R)
    BY <1>1, WFMin
  <1>3. ASSUME NEW m \in S PROVE n <= m
    <2>1. CASE m < n
      BY <1>2, <2>1
    <2> QED
      BY <2>1
  <1> QED
    BY <1>3

\* A set of natural numbers that is bounded and not empty has a greatest element.
LEMMA GreatestNumber ==
  ASSUME NEW b \in Nat, NEW S \in SUBSET (0 .. b), S # {}
  PROVE  \E n \in S : \A m \in S : m <= n
  <1> DEFINE T == {b - m : m \in S}
  <1>0. \A m \in S : m \in 0 .. b /\ b - m \in Nat
    OBVIOUS
  <1>1. T \in SUBSET Nat /\ T # {}
    BY <1>0
  <1>2. PICK t \in T : \A u \in T : t <= u
    BY <1>1, LeastNumber
  <1>3. PICK n \in S : t = b - n
    BY <1>2
  <1>4. \A m \in S : m <= n
    <2> SUFFICES ASSUME NEW m \in S PROVE m <= n
      OBVIOUS
    <2>1. t <= b - m
      BY <1>2
    <2> QED
      BY <1>3, <2>1
  <1> QED
    BY <1>3, <1>4

-----------------------------------------------------------------------------
(* One component at a time *)

\* A step of the whole is a step of the component that is active, or leaves its variables alone.
LEMMA OneMoves ==
  ASSUME [Next]_<<active, shared>>
  PROVE  /\ active' = active
         /\ \/ UNCHANGED shared
            \/ active = "login" /\ Login!Next
            \/ active = "sessions" /\ Sessions!Next
            \/ active = "recovery" /\ Recovery!Next
            \/ active = "data" /\ DataRights!Next
            \/ active = "contacts" /\ Contacts!Next
            \/ active = "limits" /\ AntiSpam!Next
            \/ active = "keys" /\ SecretKeys!Next
            \/ active = "mail" /\ SecretMail!Next
            \/ active = "notifications" /\ Notifications!Next
            \/ active = "media" /\ Media!Next
            \/ active = "stories" /\ Stories!Next
  BY DEF Next, LoginStep, SessionsStep, RecoveryStep, DataRightsStep, ContactsStep,
         AntiSpamStep, SecretKeysStep, SecretMailStep, NotificationsStep, MediaStep, StoriesStep

-----------------------------------------------------------------------------
(***************************************************************************)
(* Signing in: between the conditional update of the challenge and the     *)
(* session it opens, a request has that challenge to itself.               *)
(***************************************************************************)
otp == x1
otpCooldown == x2
loginUser == x3
loginDevices == x4
loginSessions == x5
loginReq == x6
loginTries == x7
USE DEF otp, otpCooldown, loginUser, loginDevices, loginSessions, loginReq, loginTries

LoginStages == {"idle", "user", "wrong", "consume", "create", "count", "device", "issue"}

Challenge == [attempts : Nat, consumed : BOOLEAN, expired : BOOLEAN]

LoginTables ==
    /\ otp \in Seq(Challenge) /\ Len(otp) <= MaxCodes
    /\ loginUser \in [exists : BOOLEAN, status : {"active", "banned"}, twoStep : BOOLEAN]
    /\ loginSessions \in [1 .. MaxCodes -> Nat]
    /\ loginReq \in [People -> [at : LoginStages, ch : Nat, new : BOOLEAN, active : BOOLEAN]]
    /\ \A c \in People : loginReq[c].at # "idle" => loginReq[c].ch \in 1 .. Len(otp)

\* The request has used its challenge and has not opened the session yet.
HasUsed(c) == loginReq[c].at \in {"create", "count", "device", "issue"}

UsedByOne ==
    \A c \in People : HasUsed(c) =>
       /\ otp[loginReq[c].ch].consumed
       /\ loginSessions[loginReq[c].ch] = 0
       /\ \A d \in People : HasUsed(d) /\ loginReq[d].ch = loginReq[c].ch => d = c

AccountIsThere ==
    \A c \in People :
       \/ loginReq[c].at \in {"count", "device", "issue"}
       \/ loginReq[c].at = "consume" /\ ~loginReq[c].new
       => loginUser.exists

LoginInv == LoginTables /\ UsedByOne /\ AccountIsThere /\ Login!CodeOpensOneSession

LEMMA NoRequestShape ==
  Login!NoRequest \in [at : LoginStages, ch : Nat, new : BOOLEAN, active : BOOLEAN] /\ Login!NoRequest.at = "idle"
  BY DEF Login!NoRequest, LoginStages

LEMMA LoginInit == Login!Init => LoginInv
  <1> SUFFICES ASSUME Login!Init PROVE LoginInv
    OBVIOUS
  <1>1. LoginTables
    <2>1. otp \in Seq(Challenge) /\ Len(otp) = 0
      BY DEF Login!Init
    <2>2. loginReq \in [People -> [at : LoginStages, ch : Nat, new : BOOLEAN, active : BOOLEAN]]
      BY NoRequestShape DEF Login!Init
    <2>3. \A c \in People : loginReq[c].at = "idle"
      BY NoRequestShape DEF Login!Init
    <2>4. loginUser \in [exists : BOOLEAN, status : {"active", "banned"}, twoStep : BOOLEAN]
      <3>1. PICK e \in BOOLEAN, z \in BOOLEAN : loginUser = [exists |-> e, status |-> "active", twoStep |-> z]
        BY DEF Login!Init
      <3> QED
        BY <3>1
    <2>5. loginSessions \in [1 .. MaxCodes -> Nat]
      BY DEF Login!Init
    <2> QED
      BY <2>1, <2>2, <2>3, <2>4, <2>5, CodeBound DEF LoginTables
  <1>2. UsedByOne /\ AccountIsThere /\ Login!CodeOpensOneSession
    BY CodeBound DEF Login!Init, UsedByOne, HasUsed, AccountIsThere, Login!CodeOpensOneSession, Login!NoRequest
  <1> QED
    BY <1>1, <1>2 DEF LoginInv

\* What a request that ends, or one that goes on without a word to the tables, keeps.
LEMMA LoginMoves ==
  ASSUME LoginInv, NEW c \in People,
         NEW r \in [at : LoginStages, ch : Nat, new : BOOLEAN, active : BOOLEAN],
         loginReq' = [loginReq EXCEPT ![c] = r],
         UNCHANGED <<otp, loginUser, loginSessions>>,
         r.at # "idle" => r.ch \in 1 .. Len(otp),
         r.at \in {"create", "count", "device", "issue"} => HasUsed(c) /\ r.ch = loginReq[c].ch,
         \/ r.at \in {"count", "device", "issue"}
         \/ r.at = "consume" /\ ~r.new
         => loginUser.exists
  PROVE  LoginInv'
  <1>1. LoginTables'
    BY DEF LoginInv, LoginTables
  <1>2. UsedByOne'
    BY DEF LoginInv, LoginTables, UsedByOne, HasUsed
  <1>3. AccountIsThere'
    BY DEF LoginInv, LoginTables, AccountIsThere
  <1>4. Login!CodeOpensOneSession'
    BY DEF LoginInv, Login!CodeOpensOneSession
  <1> QED
    BY <1>1, <1>2, <1>3, <1>4 DEF LoginInv

LEMMA LoginEnds ==
  ASSUME LoginInv, NEW c \in People, Login!Finish(c), UNCHANGED <<otp, loginUser, loginSessions>>
  PROVE  LoginInv'
  BY NoRequestShape, LoginMoves DEF Login!Finish

LEMMA LoginGoesTo ==
  ASSUME LoginInv, NEW c \in People, NEW at \in LoginStages, Login!Goto(c, at)
  PROVE  \E r \in [at : LoginStages, ch : Nat, new : BOOLEAN, active : BOOLEAN] :
            /\ loginReq' = [loginReq EXCEPT ![c] = r]
            /\ r.at = at /\ r.ch = loginReq[c].ch /\ r.new = loginReq[c].new
  <1>1. PICK r : r = [loginReq[c] EXCEPT !.at = at]
    OBVIOUS
  <1>2. loginReq[c] \in [at : LoginStages, ch : Nat, new : BOOLEAN, active : BOOLEAN]
    BY DEF LoginInv, LoginTables
  <1>3. /\ r \in [at : LoginStages, ch : Nat, new : BOOLEAN, active : BOOLEAN]
        /\ r.at = at /\ r.ch = loginReq[c].ch /\ r.new = loginReq[c].new
    BY <1>1, <1>2
  <1>4. loginReq' = [loginReq EXCEPT ![c] = r]
    BY <1>1 DEF Login!Goto
  <1> QED
    BY <1>3, <1>4

\* The challenge a verification reads is one of the table.
LEMMA LatestIsThere ==
  ASSUME LoginTables, Login!LatestOTPChallenge # 0
  PROVE  Login!LatestOTPChallenge \in 1 .. Len(otp)
  <1> DEFINE open == {k \in DOMAIN otp : ~otp[k].consumed}
  <1>1. Len(otp) \in Nat /\ DOMAIN otp = 1 .. Len(otp)
    BY DEF LoginTables
  <1>2. open # {}
    BY DEF Login!LatestOTPChallenge
  <1>3. open \in SUBSET (0 .. Len(otp))
    BY <1>1
  <1>4. \E k \in open : \A l \in open : l <= k
    BY <1>1, <1>2, <1>3, GreatestNumber
  <1>5. Login!LatestOTPChallenge \in open
    BY <1>2, <1>4 DEF Login!LatestOTPChallenge
  <1> QED
    BY <1>1, <1>5

LEMMA LoginReads ==
  ASSUME LoginInv, NEW c \in People, NEW code, Login!verifyOTP(c, code)
  PROVE  LoginInv'
  <1>1. PICK k : k = Login!LatestOTPChallenge
    OBVIOUS
  <1>2. PICK r : r = [Login!NoRequest EXCEPT !.at = IF code = k THEN "user" ELSE "wrong", !.ch = k]
    OBVIOUS
  <1>3. k \in 1 .. Len(otp)
    BY <1>1, LatestIsThere DEF Login!verifyOTP, LoginInv
  <1>4. Len(otp) \in Nat
    BY DEF LoginInv, LoginTables
  <1>5. /\ r \in [at : LoginStages, ch : Nat, new : BOOLEAN, active : BOOLEAN]
        /\ r.at \in {"user", "wrong"} /\ r.ch = k
    <2>1. PICK at : at = IF code = k THEN "user" ELSE "wrong"
      OBVIOUS
    <2>2. at \in {"user", "wrong"} /\ k \in Nat
      BY <1>3, <1>4, <2>1
    <2>3. r = [at |-> at, ch |-> k, new |-> FALSE, active |-> TRUE]
      BY <1>2, <2>1 DEF Login!NoRequest
    <2> QED
      BY <2>2, <2>3 DEF LoginStages
  <1>6. loginReq' = [loginReq EXCEPT ![c] = r]
    BY <1>1, <1>2 DEF Login!verifyOTP
  <1>7. UNCHANGED <<otp, loginUser, loginSessions>>
    BY DEF Login!verifyOTP
  <1> QED
    BY <1>3, <1>5, <1>6, <1>7, LoginMoves

LEMMA LoginFinds ==
  ASSUME LoginInv, NEW c \in People, Login!UserByPhone(c)
  PROVE  LoginInv'
  <1>1. UNCHANGED <<otp, loginUser, loginSessions>>
    BY DEF Login!UserByPhone
  <1>2. CASE Login!Finish(c)
    BY <1>1, <1>2, LoginEnds
  <1>3. CASE ~Login!Finish(c)
    <2>1. PICK r : r = [loginReq[c] EXCEPT !.at = "consume", !.new = ~loginUser.exists,
                                          !.active = loginUser.status = "active"]
      OBVIOUS
    <2>2. loginReq[c] \in [at : LoginStages, ch : Nat, new : BOOLEAN, active : BOOLEAN]
      BY DEF LoginInv, LoginTables
    <2>3. loginUser.exists \in BOOLEAN
      BY DEF LoginInv, LoginTables
    <2>4. /\ r \in [at : LoginStages, ch : Nat, new : BOOLEAN, active : BOOLEAN]
          /\ r.at = "consume" /\ r.ch = loginReq[c].ch /\ r.new = ~loginUser.exists
      BY <2>1, <2>2, <2>3 DEF LoginStages
    <2>5. loginReq' = [loginReq EXCEPT ![c] = r]
      BY <1>3, <2>1 DEF Login!UserByPhone
    <2>6. r.ch \in 1 .. Len(otp)
      BY <2>4 DEF LoginInv, LoginTables, Login!UserByPhone, Login!In
    <2>7. ~r.new => loginUser.exists
      BY <2>3, <2>4
    <2> QED
      BY <1>1, <2>4, <2>5, <2>6, <2>7, LoginMoves
  <1> QED
    BY <1>2, <1>3

LEMMA LoginConsumes ==
  ASSUME LoginInv, NEW c \in People, Login!ConsumeOTPChallenge(c)
  PROVE  LoginInv'
  <1>1. PICK k : k = loginReq[c].ch
    OBVIOUS
  <1>2. k \in 1 .. Len(otp) /\ loginReq[c].at = "consume" /\ UNCHANGED <<loginUser, loginSessions>>
    BY <1>1 DEF LoginInv, LoginTables, Login!ConsumeOTPChallenge, Login!In
  <1>3. CASE ~Login!Unconsumed(k)
    <2>1. Login!Finish(c) /\ UNCHANGED otp
      BY <1>1, <1>3 DEF Login!ConsumeOTPChallenge
    <2> QED
      BY <1>2, <2>1, LoginEnds
  <1>4. CASE Login!Unconsumed(k)
    <2>1. ~otp[k].consumed
      BY <1>4 DEF Login!Unconsumed
    <2>2. otp' = [otp EXCEPT ![k].consumed = TRUE]
      BY <1>1, <1>4 DEF Login!ConsumeOTPChallenge
    <2>3. PICK r \in [at : LoginStages, ch : Nat, new : BOOLEAN, active : BOOLEAN] :
             /\ loginReq' = [loginReq EXCEPT ![c] = r]
             /\ \/ r.at = "idle"
                \/ r.at = "create" /\ r.ch = k
                \/ r.at = "count" /\ r.ch = k /\ ~loginReq[c].new
      <3>1. CASE Login!Finish(c)
        BY <3>1, NoRequestShape DEF Login!Finish
      <3>2. CASE loginReq[c].new /\ Login!Goto(c, "create")
        <4>1. "create" \in LoginStages
          BY DEF LoginStages
        <4> QED
          BY <1>1, <3>2, <4>1, LoginGoesTo
      <3>3. CASE ~loginReq[c].new /\ Login!Goto(c, "count")
        <4>1. "count" \in LoginStages
          BY DEF LoginStages
        <4> QED
          BY <1>1, <3>3, <4>1, LoginGoesTo
      <3> QED
        BY <1>1, <1>4, <3>1, <3>2, <3>3 DEF Login!ConsumeOTPChallenge
    <2>4. /\ otp' \in Seq(Challenge) /\ Len(otp') = Len(otp)
          /\ otp'[k].consumed
          /\ \A l \in 1 .. Len(otp) : otp[l].consumed => otp'[l].consumed
      <3>1. otp \in Seq(Challenge)
        BY DEF LoginInv, LoginTables
      <3>2. PICK ch : ch = [otp[k] EXCEPT !.consumed = TRUE]
        OBVIOUS
      <3>3. otp[k] \in Challenge
        BY <1>2, <3>1
      <3>4. ch \in Challenge /\ ch.consumed
        BY <3>2, <3>3 DEF Challenge
      <3>5. otp' = [otp EXCEPT ![k] = ch]
        BY <2>2, <3>2
      <3> QED
        BY <1>2, <3>1, <3>4, <3>5
    <2>5. LoginTables'
      BY <1>2, <2>3, <2>4 DEF LoginInv, LoginTables
    <2>6. \A d \in People : HasUsed(d) => loginReq[d].ch # k
      BY <2>1 DEF LoginInv, UsedByOne
    <2>7. UsedByOne'
      <3>1. loginSessions[k] = 0
        <4>1. k \in 1 .. MaxCodes
          BY <1>2, CodeBound DEF LoginInv, LoginTables
        <4>2. loginSessions[k] \in Nat
          BY <4>1 DEF LoginInv, LoginTables
        <4>3. ~(loginSessions[k] > 0)
          BY <2>1, <4>1 DEF LoginInv, Login!CodeOpensOneSession
        <4> QED
          BY <4>2, <4>3
      <3>2. \A d \in People : d # c => loginReq'[d] = loginReq[d]
        BY <2>3 DEF LoginInv, LoginTables
      <3>3. loginReq'[c] = r
        BY <2>3 DEF LoginInv, LoginTables
      <3> SUFFICES ASSUME NEW d \in People, HasUsed(d)'
                   PROVE  /\ otp'[loginReq'[d].ch].consumed
                          /\ loginSessions[loginReq'[d].ch] = 0
                          /\ \A e \in People : HasUsed(e)' /\ loginReq'[e].ch = loginReq'[d].ch => e = d
        BY <1>2 DEF UsedByOne
      <3>4. ASSUME NEW e \in People, HasUsed(e)', e # c
            PROVE  /\ HasUsed(e) /\ loginReq'[e].ch = loginReq[e].ch
                   /\ loginReq'[e].ch # k /\ loginReq[e].ch \in 1 .. Len(otp)
        BY <2>6, <3>2, <3>4 DEF HasUsed, LoginInv, LoginTables
      <3>5. ASSUME HasUsed(c)' PROVE loginReq'[c].ch = k
        BY <2>3, <3>3, <3>5 DEF HasUsed
      <3>6. CASE d = c
        BY <2>4, <3>1, <3>4, <3>5, <3>6
      <3>7. CASE d # c
        BY <2>4, <3>4, <3>5, <3>7 DEF LoginInv, UsedByOne
      <3> QED
        BY <3>6, <3>7
    <2>8. AccountIsThere'
      BY <1>2, <2>3 DEF LoginInv, LoginTables, AccountIsThere
    <2>9. Login!CodeOpensOneSession'
      BY <1>2, <2>4 DEF LoginInv, LoginTables, Login!CodeOpensOneSession
    <2> QED
      BY <2>5, <2>7, <2>8, <2>9 DEF LoginInv
  <1> QED
    BY <1>3, <1>4

LEMMA LoginCreates ==
  ASSUME LoginInv, NEW c \in People, Login!CreateUser(c)
  PROVE  LoginInv'
  <1>1. CASE loginUser.exists
    BY <1>1, LoginEnds DEF Login!CreateUser
  <1>2. CASE ~loginUser.exists
    <2>1. "count" \in LoginStages
      BY DEF LoginStages
    <2>2. PICK r \in [at : LoginStages, ch : Nat, new : BOOLEAN, active : BOOLEAN] :
             /\ loginReq' = [loginReq EXCEPT ![c] = r]
             /\ r.at = "count" /\ r.ch = loginReq[c].ch
      BY <1>2, <2>1, LoginGoesTo DEF Login!CreateUser
    <2>3. /\ loginUser' \in [exists : BOOLEAN, status : {"active", "banned"}, twoStep : BOOLEAN]
          /\ loginUser'.exists
      BY <1>2 DEF LoginInv, LoginTables, Login!CreateUser
    <2>4. UNCHANGED <<otp, loginSessions>> /\ HasUsed(c)
      BY DEF Login!CreateUser, Login!In, HasUsed
    <2>5. LoginTables'
      BY <2>2, <2>3, <2>4 DEF LoginInv, LoginTables, HasUsed
    <2>6. UsedByOne'
      BY <2>2, <2>4 DEF LoginInv, LoginTables, UsedByOne, HasUsed
    <2>7. AccountIsThere' /\ Login!CodeOpensOneSession'
      BY <2>3, <2>4 DEF LoginInv, AccountIsThere, Login!CodeOpensOneSession
    <2> QED
      BY <2>5, <2>6, <2>7 DEF LoginInv
  <1> QED
    BY <1>1, <1>2

LEMMA LoginAdvances ==
  ASSUME LoginInv, NEW c \in People, Login!DeviceCount(c) \/ Login!UpsertDevice(c)
  PROVE  LoginInv'
  <1>1. UNCHANGED <<otp, loginUser, loginSessions>>
    BY DEF Login!DeviceCount, Login!UpsertDevice
  <1>2. CASE Login!Finish(c)
    BY <1>1, <1>2, LoginEnds
  <1>3. ASSUME NEW at \in {"device", "issue"}, Login!Goto(c, at) PROVE LoginInv'
    <2>1. at \in LoginStages
      BY DEF LoginStages
    <2>2. PICK r \in [at : LoginStages, ch : Nat, new : BOOLEAN, active : BOOLEAN] :
             /\ loginReq' = [loginReq EXCEPT ![c] = r]
             /\ r.at = at /\ r.ch = loginReq[c].ch
      BY <1>3, <2>1, LoginGoesTo
    <2>3. HasUsed(c) /\ loginUser.exists /\ loginReq[c].ch \in 1 .. Len(otp)
      BY DEF LoginInv, LoginTables, AccountIsThere, HasUsed, Login!DeviceCount, Login!UpsertDevice, Login!In
    <2> QED
      BY <1>1, <2>2, <2>3, LoginMoves
  <1> QED
    BY <1>2, <1>3 DEF Login!DeviceCount, Login!UpsertDevice

LEMMA LoginIssues ==
  ASSUME LoginInv, NEW c \in People, Login!issueTokens(c)
  PROVE  LoginInv'
  <1>1. PICK k : k = loginReq[c].ch
    OBVIOUS
  <1>2. /\ k \in 1 .. Len(otp) /\ k \in 1 .. MaxCodes /\ HasUsed(c)
        /\ loginUser.exists /\ otp[k].consumed /\ loginSessions[k] = 0
    BY <1>1, CodeBound DEF LoginInv, LoginTables, AccountIsThere, UsedByOne, HasUsed, Login!issueTokens, Login!In
  <1>3. /\ UNCHANGED <<otp, loginUser>>
        /\ loginReq' = [loginReq EXCEPT ![c] = Login!NoRequest]
        /\ loginSessions' = [loginSessions EXCEPT ![k] = 1]
    BY <1>1, <1>2 DEF Login!issueTokens, Login!Finish
  <1>4. LoginTables'
    BY <1>3, NoRequestShape DEF LoginInv, LoginTables
  <1>5. UsedByOne'
    <2>1. \A d \in People : HasUsed(d)' => /\ d # c /\ HasUsed(d) /\ loginReq'[d] = loginReq[d]
                                           /\ loginReq[d].ch # k
      BY <1>1, <1>2, <1>3, NoRequestShape DEF LoginInv, LoginTables, UsedByOne, HasUsed
    <2>2. \A l : l # k => loginSessions'[l] = loginSessions[l]
      BY <1>3 DEF LoginInv, LoginTables
    <2> QED
      BY <1>3, <2>1, <2>2 DEF LoginInv, UsedByOne
  <1>6. AccountIsThere'
    BY <1>3, NoRequestShape DEF LoginInv, LoginTables, AccountIsThere
  <1>7. Login!CodeOpensOneSession'
    BY <1>2, <1>3 DEF LoginInv, LoginTables, Login!CodeOpensOneSession
  <1> QED
    BY <1>4, <1>5, <1>6, <1>7 DEF LoginInv

\* A challenge that is added, expires or loses an attempt is used no more and no less.
LEMMA LoginChallenges ==
  ASSUME LoginInv, UNCHANGED <<loginUser, loginSessions>>, loginReq' = loginReq,
         otp' \in Seq(Challenge), Len(otp) <= Len(otp'), Len(otp') <= MaxCodes,
         \A k \in 1 .. Len(otp) : otp'[k].consumed = otp[k].consumed
  PROVE  LoginInv'
  <1>0. Len(otp) \in Nat /\ Len(otp') \in Nat /\ DOMAIN otp = 1 .. Len(otp) /\ DOMAIN otp' = 1 .. Len(otp')
    BY DEF LoginInv, LoginTables
  <1>1. LoginTables'
    BY <1>0 DEF LoginInv, LoginTables
  <1>2. UsedByOne'
    BY DEF LoginInv, LoginTables, UsedByOne, HasUsed
  <1>3. AccountIsThere'
    BY DEF LoginInv, AccountIsThere
  <1>4. Login!CodeOpensOneSession'
    BY <1>0 DEF LoginInv, Login!CodeOpensOneSession
  <1> QED
    BY <1>1, <1>2, <1>3, <1>4 DEF LoginInv

LEMMA LoginBurns ==
  ASSUME LoginInv, NEW c \in People, Login!BurnOTPAttempt(c)
  PROVE  LoginInv'
  <1>1. PICK k : k = loginReq[c].ch
    OBVIOUS
  <1>2. k \in 1 .. Len(otp) /\ otp \in Seq(Challenge)
    BY <1>1 DEF LoginInv, LoginTables, Login!BurnOTPAttempt, Login!In
  <1>3. PICK ch : ch = [otp[k] EXCEPT !.attempts = @ + 1]
    OBVIOUS
  <1>4. ch \in Challenge /\ ch.consumed = otp[k].consumed
    <2>1. otp[k] \in Challenge
      BY <1>2
    <2> QED
      BY <1>3, <2>1 DEF Challenge
  <1>5. otp' = [otp EXCEPT ![k] = ch]
    BY <1>1, <1>3 DEF Login!BurnOTPAttempt
  <1>6. /\ otp' \in Seq(Challenge) /\ Len(otp') = Len(otp)
        /\ \A l \in 1 .. Len(otp) : otp'[l].consumed = otp[l].consumed
    BY <1>2, <1>4, <1>5
  <1>7. /\ UNCHANGED <<loginUser, loginSessions>>
        /\ loginReq' = [loginReq EXCEPT ![c] = Login!NoRequest]
    BY DEF Login!BurnOTPAttempt, Login!Finish
  <1>8. LoginTables'
    BY <1>6, <1>7, NoRequestShape DEF LoginInv, LoginTables
  <1>9. UsedByOne'
    <2>1. \A d \in People : HasUsed(d)' => /\ HasUsed(d) /\ loginReq'[d] = loginReq[d]
                                           /\ loginReq[d].ch \in 1 .. Len(otp)
      BY <1>7, NoRequestShape DEF LoginInv, LoginTables, HasUsed
    <2> QED
      BY <1>6, <1>7, <2>1 DEF LoginInv, UsedByOne
  <1>10. AccountIsThere'
    BY <1>7, NoRequestShape DEF LoginInv, LoginTables, AccountIsThere
  <1>11. Login!CodeOpensOneSession'
    <2>1. DOMAIN otp = 1 .. Len(otp) /\ DOMAIN otp' = 1 .. Len(otp)
      BY <1>2, <1>6
    <2>2. \A l \in DOMAIN otp : l \in DOMAIN otp' /\ otp'[l].consumed = otp[l].consumed
      BY <1>6, <2>1
    <2> QED
      BY <1>7, <2>2 DEF LoginInv, Login!CodeOpensOneSession
  <1> QED
    BY <1>8, <1>9, <1>10, <1>11 DEF LoginInv

LEMMA LoginNext == ASSUME LoginInv, Login!Next PROVE LoginInv'
  <1>0. otp \in Seq(Challenge) /\ Len(otp) <= MaxCodes /\ Len(otp) \in Nat
    BY DEF LoginInv, LoginTables
  <1>1. CASE Login!RequestOTP
    <2>1. PICK ch : ch = [attempts |-> 0, consumed |-> FALSE, expired |-> FALSE]
      OBVIOUS
    <2>2. otp' = Append(otp, ch) /\ ch \in Challenge
      BY <1>1, <2>1 DEF Login!RequestOTP, Login!CreateOTPChallenge, Challenge
    <2>3. /\ otp' \in Seq(Challenge) /\ Len(otp') = Len(otp) + 1
          /\ \A k \in 1 .. Len(otp) : otp'[k] = otp[k]
      BY <1>0, <2>2
    <2>4. Len(otp') <= MaxCodes
      BY <1>0, <1>1, <2>3, CodeBound DEF Login!RequestOTP
    <2> QED
      BY <1>0, <1>1, <2>3, <2>4, LoginChallenges DEF Login!RequestOTP
  <1>2. CASE Login!CooldownLapses
    BY <1>0, <1>2, LoginChallenges DEF Login!CooldownLapses
  <1>3. CASE Login!OTPExpires
    <2>1. PICK k \in DOMAIN otp : otp' = [otp EXCEPT ![k].expired = TRUE]
      BY <1>3 DEF Login!OTPExpires
    <2>2. PICK ch : ch = [otp[k] EXCEPT !.expired = TRUE]
      OBVIOUS
    <2>3. ch \in Challenge /\ ch.consumed = otp[k].consumed
      <3>1. otp[k] \in Challenge
        BY <1>0, <2>1
      <3> QED
        BY <2>2, <3>1 DEF Challenge
    <2>4. otp' = [otp EXCEPT ![k] = ch]
      BY <2>1, <2>2
    <2>5. /\ otp' \in Seq(Challenge) /\ Len(otp') = Len(otp)
          /\ \A l \in 1 .. Len(otp) : otp'[l].consumed = otp[l].consumed
      <3>1. k \in 1 .. Len(otp)
        BY <1>0, <2>1
      <3>2. otp' \in Seq(Challenge) /\ Len(otp') = Len(otp)
        BY <1>0, <2>3, <2>4, <3>1
      <3> QED
        BY <1>0, <2>3, <2>4, <3>1, <3>2
    <2> QED
      BY <1>0, <1>3, <2>5, LoginChallenges DEF Login!OTPExpires
  <1>4. CASE Login!SetUserStatus
    <2>1. /\ loginUser' \in [exists : BOOLEAN, status : {"active", "banned"}, twoStep : BOOLEAN]
          /\ loginUser'.exists
      BY <1>4 DEF Login!SetUserStatus, LoginInv, LoginTables
    <2>2. UNCHANGED <<otp, loginSessions, loginReq>>
      BY <1>4 DEF Login!SetUserStatus
    <2>3. LoginTables' /\ UsedByOne' /\ AccountIsThere' /\ Login!CodeOpensOneSession'
      BY <2>1, <2>2 DEF LoginInv, LoginTables, UsedByOne, HasUsed, AccountIsThere, Login!CodeOpensOneSession
    <2> QED
      BY <2>3 DEF LoginInv
  <1>5. ASSUME NEW c \in People,
               \/ \E code \in 0 .. MaxCodes : Login!verifyOTP(c, code)
               \/ Login!BurnOTPAttempt(c) \/ Login!UserByPhone(c) \/ Login!ConsumeOTPChallenge(c) \/ Login!CreateUser(c)
               \/ Login!DeviceCount(c) \/ Login!UpsertDevice(c) \/ Login!issueTokens(c)
        PROVE  LoginInv'
    BY <1>5, LoginReads, LoginBurns, LoginFinds, LoginConsumes, LoginCreates, LoginAdvances, LoginIssues
  <1>6. ASSUME NEW c \in People, Login!Hangup(c) PROVE LoginInv'
    BY <1>6, LoginEnds DEF Login!Hangup
  <1> QED
    BY <1>1, <1>2, <1>3, <1>4, <1>5, <1>6 DEF Login!Next

\* Whatever clients do at once, a one-time code opens one session: the conditional update that
\* consumes the challenge has one winner (VerifyOTP, ConsumeOTPChallenge).
THEOREM CodeSingleUse == Spec => []CodeOpensOneSession
  <1> DEFINE Holds == active = "login" => LoginInv
  <1>1. Init => Holds
    BY LoginInit DEF Init
  <1>2. Holds /\ [Next]_<<active, shared>> => Holds'
    <2> SUFFICES ASSUME active = "login", LoginInv, [Next]_<<active, shared>> PROVE LoginInv'
      BY OneMoves
    <2>1. CASE Login!Next
      BY <2>1, LoginNext
    <2>2. CASE UNCHANGED shared
      BY <2>2 DEF shared, LoginInv, LoginTables, UsedByOne, AccountIsThere,
          Login!CodeOpensOneSession, Challenge, LoginStages, HasUsed
    <2> QED
      BY <2>1, <2>2, OneMoves
  <1>3. Holds => CodeOpensOneSession
    BY DEF LoginInv, CodeOpensOneSession
  <1> QED
    BY <1>1, <1>2, <1>3, PTL DEF Spec

-----------------------------------------------------------------------------
(***************************************************************************)
(* Sessions: a session that is out is revoked for good, so no refresh of it *)
(* starts, and its denylist entry stays as long as a token of it or a      *)
(* refresh that was under way could still meet it.                         *)
(***************************************************************************)
sessRow == x1
sessUser == x2
sessTokens == x3
sessDenied == x4
sessCached == x5
sessCacheUp == x6
sessReq == x7
sessOut == x8
USE DEF sessRow, sessUser, sessTokens, sessDenied, sessCached, sessCacheUp, sessReq, sessOut

UserStates == [ver : Nat, active : BOOLEAN]

SessStages == {"idle", "refresh", "user", "admitted", "refused", "deny", "invalidate"}

SessRequest == [at : SessStages, s : SessionIds \cup {0}, ver : Nat, late : BOOLEAN,
                ids : SUBSET (SessionIds \cup UserStates)]

SessTables ==
    /\ sessRow \in [SessionIds -> [token : Nat, revoked : BOOLEAN]]
    /\ sessUser \in UserStates /\ sessCached \in SUBSET UserStates
    /\ sessTokens \in SUBSET [s : SessionIds, ver : Nat]
    /\ sessReq \in [Handlers -> SessRequest]
    /\ \A r \in Handlers :
          /\ sessReq[r].at \in {"admitted", "refused"} => sessReq[r].ids \subseteq UserStates
          /\ sessReq[r].at = "refresh" => sessReq[r].s \in SessionIds

RevokedIsSignedOut ==
    /\ \A s \in sessOut : s \in SessionIds /\ sessRow[s].revoked
    /\ \A r \in Handlers : sessReq[r].at = "deny" =>
          \A s \in sessReq[r].ids : s \in SessionIds /\ sessRow[s].revoked

DeniedWhileNeeded ==
    \A s \in sessOut :
       \/ s \in sessDenied
       \/ /\ \A t \in sessTokens : t.s # s
          /\ \A r \in Handlers : sessReq[r].at = "refresh" => sessReq[r].s # s

NobodyIsLate == \A r \in Handlers : ~sessReq[r].late

SessInv == SessTables /\ RevokedIsSignedOut /\ DeniedWhileNeeded /\ NobodyIsLate

LEMMA SessInvImplies == SessInv => Sessions!SignedOutStaysOut
  BY DEF SessInv, NobodyIsLate, Sessions!SignedOutStaysOut

LEMMA NoReqShape == Sessions!NoReq \in SessRequest /\ Sessions!NoReq.at = "idle" /\ ~Sessions!NoReq.late
  BY DEF Sessions!NoReq, SessRequest, SessStages

LEMMA SessInit == Sessions!Init => SessInv
  <1> SUFFICES ASSUME Sessions!Init PROVE SessInv
    OBVIOUS
  <1>1. sessReq \in [Handlers -> SessRequest] /\ \A r \in Handlers : sessReq[r] = Sessions!NoReq
    BY NoReqShape DEF Sessions!Init
  <1>2. SessTables
    BY <1>1, NoReqShape DEF Sessions!Init, SessTables, UserStates
  <1>3. RevokedIsSignedOut /\ DeniedWhileNeeded /\ NobodyIsLate
    BY <1>1, NoReqShape DEF Sessions!Init, RevokedIsSignedOut, DeniedWhileNeeded, NobodyIsLate
  <1> QED
    BY <1>2, <1>3 DEF SessInv

\* The request moves on and neither the sessions nor the denylist change.
LEMMA SessMoves ==
  ASSUME SessInv, NEW r \in Handlers, NEW q \in SessRequest, Sessions!Set(r, q),
         UNCHANGED <<sessRow, sessDenied, sessOut>>,
         sessUser' \in UserStates, sessCached' \in SUBSET UserStates,
         sessTokens' \in SUBSET [s : SessionIds, ver : Nat],
         \A t \in sessTokens' : t \in sessTokens \/ (sessReq[r].at = "refresh" /\ t.s = sessReq[r].s),
         ~q.late, q.at # "refresh", q.at \in {"admitted", "refused"} => q.ids \subseteq UserStates,
         q.at = "deny" => sessReq[r].at = "deny" /\ q.ids \subseteq sessReq[r].ids
  PROVE  SessInv'
  <1>1. SessTables'
    BY DEF SessInv, SessTables, Sessions!Set
  <1>2. /\ sessReq'[r] = q
        /\ \A p \in Handlers : p # r => sessReq'[p] = sessReq[p]
    BY DEF SessInv, SessTables, Sessions!Set
  <1>3. RevokedIsSignedOut'
    BY <1>2 DEF SessInv, RevokedIsSignedOut
  <1>4. DeniedWhileNeeded'
    BY <1>2 DEF SessInv, DeniedWhileNeeded
  <1>5. NobodyIsLate'
    BY <1>2 DEF SessInv, NobodyIsLate
  <1> QED
    BY <1>1, <1>3, <1>4, <1>5 DEF SessInv

\* What happens outside every request.
LEMMA SessAround ==
  ASSUME SessInv, UNCHANGED <<sessOut, sessReq>>,
         sessRow' \in [SessionIds -> [token : Nat, revoked : BOOLEAN]],
         \A s \in SessionIds : sessRow[s].revoked => sessRow'[s].revoked,
         sessUser' \in UserStates, sessCached' \in SUBSET UserStates,
         sessTokens' \subseteq sessTokens,
         \A s \in sessDenied : \/ s \in sessDenied'
                               \/ /\ \A t \in sessTokens : t.s # s
                                  /\ \A r \in Handlers : sessReq[r].at = "refresh" => sessReq[r].s # s
  PROVE  SessInv'
  <1>1. SessTables'
    BY DEF SessInv, SessTables
  <1>2. RevokedIsSignedOut'
    BY DEF SessInv, RevokedIsSignedOut
  <1>3. DeniedWhileNeeded'
    BY DEF SessInv, DeniedWhileNeeded
  <1>4. NobodyIsLate'
    BY DEF SessInv, NobodyIsLate
  <1> QED
    BY <1>1, <1>2, <1>3, <1>4 DEF SessInv

LEMMA SessRotates ==
  ASSUME SessInv, NEW r \in Handlers, NEW s \in SessionIds, NEW t, Sessions!RotateRefreshToken(r, s, t)
  PROVE  SessInv'
  <1>1. PICK q : q = [Sessions!NoReq EXCEPT !.at = "refresh", !.s = s]
    OBVIOUS
  <1>2. q \in SessRequest /\ q.at = "refresh" /\ q.s = s /\ ~q.late
    BY <1>1 DEF Sessions!NoReq, SessRequest, SessStages
  <1>3. PICK row : row = [sessRow[s] EXCEPT !.token = @ + 1]
    OBVIOUS
  <1>4. sessRow[s] \in [token : Nat, revoked : BOOLEAN] /\ ~sessRow[s].revoked
    BY DEF SessInv, SessTables, Sessions!RotateRefreshToken, Sessions!RotateMatches
  <1>5. row \in [token : Nat, revoked : BOOLEAN] /\ row.revoked = sessRow[s].revoked
    BY <1>3, <1>4
  <1>6. sessRow' = [sessRow EXCEPT ![s] = row] /\ sessReq' = [sessReq EXCEPT ![r] = q]
    BY <1>1, <1>3 DEF Sessions!RotateRefreshToken, Sessions!Set
  <1>7. UNCHANGED <<sessUser, sessTokens, sessDenied, sessCached, sessOut>>
    BY DEF Sessions!RotateRefreshToken
  <1>8. /\ sessReq'[r] = q
        /\ \A p \in Handlers : p # r => sessReq'[p] = sessReq[p]
        /\ \A z \in SessionIds : sessRow'[z].revoked = sessRow[z].revoked
    BY <1>5, <1>6 DEF SessInv, SessTables
  <1>9. SessTables'
    BY <1>2, <1>5, <1>6, <1>7, <1>8 DEF SessInv, SessTables
  <1>10. RevokedIsSignedOut'
    BY <1>2, <1>7, <1>8 DEF SessInv, RevokedIsSignedOut
  <1>11. s \notin sessOut
    BY <1>4 DEF SessInv, RevokedIsSignedOut
  <1>12. DeniedWhileNeeded'
    BY <1>2, <1>7, <1>8, <1>11 DEF SessInv, DeniedWhileNeeded
  <1>13. NobodyIsLate'
    BY <1>2, <1>8 DEF SessInv, NobodyIsLate
  <1> QED
    BY <1>9, <1>10, <1>12, <1>13 DEF SessInv

LEMMA SessAsks ==
  ASSUME SessInv, NEW r \in Handlers, NEW t \in sessTokens, Sessions!authenticate(r, t)
  PROVE  SessInv'
  <1>1. t.s \in SessionIds /\ t.ver \in Nat
    BY DEF SessInv, SessTables
  <1>2. t.s \notin sessOut
    <2>1. CASE sessCacheUp
      BY <2>1 DEF Sessions!authenticate, Sessions!Refused, SessInv, DeniedWhileNeeded
    <2>2. CASE ~sessCacheUp
      BY <2>2 DEF Sessions!authenticate, Sessions!Refused, SessInv, RevokedIsSignedOut
    <2> QED
      BY <2>1, <2>2
  <1>3. PICK q : q = [Sessions!NoReq EXCEPT !.at = "user", !.s = t.s, !.ver = t.ver, !.late = t.s \in sessOut]
    OBVIOUS
  <1>4. q = [at |-> "user", s |-> t.s, ver |-> t.ver, late |-> FALSE, ids |-> {}]
    <2>1. (t.s \in sessOut) = FALSE
      BY <1>2
    <2> QED
      BY <1>3, <2>1 DEF Sessions!NoReq
  <1>5. q \in SessRequest /\ q.at = "user" /\ ~q.late
    BY <1>1, <1>4 DEF SessRequest, SessStages
  <1>6. Sessions!Set(r, q) /\ UNCHANGED <<sessRow, sessUser, sessTokens, sessDenied, sessCached, sessOut>>
    BY <1>3 DEF Sessions!authenticate
  <1> QED
    BY <1>5, <1>6, SessMoves DEF SessInv, SessTables

LEMMA SessReads ==
  ASSUME SessInv, NEW r \in Handlers, Sessions!userWithCache(r)
  PROVE  SessInv'
  <1>1. PICK state \in IF sessCacheUp /\ sessCached # {} THEN sessCached ELSE {sessUser} :
           Sessions!Set(r, [sessReq[r] EXCEPT
                              !.at = IF state.ver = sessReq[r].ver /\ state.active THEN "admitted" ELSE "refused",
                              !.ids = IF state \in sessCached THEN {} ELSE {state}])
    BY DEF Sessions!userWithCache
  <1>2. state \in UserStates
    BY <1>1 DEF SessInv, SessTables
  <1>3. PICK at, ids : /\ at = IF state.ver = sessReq[r].ver /\ state.active THEN "admitted" ELSE "refused"
                       /\ ids = IF state \in sessCached THEN {} ELSE {state}
    OBVIOUS
  <1>4. at \in {"admitted", "refused"} /\ ids \in SUBSET UserStates
    BY <1>2, <1>3
  <1>5. PICK q : q = [sessReq[r] EXCEPT !.at = at, !.ids = ids]
    OBVIOUS
  <1>6. sessReq[r] \in SessRequest /\ ~sessReq[r].late
    BY DEF SessInv, SessTables, NobodyIsLate
  <1>7. q \in SessRequest /\ q.at = at /\ ~q.late /\ q.ids \subseteq UserStates
    BY <1>4, <1>5, <1>6 DEF SessRequest, SessStages
  <1>8. Sessions!Set(r, q) /\ UNCHANGED <<sessRow, sessUser, sessTokens, sessDenied, sessCached, sessOut>>
    BY <1>1, <1>3, <1>5 DEF Sessions!userWithCache
  <1> QED
    BY <1>4, <1>7, <1>8, SessMoves DEF SessInv, SessTables

LEMMA SessServes ==
  ASSUME SessInv, NEW r \in Handlers, Sessions!AuthenticateToken(r) \/ Sessions!InvalidateUserCache(r)
  PROVE  SessInv'
  <1>1. Sessions!Set(r, Sessions!NoReq) /\ UNCHANGED <<sessRow, sessUser, sessTokens, sessDenied, sessOut>>
    BY DEF Sessions!AuthenticateToken, Sessions!InvalidateUserCache, Sessions!Done
  <1>2. sessCached' \in SUBSET UserStates
    BY DEF Sessions!AuthenticateToken, Sessions!InvalidateUserCache, SessInv, SessTables
  <1> QED
    BY <1>1, <1>2, NoReqShape, SessMoves DEF SessInv, SessTables

LEMMA SessRefreshes ==
  ASSUME SessInv, NEW r \in Handlers, Sessions!Refresh(r)
  PROVE  SessInv'
  <1>1. /\ Sessions!Set(r, Sessions!NoReq) /\ UNCHANGED <<sessRow, sessUser, sessDenied, sessCached, sessOut>>
        /\ sessReq[r].at = "refresh"
    BY DEF Sessions!Refresh, Sessions!Done, Sessions!In
  <1>2. PICK t : t = [s |-> sessReq[r].s, ver |-> sessUser.ver]
    OBVIOUS
  <1>3. t.s = sessReq[r].s /\ t \in [s : SessionIds, ver : Nat]
    BY <1>1, <1>2 DEF SessInv, SessTables, SessRequest, UserStates
  <1>4. sessTokens' \subseteq sessTokens \cup {t}
    BY <1>2 DEF Sessions!Refresh
  <1> QED
    BY <1>1, <1>3, <1>4, NoReqShape, SessMoves DEF SessInv, SessTables

LEMMA SessRowsRevoked ==
  ASSUME sessRow \in [SessionIds -> [token : Nat, revoked : BOOLEAN]], NEW ids,
         NEW row, row = [s \in SessionIds |-> [sessRow[s] EXCEPT !.revoked = @ \/ s \in ids]]
  PROVE  /\ row \in [SessionIds -> [token : Nat, revoked : BOOLEAN]]
         /\ \A s \in SessionIds : sessRow[s].revoked \/ s \in ids => row[s].revoked
  <1>1. ASSUME NEW s \in SessionIds
        PROVE  /\ row[s] \in [token : Nat, revoked : BOOLEAN]
               /\ sessRow[s].revoked \/ s \in ids => row[s].revoked
    <2>1. PICK b : b = (sessRow[s].revoked \/ s \in ids)
      OBVIOUS
    <2>2. b \in BOOLEAN
      BY <2>1
    <2>3. row[s] = [sessRow[s] EXCEPT !.revoked = b]
      BY <2>1
    <2> QED
      BY <2>1, <2>2, <2>3
  <1> QED
    BY <1>1

LEMMA SessRevokes ==
  ASSUME SessInv, NEW r \in Handlers, NEW ids \in SUBSET SessionIds, Sessions!RevokeSessions(r, ids)
  PROVE  SessInv'
  <1>1. PICK q : q = [Sessions!NoReq EXCEPT !.at = "deny", !.ids = ids]
    OBVIOUS
  <1>2. q \in SessRequest /\ q.at = "deny" /\ q.ids = ids /\ ~q.late
    BY <1>1 DEF Sessions!NoReq, SessRequest, SessStages
  <1>3. /\ sessReq' = [sessReq EXCEPT ![r] = q]
        /\ UNCHANGED <<sessUser, sessTokens, sessDenied, sessCached, sessOut>>
    BY <1>1 DEF Sessions!RevokeSessions, Sessions!Set
  <1>4. /\ sessReq'[r] = q
        /\ \A p \in Handlers : p # r => sessReq'[p] = sessReq[p]
    BY <1>3 DEF SessInv, SessTables
  <1>5. /\ sessRow' \in [SessionIds -> [token : Nat, revoked : BOOLEAN]]
        /\ \A s \in SessionIds : sessRow[s].revoked \/ s \in ids => sessRow'[s].revoked
    BY SessRowsRevoked DEF Sessions!RevokeSessions, SessInv, SessTables
  <1>6. SessTables'
    BY <1>2, <1>3, <1>4, <1>5 DEF SessInv, SessTables
  <1>7. RevokedIsSignedOut'
    BY <1>2, <1>3, <1>4, <1>5 DEF SessInv, RevokedIsSignedOut
  <1>8. DeniedWhileNeeded'
    BY <1>2, <1>3, <1>4 DEF SessInv, DeniedWhileNeeded
  <1>9. NobodyIsLate'
    BY <1>2, <1>4 DEF SessInv, NobodyIsLate
  <1> QED
    BY <1>6, <1>7, <1>8, <1>9 DEF SessInv

LEMMA SessDenies ==
  ASSUME SessInv, NEW r \in Handlers, Sessions!denySession(r)
  PROVE  SessInv'
  <1>1. PICK s \in sessReq[r].ids :
           /\ IF sessCacheUp THEN sessDenied' = sessDenied \cup {s} /\ sessOut' = sessOut \cup {s}
              ELSE UNCHANGED <<sessDenied, sessOut>>
           /\ IF sessReq[r].ids = {s} THEN Sessions!Done(r)
              ELSE Sessions!Set(r, [sessReq[r] EXCEPT !.ids = @ \ {s}])
    BY DEF Sessions!denySession
  <1>2. UNCHANGED <<sessRow, sessUser, sessTokens, sessCached>> /\ sessReq[r].at = "deny"
    BY DEF Sessions!denySession, Sessions!In
  <1>3. s \in SessionIds /\ sessRow[s].revoked
    BY <1>1, <1>2 DEF SessInv, RevokedIsSignedOut
  <1>4. sessReq[r] \in SessRequest /\ ~sessReq[r].late
    BY DEF SessInv, SessTables, NobodyIsLate
  <1>5. PICK q \in SessRequest :
           /\ sessReq' = [sessReq EXCEPT ![r] = q]
           /\ ~q.late /\ q.at \in {"idle", "deny"} /\ (q.at = "deny" => q.ids \subseteq sessReq[r].ids)
    <2>1. CASE Sessions!Done(r)
      BY <2>1, NoReqShape DEF Sessions!Done, Sessions!Set
    <2>2. CASE Sessions!Set(r, [sessReq[r] EXCEPT !.ids = @ \ {s}])
      <3>1. PICK q : q = [sessReq[r] EXCEPT !.ids = @ \ {s}]
        OBVIOUS
      <3>2. q \in SessRequest /\ ~q.late /\ q.at = "deny" /\ q.ids \subseteq sessReq[r].ids
        BY <1>2, <1>4, <3>1 DEF SessRequest
      <3> QED
        BY <2>2, <3>1, <3>2 DEF Sessions!Set
    <2> QED
      BY <1>1, <2>1, <2>2
  <1>6. /\ sessReq'[r] = q
        /\ \A p \in Handlers : p # r => sessReq'[p] = sessReq[p]
    BY <1>5 DEF SessInv, SessTables
  <1>7. sessOut' \subseteq sessOut \cup {s} /\ sessDenied \subseteq sessDenied' /\ sessOut' \subseteq sessOut \cup sessDenied'
    BY <1>1
  <1>8. SessTables'
    BY <1>2, <1>5, <1>6 DEF SessInv, SessTables
  <1>9. RevokedIsSignedOut'
    BY <1>2, <1>3, <1>5, <1>6, <1>7 DEF SessInv, RevokedIsSignedOut
  <1>10. DeniedWhileNeeded'
    BY <1>2, <1>5, <1>6, <1>7 DEF SessInv, DeniedWhileNeeded
  <1>11. NobodyIsLate'
    BY <1>5, <1>6 DEF SessInv, NobodyIsLate
  <1> QED
    BY <1>8, <1>9, <1>10, <1>11 DEF SessInv

LEMMA SessSuspends ==
  ASSUME SessInv, NEW r \in Handlers, NEW alive \in BOOLEAN, Sessions!SetUserStatus(r, alive)
  PROVE  SessInv'
  <1>1. PICK q : q = [Sessions!NoReq EXCEPT !.at = "invalidate"]
    OBVIOUS
  <1>2. q \in SessRequest /\ q.at = "invalidate" /\ ~q.late
    BY <1>1 DEF Sessions!NoReq, SessRequest, SessStages
  <1>3. /\ sessReq' = [sessReq EXCEPT ![r] = q]
        /\ UNCHANGED <<sessTokens, sessDenied, sessCached, sessOut>>
        /\ sessUser' = [ver |-> sessUser.ver + 1, active |-> alive]
    BY <1>1 DEF Sessions!SetUserStatus, Sessions!Set
  <1>4. /\ sessReq'[r] = q
        /\ \A p \in Handlers : p # r => sessReq'[p] = sessReq[p]
    BY <1>3 DEF SessInv, SessTables
  <1>5. sessUser' \in UserStates
    BY <1>3 DEF SessInv, SessTables, UserStates
  <1>6. /\ sessRow' \in [SessionIds -> [token : Nat, revoked : BOOLEAN]]
        /\ \A s \in SessionIds : sessRow[s].revoked => sessRow'[s].revoked
    <2>1. PICK ids : ids = IF alive THEN {} ELSE SessionIds
      OBVIOUS
    <2>2. sessRow' = [s \in SessionIds |-> [sessRow[s] EXCEPT !.revoked = @ \/ s \in ids]]
      <3>1. \A s \in SessionIds : (s \in ids) = ~alive
        BY <2>1
      <3> QED
        BY <3>1 DEF Sessions!SetUserStatus
    <2> QED
      BY <2>2, SessRowsRevoked DEF SessInv, SessTables
  <1>7. SessTables'
    BY <1>2, <1>3, <1>4, <1>5, <1>6 DEF SessInv, SessTables
  <1>8. RevokedIsSignedOut'
    BY <1>2, <1>3, <1>4, <1>6 DEF SessInv, RevokedIsSignedOut
  <1>9. DeniedWhileNeeded'
    BY <1>2, <1>3, <1>4 DEF SessInv, DeniedWhileNeeded
  <1>10. NobodyIsLate'
    BY <1>2, <1>4 DEF SessInv, NobodyIsLate
  <1> QED
    BY <1>7, <1>8, <1>9, <1>10 DEF SessInv

LEMMA SessNext == ASSUME SessInv, Sessions!Next PROVE SessInv'
  <1>0. /\ sessRow \in [SessionIds -> [token : Nat, revoked : BOOLEAN]]
        /\ sessUser \in UserStates /\ sessCached \in SUBSET UserStates
    BY DEF SessInv, SessTables
  <1>1. ASSUME NEW r \in Handlers,
               \/ \E s \in SessionIds, t \in 1 .. MaxRotations : Sessions!RotateRefreshToken(r, s, t)
               \/ \E t \in sessTokens : Sessions!authenticate(r, t)
               \/ Sessions!Refresh(r) \/ Sessions!userWithCache(r) \/ Sessions!AuthenticateToken(r) \/ Sessions!denySession(r)
               \/ Sessions!InvalidateUserCache(r) \/ \E alive \in BOOLEAN : Sessions!SetUserStatus(r, alive)
        PROVE  SessInv'
    BY <1>1, SessRotates, SessAsks, SessRefreshes, SessReads, SessServes, SessDenies, SessSuspends
  <1>2. ASSUME NEW r \in Handlers, NEW s \in SessionIds, Sessions!RevokeSession(r, s) \/ Sessions!RevokeOtherSessions(r, s)
        PROVE  SessInv'
    BY <1>2, SessRevokes DEF Sessions!RevokeSession, Sessions!RevokeOtherSessions
  <1>3. ASSUME NEW t \in sessTokens, Sessions!TokenExpires(t) PROVE SessInv'
    BY <1>0, <1>3, SessAround DEF Sessions!TokenExpires
  <1>4. ASSUME NEW s \in SessionIds, Sessions!DenyLapses(s) PROVE SessInv'
    BY <1>0, <1>4, SessAround DEF Sessions!DenyLapses
  <1>5. CASE Sessions!SetTwoStepPassword
    <2>1. sessUser' \in UserStates
      BY <1>0, <1>5 DEF Sessions!SetTwoStepPassword, UserStates
    <2> QED
      BY <1>0, <1>5, <2>1, SessAround DEF Sessions!SetTwoStepPassword
  <1>6. CASE Sessions!ResetTwoStep
    <2>1. sessUser' \in UserStates
      BY <1>0, <1>6 DEF Sessions!ResetTwoStep, UserStates
    <2>2. /\ sessRow' \in [SessionIds -> [token : Nat, revoked : BOOLEAN]]
          /\ \A s \in SessionIds : sessRow'[s].revoked
      BY <1>0, <1>6 DEF Sessions!ResetTwoStep
    <2> QED
      BY <1>0, <1>6, <2>1, <2>2, SessAround DEF Sessions!ResetTwoStep
  <1>7. CASE Sessions!CacheLapses \/ Sessions!CacheUpDown
    BY <1>0, <1>7, SessAround DEF Sessions!CacheLapses, Sessions!CacheUpDown
  <1> QED
    BY <1>1, <1>2, <1>3, <1>4, <1>5, <1>6, <1>7 DEF Sessions!Next

\* However requests, refreshes, sign-outs and outages of the cache interleave, a request that starts
\* after the denylist has a session is not let in by its token (AuthenticateToken, denySession).
THEOREM SignOutHolds == Spec => []SignedOutStaysOut
  <1> DEFINE Holds == active = "sessions" => SessInv
  <1>1. Init => Holds
    BY SessInit DEF Init
  <1>2. Holds /\ [Next]_<<active, shared>> => Holds'
    <2> SUFFICES ASSUME active = "sessions", SessInv, [Next]_<<active, shared>> PROVE SessInv'
      BY OneMoves
    <2>1. CASE Sessions!Next
      BY <2>1, SessNext
    <2>2. CASE UNCHANGED shared
      BY <2>2 DEF shared, SessInv, SessTables, RevokedIsSignedOut, DeniedWhileNeeded,
          NobodyIsLate, UserStates, SessRequest, SessStages
    <2> QED
      BY <2>1, <2>2, OneMoves
  <1>3. Holds => SignedOutStaysOut
    BY SessInvImplies DEF SignedOutStaysOut
  <1> QED
    BY <1>1, <1>2, <1>3, PTL DEF Spec

-----------------------------------------------------------------------------
(***************************************************************************)
(* Recovery: a request that has used a code of an address has that address *)
(* among the proved ones, and every request about to reset the second      *)
(* factor, like every reset done, has a used code of its own.              *)
(***************************************************************************)
recEmail == x1
recRecovery == x2
recCodes == x3
recRecent == x4
recReq == x5
recProved == x6
recResets == x7
USE DEF recEmail, recRecovery, recCodes, recRecent, recReq, recProved, recResets

\* The component counts with its own copy of Cardinality.
LEMMA RecoveryCard == \A S : Recovery!Cardinality(S) = Cardinality(S)
  BY DEF Recovery!Cardinality, Cardinality

Purposes == {"verify", "recover"}

EmailCode == [email : SUBSET Emails, purpose : Purposes, attempts : Nat, consumed : BOOLEAN]

RecStages == {"idle", "mail", "consume", "confirm", "reset"}

RecRequest == [at : RecStages, email : SUBSET Emails, ch : Nat, purpose : Purposes]

HoldsCode(q, codes) ==
    q.at \in {"consume", "confirm", "reset"} =>
       q.ch \in 1 .. Len(codes) /\ codes[q.ch].purpose = q.purpose

RecTables ==
    /\ recEmail \in SUBSET Emails /\ recRecovery \in SUBSET Emails
    /\ recCodes \in Seq(EmailCode)
    /\ recReq \in [Handlers -> RecRequest]
    /\ recResets \in Nat
    /\ \A h \in Handlers : HoldsCode(recReq[h], recCodes)

ConfirmedIsProved ==
    \A h \in Handlers : recReq[h].at = "confirm" => recCodes[recReq[h].ch].email \subseteq recProved

UsedToRecover == {k \in DOMAIN recCodes : recCodes[k].purpose = "recover" /\ recCodes[k].consumed}
Resetting == {h \in Handlers : recReq[h].at = "reset"}

ResetsArePaid == recResets + Cardinality(Resetting) <= Cardinality(UsedToRecover)

RecInv ==
    /\ RecTables /\ ConfirmedIsProved /\ ResetsArePaid
    /\ recRecovery \subseteq recEmail \cap recProved

LEMMA UsedIsFinite ==
  ASSUME RecTables
  PROVE  /\ IsFiniteSet(UsedToRecover) /\ Cardinality(UsedToRecover) \in Nat
         /\ IsFiniteSet(Resetting) /\ Cardinality(Resetting) \in Nat
  <1>1. Len(recCodes) \in Nat /\ DOMAIN recCodes = 1 .. Len(recCodes)
    BY DEF RecTables
  <1>2. IsFiniteSet(1 .. Len(recCodes))
    BY <1>1, FS_Interval
  <1>3. IsFiniteSet(UsedToRecover)
    BY <1>1, <1>2, FS_Subset DEF UsedToRecover
  <1>4. IsFiniteSet(Resetting)
    BY FiniteHandlers, FS_Subset DEF Resetting
  <1> QED
    BY <1>3, <1>4, FS_CardinalityType

LEMMA RecInvImplies == RecInv => Recovery!RecoveryAddressIsProved
  <1> SUFFICES ASSUME RecInv PROVE Recovery!RecoveryAddressIsProved
    OBVIOUS
  <1>1. recResets \in Nat /\ Cardinality(Resetting) \in Nat /\ Cardinality(UsedToRecover) \in Nat
    BY UsedIsFinite DEF RecInv, RecTables
  <1>2. recResets <= Cardinality(UsedToRecover)
    BY <1>1 DEF RecInv, ResetsArePaid
  <1> QED
    BY <1>2, RecoveryCard DEF RecInv, Recovery!RecoveryAddressIsProved, UsedToRecover

LEMMA QuietShape == Recovery!Quiet \in RecRequest /\ Recovery!Quiet.at = "idle"
  BY DEF Recovery!Quiet, RecRequest, RecStages, Purposes

LEMMA RecInit == Recovery!Init => RecInv
  <1> SUFFICES ASSUME Recovery!Init PROVE RecInv
    OBVIOUS
  <1>1. recReq \in [Handlers -> RecRequest] /\ \A h \in Handlers : recReq[h].at = "idle"
    BY QuietShape DEF Recovery!Init
  <1>2. recCodes \in Seq(EmailCode) /\ DOMAIN recCodes = {}
    BY DEF Recovery!Init
  <1>3. RecTables
    BY <1>1, <1>2 DEF Recovery!Init, RecTables, HoldsCode
  <1>4. ConfirmedIsProved
    BY <1>1 DEF ConfirmedIsProved
  <1>5. Resetting = {} /\ UsedToRecover = {}
    BY <1>1, <1>2 DEF Resetting, UsedToRecover
  <1>6. ResetsArePaid
    BY <1>5, FS_EmptySet DEF Recovery!Init, ResetsArePaid
  <1> QED
    BY <1>3, <1>4, <1>6 DEF Recovery!Init, RecInv

\* The codes after a step: none is lost, a used one stays used.
Grows(codes) ==
    /\ codes \in Seq(EmailCode) /\ Len(recCodes) <= Len(codes)
    /\ \A k \in 1 .. Len(recCodes) : /\ codes[k].email = recCodes[k].email
                                     /\ codes[k].purpose = recCodes[k].purpose
                                     /\ recCodes[k].consumed => codes[k].consumed

LEMMA GrowsKeeps ==
  ASSUME RecTables, Grows(recCodes')
  PROVE  UsedToRecover \subseteq UsedToRecover'
  <1>1. /\ Len(recCodes) \in Nat /\ DOMAIN recCodes = 1 .. Len(recCodes)
        /\ Len(recCodes') \in Nat /\ DOMAIN recCodes' = 1 .. Len(recCodes')
    BY DEF RecTables, Grows
  <1> QED
    BY <1>1 DEF UsedToRecover, Grows

\* A step of a request that does not lead to a reset.
LEMMA RecMoves ==
  ASSUME RecInv, NEW h \in Handlers, NEW q \in RecRequest, Recovery!Set(h, q),
         Grows(recCodes'), q.at # "reset", HoldsCode(q, recCodes'),
         q.at = "confirm" => recCodes'[q.ch].email \subseteq recProved',
         recProved \subseteq recProved', recResets' = recResets,
         recEmail' \in SUBSET Emails, recRecovery' \subseteq recEmail' \cap recProved'
  PROVE  RecInv'
  <1>1. /\ recReq'[h] = q
        /\ \A g \in Handlers : g # h => recReq'[g] = recReq[g]
        /\ recReq' \in [Handlers -> RecRequest]
    BY DEF RecInv, RecTables, Recovery!Set
  <1>2. /\ Len(recCodes) \in Nat /\ Len(recCodes') \in Nat
    BY DEF RecInv, RecTables, Grows
  <1>3. RecTables'
    <2>1. \A g \in Handlers : HoldsCode(recReq'[g], recCodes')
      BY <1>1, <1>2 DEF RecInv, RecTables, HoldsCode, Grows
    <2> QED
      BY <1>1, <2>1 DEF RecInv, RecTables, Grows
  <1>4. ConfirmedIsProved'
    <2> SUFFICES ASSUME NEW g \in Handlers, recReq'[g].at = "confirm"
                 PROVE  recCodes'[recReq'[g].ch].email \subseteq recProved'
      BY DEF ConfirmedIsProved
    <2>1. CASE g = h
      BY <1>1, <2>1
    <2>2. CASE g # h
      BY <1>1, <2>2 DEF RecInv, RecTables, HoldsCode, ConfirmedIsProved, Grows
    <2> QED
      BY <2>1, <2>2
  <1>5. ResetsArePaid'
    <2>1. Resetting' \subseteq Resetting
      BY <1>1 DEF Resetting
    <2>2. UsedToRecover \subseteq UsedToRecover'
      BY GrowsKeeps DEF RecInv
    <2>3. /\ IsFiniteSet(UsedToRecover') /\ Cardinality(UsedToRecover') \in Nat
          /\ IsFiniteSet(Resetting') /\ Cardinality(Resetting') \in Nat
      <3>1. IsFiniteSet(1 .. Len(recCodes')) /\ DOMAIN recCodes' = 1 .. Len(recCodes')
        BY <1>2, FS_Interval DEF Grows
      <3>2. IsFiniteSet(UsedToRecover')
        BY <3>1, FS_Subset DEF UsedToRecover
      <3>3. IsFiniteSet(Resetting')
        BY FiniteHandlers, FS_Subset DEF Resetting
      <3> QED
        BY <3>2, <3>3, FS_CardinalityType
    <2>4. /\ Cardinality(UsedToRecover) \in Nat
          /\ IsFiniteSet(Resetting) /\ Cardinality(Resetting) \in Nat
      BY UsedIsFinite DEF RecInv
    <2>5. Cardinality(Resetting') <= Cardinality(Resetting)
      BY <2>1, <2>4, FS_Subset
    <2>6. Cardinality(UsedToRecover) <= Cardinality(UsedToRecover')
      BY <2>2, <2>3, FS_Subset
    <2>7. recResets \in Nat /\ recResets + Cardinality(Resetting) <= Cardinality(UsedToRecover)
      BY DEF RecInv, RecTables, ResetsArePaid
    <2>8. recResets + Cardinality(Resetting') <= Cardinality(UsedToRecover')
      BY <2>3, <2>4, <2>5, <2>6, <2>7
    <2> QED
      BY <2>8 DEF ResetsArePaid
  <1> QED
    BY <1>3, <1>4, <1>5 DEF RecInv

LEMMA SameGrows == RecTables /\ recCodes' = recCodes => Grows(recCodes')
  BY DEF Grows, RecTables

LEMMA RecEnds ==
  ASSUME RecInv, NEW h \in Handlers, Recovery!Done(h), UNCHANGED <<recCodes, recEmail, recProved, recResets>>,
         recRecovery' \subseteq recEmail \cap recProved
  PROVE  RecInv'
  <1>1. Grows(recCodes')
    BY SameGrows DEF RecInv
  <1>2. Recovery!Set(h, Recovery!Quiet)
    BY DEF Recovery!Done
  <1> QED
    BY <1>1, <1>2, QuietShape, RecMoves DEF RecInv, RecTables, HoldsCode

LEMMA RecMails ==
  ASSUME RecInv, NEW h \in Handlers, Recovery!issueEmailCode(h)
  PROVE  RecInv'
  <1>1. PICK code : code = [email |-> recReq[h].email, purpose |-> recReq[h].purpose,
                            attempts |-> 0, consumed |-> FALSE]
    OBVIOUS
  <1>2. code \in EmailCode
    BY <1>1 DEF RecInv, RecTables, RecRequest, EmailCode
  <1>3. recCodes' = Append(recCodes, code) /\ recCodes \in Seq(EmailCode)
    BY <1>1 DEF Recovery!issueEmailCode, RecInv, RecTables
  <1>4. Grows(recCodes')
    BY <1>2, <1>3 DEF Grows
  <1>5. Recovery!Set(h, Recovery!Quiet) /\ UNCHANGED <<recEmail, recRecovery, recProved, recResets>>
    BY DEF Recovery!issueEmailCode, Recovery!Done
  <1> QED
    BY <1>4, <1>5, QuietShape, RecMoves DEF RecInv, RecTables, HoldsCode

LEMMA RecEnrols ==
  ASSUME RecInv, NEW h \in Handlers, NEW e \in Emails, Recovery!SetRecoveryEmail(h, e)
  PROVE  RecInv'
  <1>1. PICK q : q = [Recovery!Quiet EXCEPT !.at = "mail", !.email = {e}]
    OBVIOUS
  <1>2. q \in RecRequest /\ q.at = "mail"
    BY <1>1 DEF Recovery!Quiet, RecRequest, RecStages, Purposes
  <1>3. /\ Recovery!Set(h, q) /\ UNCHANGED <<recCodes, recProved, recResets>>
        /\ recEmail' = {e} /\ recRecovery' = {}
    BY <1>1 DEF Recovery!SetRecoveryEmail, Recovery!SetPendingEmail
  <1>4. Grows(recCodes')
    BY <1>3, SameGrows DEF RecInv
  <1> QED
    BY <1>2, <1>3, <1>4, RecMoves DEF HoldsCode

LEMMA RecStarts ==
  ASSUME RecInv, NEW h \in Handlers, Recovery!StartEmailRecovery(h)
  PROVE  RecInv'
  <1>1. PICK q : q = [Recovery!Quiet EXCEPT !.at = "mail", !.email = recRecovery, !.purpose = "recover"]
    OBVIOUS
  <1>2. q \in RecRequest /\ q.at = "mail"
    BY <1>1 DEF Recovery!Quiet, RecRequest, RecStages, Purposes, RecInv, RecTables
  <1>3. Recovery!Set(h, q) /\ UNCHANGED <<recCodes, recProved, recResets, recEmail, recRecovery>>
    BY <1>1 DEF Recovery!StartEmailRecovery
  <1>4. Grows(recCodes')
    BY <1>3, SameGrows DEF RecInv
  <1> QED
    BY <1>2, <1>3, <1>4, RecMoves DEF HoldsCode, RecInv, RecTables

LEMMA LatestCodeIsThere ==
  ASSUME RecTables, NEW purpose, Recovery!LatestEmailChallenge(purpose) # 0
  PROVE  /\ Recovery!LatestEmailChallenge(purpose) \in 1 .. Len(recCodes)
         /\ recCodes[Recovery!LatestEmailChallenge(purpose)].purpose = purpose
  <1> DEFINE open == {k \in DOMAIN recCodes : recCodes[k].purpose = purpose /\ ~recCodes[k].consumed}
  <1>1. Len(recCodes) \in Nat /\ DOMAIN recCodes = 1 .. Len(recCodes)
    BY DEF RecTables
  <1>2. open # {}
    BY DEF Recovery!LatestEmailChallenge
  <1>3. open \in SUBSET (0 .. Len(recCodes))
    BY <1>1
  <1>4. \E k \in open : \A l \in open : l <= k
    BY <1>1, <1>2, <1>3, GreatestNumber
  <1>5. Recovery!LatestEmailChallenge(purpose) \in open
    BY <1>2, <1>4 DEF Recovery!LatestEmailChallenge
  <1> QED
    BY <1>1, <1>5

LEMMA RecTries ==
  ASSUME RecInv, NEW h \in Handlers, NEW purpose \in Purposes, NEW code,
         Recovery!consumeEmailCode(h, purpose, code, "consume"),
         UNCHANGED <<recEmail, recRecovery, recProved, recResets>>
  PROVE  RecInv'
  <1>1. PICK k : k = Recovery!LatestEmailChallenge(purpose)
    OBVIOUS
  <1>2. k \in 1 .. Len(recCodes) /\ recCodes[k].purpose = purpose
    BY <1>1, LatestCodeIsThere DEF Recovery!consumeEmailCode, RecInv
  <1>3. recCodes \in Seq(EmailCode) /\ recCodes[k] \in EmailCode
    BY <1>2 DEF RecInv, RecTables
  <1>4. PICK burnt : burnt = [recCodes[k] EXCEPT !.attempts = @ + 1]
    OBVIOUS
  <1>5. /\ burnt \in EmailCode /\ burnt.email = recCodes[k].email
        /\ burnt.purpose = recCodes[k].purpose /\ burnt.consumed = recCodes[k].consumed
    BY <1>3, <1>4, SMTT(30) DEF EmailCode
  <1>6. PICK used : used = [burnt EXCEPT !.consumed = TRUE]
    OBVIOUS
  <1>7. /\ used \in EmailCode /\ used.email = recCodes[k].email
        /\ used.purpose = recCodes[k].purpose /\ used.consumed
    BY <1>5, <1>6 DEF EmailCode
  <1>8. Recovery!BurnEmailAttempt(k) = [recCodes EXCEPT ![k] = burnt]
    BY <1>4 DEF Recovery!BurnEmailAttempt
  <1>9. [Recovery!BurnEmailAttempt(k) EXCEPT ![k].consumed = TRUE] = [recCodes EXCEPT ![k] = used]
    <2>1. [recCodes EXCEPT ![k] = burnt][k] = burnt
      BY <1>2, <1>3
    <2> QED
      BY <1>6, <1>8, <2>1
  <1>10. PICK c \in {burnt, used} : recCodes' = [recCodes EXCEPT ![k] = c]
    BY <1>1, <1>8, <1>9 DEF Recovery!consumeEmailCode
  <1>11. Grows(recCodes') /\ Len(recCodes') = Len(recCodes)
    BY <1>2, <1>3, <1>5, <1>7, <1>10 DEF Grows
  <1>12. PICK q : q = [Recovery!Quiet EXCEPT !.at = "consume", !.ch = k, !.purpose = purpose]
    OBVIOUS
  <1>13. k \in Nat /\ Len(recCodes) \in Nat
    BY <1>2, <1>3
  <1>14. q \in RecRequest /\ q.at = "consume" /\ q.ch = k /\ q.purpose = purpose
    BY <1>12, <1>13 DEF Recovery!Quiet, RecRequest, RecStages
  <1>15. HoldsCode(q, recCodes')
    BY <1>2, <1>11, <1>14 DEF HoldsCode, Grows
  <1>16. CASE Recovery!Set(h, q)
    BY <1>11, <1>14, <1>15, <1>16, RecMoves DEF RecInv, RecTables
  <1>17. CASE Recovery!Done(h)
    BY <1>11, <1>17, QuietShape, RecMoves DEF RecInv, RecTables, HoldsCode, Recovery!Done
  <1> QED
    BY <1>1, <1>12, <1>16, <1>17 DEF Recovery!consumeEmailCode

LEMMA RecUses ==
  ASSUME RecInv, NEW h \in Handlers, Recovery!ConsumeEmailChallenge(h)
  PROVE  RecInv'
  <1>1. PICK k : k = recReq[h].ch
    OBVIOUS
  <1>2. /\ recReq[h].at = "consume" /\ recReq[h] \in RecRequest
        /\ k \in 1 .. Len(recCodes) /\ recCodes[k].purpose = recReq[h].purpose
        /\ UNCHANGED <<recEmail, recRecovery, recResets>>
    BY <1>1 DEF Recovery!ConsumeEmailChallenge, Recovery!In, RecInv, RecTables, HoldsCode
  <1>3. CASE ~Recovery!StillOpen(k)
    <2>1. Recovery!Done(h) /\ UNCHANGED <<recCodes, recProved>>
      BY <1>1, <1>3 DEF Recovery!ConsumeEmailChallenge
    <2> QED
      BY <1>2, <2>1, RecEnds DEF RecInv
  <1>4. CASE Recovery!StillOpen(k)
    <2>1. recCodes \in Seq(EmailCode) /\ recCodes[k] \in EmailCode /\ ~recCodes[k].consumed
      BY <1>2, <1>4 DEF RecInv, RecTables, Recovery!StillOpen
    <2>2. PICK used : used = [recCodes[k] EXCEPT !.consumed = TRUE]
      OBVIOUS
    <2>3. /\ used \in EmailCode /\ used.email = recCodes[k].email
          /\ used.purpose = recCodes[k].purpose /\ used.consumed
      BY <2>1, <2>2 DEF EmailCode
    <2>4. recCodes' = [recCodes EXCEPT ![k] = used] /\ recProved' = recProved \cup recCodes[k].email
      BY <1>1, <1>4, <2>2 DEF Recovery!ConsumeEmailChallenge
    <2>5. Grows(recCodes') /\ Len(recCodes') = Len(recCodes) /\ recCodes'[k] = used
      BY <1>2, <2>1, <2>3, <2>4 DEF Grows
    <2>6. PICK at : at = IF recReq[h].at = "consume" /\ recReq[h].purpose = "verify" THEN "confirm" ELSE "reset"
      OBVIOUS
    <2>7. PICK q : q = [recReq[h] EXCEPT !.at = at]
      OBVIOUS
    <2>8. Recovery!Set(h, q)
      BY <1>1, <1>4, <2>6, <2>7 DEF Recovery!ConsumeEmailChallenge
    <2>9. /\ q \in RecRequest /\ q.at = at /\ q.ch = k /\ q.purpose = recReq[h].purpose
          /\ at \in {"confirm", "reset"} /\ (at = "reset" => recReq[h].purpose = "recover")
      BY <1>1, <1>2, <2>6, <2>7 DEF RecRequest, RecStages, Purposes
    <2>10. HoldsCode(q, recCodes')
      BY <1>2, <2>3, <2>5, <2>9 DEF HoldsCode
    <2>11. CASE at = "confirm"
      BY <1>2, <2>3, <2>4, <2>5, <2>8, <2>9, <2>10, <2>11, RecMoves DEF RecInv, RecTables
    <2>12. CASE at = "reset"
      <3>1. /\ recReq'[h] = q
            /\ \A g \in Handlers : g # h => recReq'[g] = recReq[g]
            /\ recReq' \in [Handlers -> RecRequest]
        BY <2>8, <2>9 DEF RecInv, RecTables, Recovery!Set
      <3>2. RecTables'
        <4>1. \A g \in Handlers : HoldsCode(recReq'[g], recCodes')
          BY <2>5, <2>10, <3>1 DEF RecInv, RecTables, HoldsCode, Grows
        <4> QED
          BY <1>2, <2>5, <3>1, <4>1 DEF RecInv, RecTables, Grows
      <3>3. ConfirmedIsProved'
        BY <2>4, <2>5, <2>9, <2>12, <3>1 DEF RecInv, RecTables, HoldsCode, ConfirmedIsProved, Grows
      <3>4. Resetting' = Resetting \cup {h} /\ h \notin Resetting
        BY <1>2, <2>9, <2>12, <3>1 DEF Resetting
      <3>5. UsedToRecover' = UsedToRecover \cup {k} /\ k \notin UsedToRecover
        <4>1. DOMAIN recCodes = 1 .. Len(recCodes) /\ DOMAIN recCodes' = 1 .. Len(recCodes)
          BY <2>1, <2>4
        <4>2. \A l \in 1 .. Len(recCodes) : l # k => recCodes'[l] = recCodes[l]
          BY <2>1, <2>4
        <4> QED
          BY <1>2, <2>1, <2>3, <2>5, <2>9, <2>12, <4>1, <4>2 DEF UsedToRecover
      <3>6. /\ IsFiniteSet(UsedToRecover) /\ Cardinality(UsedToRecover) \in Nat
            /\ IsFiniteSet(Resetting) /\ Cardinality(Resetting) \in Nat
        BY UsedIsFinite DEF RecInv
      <3>7. /\ Cardinality(Resetting') = Cardinality(Resetting) + 1
            /\ Cardinality(UsedToRecover') = Cardinality(UsedToRecover) + 1
        BY <3>4, <3>5, <3>6, FS_AddElement
      <3>8. recResets \in Nat /\ recResets + Cardinality(Resetting) <= Cardinality(UsedToRecover)
        BY DEF RecInv, RecTables, ResetsArePaid
      <3>9. recResets' + Cardinality(Resetting') <= Cardinality(UsedToRecover')
        BY <1>2, <3>6, <3>7, <3>8
      <3> QED
        BY <1>2, <2>4, <3>2, <3>3, <3>9 DEF RecInv, ResetsArePaid
    <2> QED
      BY <2>9, <2>11, <2>12
  <1> QED
    BY <1>3, <1>4

LEMMA RecResetsOnce ==
  ASSUME RecInv, NEW h \in Handlers, Recovery!CompleteEmailRecovery(h)
  PROVE  RecInv'
  <1>1. /\ recReq[h].at = "reset" /\ recReq' = [recReq EXCEPT ![h] = Recovery!Quiet]
        /\ recResets' = recResets + 1
        /\ UNCHANGED <<recEmail, recRecovery, recCodes, recProved>>
    BY DEF Recovery!CompleteEmailRecovery, Recovery!In, Recovery!Done, Recovery!Set
  <1>2. /\ recReq'[h].at = "idle"
        /\ \A g \in Handlers : g # h => recReq'[g] = recReq[g]
        /\ recReq' \in [Handlers -> RecRequest]
    BY <1>1, QuietShape DEF RecInv, RecTables
  <1>3. RecTables'
    BY <1>1, <1>2 DEF RecInv, RecTables, HoldsCode
  <1>4. ConfirmedIsProved'
    BY <1>1, <1>2 DEF RecInv, ConfirmedIsProved
  <1>5. Resetting' = Resetting \ {h} /\ h \in Resetting /\ UsedToRecover' = UsedToRecover
    BY <1>1, <1>2 DEF Resetting, UsedToRecover
  <1>6. /\ IsFiniteSet(Resetting) /\ Cardinality(Resetting) \in Nat /\ Cardinality(UsedToRecover) \in Nat
    BY UsedIsFinite DEF RecInv
  <1>7. Cardinality(Resetting') = Cardinality(Resetting) - 1
    BY <1>5, <1>6, FS_RemoveElement
  <1>8. recResets \in Nat /\ recResets + Cardinality(Resetting) <= Cardinality(UsedToRecover)
    BY DEF RecInv, RecTables, ResetsArePaid
  <1>9. ResetsArePaid'
    BY <1>1, <1>5, <1>6, <1>7, <1>8 DEF ResetsArePaid
  <1> QED
    BY <1>1, <1>3, <1>4, <1>9 DEF RecInv

LEMMA RecNext == ASSUME RecInv, Recovery!Next PROVE RecInv'
  <1>1. ASSUME UNCHANGED <<recCodes, recReq, recProved, recResets>>,
               \/ UNCHANGED <<recEmail, recRecovery>>
               \/ recEmail' = {} /\ recRecovery' = {}
        PROVE  RecInv'
    BY <1>1 DEF RecInv, RecTables, ConfirmedIsProved, ResetsArePaid, Resetting, UsedToRecover
  <1>2. CASE Recovery!WindowPasses \/ Recovery!RemoveRecoveryEmail
    BY <1>1, <1>2 DEF Recovery!WindowPasses, Recovery!RemoveRecoveryEmail
  <1>3. ASSUME NEW h \in Handlers, NEW code, Recovery!verifyRecoveryEmail(h, code) \/ Recovery!completeEmailRecovery(h, code)
        PROVE  RecInv'
    <2>1. "verify" \in Purposes /\ "recover" \in Purposes
      BY DEF Purposes
    <2> QED
      BY <1>3, <2>1, RecTries DEF Recovery!verifyRecoveryEmail, Recovery!completeEmailRecovery
  <1>4. ASSUME NEW h \in Handlers, Recovery!VerifyRecoveryEmail(h) PROVE RecInv'
    <2>1. recCodes[recReq[h].ch].email \subseteq recProved
      BY <1>4 DEF Recovery!VerifyRecoveryEmail, Recovery!In, RecInv, ConfirmedIsProved
    <2>2. recRecovery' \subseteq recEmail \cap recProved
      BY <1>4, <2>1 DEF Recovery!VerifyRecoveryEmail, Recovery!ConfirmEmail, RecInv
    <2> QED
      BY <1>4, <2>2, RecEnds DEF Recovery!VerifyRecoveryEmail
  <1>5. ASSUME NEW h \in Handlers, Recovery!Hangup(h) PROVE RecInv'
    BY <1>5, RecEnds DEF Recovery!Hangup, RecInv
  <1>6. ASSUME NEW h \in Handlers,
               \/ \E e \in Emails : Recovery!SetRecoveryEmail(h, e)
               \/ Recovery!issueEmailCode(h) \/ Recovery!ConsumeEmailChallenge(h)
               \/ Recovery!StartEmailRecovery(h) \/ Recovery!CompleteEmailRecovery(h)
        PROVE  RecInv'
    BY <1>6, RecEnrols, RecMails, RecUses, RecStarts, RecResetsOnce
  <1> QED
    BY <1>2, <1>3, <1>4, <1>5, <1>6 DEF Recovery!Next

\* The recovery address is on the account and was proved by its holder, for any number of handlers
\* that enrol, confirm, remove and reset at once (ConfirmEmail, ConsumeEmailChallenge).
THEOREM RecoveryProved == Spec => []RecoveryAddressIsProved
  <1> DEFINE Holds == active = "recovery" => RecInv
  <1>1. Init => Holds
    BY RecInit DEF Init
  <1>2. Holds /\ [Next]_<<active, shared>> => Holds'
    <2> SUFFICES ASSUME active = "recovery", RecInv, [Next]_<<active, shared>> PROVE RecInv'
      BY OneMoves
    <2>1. CASE Recovery!Next
      BY <2>1, RecNext
    <2>2. CASE UNCHANGED shared
      BY <2>2 DEF shared, RecInv, RecTables, ConfirmedIsProved, ResetsArePaid, EmailCode,
          RecRequest, HoldsCode, Resetting, UsedToRecover, Purposes, RecStages
    <2> QED
      BY <2>1, <2>2, OneMoves
  <1>3. Holds => RecoveryAddressIsProved
    BY RecInvImplies DEF RecoveryAddressIsProved
  <1> QED
    BY <1>1, <1>2, <1>3, PTL DEF Spec

-----------------------------------------------------------------------------
(***************************************************************************)
(* Data requests: one worker at most has a request, the request it has is  *)
(* ripe and was not withdrawn while it waited, and a request that waits    *)
(* again has been ripe before.                                             *)
(***************************************************************************)
drNow == x1
drRow == x2
drAsk == x3
drWork == x4
drAccount == x5
drDone == x6
drTaken == x7
USE DEF drNow, drRow, drAsk, drWork, drAccount, drDone, drTaken

RowStatuses == {"none", "pending", "processing", "ready", "completed", "cancelled"}
DataRow == [type : DataRights!Types \cup {"none"}, status : RowStatuses, made : Nat, due : Nat]

DataTables ==
    /\ drNow \in Nat
    /\ drRow \in [DataRights!Rows -> DataRow]
    /\ drAsk \in [Handlers -> DataRights!Types \cup {"none"}]
    /\ drWork \in [Workers -> [batch : SUBSET DataRights!Rows, mark : DataRights!Rows \cup {0}]]
    /\ drDone \in [DataRights!Rows -> Nat]
    /\ drTaken \in [DataRights!Rows -> {"open", "early", "late"}]

Ripe(row, now) == row.type = "delete" => row.made + DeletionDelay <= now

RowHolds(row, done, taken, now) ==
    /\ row.status = "pending" => Ripe(row, row.due) \/ Ripe(row, now)
    /\ row.status = "processing" \/ done > 0 => Ripe(row, now)
    /\ done > 0 => taken # "early" /\ row.status # "none"
    /\ taken # "open" => row.status = "cancelled"
    /\ row.status \in {"ready", "completed"} => done > 0

RowsHold == \A r \in DataRights!Rows : RowHolds(drRow[r], drDone[r], drTaken[r], drNow)

WorkersHold ==
    \A w \in Workers :
       /\ \A r \in drWork[w].batch :
             /\ drRow[r].status \in {"processing", "cancelled"}
             /\ Ripe(drRow[r], drNow) /\ drTaken[r] # "early"
             /\ \A v \in Workers : r \in drWork[v].batch => v = w
       /\ drWork[w].mark # 0 => drWork[w].mark \in drWork[w].batch /\ drDone[drWork[w].mark] > 0

DeletedOnRequest ==
    drAccount = "deleted" => \E r \in DataRights!Rows : drRow[r].type = "delete" /\ drDone[r] > 0

DataInv == DataTables /\ RowsHold /\ WorkersHold /\ DeletedOnRequest

LEMMA DataInvImplies == DataInv => DataRights!DeletionHasItsDelay
  BY DEF DataInv, DataTables, RowsHold, RowHolds, Ripe, DeletedOnRequest, DataRights!DeletionHasItsDelay

LEMMA RowsAreNumbers == 0 \notin DataRights!Rows /\ DataRights!Rows \subseteq Nat
  BY DataDelays DEF DataRights!Rows

LEMMA DataInit == DataRights!Init => DataInv
  <1> SUFFICES ASSUME DataRights!Init PROVE DataInv
    OBVIOUS
  <1>1. DataRights!NoRow \in DataRow /\ DataRights!NoRow.status = "none"
    BY DEF DataRights!NoRow, DataRow, RowStatuses
  <1>2. DataRights!Resting \in [batch : SUBSET DataRights!Rows, mark : DataRights!Rows \cup {0}] /\ DataRights!Resting.batch = {} /\ DataRights!Resting.mark = 0
    BY DEF DataRights!Resting
  <1>3. /\ \A r \in DataRights!Rows : drRow[r] = DataRights!NoRow /\ drDone[r] = 0 /\ drTaken[r] = "open"
        /\ \A w \in Workers : drWork[w] = DataRights!Resting
    BY DEF DataRights!Init
  <1>4. DataTables
    BY <1>1, <1>2 DEF DataRights!Init, DataTables, DataRights!Types
  <1>5. RowsHold
    BY <1>1, <1>3 DEF RowsHold, RowHolds
  <1>6. WorkersHold
    BY <1>2, <1>3 DEF WorkersHold
  <1>7. DeletedOnRequest
    BY DEF DataRights!Init, DeletedOnRequest
  <1> QED
    BY <1>4, <1>5, <1>6, <1>7 DEF DataInv

LEMMA DataTick == ASSUME DataInv, DataRights!Tick PROVE DataInv'
  <1>1. /\ drNow \in Nat /\ drNow' = drNow + 1
        /\ UNCHANGED <<drRow, drAsk, drWork, drAccount, drDone, drTaken>>
    BY DEF DataRights!Tick, DataInv, DataTables
  <1>2. DataTables'
    BY <1>1 DEF DataInv, DataTables
  <1>3. \A r \in DataRights!Rows : Ripe(drRow[r], drNow) => Ripe(drRow[r], drNow')
    BY <1>1, DataDelays DEF Ripe, DataInv, DataTables, DataRow
  <1>4. RowsHold'
    BY <1>1, <1>3 DEF DataInv, RowsHold, RowHolds
  <1>5. WorkersHold'
    <2>1. \A w \in Workers : drWork[w].batch \subseteq DataRights!Rows
      BY DEF DataInv, DataTables
    <2> QED
      BY <1>1, <1>3, <2>1 DEF DataInv, WorkersHold
  <1>6. DeletedOnRequest'
    BY <1>1 DEF DataInv, DeletedOnRequest
  <1> QED
    BY <1>2, <1>4, <1>5, <1>6 DEF DataInv

LEMMA DataLooks == ASSUME DataInv, NEW h \in Handlers, NEW type \in DataRights!Types, DataRights!LookForOpen(h, type) PROVE DataInv'
  <1>1. /\ drAsk' = [drAsk EXCEPT ![h] = type]
        /\ UNCHANGED <<drNow, drRow, drWork, drAccount, drDone, drTaken>>
    BY DEF DataRights!LookForOpen
  <1> QED
    BY <1>1 DEF DataInv, DataTables, RowsHold, WorkersHold, DeletedOnRequest

\* A row changes; its request stays ripe, is held by whoever holds it, and counts as done if it was.
LEMMA DataRowStep ==
  ASSUME DataInv, NEW r \in DataRights!Rows, NEW row \in DataRow, drRow' = [drRow EXCEPT ![r] = row],
         drAsk' \in [Handlers -> DataRights!Types \cup {"none"}],
         UNCHANGED <<drNow, drAccount, drDone>>,
         drTaken' \in [DataRights!Rows -> {"open", "early", "late"}],
         \A q \in DataRights!Rows : q # r => drTaken'[q] = drTaken[q],
         drWork' \in [Workers -> [batch : SUBSET DataRights!Rows, mark : DataRights!Rows \cup {0}]],
         \A w \in Workers : /\ drWork'[w].batch \subseteq drWork[w].batch
                            /\ drWork'[w].mark \in {0, drWork[w].mark}
                            /\ drWork'[w].mark # 0 => drWork'[w].batch = drWork[w].batch,
         RowHolds(row, drDone[r], drTaken'[r], drNow),
         \A w \in Workers : r \in drWork'[w].batch =>
            row.status \in {"processing", "cancelled"} /\ Ripe(row, drNow) /\ drTaken'[r] # "early",
         drDone[r] > 0 => row.type = drRow[r].type
  PROVE  DataInv'
  <1>1. /\ drRow'[r] = row /\ \A q \in DataRights!Rows : q # r => drRow'[q] = drRow[q]
        /\ drRow' \in [DataRights!Rows -> DataRow]
    BY DEF DataInv, DataTables
  <1>2. DataTables'
    BY <1>1 DEF DataInv, DataTables
  <1>3. RowsHold'
    <2> SUFFICES ASSUME NEW q \in DataRights!Rows PROVE RowHolds(drRow'[q], drDone'[q], drTaken'[q], drNow')
      BY DEF RowsHold
    <2>1. CASE q = r
      BY <1>1, <2>1
    <2>2. CASE q # r
      BY <1>1, <2>2 DEF DataInv, RowsHold
    <2> QED
      BY <2>1, <2>2
  <1>4. WorkersHold'
    <2> SUFFICES ASSUME NEW w \in Workers
                 PROVE  /\ \A q \in drWork'[w].batch :
                              /\ drRow'[q].status \in {"processing", "cancelled"}
                              /\ Ripe(drRow'[q], drNow) /\ drTaken'[q] # "early"
                              /\ \A v \in Workers : q \in drWork'[v].batch => v = w
                        /\ drWork'[w].mark # 0 => drWork'[w].mark \in drWork'[w].batch /\ drDone[drWork'[w].mark] > 0
      BY DEF WorkersHold
    <2>1. drWork[w].batch \subseteq DataRights!Rows
      BY DEF DataInv, DataTables
    <2>a. \A v \in Workers : \A q : q \in drWork'[v].batch => q \in drWork[v].batch
      OBVIOUS
    <2>b. /\ drWork'[w].mark \in {0, drWork[w].mark}
          /\ drWork'[w].mark # 0 => drWork'[w].batch = drWork[w].batch
      OBVIOUS
    <2>c. /\ \A q \in drWork[w].batch :
                /\ drRow[q].status \in {"processing", "cancelled"}
                /\ Ripe(drRow[q], drNow) /\ drTaken[q] # "early"
                /\ \A v \in Workers : q \in drWork[v].batch => v = w
          /\ drWork[w].mark # 0 => drWork[w].mark \in drWork[w].batch /\ drDone[drWork[w].mark] > 0
      BY DEF DataInv, WorkersHold
    <2>2. ASSUME NEW q \in drWork'[w].batch
          PROVE  /\ drRow'[q].status \in {"processing", "cancelled"}
                 /\ Ripe(drRow'[q], drNow) /\ drTaken'[q] # "early"
                 /\ \A v \in Workers : q \in drWork'[v].batch => v = w
      <3>1. q \in drWork[w].batch /\ q \in DataRights!Rows
        BY <2>1, <2>a
      <3>0. \A v \in Workers : q \in drWork'[v].batch => v = w
        BY <3>1, <2>a, <2>c
      <3>2. CASE q = r
        BY <1>1, <3>0, <3>2
      <3>3. CASE q # r
        BY <1>1, <2>c, <3>0, <3>1, <3>3
      <3> QED
        BY <3>2, <3>3
    <2>3. ASSUME drWork'[w].mark # 0 PROVE drWork'[w].mark \in drWork'[w].batch /\ drDone[drWork'[w].mark] > 0
      BY <2>3, <2>b, <2>c
    <2> QED
      BY <2>2, <2>3
  <1>5. DeletedOnRequest'
    BY <1>1 DEF DataInv, DeletedOnRequest
  <1> QED
    BY <1>2, <1>3, <1>4, <1>5 DEF DataInv

LEMMA DataCreates == ASSUME DataInv, NEW h \in Handlers, NEW r \in DataRights!Rows, DataRights!Create(h, r) PROVE DataInv'
  <1>1. PICK row : row = [type |-> drAsk[h], status |-> "pending", made |-> drNow, due |-> DataRights!executeAfter(drAsk[h])]
    OBVIOUS
  <1>2. /\ drRow' = [drRow EXCEPT ![r] = row] /\ drAsk' = [drAsk EXCEPT ![h] = "none"]
        /\ drAsk[h] # "none" /\ drRow[r].status = "none"
        /\ UNCHANGED <<drNow, drWork, drAccount, drDone, drTaken>>
    BY <1>1 DEF DataRights!Create
  <1>3. drAsk[h] \in DataRights!Types /\ drNow \in Nat
    BY <1>2 DEF DataInv, DataTables
  <1>4. DataRights!executeAfter(drAsk[h]) \in Nat /\ (drAsk[h] = "delete" => DataRights!executeAfter(drAsk[h]) = drNow + DeletionDelay)
    BY <1>3, DataDelays DEF DataRights!executeAfter
  <1>5. /\ row \in DataRow /\ row.status = "pending" /\ row.type = drAsk[h] /\ row.made = drNow
        /\ row.due = DataRights!executeAfter(drAsk[h])
    BY <1>1, <1>3, <1>4 DEF DataRow, RowStatuses
  <1>6. ~(drDone[r] > 0) /\ drTaken[r] = "open"
    BY <1>2 DEF DataInv, RowsHold, RowHolds
  <1>7. Ripe(row, row.due)
    BY <1>3, <1>4, <1>5, DataDelays DEF Ripe
  <1>8. RowHolds(row, drDone[r], drTaken[r], drNow)
    BY <1>5, <1>6, <1>7 DEF RowHolds
  <1>9. \A w \in Workers : r \notin drWork[w].batch
    BY <1>2 DEF DataInv, WorkersHold
  <1>10. drAsk' \in [Handlers -> DataRights!Types \cup {"none"}]
    BY <1>2 DEF DataInv, DataTables
  <1> QED
    BY <1>2, <1>5, <1>6, <1>8, <1>9, <1>10, DataRowStep DEF DataInv, DataTables

LEMMA DataCancels == ASSUME DataInv, NEW r \in DataRights!Rows, DataRights!cancel(r) PROVE DataInv'
  <1>1. PICK row : row = [drRow[r] EXCEPT !.status = "cancelled"]
    OBVIOUS
  <1>2. drRow[r] \in DataRow
    BY DEF DataInv, DataTables
  <1>3. /\ row \in DataRow /\ row.status = "cancelled" /\ row.type = drRow[r].type
        /\ row.made = drRow[r].made /\ row.due = drRow[r].due
    BY <1>1, <1>2 DEF DataRow, RowStatuses
  <1>4. PICK taken : taken = IF drRow[r].status = "pending" /\ drDone[r] = 0 THEN "early" ELSE "late"
    OBVIOUS
  <1>5. /\ drRow' = [drRow EXCEPT ![r] = row] /\ drTaken' = [drTaken EXCEPT ![r] = taken]
        /\ UNCHANGED <<drNow, drAsk, drWork, drAccount, drDone>>
        /\ drRow[r].status \in {"pending", "processing"}
    BY <1>1, <1>4 DEF DataRights!cancel, DataRights!Cancel, DataRights!Open
  <1>6. /\ taken \in {"early", "late"} /\ drTaken'[r] = taken
        /\ taken = "early" => drRow[r].status = "pending" /\ drDone[r] = 0
        /\ drTaken' \in [DataRights!Rows -> {"open", "early", "late"}]
        /\ \A q \in DataRights!Rows : q # r => drTaken'[q] = drTaken[q]
    BY <1>4, <1>5 DEF DataInv, DataTables
  <1>7. \A now : Ripe(row, now) = Ripe(drRow[r], now)
    BY <1>3 DEF Ripe
  <1>8. RowHolds(row, drDone[r], taken, drNow)
    BY <1>3, <1>6, <1>7 DEF RowHolds, DataInv, RowsHold
  <1>9. \A w \in Workers : r \in drWork[w].batch => drRow[r].status # "pending" /\ Ripe(drRow[r], drNow)
    BY DEF DataInv, WorkersHold
  <1> QED
    BY <1>3, <1>5, <1>6, <1>7, <1>8, <1>9, DataRowStep, ZenonT(30) DEF DataInv, DataTables

LEMMA DataClaims ==
  ASSUME DataInv, NEW w \in Workers, NEW batch \in SUBSET DataRights!Rows, DataRights!ClaimDue(w, batch)
  PROVE  DataInv'
  <1>1. /\ batch \subseteq DataRights!Due /\ drWork[w] = DataRights!Resting
        /\ drRow' = [r \in DataRights!Rows |-> IF r \in batch THEN [drRow[r] EXCEPT !.status = "processing"] ELSE drRow[r]]
        /\ drWork' = [drWork EXCEPT ![w] = [drWork[w] EXCEPT !.batch = batch]]
        /\ UNCHANGED <<drNow, drAsk, drAccount, drDone, drTaken>>
    BY DEF DataRights!ClaimDue, DataRights!DueBatch
  <1>2. \A r \in DataRights!Rows : drRow[r] \in DataRow
    BY DEF DataInv, DataTables
  <1>3. ASSUME NEW r \in batch
        PROVE  /\ drRow'[r] \in DataRow /\ drRow'[r].status = "processing"
               /\ drRow'[r].type = drRow[r].type /\ drRow'[r].made = drRow[r].made
               /\ drRow[r].status = "pending" /\ drRow[r].due <= drNow
    <2>1. drRow'[r] = [drRow[r] EXCEPT !.status = "processing"] /\ drRow[r] \in DataRow
      BY <1>1, <1>2
    <2>2. drRow'[r] \in DataRow /\ drRow'[r].status = "processing"
      BY <2>1 DEF DataRow, RowStatuses
    <2>3. drRow'[r].type = drRow[r].type /\ drRow'[r].made = drRow[r].made
      BY <2>1 DEF DataRow
    <2> QED
      BY <1>1, <2>2, <2>3 DEF DataRights!Due
  <1>4. \A r \in DataRights!Rows : r \notin batch => drRow'[r] = drRow[r]
    BY <1>1
  <1>5. \A r \in batch : Ripe(drRow'[r], drNow) /\ Ripe(drRow[r], drNow)
    <2> SUFFICES ASSUME NEW r \in batch PROVE Ripe(drRow'[r], drNow) /\ Ripe(drRow[r], drNow)
      OBVIOUS
    <2>1. Ripe(drRow[r], drRow[r].due) \/ Ripe(drRow[r], drNow)
      BY <1>3 DEF DataInv, RowsHold, RowHolds
    <2>2. Ripe(drRow[r], drNow)
      <3>1. drRow[r].due \in Nat /\ drRow[r].made \in Nat /\ drNow \in Nat /\ drRow[r].due <= drNow
        BY <1>2, <1>3 DEF DataRow, DataInv, DataTables
      <3> QED
        BY <2>1, <3>1, DataDelays DEF Ripe
    <2> QED
      BY <1>3, <2>2 DEF Ripe
  <1>6. /\ drWork'[w].batch = batch /\ drWork'[w].mark = 0
        /\ \A v \in Workers : v # w => drWork'[v] = drWork[v]
        /\ drWork' \in [Workers -> [batch : SUBSET DataRights!Rows, mark : DataRights!Rows \cup {0}]]
    <2>1. drWork[w] = [batch |-> {}, mark |-> 0]
      BY <1>1 DEF DataRights!Resting
    <2>2. [drWork[w] EXCEPT !.batch = batch] = [batch |-> batch, mark |-> 0]
      BY <2>1
    <2> QED
      BY <1>1, <2>2 DEF DataInv, DataTables
  <1>7. DataTables'
    <2>1. drRow' \in [DataRights!Rows -> DataRow]
      BY <1>1, <1>2, <1>3, <1>4
    <2> QED
      BY <1>1, <1>6, <2>1 DEF DataInv, DataTables
  <1>8. RowsHold'
    <2> SUFFICES ASSUME NEW r \in DataRights!Rows PROVE RowHolds(drRow'[r], drDone[r], drTaken[r], drNow)
      BY <1>1 DEF RowsHold
    <2>0. RowHolds(drRow[r], drDone[r], drTaken[r], drNow)
      BY DEF DataInv, RowsHold
    <2>1. CASE r \in batch
      BY <1>3, <1>5, <2>0, <2>1 DEF RowHolds
    <2>2. CASE r \notin batch
      BY <1>4, <2>0, <2>2
    <2> QED
      BY <2>1, <2>2
  <1>9. WorkersHold'
    <2>1. \A v \in Workers, r \in batch : r \notin drWork[v].batch
      BY <1>3 DEF DataInv, WorkersHold
    <2>2. \A r \in batch : drTaken[r] # "early"
      BY <1>3 DEF DataInv, RowsHold, RowHolds
    <2> SUFFICES ASSUME NEW v \in Workers
                 PROVE  /\ \A q \in drWork'[v].batch :
                              /\ drRow'[q].status \in {"processing", "cancelled"}
                              /\ Ripe(drRow'[q], drNow) /\ drTaken[q] # "early"
                              /\ \A u \in Workers : q \in drWork'[u].batch => u = v
                        /\ drWork'[v].mark # 0 => drWork'[v].mark \in drWork'[v].batch /\ drDone[drWork'[v].mark] > 0
      BY <1>1, SMTT(30) DEF WorkersHold
    <2>3. CASE v = w
      BY <1>3, <1>5, <1>6, <2>1, <2>2, <2>3
    <2>4. CASE v # w
      <3>1. drWork'[v] = drWork[v] /\ drWork[v].batch \subseteq DataRights!Rows
        BY <1>6, <2>4 DEF DataInv, DataTables
      <3>2. \A q \in drWork[v].batch : q \notin batch /\ drRow'[q] = drRow[q]
        BY <1>4, <2>1, <3>1
      <3>3. /\ \A q \in drWork[v].batch :
                  /\ drRow[q].status \in {"processing", "cancelled"}
                  /\ Ripe(drRow[q], drNow) /\ drTaken[q] # "early"
                  /\ \A u \in Workers : q \in drWork[u].batch => u = v
            /\ drWork[v].mark # 0 => drWork[v].mark \in drWork[v].batch /\ drDone[drWork[v].mark] > 0
        BY DEF DataInv, WorkersHold
      <3> QED
        BY <1>6, <3>1, <3>2, <3>3
    <2> QED
      BY <2>3, <2>4
  <1>10. DeletedOnRequest'
    BY <1>1, <1>3, <1>4 DEF DataInv, DeletedOnRequest
  <1> QED
    BY <1>7, <1>8, <1>9, <1>10 DEF DataInv

LEMMA DataCarries ==
  ASSUME DataInv, NEW w \in Workers, NEW r \in DataRights!Rows, DataRights!carryOut(w, r)
  PROVE  DataInv'
  <1>1. /\ r \in drWork[w].batch /\ drWork' = [drWork EXCEPT ![w] = [drWork[w] EXCEPT !.mark = r]]
        /\ UNCHANGED <<drNow, drRow, drAsk, drTaken>>
        /\ drDone' = [drDone EXCEPT ![r] = IF @ < 2 THEN @ + 1 ELSE @]
        /\ drAccount' \in {drAccount, "deleted"}
        /\ drAccount' = "deleted" => drAccount = "deleted" \/ drRow[r].type = "delete"
    BY DEF DataRights!carryOut, DataRights!Export, DataRights!Delete, DataRights!Carried
  <1>2. drDone[r] \in Nat /\ drDone' \in [DataRights!Rows -> Nat] /\ drDone'[r] > 0 /\ \A q \in DataRights!Rows : q # r => drDone'[q] = drDone[q]
    <2>1. drDone \in [DataRights!Rows -> Nat]
      BY DEF DataInv, DataTables
    <2>2. PICK n : n = IF drDone[r] < 2 THEN drDone[r] + 1 ELSE drDone[r]
      OBVIOUS
    <2>3. n \in Nat /\ n > 0
      BY <2>1, <2>2
    <2>4. drDone' = [drDone EXCEPT ![r] = n]
      BY <1>1, <2>2
    <2> QED
      BY <2>1, <2>3, <2>4
  <1>3. /\ drWork'[w].batch = drWork[w].batch /\ drWork'[w].mark = r
        /\ \A v \in Workers : v # w => drWork'[v] = drWork[v]
        /\ drWork' \in [Workers -> [batch : SUBSET DataRights!Rows, mark : DataRights!Rows \cup {0}]]
    <2>1. drWork[w] \in [batch : SUBSET DataRights!Rows, mark : DataRights!Rows \cup {0}]
      BY DEF DataInv, DataTables
    <2> QED
      BY <1>1, <2>1 DEF DataInv, DataTables
  <1>4. DataTables'
    BY <1>1, <1>2, <1>3 DEF DataInv, DataTables
  <1>5. drRow[r].status \in {"processing", "cancelled"} /\ Ripe(drRow[r], drNow) /\ drTaken[r] # "early"
    BY <1>1 DEF DataInv, WorkersHold
  <1>6. RowsHold'
    <2> SUFFICES ASSUME NEW q \in DataRights!Rows PROVE RowHolds(drRow[q], drDone'[q], drTaken[q], drNow)
      BY <1>1 DEF RowsHold
    <2>0. RowHolds(drRow[q], drDone[q], drTaken[q], drNow)
      BY DEF DataInv, RowsHold
    <2>1. CASE q = r
      BY <1>2, <1>5, <2>0, <2>1 DEF RowHolds
    <2>2. CASE q # r
      BY <1>2, <2>0, <2>2
    <2> QED
      BY <2>1, <2>2
  <1>7. WorkersHold'
    <2>0. \A v \in Workers :
             /\ drWork'[v].batch = drWork[v].batch
             /\ \A q \in drWork[v].batch :
                  /\ drRow[q].status \in {"processing", "cancelled"}
                  /\ Ripe(drRow[q], drNow) /\ drTaken[q] # "early"
                  /\ \A u \in Workers : q \in drWork[u].batch => u = v
             /\ drWork[v].mark # 0 => drWork[v].mark \in drWork[v].batch /\ drDone[drWork[v].mark] > 0
      BY <1>3 DEF DataInv, WorkersHold
    <2>1. \A q \in DataRights!Rows : drDone[q] > 0 => drDone'[q] > 0
      BY <1>2
    <2>2. \A v \in Workers : drWork'[v].mark # 0 =>
             drWork'[v].mark \in drWork'[v].batch /\ drDone'[drWork'[v].mark] > 0
      <3>1. \A v \in Workers : drWork[v].batch \subseteq DataRights!Rows
        BY DEF DataInv, DataTables
      <3> QED
        BY <1>1, <1>2, <1>3, <2>0, <2>1, <3>1
    <2> QED
      BY <1>1, <2>0, <2>2 DEF WorkersHold
  <1>8. DeletedOnRequest'
    BY <1>1, <1>2 DEF DataInv, DeletedOnRequest
  <1> QED
    BY <1>4, <1>6, <1>7, <1>8 DEF DataInv

LEMMA DataEnds ==
  ASSUME DataInv, NEW w \in Workers, NEW r \in DataRights!Rows, NEW row \in DataRow,
         r \in drWork[w].batch,
         drRow' = [drRow EXCEPT ![r] = row],
         drWork' = [drWork EXCEPT ![w] = [batch |-> @.batch \ {r}, mark |-> 0]],
         UNCHANGED <<drNow, drAsk, drAccount, drDone, drTaken>>,
         row.type = drRow[r].type, row.made = drRow[r].made,
         \/ row = drRow[r]
         \/ drRow[r].status = "processing" /\ row.status = "pending"
         \/ drRow[r].status = "processing" /\ row.status \in {"ready", "completed"} /\ drDone[r] > 0
  PROVE  DataInv'
  <1>1. /\ drRow[r].status \in {"processing", "cancelled"}
        /\ Ripe(drRow[r], drNow) /\ drTaken[r] # "early"
        /\ \A v \in Workers : r \in drWork[v].batch => v = w
    BY DEF DataInv, WorkersHold
  <1>2. Ripe(row, drNow)
    BY <1>1 DEF Ripe
  <1>3. /\ drWork'[w].batch = drWork[w].batch \ {r} /\ drWork'[w].mark = 0
        /\ \A v \in Workers : v # w => drWork'[v] = drWork[v]
        /\ drWork' \in [Workers -> [batch : SUBSET DataRights!Rows, mark : DataRights!Rows \cup {0}]]
    BY DEF DataInv, DataTables
  <1>4. \A v \in Workers : r \notin drWork'[v].batch
    BY <1>1, <1>3
  <1>5. RowHolds(row, drDone[r], drTaken[r], drNow)
    <2>1. RowHolds(drRow[r], drDone[r], drTaken[r], drNow)
      BY DEF DataInv, RowsHold
    <2> QED
      BY <1>2, <2>1 DEF RowHolds
  <1>6. \A v \in Workers : /\ drWork'[v].batch \subseteq drWork[v].batch
                           /\ drWork'[v].mark \in {0, drWork[v].mark}
                           /\ drWork'[v].mark # 0 => drWork'[v].batch = drWork[v].batch
    BY <1>3
  <1> QED
    BY <1>3, <1>4, <1>5, <1>6, DataRowStep, ZenonT(30) DEF DataInv, DataTables

LEMMA DataRecords ==
  ASSUME DataInv, NEW w \in Workers, NEW r \in DataRights!Rows, DataRights!markDone(w, r)
  PROVE  DataInv'
  <1>1. /\ drWork' = [drWork EXCEPT ![w] = [batch |-> @.batch \ {r}, mark |-> 0]]
        /\ UNCHANGED <<drNow, drAsk, drAccount, drDone, drTaken>>
        /\ drWork[w].mark = r
    BY DEF DataRights!markDone
  <1>2. r \in drWork[w].batch /\ drDone[r] > 0
    BY <1>1, RowsAreNumbers DEF DataInv, WorkersHold
  <1>3. drRow[r] \in DataRow /\ drRow \in [DataRights!Rows -> DataRow]
    BY DEF DataInv, DataTables
  <1>4. PICK status \in {"ready", "completed"} :
           drRow' = IF drRow[r].status = "processing" THEN [drRow EXCEPT ![r].status = status] ELSE drRow
    BY DEF DataRights!markDone, DataRights!MarkReady, DataRights!MarkCompleted, DataRights!Settle
  <1>5. CASE drRow[r].status = "processing"
    <2>1. PICK row : row = [drRow[r] EXCEPT !.status = status]
      OBVIOUS
    <2>2. /\ row \in DataRow /\ row.status = status /\ row.type = drRow[r].type /\ row.made = drRow[r].made
      BY <1>3, <2>1 DEF DataRow, RowStatuses
    <2>3. drRow' = [drRow EXCEPT ![r] = row]
      BY <1>4, <1>5, <2>1
    <2> QED
      BY <1>1, <1>2, <1>5, <2>2, <2>3, DataEnds
  <1>6. CASE drRow[r].status # "processing"
    <2>1. drRow' = [drRow EXCEPT ![r] = drRow[r]]
      BY <1>3, <1>4, <1>6
    <2> QED
      BY <1>1, <1>2, <1>3, <2>1, DataEnds
  <1> QED
    BY <1>5, <1>6

LEMMA DataGivesBack ==
  ASSUME DataInv, NEW w \in Workers, NEW r \in DataRights!Rows, DataRights!carryOutFails(w, r)
  PROVE  DataInv'
  <1>1. /\ drWork' = [drWork EXCEPT ![w] = [batch |-> @.batch \ {r}, mark |-> 0]]
        /\ UNCHANGED <<drNow, drAsk, drAccount, drDone, drTaken>>
        /\ DataRights!MarkFailed(r) \/ UNCHANGED drRow
        /\ drWork[w].mark = r \/ r \in drWork[w].batch
    BY DEF DataRights!carryOutFails
  <1>2. r \in drWork[w].batch
    BY <1>1, RowsAreNumbers DEF DataInv, WorkersHold
  <1>3. drRow[r] \in DataRow /\ drRow \in [DataRights!Rows -> DataRow] /\ drNow \in Nat
    BY DEF DataInv, DataTables
  <1>4. CASE drRow' = drRow
    <2>1. drRow' = [drRow EXCEPT ![r] = drRow[r]]
      BY <1>3, <1>4
    <2> QED
      BY <1>1, <1>2, <1>3, <2>1, DataEnds
  <1>5. CASE drRow' # drRow
    <2>1. /\ drRow[r].status = "processing"
          /\ drRow' = [drRow EXCEPT ![r].status = "pending", ![r].due = drNow + RetryDelay]
      BY <1>1, <1>5 DEF DataRights!MarkFailed
    <2>2. PICK row : row = [drRow[r] EXCEPT !.status = "pending", !.due = drNow + RetryDelay]
      OBVIOUS
    <2>3. drNow + RetryDelay \in Nat
      BY <1>3, DataDelays
    <2>4. /\ row \in DataRow /\ row.status = "pending" /\ row.type = drRow[r].type /\ row.made = drRow[r].made
      BY <1>3, <2>2, <2>3 DEF DataRow, RowStatuses
    <2>5. drRow' = [drRow EXCEPT ![r] = row]
      BY <2>1, <2>2, <1>3
    <2> QED
      BY <1>1, <1>2, <2>1, <2>4, <2>5, DataEnds
  <1> QED
    BY <1>4, <1>5

LEMMA DataStops == ASSUME DataInv, NEW w \in Workers, DataRights!Stop(w) PROVE DataInv'
  <1>1. /\ drWork' = [drWork EXCEPT ![w] = DataRights!Resting]
        /\ UNCHANGED <<drNow, drRow, drAsk, drAccount, drDone, drTaken>>
    BY DEF DataRights!Stop
  <1>2. /\ drWork'[w].batch = {} /\ drWork'[w].mark = 0
        /\ \A v \in Workers : v # w => drWork'[v] = drWork[v]
        /\ drWork' \in [Workers -> [batch : SUBSET DataRights!Rows, mark : DataRights!Rows \cup {0}]]
    BY <1>1 DEF DataInv, DataTables, DataRights!Resting
  <1>3. WorkersHold'
    BY <1>1, <1>2 DEF DataInv, WorkersHold
  <1> QED
    BY <1>1, <1>2, <1>3 DEF DataInv, DataTables, RowsHold, DeletedOnRequest

LEMMA DataNext == ASSUME DataInv, DataRights!Next PROVE DataInv'
  BY DataTick, DataLooks, DataCreates, DataCancels, DataClaims, DataCarries, DataRecords,
     DataGivesBack, DataStops DEF DataRights!Next

\* No account is deleted before its delay has passed or on a request withdrawn while it waited, for
\* any number of workers that claim, fail and are restarted (ClaimDue, Cancel, MarkFailed).
THEOREM DeletionDelayed == Spec => []DeletionHasItsDelay
  <1> DEFINE Holds == active = "data" => DataInv
  <1>1. Init => Holds
    BY DataInit DEF Init
  <1>2. Holds /\ [Next]_<<active, shared>> => Holds'
    <2> SUFFICES ASSUME active = "data", DataInv, [Next]_<<active, shared>> PROVE DataInv'
      BY OneMoves
    <2>1. CASE DataRights!Next
      BY <2>1, DataNext
    <2>2. CASE UNCHANGED shared
      BY <2>2 DEF shared, DataInv, DataTables, RowsHold, WorkersHold, DeletedOnRequest,
          DataRights!Rows, DataRow, DataRights!Types, RowHolds, Ripe, RowStatuses
    <2> QED
      BY <2>1, <2>2, OneMoves
  <1>3. Holds => DeletionHasItsDelay
    BY DataInvImplies DEF DeletionHasItsDelay
  <1> QED
    BY <1>1, <1>2, <1>3, PTL DEF Spec

-----------------------------------------------------------------------------
(***************************************************************************)
(* Contacts: a handler that is answering a contact request has it locked,  *)
(* so it is still pending when the answer is written.                      *)
(***************************************************************************)
ctBook == x1
ctFavorite == x2
ctBlocked == x3
ctAsked == x4
ctReq == x5
ctResolved == x6
USE DEF ctBook, ctFavorite, ctBlocked, ctAsked, ctReq, ctResolved

Outcomes == {"accepted", "rejected", "cancelled"}

ContactRequest == [at : {"idle", "sync", "resolve"}, pair : Contacts!Pairs \cup {<<>>}, nth : Nat,
                   to : People \cup Outcomes \cup {""}, match : SUBSET Contacts!Pairs]

ContactTables ==
    /\ ctAsked \in [Contacts!Pairs -> [1 .. MaxAsked -> Outcomes \cup {"none", "pending"}]]
    /\ ctReq \in [Handlers -> ContactRequest]
    /\ ctResolved \in SUBSET (Contacts!Pairs \X (1 .. MaxAsked) \X Outcomes)

Answering(h) == ctReq[h].at = "resolve"

AnswersAreLocked ==
    \A h \in Handlers : Answering(h) =>
       /\ ctReq[h].pair \in Contacts!Pairs /\ ctReq[h].nth \in 1 .. MaxAsked /\ ctReq[h].to \in Outcomes
       /\ ctAsked[ctReq[h].pair][ctReq[h].nth] = "pending"
       /\ \A g \in Handlers : Answering(g) /\ ctReq[g].pair = ctReq[h].pair /\ ctReq[g].nth = ctReq[h].nth => g = h

ContactInv == ContactTables /\ AnswersAreLocked /\ Contacts!RequestResolvedOnce

LEMMA FreeShape == Contacts!Free \in ContactRequest /\ Contacts!Free.at = "idle"
  BY DEF Contacts!Free, ContactRequest

LEMMA ContactInit == Contacts!Init => ContactInv
  <1> SUFFICES ASSUME Contacts!Init PROVE ContactInv
    OBVIOUS
  <1>1. ctReq \in [Handlers -> ContactRequest] /\ \A h \in Handlers : ctReq[h].at = "idle"
    BY FreeShape DEF Contacts!Init
  <1>2. ContactTables
    BY <1>1 DEF Contacts!Init, ContactTables
  <1>3. AnswersAreLocked /\ Contacts!RequestResolvedOnce
    BY <1>1 DEF Contacts!Init, AnswersAreLocked, Answering, Contacts!RequestResolvedOnce
  <1> QED
    BY <1>2, <1>3 DEF ContactInv

LEMMA ContactFrees ==
  ASSUME ContactInv, NEW h \in Handlers, NEW q \in ContactRequest, q.at # "resolve",
         ctReq' = [ctReq EXCEPT ![h] = q], UNCHANGED <<ctAsked, ctResolved>>
  PROVE  ContactInv'
  <1>1. /\ ctReq'[h] = q /\ \A g \in Handlers : g # h => ctReq'[g] = ctReq[g]
        /\ ctReq' \in [Handlers -> ContactRequest]
    BY DEF ContactInv, ContactTables
  <1>2. ContactTables' /\ Contacts!RequestResolvedOnce'
    BY <1>1 DEF ContactInv, ContactTables, Contacts!RequestResolvedOnce
  <1>3. AnswersAreLocked'
    BY <1>1 DEF ContactInv, AnswersAreLocked, Answering
  <1> QED
    BY <1>2, <1>3 DEF ContactInv

LEMMA ContactAsks == ASSUME ContactInv, NEW p \in Contacts!Pairs, Contacts!CreateRequest(p) PROVE ContactInv'
  <1>1. PICK n : n = CHOOSE k \in Contacts!Unused(p) : \A l \in Contacts!Unused(p) : k <= l
    OBVIOUS
  <1>2. n \in 1 .. MaxAsked /\ ctAsked[p][n] = "none"
    <2>1. Contacts!Unused(p) \in SUBSET Nat /\ Contacts!Unused(p) # {}
      BY AskedBound DEF Contacts!Unused, Contacts!CreateRequest
    <2>2. \E k \in Contacts!Unused(p) : \A l \in Contacts!Unused(p) : k <= l
      BY <2>1, LeastNumber
    <2>3. n \in Contacts!Unused(p)
      BY <1>1, <2>2
    <2> QED
      BY <2>3 DEF Contacts!Unused
  <1>3. /\ ctAsked' = [ctAsked EXCEPT ![p] = [ctAsked[p] EXCEPT ![n] = "pending"]]
        /\ UNCHANGED <<ctReq, ctResolved>>
    BY <1>1 DEF Contacts!CreateRequest
  <1>4. /\ ctAsked' \in [Contacts!Pairs -> [1 .. MaxAsked -> Outcomes \cup {"none", "pending"}]]
        /\ \A q \in Contacts!Pairs, m \in 1 .. MaxAsked : ctAsked[q][m] # "none" => ctAsked'[q][m] = ctAsked[q][m]
    BY <1>2, <1>3 DEF ContactInv, ContactTables
  <1>5. ContactTables'
    BY <1>3, <1>4 DEF ContactInv, ContactTables
  <1>6. AnswersAreLocked'
    BY <1>3, <1>4 DEF ContactInv, AnswersAreLocked, Answering
  <1>7. Contacts!RequestResolvedOnce'
    <2>1. \A x \in ctResolved : x[1] \in Contacts!Pairs /\ x[2] \in 1 .. MaxAsked /\ x[3] \in Outcomes
      BY DEF ContactInv, ContactTables
    <2>2. \A x \in ctResolved : ctAsked[x[1]][x[2]] # "none"
      BY <2>1 DEF ContactInv, Contacts!RequestResolvedOnce, Outcomes
    <2> QED
      BY <1>3, <1>4, <2>1, <2>2 DEF ContactInv, Contacts!RequestResolvedOnce
  <1> QED
    BY <1>5, <1>6, <1>7 DEF ContactInv

LEMMA ContactReads ==
  ASSUME ContactInv, NEW h \in Handlers, NEW u, NEW p \in Contacts!Pairs, NEW n \in 1 .. MaxAsked,
         NEW outcome \in Outcomes, Contacts!Resolve(h, u, p, n, outcome)
  PROVE  ContactInv'
  <1>1. PICK q : q = [Contacts!Free EXCEPT !.at = "resolve", !.pair = p, !.nth = n, !.to = outcome]
    OBVIOUS
  <1>a. n \in Nat /\ outcome \in {"accepted", "rejected", "cancelled"}
    BY AskedBound DEF Outcomes
  <1>b. q = [at |-> "resolve", pair |-> p, nth |-> n, to |-> outcome, match |-> {}]
    BY <1>1 DEF Contacts!Free
  <1>2. q \in ContactRequest /\ q.at = "resolve" /\ q.pair = p /\ q.nth = n /\ q.to = outcome
    BY <1>a, <1>b DEF ContactRequest, Outcomes
  <1>3. /\ ctReq' = [ctReq EXCEPT ![h] = q] /\ UNCHANGED <<ctAsked, ctResolved>>
        /\ ctAsked[p][n] = "pending"
        /\ \A g \in Handlers : g # h /\ Answering(g) => ~(ctReq[g].pair = p /\ ctReq[g].nth = n)
    BY <1>1 DEF Contacts!Resolve, Contacts!RequestLocked, Contacts!In, Answering
  <1>4. /\ ctReq'[h] = q /\ \A g \in Handlers : g # h => ctReq'[g] = ctReq[g]
        /\ ctReq' \in [Handlers -> ContactRequest]
    BY <1>2, <1>3 DEF ContactInv, ContactTables
  <1>5. ContactTables' /\ Contacts!RequestResolvedOnce'
    BY <1>3, <1>4 DEF ContactInv, ContactTables, Contacts!RequestResolvedOnce
  <1>6. AnswersAreLocked'
    BY <1>2, <1>3, <1>4 DEF ContactInv, AnswersAreLocked, Answering
  <1> QED
    BY <1>5, <1>6 DEF ContactInv

LEMMA ContactAnswers == ASSUME ContactInv, NEW h \in Handlers, Contacts!ResolveRequest(h) PROVE ContactInv'
  <1>1. PICK p, n, o : p = ctReq[h].pair /\ n = ctReq[h].nth /\ o = ctReq[h].to
    OBVIOUS
  <1>2. /\ Answering(h) /\ p \in Contacts!Pairs /\ n \in 1 .. MaxAsked /\ o \in Outcomes /\ ctAsked[p][n] = "pending"
        /\ \A g \in Handlers : g # h /\ Answering(g) => ~(ctReq[g].pair = p /\ ctReq[g].nth = n)
    BY <1>1 DEF Contacts!ResolveRequest, Contacts!In, ContactInv, AnswersAreLocked, Answering
  <1>3. /\ ctAsked' = [ctAsked EXCEPT ![p] = [ctAsked[p] EXCEPT ![n] = o]]
        /\ ctResolved' = ctResolved \cup {<<p, n, o>>}
        /\ ctReq' = [ctReq EXCEPT ![h] = Contacts!Free]
    BY <1>1 DEF Contacts!ResolveRequest, Contacts!Done
  <1>4. /\ ctAsked' \in [Contacts!Pairs -> [1 .. MaxAsked -> Outcomes \cup {"none", "pending"}]]
        /\ ctAsked'[p][n] = o
        /\ \A q \in Contacts!Pairs, m \in 1 .. MaxAsked : ~(q = p /\ m = n) => ctAsked'[q][m] = ctAsked[q][m]
    BY <1>2, <1>3 DEF ContactInv, ContactTables
  <1>5. /\ ctReq'[h].at = "idle" /\ \A g \in Handlers : g # h => ctReq'[g] = ctReq[g]
        /\ ctReq' \in [Handlers -> ContactRequest]
    BY <1>3, FreeShape DEF ContactInv, ContactTables
  <1>6. ContactTables'
    BY <1>2, <1>3, <1>4, <1>5 DEF ContactInv, ContactTables
  <1>7. AnswersAreLocked'
    <2>1. SUFFICES ASSUME NEW g \in Handlers, ctReq'[g].at = "resolve"
          PROVE  /\ ctReq'[g].pair \in Contacts!Pairs /\ ctReq'[g].nth \in 1 .. MaxAsked /\ ctReq'[g].to \in Outcomes
                 /\ ctAsked'[ctReq'[g].pair][ctReq'[g].nth] = "pending"
                 /\ \A k \in Handlers : ctReq'[k].at = "resolve" /\ ctReq'[k].pair = ctReq'[g].pair
                                          /\ ctReq'[k].nth = ctReq'[g].nth => k = g
      BY DEF AnswersAreLocked, Answering
    <2>2. g # h /\ ctReq'[g] = ctReq[g] /\ Answering(g)
      BY <1>5, <2>1 DEF Answering
    <2>3. /\ ctReq[g].pair \in Contacts!Pairs /\ ctReq[g].nth \in 1 .. MaxAsked /\ ctReq[g].to \in Outcomes
          /\ ctAsked[ctReq[g].pair][ctReq[g].nth] = "pending"
          /\ \A k \in Handlers : Answering(k) /\ ctReq[k].pair = ctReq[g].pair
                                   /\ ctReq[k].nth = ctReq[g].nth => k = g
      BY <2>2 DEF ContactInv, AnswersAreLocked
    <2>4. ctAsked'[ctReq[g].pair][ctReq[g].nth] = "pending"
      BY <1>2, <1>4, <2>2, <2>3
    <2>5. \A k \in Handlers : ctReq'[k].at = "resolve" => ctReq'[k] = ctReq[k] /\ Answering(k)
      BY <1>5 DEF Answering
    <2> QED
      BY <2>2, <2>3, <2>4, <2>5
  <1>8. Contacts!RequestResolvedOnce'
    <2>1. \A x \in ctResolved : /\ x[1] \in Contacts!Pairs /\ x[2] \in 1 .. MaxAsked /\ x[3] \in Outcomes
                                /\ ctAsked[x[1]][x[2]] = x[3]
      BY DEF ContactInv, ContactTables, Contacts!RequestResolvedOnce
    <2>2. \A x \in ctResolved : ~(x[1] = p /\ x[2] = n)
      BY <1>2, <2>1 DEF Outcomes
    <2>3. \A x \in ctResolved : ctAsked'[x[1]][x[2]] = x[3]
      BY <1>4, <2>1, <2>2
    <2>4. PICK z : z = <<p, n, o>>
      OBVIOUS
    <2>5. z[1] = p /\ z[2] = n /\ z[3] = o /\ ctResolved' = ctResolved \cup {z}
      BY <1>3, <2>4
    <2>6. \A x, y \in ctResolved' : x[1] = y[1] /\ x[2] = y[2] => x = y
      BY <2>2, <2>5 DEF ContactInv, Contacts!RequestResolvedOnce
    <2> QED
      BY <1>4, <2>3, <2>5, <2>6 DEF Contacts!RequestResolvedOnce
  <1> QED
    BY <1>6, <1>7, <1>8 DEF ContactInv

LEMMA ContactSyncs ==
  ASSUME ContactInv, NEW h \in Handlers, NEW u \in People, NEW book \in SUBSET Contacts!Pairs, Contacts!Sync(h, u, book)
  PROVE  ContactInv'
  <1>1. PICK match : match = Contacts!MatchByHash(book)
    OBVIOUS
  <1>2. PICK q : q = [Contacts!Free EXCEPT !.at = "sync", !.to = u, !.match = match]
    OBVIOUS
  <1>3. match \in SUBSET Contacts!Pairs
    BY <1>1 DEF Contacts!MatchByHash
  <1>4. q \in ContactRequest /\ q.at = "sync"
    BY <1>2, <1>3 DEF Contacts!Free, ContactRequest
  <1>5. ctReq' = [ctReq EXCEPT ![h] = q] /\ UNCHANGED <<ctAsked, ctResolved>>
    BY <1>1, <1>2 DEF Contacts!Sync
  <1> QED
    BY <1>4, <1>5, ContactFrees

LEMMA ContactNext == ASSUME ContactInv, Contacts!Next PROVE ContactInv'
  <1>1. ASSUME NEW p \in Contacts!Pairs, Contacts!Add(p) \/ Contacts!Remove(p) \/ Contacts!SetFavorite(p) \/ Contacts!Block(p) \/ Contacts!Unblock(p)
        PROVE  ContactInv'
    <2>1. UNCHANGED <<ctAsked, ctReq, ctResolved>>
      BY <1>1 DEF Contacts!Add, Contacts!Remove, Contacts!SetFavorite, Contacts!Block, Contacts!Unblock
    <2> QED
      BY <2>1 DEF ContactInv, ContactTables, AnswersAreLocked, Answering, Contacts!RequestResolvedOnce
  <1>2. ASSUME NEW h \in Handlers, Contacts!ReplaceContacts(h) PROVE ContactInv'
    BY <1>2, FreeShape, ContactFrees DEF Contacts!ReplaceContacts, Contacts!Done
  <1>3. ASSUME NEW h \in Handlers, NEW u \in People, NEW p \in Contacts!Pairs, NEW n \in 1 .. MaxAsked,
               NEW outcome \in {"accepted", "rejected", "cancelled"}, Contacts!Resolve(h, u, p, n, outcome)
        PROVE  ContactInv'
    BY <1>3, ContactReads DEF Outcomes
  <1>4. ASSUME NEW h \in Handlers, NEW u \in People, NEW book \in SUBSET Contacts!Pairs, Contacts!Sync(h, u, book)
        PROVE  ContactInv'
    BY <1>4, ContactSyncs
  <1> QED
    BY <1>1, <1>2, <1>3, <1>4, ContactAsks, ContactAnswers DEF Contacts!Next

LEMMA ContactSpares == ASSUME ContactInv, Contacts!Next \/ UNCHANGED Contacts!ctVars PROVE Contacts!SparesFavorites
  <1> SUFFICES ASSUME NEW h \in Handlers, Contacts!In(h, "sync"), ctReq'[h] = Contacts!Free
               PROVE  ctFavorite \cap ctReq[h].match \subseteq ctFavorite'
    BY DEF Contacts!SparesFavorites
  <1>1. ctReq[h].at = "sync" /\ ctReq'[h] # ctReq[h] /\ ctReq \in [Handlers -> ContactRequest]
    BY FreeShape DEF Contacts!In, ContactInv, ContactTables
  <1>2. ~ UNCHANGED ctReq
    BY <1>1
  <1>3. ASSUME NEW p \in Contacts!Pairs, \/ Contacts!Add(p) \/ Contacts!Remove(p) \/ Contacts!SetFavorite(p) \/ Contacts!Block(p) \/ Contacts!Unblock(p)
                                         \/ Contacts!CreateRequest(p)
        PROVE  FALSE
    BY <1>2, <1>3 DEF Contacts!Add, Contacts!Remove, Contacts!SetFavorite, Contacts!Block, Contacts!Unblock, Contacts!CreateRequest
  <1>4. ASSUME NEW g \in Handlers, NEW u, NEW book, Contacts!Sync(g, u, book)
        PROVE  FALSE
    BY <1>1, <1>4 DEF Contacts!Sync, Contacts!In
  <1>5. ASSUME NEW g \in Handlers, NEW u, NEW p, NEW n, NEW outcome, Contacts!Resolve(g, u, p, n, outcome)
        PROVE  FALSE
    BY <1>1, <1>5 DEF Contacts!Resolve, Contacts!In
  <1>6. ASSUME NEW g \in Handlers, Contacts!ResolveRequest(g) PROVE FALSE
    BY <1>1, <1>6 DEF Contacts!ResolveRequest, Contacts!In, Contacts!Done
  <1>7. ASSUME NEW g \in Handlers, Contacts!ReplaceContacts(g)
        PROVE  ctFavorite \cap ctReq[h].match \subseteq ctFavorite'
    <2>1. g = h
      BY <1>1, <1>7 DEF Contacts!ReplaceContacts, Contacts!Done
    <2> QED
      BY <1>7, <2>1 DEF Contacts!ReplaceContacts, Contacts!Pruned
  <1>8. Contacts!Next
    BY <1>2 DEF Contacts!ctVars
  <1> QED
    BY <1>3, <1>4, <1>5, <1>6, <1>7, <1>8 DEF Contacts!Next

\* However people add, block, sync and answer at once, a contact request is answered once, and a full
\* sync leaves the favourite flag of everybody it still finds (ResolveRequest, ReplaceContacts).
THEOREM ContactsSound == Spec => ContactsHold
  <1> DEFINE Holds == active = "contacts" => ContactInv
             Spares == active = "contacts" => Contacts!SparesFavorites
  <1>1. Init => Holds
    BY ContactInit DEF Init
  <1>2. Holds /\ [Next]_<<active, shared>> => Holds'
    <2> SUFFICES ASSUME active = "contacts", ContactInv, [Next]_<<active, shared>> PROVE ContactInv'
      BY OneMoves
    <2>1. CASE Contacts!Next
      BY <2>1, ContactNext
    <2>2. CASE UNCHANGED shared
      <3>1. UNCHANGED <<ctAsked, ctReq, ctResolved>>
        BY <2>2 DEF shared
      <3>2. ContactTables'
        BY <3>1 DEF ContactInv, ContactTables
      <3>3. AnswersAreLocked'
        BY <3>1 DEF ContactInv, AnswersAreLocked, Answering
      <3>4. Contacts!RequestResolvedOnce'
        BY <3>1 DEF ContactInv, Contacts!RequestResolvedOnce
      <3> QED
        BY <3>2, <3>3, <3>4 DEF ContactInv
    <2> QED
      BY <2>1, <2>2, OneMoves
  <1>3. Holds => (active = "contacts" => Contacts!RequestResolvedOnce)
    BY DEF ContactInv
  <1>4. Holds /\ [Next]_<<active, shared>> => Spares
    <2> SUFFICES ASSUME active = "contacts", ContactInv, [Next]_<<active, shared>>
                 PROVE  Contacts!SparesFavorites
      OBVIOUS
    <2>1. Contacts!Next \/ UNCHANGED Contacts!ctVars
      BY OneMoves DEF shared, Contacts!ctVars
    <2> QED
      BY <2>1, ContactSpares
  <1> HIDE DEF Spares
  <1>5. Holds /\ [Next]_<<active, shared>> => [Spares]_<<active, shared>>
    BY <1>4
  <1>6. Spec => [](active = "contacts" => Contacts!RequestResolvedOnce) /\ [][Spares]_<<active, shared>>
    BY <1>1, <1>2, <1>3, <1>5, PTL DEF Spec
  <1> QED
    BY <1>6 DEF ContactsHold, Spares

-----------------------------------------------------------------------------
(***************************************************************************)
(* Limits: what the rule that fails closed let through is what its window  *)
(* still holds, and a running sentence is never longer than the            *)
(* restriction in the ledger.                                              *)
(***************************************************************************)
asNow == x1
asRedis == x2
asWindow == x3
asScore == x4
asAllowed == x5
asSentence == x6
USE DEF asNow, asRedis, asWindow, asScore, asAllowed, asSentence

\* The component counts with its own copy of Cardinality.
LEMMA AntiSpamCard == \A S : AntiSpam!Cardinality(S) = Cardinality(S)
  BY DEF AntiSpam!Cardinality, Cardinality

SpamTables ==
    /\ asNow \in Nat /\ asSentence \in Nat
    /\ asRedis \in BOOLEAN
    /\ DOMAIN asWindow = AntiSpam!Rules
    /\ asScore = [score |-> asScore.score, until |-> asScore.until, updated |-> asScore.updated,
                  row |-> asScore.row]
    /\ asScore.until \in Nat /\ asScore.row \in BOOLEAN

\* One process counts, and there is a limit.
Strict == Limit > 0 /\ Processes = 1

WindowIsTheRecord == Strict =>
    /\ \A e \in asWindow["otp_phone"] : e[1] \in Nat
    /\ asAllowed = AntiSpam!Pruned("otp_phone")

LimitKept == Strict => IsFiniteSet(asAllowed) /\ Cardinality(asAllowed) <= Limit

SentenceIsWritten == asSentence > asNow => asScore.row /\ asSentence <= asScore.until

SpamInv == SpamTables /\ WindowIsTheRecord /\ LimitKept /\ SentenceIsWritten

LEMMA SpamInvImplies == SpamInv => AntiSpam!LimitsAreKept
  <1> SUFFICES ASSUME SpamInv PROVE AntiSpam!LimitsAreKept
    OBVIOUS
  <1>1. AntiSpam!LimitHolds
    BY AntiSpamCard DEF SpamInv, LimitKept, AntiSpam!LimitHolds, Strict
  <1>2. AntiSpam!RestrictionServed
    BY DEF SpamInv, SpamTables, SentenceIsWritten, AntiSpam!RestrictionServed, AntiSpam!Restricted
  <1> QED
    BY <1>1, <1>2 DEF AntiSpam!LimitsAreKept

LEMMA SpamInit == AntiSpam!Init => SpamInv
  <1> SUFFICES ASSUME AntiSpam!Init PROVE SpamInv
    OBVIOUS
  <1>1. SpamTables /\ SentenceIsWritten
    BY DEF AntiSpam!Init, SpamTables, SentenceIsWritten, AntiSpam!NoScore
  <1>2. asWindow["otp_phone"] = {} /\ asAllowed = {}
    BY DEF AntiSpam!Init, AntiSpam!Rules
  <1>3. WindowIsTheRecord
    BY <1>2 DEF WindowIsTheRecord, AntiSpam!Pruned
  <1>4. LimitKept
    BY <1>2, FS_EmptySet, RuleAssumption DEF LimitKept
  <1> QED
    BY <1>1, <1>3, <1>4 DEF SpamInv

LEMMA SpamTick == ASSUME SpamInv, AntiSpam!Tick PROVE SpamInv'
  <1>1. /\ asNow \in Nat /\ asNow' = asNow + 1 /\ asAllowed' = {e \in asAllowed : e[1] > asNow' - Window}
        /\ UNCHANGED <<asRedis, asWindow, asScore, asSentence>>
    BY DEF AntiSpam!Tick, SpamInv, SpamTables
  <1>2. SpamTables' /\ SentenceIsWritten'
    BY <1>1 DEF SpamInv, SpamTables, SentenceIsWritten
  <1>3. WindowIsTheRecord'
    <2> SUFFICES ASSUME Strict PROVE WindowIsTheRecord'
      BY DEF WindowIsTheRecord
    <2>1. AntiSpam!Pruned("otp_phone")' = {e \in asWindow["otp_phone"] : e[1] > asNow' - Window}
      BY <1>1 DEF AntiSpam!Pruned
    <2>2. \A e \in asWindow["otp_phone"] : e[1] \in Nat
      BY DEF SpamInv, WindowIsTheRecord
    <2>3. asAllowed = {e \in asWindow["otp_phone"] : e[1] > asNow - Window}
      BY DEF SpamInv, WindowIsTheRecord, AntiSpam!Pruned
    <2>4. \A e \in asWindow["otp_phone"] : e[1] > asNow' - Window => e[1] > asNow - Window
      BY <1>1, <2>2, RuleAssumption
    <2> QED
      BY <1>1, <2>1, <2>2, <2>3, <2>4 DEF WindowIsTheRecord
  <1>4. LimitKept'
    <2> SUFFICES ASSUME Strict PROVE LimitKept'
      BY DEF LimitKept
    <2>1. asAllowed' \subseteq asAllowed /\ IsFiniteSet(asAllowed) /\ Cardinality(asAllowed) <= Limit
      BY <1>1 DEF SpamInv, LimitKept
    <2>2. IsFiniteSet(asAllowed') /\ Cardinality(asAllowed') <= Cardinality(asAllowed)
      BY <2>1, FS_Subset
    <2>3. Cardinality(asAllowed') \in Nat /\ Cardinality(asAllowed) \in Nat
      BY <2>1, <2>2, FS_CardinalityType
    <2> QED
      BY <2>1, <2>2, <2>3, RuleAssumption DEF LimitKept
  <1> QED
    BY <1>2, <1>3, <1>4 DEF SpamInv

\* A step that leaves the window of the strict rule alone.
LEMMA SpamWindowKept ==
  ASSUME SpamInv, UNCHANGED <<asNow, asAllowed>>, asWindow'["otp_phone"] = asWindow["otp_phone"]
  PROVE  WindowIsTheRecord' /\ LimitKept'
  BY DEF SpamInv, WindowIsTheRecord, LimitKept, AntiSpam!Pruned

LEMMA SpamAllows == ASSUME SpamInv, NEW rule \in AntiSpam!Rules, AntiSpam!Allow(rule),
                           UNCHANGED <<asNow, asRedis, asScore, asSentence>>
                    PROVE  SpamInv'
  <1>1. SpamTables' /\ SentenceIsWritten'
    BY DEF SpamInv, SpamTables, SentenceIsWritten, AntiSpam!Allow, AntiSpam!slidingWindowScript, AntiSpam!Degraded
  <1>2. CASE rule # "otp_phone"
    <2>1. asAllowed' = asAllowed
      BY <1>2 DEF AntiSpam!Allow, AntiSpam!FailClosed
    <2>2. asWindow'["otp_phone"] = asWindow["otp_phone"]
      BY <1>2 DEF AntiSpam!Allow, AntiSpam!slidingWindowScript, AntiSpam!Degraded, SpamInv, SpamTables, AntiSpam!Rules
    <2> QED
      BY <1>1, <2>1, <2>2, SpamWindowKept DEF SpamInv
  <1>4. CASE ~Strict
    BY <1>1, <1>4 DEF SpamInv, WindowIsTheRecord, LimitKept
  <1>3. CASE rule = "otp_phone" /\ Strict
    <2>s. Limit > 0 /\ Limit # 0 /\ ~(Processes > 1) /\ Strict
      BY <1>3, RuleAssumption DEF Strict
    <2>1. PICK n : n = <<asNow, 1 + Cardinality({e \in asAllowed : e[1] = asNow})>>
      OBVIOUS
    <2>2. asAllowed = AntiSpam!Pruned("otp_phone") /\ asNow \in Nat
      BY <2>s DEF SpamInv, WindowIsTheRecord, SpamTables
    <2>3. AntiSpam!randomSuffix("otp_phone") = {n}
      BY <2>1, <2>2, <2>s, AntiSpamCard DEF AntiSpam!randomSuffix
    <2>4. /\ asAllowed' = asAllowed \cup {n} /\ Cardinality(asAllowed) < Limit
          /\ asWindow' = [asWindow EXCEPT !["otp_phone"] = asAllowed \cup {n}]
      BY <1>3, <2>1, <2>2, <2>3, <2>s, AntiSpamCard DEF AntiSpam!Allow, AntiSpam!slidingWindowScript, AntiSpam!Degraded, AntiSpam!FailClosed
    <2>5. asWindow'["otp_phone"] = asAllowed \cup {n}
      BY <2>4 DEF SpamInv, SpamTables, AntiSpam!Rules
    <2>6. n[1] = asNow
      BY <2>1
    <2>7. \A e \in asAllowed : e[1] \in Nat /\ e[1] > asNow - Window
      BY <2>2, <2>s DEF SpamInv, WindowIsTheRecord, AntiSpam!Pruned
    <2>8. \A e \in asAllowed \cup {n} : e[1] \in Nat /\ e[1] > asNow - Window
      BY <2>2, <2>6, <2>7, RuleAssumption
    <2>9. WindowIsTheRecord'
      BY <2>4, <2>5, <2>8 DEF WindowIsTheRecord, AntiSpam!Pruned
    <2>10. LimitKept'
      <3>1. IsFiniteSet(asAllowed) /\ Cardinality(asAllowed) \in Nat
        BY <2>s, FS_CardinalityType DEF SpamInv, LimitKept
      <3>2. /\ IsFiniteSet(asAllowed \cup {n})
            /\ Cardinality(asAllowed \cup {n}) \in {Cardinality(asAllowed), Cardinality(asAllowed) + 1}
        BY <3>1, FS_AddElement
      <3> QED
        BY <2>4, <3>1, <3>2, RuleAssumption DEF LimitKept
    <2> QED
      BY <1>1, <2>9, <2>10 DEF SpamInv
  <1> QED
    BY <1>2, <1>3, <1>4

LEMMA SpamSignal ==
  ASSUME SpamInv, NEW weight, AntiSpam!Signal(weight), UNCHANGED <<asNow, asRedis>>, DOMAIN asWindow' = AntiSpam!Rules
  PROVE  SpamTables' /\ SentenceIsWritten'
  <1>1. asNow \in Nat /\ asSentence \in Nat /\ asScore.until \in Nat /\ asScore.row \in BOOLEAN
    BY DEF SpamInv, SpamTables
  <1>2. \E over \in BOOLEAN : over <=> asScore.score + weight >= RestrictThreshold
    <2>1. CASE asScore.score + weight >= RestrictThreshold
      BY <2>1
    <2>2. CASE ~(asScore.score + weight >= RestrictThreshold)
      BY <2>2
    <2> QED
      BY <2>1, <2>2
  <1>0. PICK over \in BOOLEAN : over <=> asScore.score + weight >= RestrictThreshold
    BY <1>2
  <1>3. PICK until : until = IF over THEN AntiSpam!Larger(asScore.until, asNow + RestrictFor) ELSE asScore.until
    OBVIOUS
  <1>4. asScore' = [row |-> TRUE, score |-> asScore.score + weight, updated |-> asNow, until |-> until]
    BY <1>0, <1>3 DEF AntiSpam!Signal, AntiSpam!Record
  <1>5. asSentence' = IF over THEN AntiSpam!Larger(asSentence, asNow + RestrictFor) ELSE asSentence
    BY <1>0 DEF AntiSpam!Signal
  <1>6. until \in Nat /\ asSentence' \in Nat /\ asScore'.until = until /\ asScore'.row = TRUE
    BY <1>1, <1>3, <1>4, <1>5, RuleAssumption DEF AntiSpam!Larger
  <1>7. SpamTables'
    BY <1>1, <1>4, <1>6 DEF SpamInv, SpamTables
  <1>8. asSentence > asNow => asSentence <= asScore.until
    BY DEF SpamInv, SentenceIsWritten
  <1>9. asSentence' > asNow => asSentence' <= until
    BY <1>1, <1>3, <1>5, <1>8, RuleAssumption DEF AntiSpam!Larger
  <1> QED
    BY <1>6, <1>7, <1>9 DEF SentenceIsWritten

LEMMA SpamDecays == ASSUME SpamInv, AntiSpam!Decay PROVE SpamInv'
  <1>1. PICK s : s = AntiSpam!Decayed(asScore)
    OBVIOUS
  <1>2. /\ s = [score |-> s.score, until |-> s.until, updated |-> s.updated, row |-> s.row]
        /\ s.until = asScore.until /\ s.row = asScore.row
    BY <1>1 DEF AntiSpam!Decayed, SpamInv, SpamTables
  <1>3. asScore' = IF AntiSpam!Spent(s) THEN AntiSpam!NoScore ELSE s
    BY <1>1 DEF AntiSpam!Decay
  <1>4. UNCHANGED <<asNow, asRedis, asWindow, asAllowed, asSentence>>
    BY DEF AntiSpam!Decay
  <1>5. SpamTables'
    <2>1. AntiSpam!NoScore = [score |-> AntiSpam!NoScore.score, until |-> AntiSpam!NoScore.until, updated |-> AntiSpam!NoScore.updated, row |-> AntiSpam!NoScore.row]
      BY DEF AntiSpam!NoScore
    <2>2. AntiSpam!NoScore.until \in Nat /\ AntiSpam!NoScore.row \in BOOLEAN
      BY DEF AntiSpam!NoScore
    <2> QED
      BY <1>2, <1>3, <1>4, <2>1, <2>2 DEF SpamInv, SpamTables
  <1>6. SentenceIsWritten'
    <2>1. asNow \in Nat /\ asSentence \in Nat /\ asScore.until \in Nat
      BY DEF SpamInv, SpamTables
    <2>2. asSentence > asNow => ~AntiSpam!Spent(s)
      BY <1>2, <2>1 DEF AntiSpam!Spent, SpamInv, SentenceIsWritten
    <2> QED
      BY <1>2, <1>3, <1>4, <2>2 DEF SpamInv, SentenceIsWritten
  <1> QED
    BY <1>4, <1>5, <1>6, SpamWindowKept DEF SpamInv

LEMMA SpamNext == ASSUME SpamInv, AntiSpam!Next PROVE SpamInv'
  <1>1. CASE AntiSpam!RedisFails
    <2>1. SpamTables' /\ SentenceIsWritten'
      BY <1>1 DEF AntiSpam!RedisFails, SpamInv, SpamTables, SentenceIsWritten
    <2> QED
      BY <1>1, <2>1, SpamWindowKept DEF AntiSpam!RedisFails, SpamInv
  <1>2. CASE AntiSpam!Send \/ AntiSpam!checkLimit
    BY <1>2, SpamAllows DEF AntiSpam!Send, AntiSpam!checkLimit, AntiSpam!Rules
  <1>3. CASE AntiSpam!RateLimited
    <2>1. /\ asWindow' = [asWindow EXCEPT !["messages_user"] = AntiSpam!Pruned("messages_user")]
          /\ UNCHANGED <<asNow, asRedis, asAllowed>>
          /\ AntiSpam!Signal(WeightRateLimit) \/ UNCHANGED <<asScore, asSentence>>
      BY <1>3 DEF AntiSpam!RateLimited, AntiSpam!Refused
    <2>2. DOMAIN asWindow' = AntiSpam!Rules /\ asWindow'["otp_phone"] = asWindow["otp_phone"]
      BY <2>1 DEF SpamInv, SpamTables, AntiSpam!Rules
    <2>3. SpamTables' /\ SentenceIsWritten'
      <3>1. CASE AntiSpam!Signal(WeightRateLimit)
        BY <2>1, <2>2, <3>1, SpamSignal
      <3>2. CASE UNCHANGED <<asScore, asSentence>>
        BY <2>1, <2>2, <3>2 DEF SpamInv, SpamTables, SentenceIsWritten
      <3> QED
        BY <2>1, <3>1, <3>2
    <2> QED
      BY <2>1, <2>2, <2>3, SpamWindowKept DEF SpamInv
  <1>4. CASE AntiSpam!Reported \/ AntiSpam!Blocked
    <2>1. /\ AntiSpam!Signal(WeightReport) \/ AntiSpam!Signal(WeightBlock)
          /\ UNCHANGED <<asNow, asRedis, asWindow, asAllowed>>
      BY <1>4 DEF AntiSpam!Reported, AntiSpam!Blocked
    <2>2. DOMAIN asWindow' = AntiSpam!Rules
      BY <2>1 DEF SpamInv, SpamTables
    <2>3. SpamTables' /\ SentenceIsWritten'
      BY <2>1, <2>2, SpamSignal
    <2> QED
      BY <2>1, <2>3, SpamWindowKept DEF SpamInv
  <1>5. CASE AntiSpam!Reset
    <2>1. /\ asWindow' = [asWindow EXCEPT !["otp_phone"] = {}] /\ asAllowed' = {}
          /\ UNCHANGED <<asNow, asRedis, asScore, asSentence>>
      BY <1>5 DEF AntiSpam!Reset
    <2>2. asWindow'["otp_phone"] = {}
      BY <2>1 DEF SpamInv, SpamTables, AntiSpam!Rules
    <2>3. WindowIsTheRecord'
      BY <2>1, <2>2 DEF WindowIsTheRecord, AntiSpam!Pruned
    <2>4. LimitKept'
      BY <2>1, FS_EmptySet, RuleAssumption DEF LimitKept
    <2> QED
      BY <2>1, <2>3, <2>4 DEF SpamInv, SpamTables, SentenceIsWritten
  <1>6. CASE AntiSpam!Lift
    <2>1. /\ asScore' = AntiSpam!NoScore /\ asSentence' = 0 /\ UNCHANGED <<asNow, asRedis, asWindow, asAllowed>>
      BY <1>6 DEF AntiSpam!Lift, AntiSpam!Clear
    <2>2. SpamTables' /\ SentenceIsWritten'
      BY <2>1 DEF AntiSpam!NoScore, SpamInv, SpamTables, SentenceIsWritten
    <2> QED
      BY <2>1, <2>2, SpamWindowKept DEF SpamInv
  <1> QED
    BY <1>1, <1>2, <1>3, <1>4, <1>5, <1>6, SpamTick, SpamDecays DEF AntiSpam!Next

\* No window of any length holds more events than the rule allows, and a restriction is served to
\* its end, for every positive limit kept by one process and every weight (Allow, Record, Decay).
THEOREM LimitsKept == Spec => []LimitsAreKept
  <1> DEFINE Holds == active = "limits" => SpamInv
  <1>1. Init => Holds
    BY SpamInit DEF Init
  <1>2. Holds /\ [Next]_<<active, shared>> => Holds'
    <2> SUFFICES ASSUME active = "limits", SpamInv, [Next]_<<active, shared>> PROVE SpamInv'
      BY OneMoves
    <2>1. CASE AntiSpam!Next
      BY <2>1, SpamNext
    <2>2. CASE UNCHANGED shared
      BY <2>2 DEF shared, SpamInv, SpamTables, WindowIsTheRecord, LimitKept,
          SentenceIsWritten, AntiSpam!Rules, Strict, AntiSpam!Pruned
    <2> QED
      BY <2>1, <2>2, OneMoves
  <1>3. Holds => LimitsAreKept
    BY SpamInvImplies DEF LimitsAreKept
  <1> QED
    BY <1>1, <1>2, <1>3, PTL DEF Spec

-----------------------------------------------------------------------------
(***************************************************************************)
(* Secret chats: every prekey of the table is of the published identity,   *)
(* a number names one of them, and what was handed out under that identity *)
(* is still there, taken.                                                  *)
(***************************************************************************)
skIdentity == x1
skLocal == x2
skPrekeys == x3
skRevoked == x4
skClaim == x5
skClaims == x6
skSession == x7
skHanded == x8
USE DEF skIdentity, skLocal, skPrekeys, skRevoked, skClaim, skClaims, skSession, skHanded

PrekeysOfTheIdentity ==
    /\ skIdentity \in Nat /\ skLocal \in Nat /\ skIdentity <= skLocal
    /\ \A k \in skPrekeys :
          /\ k \in [ident : {skIdentity}, id : KeyIds, free : BOOLEAN]
          /\ \A l \in skPrekeys : k.id = l.id => k = l

HandedStaysTaken ==
    \A h \in skHanded :
       /\ h.ident \in Nat /\ h.ident <= skIdentity
       /\ h.ident = skIdentity => \E k \in skPrekeys : k.id = h.id /\ ~k.free

KeysInv == PrekeysOfTheIdentity /\ HandedStaysTaken /\ SecretKeys!PrekeyHandedOnce

LEMMA KeysInit == SecretKeys!Init => KeysInv
  BY DEF SecretKeys!Init, KeysInv, PrekeysOfTheIdentity, HandedStaysTaken, SecretKeys!PrekeyHandedOnce

LEMMA KeysUntouched ==
  ASSUME KeysInv, UNCHANGED <<skIdentity, skPrekeys, skHanded>>,
         skLocal' \in Nat, skLocal <= skLocal'
  PROVE  KeysInv'
  <1>1. PrekeysOfTheIdentity'
    BY DEF KeysInv, PrekeysOfTheIdentity
  <1>2. HandedStaysTaken' /\ SecretKeys!PrekeyHandedOnce'
    BY DEF KeysInv, HandedStaysTaken, SecretKeys!PrekeyHandedOnce
  <1> QED
    BY <1>1, <1>2 DEF KeysInv

LEMMA KeysPublished ==
  ASSUME KeysInv, NEW ids \in SUBSET KeyIds, SecretKeys!PublishKeys(ids)
  PROVE  KeysInv'
  <1> DEFINE kept == skPrekeys \ SecretKeys!StalePrekeys
             new == {SecretKeys!Key(skLocal, i) : i \in {j \in ids : \A k \in kept : k.id # j}}
  <1>1. /\ skIdentity \in Nat /\ skLocal \in Nat /\ skIdentity <= skLocal
        /\ skIdentity' = skLocal /\ skLocal' = skLocal /\ skHanded' = skHanded
        /\ skPrekeys' = kept \cup new
    BY DEF KeysInv, PrekeysOfTheIdentity, SecretKeys!PublishKeys, SecretKeys!StoreKeys, SecretKeys!StorePrekeys
  <1>2. \A k \in kept : /\ skIdentity = skLocal
                        /\ k \in skPrekeys
                        /\ k \in [ident : {skLocal}, id : KeyIds, free : BOOLEAN]
    BY DEF KeysInv, PrekeysOfTheIdentity, SecretKeys!StalePrekeys
  <1>3. \A k \in new : /\ k \in [ident : {skLocal}, id : KeyIds, free : BOOLEAN]
                       /\ k.ident = skLocal /\ k.free = TRUE
                       /\ \A l \in kept : l.id # k.id
    <2> SUFFICES ASSUME NEW i \in ids, \A l \in kept : l.id # i, NEW k, k = SecretKeys!Key(skLocal, i)
                 PROVE  /\ k \in [ident : {skLocal}, id : KeyIds, free : BOOLEAN]
                        /\ k.ident = skLocal /\ k.free = TRUE /\ k.id = i
      BY ZenonT(30)
    <2> QED
      BY DEF SecretKeys!Key
  <1>4. \A k, l \in kept : k.id = l.id => k = l
    BY <1>2 DEF KeysInv, PrekeysOfTheIdentity
  <1> HIDE DEF kept, new
  <1>5. PrekeysOfTheIdentity'
    <2>1. \A k \in skPrekeys' : k \in [ident : {skLocal}, id : KeyIds, free : BOOLEAN]
      BY <1>1, <1>2, <1>3
    <2>2. \A k, l \in skPrekeys' : k.id = l.id => k = l
      BY <1>1, <1>2, <1>3, <1>4
    <2> QED
      BY <1>1, <2>1, <2>2 DEF PrekeysOfTheIdentity
  <1>6. HandedStaysTaken'
    <2> SUFFICES ASSUME NEW h \in skHanded
                 PROVE  /\ h.ident \in Nat /\ h.ident <= skLocal
                        /\ h.ident = skLocal => \E k \in skPrekeys' : k.id = h.id /\ ~k.free
      BY <1>1 DEF HandedStaysTaken
    <2>1. /\ h.ident \in Nat /\ h.ident <= skIdentity
          /\ h.ident = skIdentity => \E k \in skPrekeys : k.id = h.id /\ ~k.free
      BY DEF KeysInv, HandedStaysTaken
    <2>2. ASSUME h.ident = skLocal PROVE \E k \in skPrekeys' : k.id = h.id /\ ~k.free
      <3>1. skIdentity = skLocal
        BY <1>1, <2>1, <2>2
      <3>2. kept = skPrekeys
        BY <3>1 DEF SecretKeys!StalePrekeys, kept
      <3> QED
        BY <1>1, <2>1, <2>2, <3>1, <3>2
    <2> QED
      BY <1>1, <2>1, <2>2
  <1>7. SecretKeys!PrekeyHandedOnce'
    BY <1>1 DEF KeysInv, SecretKeys!PrekeyHandedOnce
  <1> QED
    BY <1>5, <1>6, <1>7 DEF KeysInv

LEMMA LowestIsThere ==
  ASSUME NEW keys \in SUBSET skPrekeys, keys # {}, PrekeysOfTheIdentity
  PROVE  SecretKeys!Lowest(keys) \in keys
  <1> DEFINE ids == {k.id : k \in keys}
  <1>1. ids \in SUBSET Nat /\ ids # {}
    <2>1. \A k \in keys : k.id \in Nat
      BY KeyNumbers DEF PrekeysOfTheIdentity
    <2> QED
      BY <2>1
  <1>2. PICK n \in ids : \A m \in ids : n <= m
    BY <1>1, LeastNumber
  <1>3. \E k \in keys : \A l \in keys : k.id <= l.id
    BY <1>2
  <1> QED
    BY <1>3 DEF SecretKeys!Lowest

LEMMA KeysClaimed ==
  ASSUME KeysInv, NEW c \in People, SecretKeys!ClaimBundle(c)
  PROVE  KeysInv'
  <1>1. skIdentity' = skIdentity /\ skLocal' = skLocal
    BY DEF SecretKeys!ClaimBundle
  <1>2. CASE SecretKeys!Claimable = {}
    <2>1. skPrekeys' = skPrekeys /\ skHanded' = skHanded
      BY <1>2 DEF SecretKeys!ClaimBundle
    <2> QED
      BY <1>1, <2>1, KeysUntouched DEF KeysInv, PrekeysOfTheIdentity
  <1>3. CASE SecretKeys!Claimable # {}
    <2>1. PICK k : k = SecretKeys!Lowest(SecretKeys!Claimable)
      OBVIOUS
    <2>2. k \in skPrekeys /\ k.free
      <3>1. SecretKeys!Claimable \in SUBSET skPrekeys
        BY DEF SecretKeys!Claimable
      <3>2. k \in SecretKeys!Claimable
        BY <1>3, <2>1, <3>1, LowestIsThere DEF KeysInv
      <3> QED
        BY <3>2 DEF SecretKeys!Claimable
    <2>3. k \in [ident : {skIdentity}, id : KeyIds, free : BOOLEAN]
      BY <2>2 DEF KeysInv, PrekeysOfTheIdentity
    <2>4. PICK t : t = [k EXCEPT !.free = FALSE]
      OBVIOUS
    <2>5. /\ t \in [ident : {skIdentity}, id : KeyIds, free : BOOLEAN]
          /\ t.id = k.id /\ ~t.free
      BY <2>3, <2>4
    <2>6. PICK g : g = [to |-> c, nth |-> skClaims[c], ident |-> k.ident, id |-> k.id,
                        with |-> skClaim[c].ident]
      OBVIOUS
    <2>7. g.ident = skIdentity /\ g.id = k.id
      BY <2>3, <2>6
    <2>8. skPrekeys' = (skPrekeys \ {k}) \cup {t} /\ skHanded' = skHanded \cup {g}
      BY <1>3, <2>1, <2>4, <2>6 DEF SecretKeys!ClaimBundle
    <2>9. \A l \in skPrekeys : /\ l \in [ident : {skIdentity}, id : KeyIds, free : BOOLEAN]
                               /\ \A m \in skPrekeys : l.id = m.id => l = m
      BY DEF KeysInv, PrekeysOfTheIdentity
    <2>10. PrekeysOfTheIdentity'
      <3>1. \A l \in skPrekeys' : l \in [ident : {skIdentity}, id : KeyIds, free : BOOLEAN]
        BY <2>5, <2>8, <2>9
      <3>2. \A l, m \in skPrekeys' : l.id = m.id => l = m
        BY <2>2, <2>5, <2>8, <2>9
      <3> QED
        BY <1>1, <3>1, <3>2 DEF KeysInv, PrekeysOfTheIdentity
    <2>11. \A h \in skHanded :
              /\ h.ident \in Nat /\ h.ident <= skIdentity
              /\ h.ident = skIdentity => \E l \in skPrekeys : l.id = h.id /\ ~l.free
      BY DEF KeysInv, HandedStaysTaken
    <2>12. HandedStaysTaken'
      <3>1. \A h \in skHanded :
               h.ident = skIdentity => \E l \in skPrekeys' : l.id = h.id /\ ~l.free
        BY <2>2, <2>8, <2>11
      <3>2. \E l \in skPrekeys' : l.id = g.id /\ ~l.free
        BY <2>5, <2>7, <2>8
      <3>3. skIdentity \in Nat
        BY DEF KeysInv, PrekeysOfTheIdentity
      <3> QED
        BY <1>1, <2>7, <2>8, <2>11, <3>1, <3>2, <3>3 DEF HandedStaysTaken
    <2>13. \A h \in skHanded : ~(h.ident = g.ident /\ h.id = g.id)
      BY <2>2, <2>7, <2>9, <2>11
    <2>14. SecretKeys!PrekeyHandedOnce'
      BY <2>8, <2>13 DEF KeysInv, SecretKeys!PrekeyHandedOnce
    <2> QED
      BY <2>10, <2>12, <2>14 DEF KeysInv
  <1> QED
    BY <1>2, <1>3

LEMMA KeysNext == ASSUME KeysInv, SecretKeys!Next PROVE KeysInv'
  <1>0. skIdentity \in Nat /\ skLocal \in Nat
    BY DEF KeysInv, PrekeysOfTheIdentity
  <1>1. CASE SecretKeys!Reinstall
    BY <1>0, <1>1, KeysUntouched DEF SecretKeys!Reinstall
  <1>2. CASE SecretKeys!RevokeDevice
    BY <1>0, <1>2, KeysUntouched DEF SecretKeys!RevokeDevice
  <1>3. ASSUME NEW ids \in SUBSET KeyIds, SecretKeys!PublishKeys(ids) PROVE KeysInv'
    BY <1>3, KeysPublished
  <1>4. ASSUME NEW c \in People, SecretKeys!ClaimBundle(c) PROVE KeysInv'
    BY <1>4, KeysClaimed
  <1>5. ASSUME NEW c \in People, SecretKeys!bundles(c) \/ SecretKeys!ClaimIdentity(c) \/ SecretKeys!BundleAnswered(c)
        PROVE  KeysInv'
    BY <1>0, <1>5, KeysUntouched DEF SecretKeys!bundles, SecretKeys!ClaimIdentity, SecretKeys!BundleAnswered
  <1>6. ASSUME NEW c \in People, SecretKeys!StartSession(c) \/ SecretKeys!EstablishSession(c) PROVE KeysInv'
    BY <1>0, <1>6, KeysUntouched DEF SecretKeys!StartSession, SecretKeys!EstablishSession
  <1> QED
    BY <1>1, <1>2, <1>3, <1>4, <1>5, <1>6 DEF SecretKeys!Next

\* For any number of claimers, uploads and reinstallations no one-time prekey is handed out twice
\* (ClaimBundle, StorePrekeys).
THEOREM PrekeysSingleUse == Spec => []PrekeyHandedOnce
  <1> DEFINE Holds == active = "keys" => KeysInv
  <1>1. Init => Holds
    BY KeysInit DEF Init
  <1>2. Holds /\ [Next]_<<active, shared>> => Holds'
    <2> SUFFICES ASSUME active = "keys", KeysInv, [Next]_<<active, shared>> PROVE KeysInv'
      BY OneMoves
    <2>1. CASE SecretKeys!Next
      BY <2>1, KeysNext
    <2>2. CASE UNCHANGED shared
      BY <2>2 DEF shared, KeysInv, PrekeysOfTheIdentity, HandedStaysTaken,
          SecretKeys!PrekeyHandedOnce
    <2> QED
      BY <2>1, <2>2, OneMoves
  <1>3. Holds => PrekeyHandedOnce
    BY DEF KeysInv, PrekeyHandedOnce
  <1> QED
    BY <1>1, <1>2, <1>3, PTL DEF Spec

-----------------------------------------------------------------------------
(***************************************************************************)
(* Secret chats: the pair's row decides which chat there is, a request     *)
(* that adopts has seen it there, and what is on a page was received.      *)
(***************************************************************************)
mailChats == x1
mailPair == x2
mailOpen == x3
mailOpened == x4
mailAnswers == x5
mailTries == x6
mailFlying == x7
mailBox == x8
mailFetched == x9
mailRead == x10
mailSent == x11
USE DEF mailChats, mailPair, mailOpen, mailOpened, mailAnswers, mailTries, mailFlying, mailBox, mailFetched, mailRead, mailSent

\* The component counts with its own copy of Cardinality.
LEMMA SecretMailCard == \A S : SecretMail!Cardinality(S) = Cardinality(S)
  BY DEF SecretMail!Cardinality, Cardinality

PairDecides ==
    /\ mailPair \in {0, 1} /\ mailChats = {mailPair} \ {0}
    /\ mailAnswers \subseteq {mailPair} \ {0}
    /\ mailOpen \in [People -> {"idle", "create", "adopt"}]
    /\ \A u \in People : mailOpen[u] = "adopt" => mailPair # 0

PageWasRead == mailFetched \subseteq mailRead

BoxOfEnvelopes == \A b \in mailBox : b = [letter |-> b.letter, try |-> b.try, since |-> b.since]

MailInv == PairDecides /\ PageWasRead /\ BoxOfEnvelopes /\ SecretMail!NoEnvelopeLost

LEMMA MailInvImplies == MailInv => SecretMail!SecretMailArrives
  <1> SUFFICES ASSUME MailInv PROVE SecretMail!SecretMailArrives
    OBVIOUS
  <1>1. mailChats = {} \/ mailChats = {1}
    BY DEF MailInv, PairDecides
  <1>2. Cardinality(mailChats) <= 1
    <2>1. CASE mailChats = {}
      BY <2>1, FS_EmptySet
    <2>2. CASE mailChats = {1}
      <3>1. Cardinality({1}) = 1
        BY FS_Singleton
      <3> QED
        BY <2>2, <3>1
    <2> QED
      BY <1>1, <2>1, <2>2
  <1> QED
    BY <1>2, SecretMailCard DEF MailInv, PairDecides, SecretMail!SecretMailArrives, SecretMail!OneSecretChat

LEMMA MailInit == SecretMail!Init => MailInv
  <1> SUFFICES ASSUME SecretMail!Init PROVE MailInv
    OBVIOUS
  <1>1. PairDecides
    BY DEF SecretMail!Init, PairDecides
  <1> QED
    BY <1>1 DEF SecretMail!Init, MailInv, PageWasRead, BoxOfEnvelopes, SecretMail!NoEnvelopeLost

LEMMA MailOpens ==
  ASSUME MailInv, NEW u \in People, SecretMail!OpenChat(u) \/ SecretMail!EnsureSecretChat(u) \/ SecretMail!AdoptChat(u)
  PROVE  MailInv'
  <1>1. PageWasRead' /\ BoxOfEnvelopes' /\ SecretMail!NoEnvelopeLost'
    <2>1. UNCHANGED <<mailBox, mailFetched, mailRead, mailSent>>
      BY DEF SecretMail!OpenChat, SecretMail!EnsureSecretChat, SecretMail!AdoptChat, SecretMail!boxVars
    <2> QED
      BY <2>1 DEF MailInv, PageWasRead, BoxOfEnvelopes, SecretMail!NoEnvelopeLost, SecretMail!Waiting
  <1>2. CASE SecretMail!OpenChat(u)
    BY <1>1, <1>2 DEF SecretMail!OpenChat, SecretMail!LookUp, SecretMail!Step, MailInv, PairDecides
  <1>3. CASE SecretMail!EnsureSecretChat(u)
    <2>1. CASE mailPair = 0
      <3>1. mailChats = {}
        BY <2>1 DEF MailInv, PairDecides
      <3>2. Cardinality(mailChats) = 0
        BY <3>1, FS_EmptySet, SecretMailCard
      <3>3. /\ mailChats' = {1} /\ mailPair' = 1 /\ mailAnswers' = mailAnswers \cup {1}
            /\ mailOpen' = [mailOpen EXCEPT ![u] = "idle"]
        BY <1>3, <2>1, <3>1, <3>2, SecretMailCard DEF SecretMail!EnsureSecretChat, SecretMail!Link, SecretMail!Step
      <3> QED
        BY <1>1, <3>3, <2>1 DEF MailInv, PairDecides
    <2>2. CASE mailPair # 0
      <3>1. /\ UNCHANGED <<mailChats, mailPair, mailAnswers>> /\ mailOpen' = [mailOpen EXCEPT ![u] = "adopt"]
        BY <1>3, <2>2 DEF SecretMail!EnsureSecretChat, SecretMail!Link, SecretMail!Step
      <3> QED
        BY <1>1, <2>2, <3>1 DEF MailInv, PairDecides
    <2> QED
      BY <2>1, <2>2
  <1>4. CASE SecretMail!AdoptChat(u)
    BY <1>1, <1>4 DEF SecretMail!AdoptChat, SecretMail!Step, MailInv, PairDecides
  <1> QED
    BY <1>2, <1>3, <1>4

\* A step of the mailbox that takes out only what was received.
LEMMA MailKept ==
  ASSUME MailInv, UNCHANGED SecretMail!openVars, BoxOfEnvelopes',
         mailFetched' \subseteq mailRead', mailRead \subseteq mailRead',
         \A m \in mailSent' : m \in mailSent \/ SecretMail!Waiting(m)',
         \A m : SecretMail!Waiting(m) => m \in mailRead' \/ SecretMail!Waiting(m)'
  PROVE  MailInv'
  <1>1. PairDecides'
    BY DEF MailInv, PairDecides, SecretMail!openVars
  <1>2. SecretMail!NoEnvelopeLost'
    <2> SUFFICES ASSUME NEW m \in mailSent' PROVE m \in mailRead' \/ SecretMail!Waiting(m)'
      BY DEF SecretMail!NoEnvelopeLost
    <2>1. m \in mailSent => m \in mailRead \/ SecretMail!Waiting(m)
      BY DEF MailInv, SecretMail!NoEnvelopeLost
    <2> QED
      BY <2>1
  <1> QED
    BY <1>1, <1>2 DEF MailInv, PageWasRead

\* Storing an envelope leaves what waits waiting, and makes its letter wait.
LEMMA MailStores ==
  ASSUME NEW e, mailBox' = SecretMail!StoreEnvelope(e), BoxOfEnvelopes
  PROVE  /\ \E b \in mailBox' : b.letter = e.letter
         /\ \A m : SecretMail!Waiting(m) => SecretMail!Waiting(m)'
         /\ BoxOfEnvelopes'
  <1>1. CASE SecretMail!Waiting(e.letter)
    <2> DEFINE Again(b) == [b EXCEPT !.try = IF b.letter = e.letter THEN e.try ELSE @]
    <2>1. mailBox' = {Again(b) : b \in mailBox}
      BY <1>1 DEF SecretMail!StoreEnvelope
    <2>2. ASSUME NEW b \in mailBox
          PROVE  Again(b).letter = b.letter /\ Again(b) = [letter |-> Again(b).letter, try |-> Again(b).try, since |-> Again(b).since]
      <3>1. PICK t : t = IF b.letter = e.letter THEN e.try ELSE b.try
        OBVIOUS
      <3>2. b = [letter |-> b.letter, try |-> b.try, since |-> b.since]
        BY DEF BoxOfEnvelopes
      <3>3. Again(b) = [letter |-> b.letter, try |-> t, since |-> b.since]
        BY <3>1, <3>2
      <3> QED
        BY <3>3
    <2> HIDE DEF Again
    <2>3. \A m : SecretMail!Waiting(m) => SecretMail!Waiting(m)'
      <3> SUFFICES ASSUME NEW m, NEW b \in mailBox, b.letter = m PROVE \E c \in mailBox' : c.letter = m
        BY DEF SecretMail!Waiting
      <3> QED
        BY <2>1, <2>2
    <2>4. BoxOfEnvelopes'
      BY <2>1, <2>2 DEF BoxOfEnvelopes
    <2>5. \E b \in mailBox' : b.letter = e.letter
      BY <1>1, <2>1, <2>2 DEF SecretMail!Waiting
    <2> QED
      BY <2>3, <2>4, <2>5
  <1>2. CASE ~ SecretMail!Waiting(e.letter)
    <2>1. PICK n : n = [letter |-> e.letter, try |-> e.try, since |-> SecretMail!Newest + 1]
      OBVIOUS
    <2>2. mailBox' = mailBox \cup {n} /\ n.letter = e.letter /\ n = [letter |-> n.letter, try |-> n.try, since |-> n.since]
      BY <1>2, <2>1 DEF SecretMail!StoreEnvelope
    <2> QED
      BY <2>2 DEF SecretMail!Waiting, BoxOfEnvelopes
  <1> QED
    BY <1>1, <1>2

LEMMA MailNext == ASSUME MailInv, SecretMail!Next PROVE MailInv'
  <1>1. ASSUME NEW e, SecretMail!Send(e) PROVE MailInv'
    <2>1. /\ mailBox' = SecretMail!StoreEnvelope(e) /\ UNCHANGED <<SecretMail!openVars, mailFetched, mailRead>>
          /\ mailSent' = mailSent \cup {e.letter} \/ mailSent' = mailSent
      BY <1>1 DEF SecretMail!Send
    <2>2. /\ \E b \in mailBox' : b.letter = e.letter
          /\ \A m : SecretMail!Waiting(m) => SecretMail!Waiting(m)'
          /\ BoxOfEnvelopes'
      BY <2>1, MailStores DEF MailInv
    <2>3. \A m \in mailSent' : m \in mailSent \/ SecretMail!Waiting(m)'
      BY <2>1, <2>2 DEF SecretMail!Waiting
    <2>4. mailFetched' \subseteq mailRead' /\ mailRead \subseteq mailRead'
      BY <2>1 DEF MailInv, PageWasRead
    <2> QED
      BY <2>1, <2>2, <2>3, <2>4, MailKept
  <1>2. ASSUME UNCHANGED <<SecretMail!openVars, mailBox, mailSent>>, mailFetched' \subseteq mailRead', mailRead \subseteq mailRead'
        PROVE  MailInv'
    <2>1. BoxOfEnvelopes' /\ \A m : SecretMail!Waiting(m)' = SecretMail!Waiting(m)
      BY <1>2 DEF MailInv, BoxOfEnvelopes, SecretMail!Waiting
    <2> QED
      BY <1>2, <2>1, MailKept
  <1>3. ASSUME NEW m, SecretMail!send(m) PROVE MailInv'
    BY <1>2, <1>3 DEF SecretMail!send, MailInv, PageWasRead
  <1>4. ASSUME NEW e, SecretMail!SendLost(e) PROVE MailInv'
    BY <1>2, <1>4 DEF SecretMail!SendLost, MailInv, PageWasRead
  <1>5. CASE SecretMail!Inbox
    <2>1. PICK page : mailFetched' = page /\ mailRead' = mailRead \cup page
      BY <1>5 DEF SecretMail!Inbox
    <2> QED
      BY <1>2, <1>5, <2>1 DEF SecretMail!Inbox
  <1>6. CASE SecretMail!ForgetPage
    BY <1>2, <1>6 DEF SecretMail!ForgetPage, MailInv, PageWasRead
  <1>7. CASE SecretMail!Acknowledge
    <2>1. /\ mailBox' = {b \in mailBox : b.letter \notin mailFetched} /\ mailFetched' = {}
          /\ UNCHANGED <<SecretMail!openVars, mailRead, mailSent>>
      BY <1>7 DEF SecretMail!Acknowledge, SecretMail!AcknowledgeEnvelopes
    <2>2. BoxOfEnvelopes'
      BY <2>1 DEF MailInv, BoxOfEnvelopes
    <2>3. \A m : SecretMail!Waiting(m) => m \in mailRead \/ SecretMail!Waiting(m)'
      BY <2>1 DEF SecretMail!Waiting, MailInv, PageWasRead
    <2> QED
      BY <2>1, <2>2, <2>3, MailKept
  <1> QED
    BY <1>1, <1>3, <1>4, <1>5, <1>6, <1>7, MailOpens DEF SecretMail!Next

\* Two people have one secret chat however their openings cross, and an answered envelope waits
\* until the device has it, for any letters and retries (EnsureSecretChat, AcknowledgeEnvelopes).
THEOREM SecretMailSound == Spec => []SecretMailArrives
  <1> DEFINE Holds == active = "mail" => MailInv
  <1>1. Init => Holds
    BY MailInit DEF Init
  <1>2. Holds /\ [Next]_<<active, shared>> => Holds'
    <2> SUFFICES ASSUME active = "mail", MailInv, [Next]_<<active, shared>> PROVE MailInv'
      BY OneMoves
    <2>1. CASE SecretMail!Next
      BY <2>1, MailNext
    <2>2. CASE UNCHANGED shared
      BY <2>2 DEF shared, MailInv, PairDecides, PageWasRead, BoxOfEnvelopes,
          SecretMail!NoEnvelopeLost, SecretMail!Waiting
    <2> QED
      BY <2>1, <2>2, OneMoves
  <1>3. Holds => SecretMailArrives
    BY MailInvImplies DEF SecretMailArrives
  <1> QED
    BY <1>1, <1>2, <1>3, PTL DEF Spec

-----------------------------------------------------------------------------
(***************************************************************************)
(* Breaking news: a page is found by counting from the front, so what a    *)
(* pass has covered is everybody of rank below its offset, or on its page. *)
(* Joining raises ranks and leaving lowers them.                           *)
(***************************************************************************)
ntSet == x1
ntUnread == x2
ntToken == x3
ntTries == x4
ntWork == x5
ntPush == x6
ntSend == x7
ntEdits == x8
USE DEF ntSet, ntUnread, ntToken, ntTries, ntWork, ntPush, ntSend, ntEdits

\* The component counts with its own copy of Cardinality.
LEMMA NotificationsCard == \A S : Notifications!Cardinality(S) = Cardinality(S)
  BY DEF Notifications!Cardinality, Cardinality

\* How many of A come before u.
Rank(A, u) == Cardinality({v \in A : v < u})

PageAt(A, o) == {u \in A : o <= Rank(A, u) /\ Rank(A, u) < o + PageSize}

LEMMA RankType ==
  ASSUME NEW A \in SUBSET Nat, IsFiniteSet(A), NEW u
  PROVE  Rank(A, u) \in Nat /\ IsFiniteSet({v \in A : v < u})
  <1>1. {v \in A : v < u} \in SUBSET A
    OBVIOUS
  <1>2. IsFiniteSet({v \in A : v < u})
    BY <1>1, FS_Subset
  <1> QED
    BY <1>2, FS_CardinalityType DEF Rank

\* Ranks follow the order of the identifiers.
LEMMA RankGrows ==
  ASSUME NEW A \in SUBSET Nat, IsFiniteSet(A), NEW u \in A, NEW v \in A, u < v
  PROVE  Rank(A, u) < Rank(A, v)
  <1> DEFINE D == {x \in A : x < u}
             E == {x \in A : x < v}
  <1>1. IsFiniteSet(D) /\ IsFiniteSet(E) /\ Rank(A, u) = Cardinality(D) /\ Rank(A, v) = Cardinality(E)
        /\ Rank(A, u) \in Nat /\ Rank(A, v) \in Nat
    BY RankType DEF Rank
  <1>2. u \in Nat /\ v \in Nat /\ u \notin D
    OBVIOUS
  <1>3. IsFiniteSet(D \cup {u}) /\ Cardinality(D \cup {u}) = Cardinality(D) + 1
    BY <1>1, <1>2, FS_AddElement
  <1>4. D \cup {u} \in SUBSET E
    <2>1. ASSUME NEW x \in D PROVE x \in E
      <3>1. x \in Nat /\ x < u /\ x \in A
        OBVIOUS
      <3> QED
        BY <1>2, <3>1
    <2> QED
      BY <2>1
  <1>5. Cardinality(D \cup {u}) <= Cardinality(E)
    BY <1>1, <1>4, FS_Subset
  <1> QED
    BY <1>1, <1>3, <1>5

\* No two members have the same rank, so there are no more members than ranks.
LEMMA RanksApart ==
  ASSUME NEW A \in SUBSET Nat, IsFiniteSet(A), NEW m \in Nat, NEW n \in Nat,
         NEW S \in SUBSET A, \A u \in S : m <= Rank(A, u) /\ Rank(A, u) < m + n
  PROVE  IsFiniteSet(S) /\ Cardinality(S) \in Nat /\ Cardinality(S) <= n
  <1> DEFINE T == m .. (m + n - 1)
             f == [u \in S |-> Rank(A, u)]
  <1>1. ASSUME NEW u \in S PROVE Rank(A, u) \in T
    <2>1. Rank(A, u) \in Nat
      BY RankType
    <2> QED
      BY <2>1
  <1>2. \A u, v \in S : Rank(A, u) = Rank(A, v) => u = v
    <2> SUFFICES ASSUME NEW u \in S, NEW v \in S, Rank(A, u) = Rank(A, v), u # v PROVE FALSE
      OBVIOUS
    <2>1. u \in Nat /\ v \in Nat /\ u \in A /\ v \in A /\ Rank(A, u) \in Nat /\ Rank(A, v) \in Nat
      BY RankType
    <2>2. u < v \/ v < u
      BY <2>1
    <2>3. Rank(A, u) < Rank(A, v) \/ Rank(A, v) < Rank(A, u)
      BY <2>1, <2>2, RankGrows
    <2> QED
      BY <2>1, <2>3
  <1>3. f \in Injection(S, T)
    BY <1>1, <1>2 DEF Injection, IsInjective
  <1>4. IsFiniteSet(T) /\ Cardinality(T) = n
    BY FS_Interval
  <1>5. IsFiniteSet(S) /\ Cardinality(S) <= Cardinality(T)
    BY <1>3, <1>4, FS_Injection
  <1> QED
    BY <1>4, <1>5, FS_CardinalityType

\* A page holds no more than its size, and after a page that is not full there is nobody.
LEMMA PageIsExact ==
  ASSUME NEW A \in SUBSET Nat, IsFiniteSet(A), NEW o \in Nat
  PROVE  /\ Cardinality(PageAt(A, o)) \in Nat
         /\ Cardinality(PageAt(A, o)) <= PageSize
         /\ Cardinality(PageAt(A, o)) < PageSize =>
               \A u \in A : Rank(A, u) < o + Cardinality(PageAt(A, o))
         /\ \A u \in PageAt(A, o) : Rank(A, u) < o + Cardinality(PageAt(A, o))
  <1> DEFINE P == PageAt(A, o)
  <1>1. PICK p : p = Cardinality(P)
    OBVIOUS
  <1>2. PageSize \in Nat
    BY AudiencePages
  <1>3. P \in SUBSET A /\ \A u \in P : o <= Rank(A, u) /\ Rank(A, u) < o + PageSize
    BY DEF PageAt
  <1>4. IsFiniteSet(P) /\ p \in Nat /\ p <= PageSize
    BY <1>1, <1>2, <1>3, RanksApart
  <1>5. ASSUME p < PageSize, NEW u \in A, ~ (Rank(A, u) < o + p) PROVE FALSE
    <2> DEFINE B == {v \in A : o + p <= Rank(A, v)}
               Low == {v \in A : Rank(A, v) < o}
    <2>1. \A v \in A : Rank(A, v) \in Nat
      BY RankType
    <2>2. u \in B /\ B \in SUBSET Nat
      <3>1. Rank(A, u) \in Nat /\ u \in A /\ B \in SUBSET A
        BY <1>5, <2>1
      <3>2. o + p <= Rank(A, u)
        BY <1>4, <1>5, <3>1
      <3> QED
        BY <3>1, <3>2
    <2>3. PICK v \in B : \A x \in B : v <= x
      BY <2>2, LeastNumber
    <2>4. IsFiniteSet(Low) /\ Cardinality(Low) \in Nat /\ Cardinality(Low) <= o
      <3>1. Low \in SUBSET A /\ \A x \in Low : 0 <= Rank(A, x) /\ Rank(A, x) < 0 + o
        BY <2>1
      <3> QED
        BY <3>1, RanksApart
    <2>5. IsFiniteSet(Low \cup P) /\ Cardinality(Low \cup P) <= o + p
      <3>1. IsFiniteSet(Low \cup P) /\ Cardinality(Low \cup P) = Cardinality(Low) + p - Cardinality(Low \cap P)
        BY <1>1, <1>4, <2>4, FS_Union
      <3>2. Low \cap P \in SUBSET Low
        OBVIOUS
      <3>3. IsFiniteSet(Low \cap P)
        BY <2>4, <3>2, FS_Subset
      <3>4. Cardinality(Low \cap P) \in Nat
        BY <3>3, FS_CardinalityType
      <3> QED
        BY <1>4, <2>4, <3>1, <3>4
    <2> DEFINE D == {x \in A : x < v}
    <2>6. IsFiniteSet(D) /\ Cardinality(D) = Rank(A, v) /\ Rank(A, v) \in Nat
      BY RankType DEF Rank
    <2>7. D \in SUBSET (Low \cup P)
      <3> SUFFICES ASSUME NEW x \in D PROVE x \in Low \/ x \in P
        OBVIOUS
      <3>1. x \in A /\ x < v /\ x \in Nat /\ v \in Nat
        OBVIOUS
      <3>2. x \notin B
        BY <2>3, <3>1
      <3>3. Rank(A, x) < o + p /\ Rank(A, x) \in Nat
        BY <1>4, <2>1, <3>1, <3>2
      <3> QED
        BY <1>2, <1>4, <1>5, <3>1, <3>3 DEF PageAt
    <2>8. CASE v \in P
      <3>1. v \notin D
        BY <2>2
      <3>2. IsFiniteSet(D \cup {v}) /\ Cardinality(D \cup {v}) = Cardinality(D) + 1
        BY <2>6, <3>1, FS_AddElement
      <3>3. D \cup {v} \in SUBSET (Low \cup P)
        BY <2>7, <2>8
      <3>4. Cardinality(D \cup {v}) <= Cardinality(Low \cup P)
        BY <2>5, <3>3, FS_Subset
      <3>5. Cardinality(Low \cup P) \in Nat
        BY <2>5, FS_CardinalityType
      <3> QED
        BY <1>4, <2>3, <2>5, <2>6, <3>2, <3>4, <3>5
    <2>9. CASE v \notin P
      <3>1. v \in A /\ o + p <= Rank(A, v)
        OBVIOUS
      <3>2. o + PageSize <= Rank(A, v)
        BY <1>2, <1>4, <2>6, <2>9, <3>1 DEF PageAt
      <3>3. Cardinality(D) <= Cardinality(Low \cup P)
        BY <2>5, <2>7, FS_Subset
      <3>4. Cardinality(Low \cup P) \in Nat
        BY <2>5, FS_CardinalityType
      <3> QED
        BY <1>2, <1>4, <1>5, <2>5, <2>6, <3>2, <3>3, <3>4
    <2> QED
      BY <2>8, <2>9
  <1>6. ASSUME NEW u \in P PROVE Rank(A, u) < o + p
    <2>1. CASE p < PageSize
      BY <1>3, <1>5, <2>1
    <2>2. CASE ~ (p < PageSize)
      <3>1. p = PageSize
        BY <1>2, <1>4, <2>2
      <3> QED
        BY <1>3, <3>1
    <2> QED
      BY <2>1, <2>2
  <1>7. p < PageSize => \A u \in A : Rank(A, u) < o + p
    BY <1>5
  <1> QED
    BY <1>1, <1>4, <1>6, <1>7

\* Who joins moves nobody up.
LEMMA RankKept ==
  ASSUME NEW B \in SUBSET Nat, IsFiniteSet(B), NEW A \in SUBSET B, NEW u
  PROVE  Rank(A, u) <= Rank(B, u) /\ Rank(A, u) \in Nat /\ Rank(B, u) \in Nat
  <1>1. IsFiniteSet(A) /\ A \in SUBSET Nat
    BY FS_Subset
  <1>2. {v \in A : v < u} \in SUBSET {v \in B : v < u}
    OBVIOUS
  <1>3. Cardinality({v \in A : v < u}) <= Cardinality({v \in B : v < u})
    BY <1>2, RankType, FS_Subset
  <1> QED
    BY <1>1, <1>3, RankType DEF Rank

\* Of two sets of which one holds a member more, the ranks differ by one at most.
LEMMA RankDrops ==
  ASSUME NEW A \in SUBSET Nat, IsFiniteSet(A), NEW x \in A, NEW u
  PROVE  Rank(A, u) <= Rank(A \ {x}, u) + 1
  <1> DEFINE D == {v \in A : v < u}
             E == {v \in A \ {x} : v < u}
  <1>1. IsFiniteSet(A \ {x}) /\ A \ {x} \in SUBSET Nat
    <2>1. A \ {x} \in SUBSET A
      OBVIOUS
    <2> QED
      BY <2>1, FS_Subset
  <1>2. IsFiniteSet(D) /\ IsFiniteSet(E) /\ Rank(A, u) = Cardinality(D) /\ Rank(A \ {x}, u) = Cardinality(E)
        /\ Cardinality(D) \in Nat /\ Cardinality(E) \in Nat
    BY <1>1, RankType, FS_CardinalityType DEF Rank
  <1>3. IsFiniteSet(E \cup {x}) /\ Cardinality(E \cup {x}) = Cardinality(E) + 1
    <2>1. x \notin E
      OBVIOUS
    <2> QED
      BY <1>2, <2>1, FS_AddElement
  <1>4. D \in SUBSET (E \cup {x})
    OBVIOUS
  <1>5. Cardinality(D) <= Cardinality(E \cup {x})
    BY <1>3, <1>4, FS_Subset
  <1> QED
    BY <1>2, <1>3, <1>5

LEMMA NoMore ==
  ASSUME NEW M, IsFiniteSet(M), NEW n \in Nat, Cardinality(M) <= n, NEW S \in SUBSET M
  PROVE  Cardinality(S) <= n
  <1>1. IsFiniteSet(S) /\ Cardinality(S) <= Cardinality(M)
    BY FS_Subset
  <1>2. Cardinality(S) \in Nat /\ Cardinality(M) \in Nat
    BY <1>1, FS_CardinalityType
  <1> QED
    BY <1>1, <1>2

LEMMA OneMore ==
  ASSUME NEW M, IsFiniteSet(M), NEW n \in Nat, Cardinality(M) <= n, NEW x, NEW S \in SUBSET (M \cup {x})
  PROVE  Cardinality(S) <= n + 1
  <1>1. Cardinality(M) \in Nat
    BY FS_CardinalityType
  <1>2. IsFiniteSet(M \cup {x}) /\ Cardinality(M \cup {x}) <= n + 1
    <2>1. CASE x \in M
      <3>1. M \cup {x} = M
        BY <2>1
      <3> QED
        BY <1>1, <3>1
    <2>2. CASE x \notin M
      BY <1>1, <2>2, FS_AddElement
    <2> QED
      BY <2>1, <2>2
  <1> QED
    BY <1>2, NoMore

Pass == [at : {"idle", "page", "deliver", "done"}, offset : Nat, page : SUBSET Notifications!Accounts, size : Nat,
         told : [Notifications!Accounts -> Nat], failed : SUBSET Notifications!Accounts, stayed : SUBSET Notifications!Accounts,
         left : Nat, joined : Nat]

\* The pass has come by u: u is below the offset, or the last page has been read.
Last(p) == p.at = "done" \/ (p.at = "deliver" /\ p.size < PageSize)
Past(p, A, u) == Rank(A, u) < p.offset \/ Last(p)

Missed(p, A) == {u \in p.stayed : Past(p, A, u) /\ u \notin p.failed /\ p.told[u] = 0 /\ u \notin p.page}

\* Who stayed is in the audience A, and no more are missed than have left.
Reached(p, A) == p.stayed \subseteq A /\ Cardinality(Missed(p, A)) <= p.left

\* How often u was told, counting the page that is being worked off.
Times(p, u) == IF u \in p.page THEN p.told[u] + 1 ELSE p.told[u]

\* Nobody was told more often than once and once for each who joined; and who is still ahead will
\* be told once more, so has been told less often by one.
ToldFew(p, A) ==
    \A u \in Notifications!Accounts : Times(p, u) <= p.joined + 1 /\ (~ (Rank(A, u) < p.offset) => Times(p, u) <= p.joined)

PassHolds(p, A) ==
    /\ p \in Pass /\ (p.at = "deliver" <=> p.page # {})
    /\ p.at # "idle" => Reached(p, A) /\ ToldFew(p, A)

NewsPassInv ==
    /\ ntSet \in [Notifications!Accounts -> [news : BOOLEAN, quiet : BOOLEAN]]
    /\ ntWork \in [NewsWorkers -> Pass]
    /\ \A w \in NewsWorkers : PassHolds(ntWork[w], Notifications!Audience)

LEMMA AudienceFinite ==
  /\ IsFiniteSet(Notifications!Audience) /\ Notifications!Audience \in SUBSET Nat
  /\ Notifications!Audience \in SUBSET Notifications!Accounts
  <1>1. IsFiniteSet(Notifications!Accounts) /\ Notifications!Accounts \in SUBSET Nat
    BY AudiencePages, FS_Interval DEF Notifications!Accounts
  <1>2. Notifications!Audience \in SUBSET Notifications!Accounts
    BY DEF Notifications!Audience
  <1> QED
    BY <1>1, <1>2, FS_Subset

LEMMA MissedFinite ==
  ASSUME NEW p, NEW A, IsFiniteSet(A), p.stayed \subseteq A
  PROVE  IsFiniteSet(Missed(p, A))
  <1>1. Missed(p, A) \in SUBSET A
    BY DEF Missed
  <1> QED
    BY <1>1, FS_Subset

LEMMA NewsPassInvImplies == NewsPassInv => Notifications!SubscribersAreTold
  <1> SUFFICES ASSUME NewsPassInv, NEW w \in NewsWorkers, Notifications!At(w, "done")
               PROVE  /\ Cardinality({u \in ntWork[w].stayed \ ntWork[w].failed : ntWork[w].told[u] = 0}) <= ntWork[w].left
                      /\ \A u \in Notifications!Accounts : ntWork[w].told[u] <= 1 + ntWork[w].joined
    BY NotificationsCard DEF Notifications!SubscribersAreTold
  <1>1. PICK p : p = ntWork[w]
    OBVIOUS
  <1>2. PassHolds(p, Notifications!Audience) /\ p.at = "done"
    BY <1>1 DEF NewsPassInv, Notifications!At
  <1>3. p.page = {} /\ p \in Pass /\ Reached(p, Notifications!Audience) /\ ToldFew(p, Notifications!Audience)
    BY <1>2 DEF PassHolds
  <1>4. {u \in p.stayed \ p.failed : p.told[u] = 0} = Missed(p, Notifications!Audience)
    BY <1>2, <1>3 DEF Missed, Past, Last
  <1>5. Cardinality({u \in p.stayed \ p.failed : p.told[u] = 0}) <= p.left
    BY <1>3, <1>4 DEF Reached
  <1>6. ASSUME NEW u \in Notifications!Accounts PROVE p.told[u] <= 1 + p.joined
    <2>1. p.told[u] \in Nat /\ p.joined \in Nat
      BY <1>3 DEF Pass
    <2>2. p.told[u] <= p.joined + 1
      BY <1>3 DEF ToldFew, Times
    <2> QED
      BY <2>1, <2>2
  <1> QED
    BY <1>1, <1>5, <1>6

LEMMA NewsPassInit == Notifications!Init => NewsPassInv
  <1> SUFFICES ASSUME Notifications!Init PROVE NewsPassInv
    OBVIOUS
  <1>1. Notifications!NoPass \in Pass /\ Notifications!NoPass.at = "idle" /\ Notifications!NoPass.page = {}
    BY DEF Notifications!NoPass, Pass
  <1>2. ntWork = [w \in NewsWorkers |-> Notifications!NoPass] /\ ntSet \in [Notifications!Accounts -> [news : BOOLEAN, quiet : {FALSE}]]
    BY DEF Notifications!Init
  <1> QED
    BY <1>1, <1>2 DEF NewsPassInv, PassHolds

\* A step of one pass that leaves the audience alone.
LEMMA PassMoves ==
  ASSUME NewsPassInv, NEW w \in NewsWorkers, NEW q, PassHolds(q, Notifications!Audience),
         ntWork' = [ntWork EXCEPT ![w] = q], UNCHANGED ntSet
  PROVE  NewsPassInv'
  <1>1. Notifications!Audience' = Notifications!Audience
    BY DEF Notifications!Audience
  <1>2. q \in Pass
    BY DEF PassHolds
  <1>3. ntWork' \in [NewsWorkers -> Pass] /\ \A v \in NewsWorkers : ntWork'[v] = IF v = w THEN q ELSE ntWork[v]
    BY <1>2 DEF NewsPassInv
  <1>4. \A v \in NewsWorkers : PassHolds(ntWork'[v], Notifications!Audience)
    BY <1>3 DEF NewsPassInv
  <1> QED
    BY <1>1, <1>3, <1>4 DEF NewsPassInv

LEMMA PassStarts ==
  ASSUME NewsPassInv, NEW w \in NewsWorkers, Notifications!handleNewsPublish(w)
  PROVE  NewsPassInv'
  <1>1. PICK q : q = [Notifications!NoPass EXCEPT !.at = "page", !.stayed = Notifications!Audience]
    OBVIOUS
  <1>2. /\ q \in Pass /\ q.at = "page" /\ q.page = {} /\ q.stayed = Notifications!Audience /\ q.offset = 0
        /\ q.left = 0 /\ q.joined = 0 /\ \A u \in Notifications!Accounts : q.told[u] = 0
    BY <1>1, AudienceFinite DEF Notifications!NoPass, Pass
  <1>3. \A u : Rank(Notifications!Audience, u) \in Nat
    BY AudienceFinite, RankType
  <1>4. PassHolds(q, Notifications!Audience)
    <2>1. Missed(q, Notifications!Audience) = {}
      BY <1>2, <1>3 DEF Missed, Past, Last
    <2>2. Reached(q, Notifications!Audience)
      BY <1>2, <2>1, FS_EmptySet DEF Reached
    <2>3. ToldFew(q, Notifications!Audience)
      BY <1>2 DEF ToldFew, Times
    <2> QED
      BY <1>2, <2>2, <2>3 DEF PassHolds
  <1>5. ntWork' = [ntWork EXCEPT ![w] = q] /\ UNCHANGED ntSet
    BY <1>1 DEF Notifications!handleNewsPublish
  <1> QED
    BY <1>4, <1>5, PassMoves

LEMMA PassReads ==
  ASSUME NewsPassInv, NEW w \in NewsWorkers, Notifications!ReadPage(w)
  PROVE  NewsPassInv'
  <1>1. PICK A : A = Notifications!Audience
    OBVIOUS
  <1>2. PICK r : r = ntWork[w]
    OBVIOUS
  <1>3. PICK P : P = PageAt(A, r.offset)
    OBVIOUS
  <1>4. PICK n : n = Cardinality(P)
    OBVIOUS
  <1>5. PassHolds(r, A) /\ r \in Pass /\ r.at = "page" /\ r.offset \in Nat
    BY <1>1, <1>2 DEF NewsPassInv, Notifications!ReadPage, Notifications!At, PassHolds, Pass
  <1>6. r.page = {} /\ Reached(r, A) /\ ToldFew(r, A)
    BY <1>5 DEF PassHolds
  <1>7. Notifications!BreakingNewsAudience(r.offset) = P
    BY <1>1, <1>3, NotificationsCard DEF Notifications!BreakingNewsAudience, Notifications!Before, PageAt, Rank
  <1>8. IsFiniteSet(A) /\ A \in SUBSET Nat /\ A \in SUBSET Notifications!Accounts
    BY <1>1, AudienceFinite
  <1>9. /\ n \in Nat /\ n <= PageSize
        /\ n < PageSize => \A u \in A : Rank(A, u) < r.offset + n
        /\ \A u \in P : Rank(A, u) < r.offset + n
    BY <1>3, <1>4, <1>5, <1>8, PageIsExact
  <1>10. PICK at : at = IF P = {} THEN "done" ELSE "deliver"
    OBVIOUS
  <1>11. PICK q : q = [r EXCEPT !.at = at, !.page = P, !.size = n, !.offset = @ + n]
    OBVIOUS
  <1>12. ntWork' = [ntWork EXCEPT ![w] = q] /\ UNCHANGED ntSet
    <2>1. ntWork' = [ntWork EXCEPT ![w] = [r EXCEPT
              !.at = IF P = {} THEN "done" ELSE "deliver", !.page = P, !.size = n, !.offset = @ + n]]
      BY <1>2, <1>4, <1>7, NotificationsCard DEF Notifications!ReadPage
    <2>2. [r EXCEPT !.at = IF P = {} THEN "done" ELSE "deliver", !.page = P, !.size = n, !.offset = @ + n] = q
      <3>1. CASE P = {}
        BY <1>10, <1>11, <3>1
      <3>2. CASE P # {}
        BY <1>10, <1>11, <3>2
      <3> QED
        BY <3>1, <3>2
    <2> QED
      BY <2>1, <2>2 DEF Notifications!ReadPage
  <1>13. P \subseteq A /\ P \subseteq Notifications!Accounts
    BY <1>3, <1>8 DEF PageAt
  <1>14. /\ q \in Pass /\ q.at = at /\ q.page = P /\ q.size = n /\ q.offset = r.offset + n
         /\ q.told = r.told /\ q.failed = r.failed /\ q.stayed = r.stayed /\ q.left = r.left /\ q.joined = r.joined
    <2>1. at \in {"done", "deliver"} /\ r.offset + n \in Nat
      BY <1>5, <1>9, <1>10
    <2>2. q = [r EXCEPT !.at = at, !.page = P, !.size = n, !.offset = r.offset + n]
      BY <1>5, <1>11 DEF Pass
    <2> QED
      BY <1>5, <1>9, <1>13, <2>1, <2>2 DEF Pass
  <1>15. PageSize \in Nat \ {0} /\ \A u : Rank(A, u) \in Nat
    BY <1>8, AudiencePages, RankType
  <1>16. P = {} => n = 0
    BY <1>4, FS_EmptySet
  <1>17. Reached(q, A)
    <2>1. r.stayed \subseteq A /\ r.left \in Nat /\ Cardinality(Missed(r, A)) <= r.left
      BY <1>5, <1>6 DEF Reached, Pass
    <2>2. ASSUME NEW u \in Missed(q, A) PROVE u \in Missed(r, A)
      <3>1. u \in r.stayed /\ u \notin r.failed /\ r.told[u] = 0 /\ u \notin P /\ Past(q, A, u)
        BY <1>14, <2>2 DEF Missed
      <3>2. Rank(A, u) < r.offset + n
        BY <1>9, <1>10, <1>14, <1>15, <1>16, <2>1, <3>1 DEF Past, Last
      <3>3. Rank(A, u) < r.offset
        BY <1>3, <1>5, <1>9, <1>15, <2>1, <3>1, <3>2 DEF PageAt
      <3> QED
        BY <1>6, <3>1, <3>3 DEF Missed, Past
    <2>3. Missed(q, A) \in SUBSET Missed(r, A)
      BY <2>2
    <2>4. Cardinality(Missed(q, A)) <= r.left
      BY <1>8, <2>1, <2>3, MissedFinite, NoMore
    <2> QED
      BY <1>14, <2>1, <2>4 DEF Reached
  <1>18. ToldFew(q, A)
    <2> SUFFICES ASSUME NEW u \in Notifications!Accounts
                 PROVE  Times(q, u) <= q.joined + 1 /\ (~ (Rank(A, u) < q.offset) => Times(q, u) <= q.joined)
      BY DEF ToldFew
    <2>1. r.told[u] \in Nat /\ r.joined \in Nat /\ Rank(A, u) \in Nat
      BY <1>5, <1>15 DEF Pass
    <2>2. Times(r, u) = r.told[u]
      BY <1>6 DEF Times
    <2>3. r.told[u] <= r.joined + 1 /\ (~ (Rank(A, u) < r.offset) => r.told[u] <= r.joined)
      BY <1>6, <2>2 DEF ToldFew
    <2>4. CASE u \in P
      <3>1. r.offset <= Rank(A, u) /\ Rank(A, u) < r.offset + n /\ Times(q, u) = r.told[u] + 1
        BY <1>3, <1>9, <1>14, <2>4 DEF PageAt, Times
      <3> QED
        BY <1>5, <1>9, <1>14, <2>1, <2>3, <3>1
    <2>5. CASE u \notin P
      <3>1. Times(q, u) = r.told[u]
        BY <1>14, <2>5 DEF Times
      <3> QED
        BY <1>5, <1>9, <1>14, <2>1, <2>3, <3>1
    <2> QED
      BY <2>4, <2>5
  <1>19. PassHolds(q, Notifications!Audience)
    BY <1>1, <1>10, <1>14, <1>17, <1>18 DEF PassHolds
  <1> QED
    BY <1>12, <1>19, PassMoves

LEMMA PassDelivers ==
  ASSUME NewsPassInv, NEW w \in NewsWorkers, Notifications!Deliver(w)
  PROVE  NewsPassInv'
  <1>1. PICK A : A = Notifications!Audience
    OBVIOUS
  <1>2. PICK r : r = ntWork[w]
    OBVIOUS
  <1>3. PICK u : u = Notifications!Told(w)
    OBVIOUS
  <1>4. PassHolds(r, A) /\ r \in Pass /\ r.at = "deliver" /\ r.page \in SUBSET Notifications!Accounts
    BY <1>1, <1>2 DEF NewsPassInv, Notifications!Deliver, Notifications!At, PassHolds, Pass
  <1>5. r.page # {} /\ Reached(r, A) /\ ToldFew(r, A)
    BY <1>4 DEF PassHolds
  <1>6. u \in r.page /\ u \in Notifications!Accounts
    <2>1. r.page \in SUBSET Nat
      BY <1>4, AudiencePages DEF Notifications!Accounts
    <2>2. \E x \in r.page : \A y \in r.page : x <= y
      BY <1>5, <2>1, LeastNumber
    <2> QED
      BY <1>2, <1>3, <1>4, <2>2 DEF Notifications!Told
  <1>7. PICK at : at = IF r.page # {u} THEN "deliver" ELSE IF Notifications!ShortPage(r.size) THEN "done" ELSE "page"
    OBVIOUS
  <1>8. PICK n : n = [r EXCEPT !.page = @ \ {u}, !.at = at]
    OBVIOUS
  <1>9. n = Notifications!Advance(r, u)
    BY <1>7, <1>8 DEF Notifications!Advance
  <1>10. /\ n \in Pass /\ n.at = at /\ n.page = r.page \ {u} /\ n.size = r.size /\ n.offset = r.offset
         /\ n.told = r.told /\ n.failed = r.failed /\ n.stayed = r.stayed /\ n.left = r.left /\ n.joined = r.joined
    BY <1>4, <1>7, <1>8 DEF Pass
  <1>11. at # "idle" /\ (at = "deliver" <=> r.page \ {u} # {}) /\ (at = "done" => r.size < PageSize)
    BY <1>6, <1>7 DEF Notifications!ShortPage
  <1>12. ASSUME NEW q \in Pass, q.at = at, q.page = r.page \ {u}, q.size = r.size, q.offset = r.offset,
                q.stayed = r.stayed, q.left = r.left, q.joined = r.joined,
                r.failed \subseteq q.failed,
                \A x \in Notifications!Accounts : x # u => q.told[x] = r.told[x],
                q.told[u] \in {r.told[u], r.told[u] + 1},
                u \in q.stayed => u \in q.failed \/ q.told[u] >= 1
         PROVE  PassHolds(q, A)
    <2>1. r.told \in [Notifications!Accounts -> Nat] /\ q.told \in [Notifications!Accounts -> Nat] /\ r.stayed \subseteq Notifications!Accounts
          /\ r.size \in Nat /\ r.offset \in Nat /\ r.left \in Nat /\ r.joined \in Nat
      BY <1>4, <1>12 DEF Pass
    <2>2. Reached(q, A)
      <3>1. r.stayed \subseteq A /\ Cardinality(Missed(r, A)) <= r.left
        BY <1>5 DEF Reached
      <3>2. ASSUME NEW x \in Missed(q, A) PROVE x \in Missed(r, A)
        <4>1. x \in r.stayed /\ x \notin q.failed /\ q.told[x] = 0 /\ x \notin r.page \ {u} /\ Past(q, A, x)
          BY <1>12, <3>2 DEF Missed
        <4>2. x # u
          BY <1>12, <4>1
        <4>3. x \notin r.failed /\ r.told[x] = 0 /\ x \notin r.page
          BY <1>12, <2>1, <4>1, <4>2
        <4>4. Past(r, A, x)
          BY <1>4, <1>11, <1>12, <4>1 DEF Past, Last
        <4> QED
          BY <4>1, <4>3, <4>4 DEF Missed
      <3>3. Missed(q, A) \in SUBSET Missed(r, A)
        BY <3>2
      <3>4. IsFiniteSet(A)
        BY <1>1, AudienceFinite
      <3>5. Cardinality(Missed(q, A)) <= r.left
        BY <2>1, <3>1, <3>3, <3>4, MissedFinite, NoMore
      <3> QED
        BY <1>12, <3>1, <3>5 DEF Reached
    <2>3. ToldFew(q, A)
      <3> SUFFICES ASSUME NEW x \in Notifications!Accounts
                   PROVE  Times(q, x) <= r.joined + 1 /\ (~ (Rank(A, x) < r.offset) => Times(q, x) <= r.joined)
        BY <1>12 DEF ToldFew
      <3>1. Times(r, x) <= r.joined + 1 /\ (~ (Rank(A, x) < r.offset) => Times(r, x) <= r.joined)
        BY <1>5 DEF ToldFew
      <3>2. Times(q, x) <= Times(r, x) /\ Times(q, x) \in Nat /\ Times(r, x) \in Nat
        <4>1. r.told[x] \in Nat /\ q.told[x] \in Nat
          BY <2>1
        <4>2. CASE x = u
          <5>1. Times(r, x) = r.told[x] + 1 /\ Times(q, x) = q.told[x]
            BY <1>6, <1>12, <4>2 DEF Times
          <5> QED
            BY <1>12, <4>1, <4>2, <5>1
        <4>3. CASE x # u
          BY <1>12, <4>1, <4>3 DEF Times
        <4> QED
          BY <4>2, <4>3
      <3> QED
        BY <2>1, <3>1, <3>2
    <2> QED
      BY <1>11, <1>12, <2>2, <2>3 DEF PassHolds
  <1>13. UNCHANGED ntSet
    BY DEF Notifications!Deliver
  <1>14. r.told \in [Notifications!Accounts -> Nat] /\ r.told[u] \in Nat
    BY <1>4, <1>6 DEF Pass
  <1>15. CASE ~ Notifications!allowsType(u) /\ ntWork' = [ntWork EXCEPT ![w] = n]
    <2>1. u \notin A
      BY <1>1, <1>15 DEF Notifications!allowsType, Notifications!Audience
    <2>2. u \notin n.stayed
      BY <1>5, <1>10, <2>1 DEF Reached
    <2>3. PassHolds(n, A)
      BY <1>10, <1>12, <2>2
    <2> QED
      BY <1>1, <1>13, <1>15, <2>3, PassMoves
  <1>16. CASE ntWork' = [ntWork EXCEPT ![w] = [n EXCEPT !.told[u] = @ + 1]]
    <2>1. PICK t : t = [r.told EXCEPT ![u] = @ + 1]
      OBVIOUS
    <2>2. PICK q : q = [n EXCEPT !.told = t]
      OBVIOUS
    <2>3. q = [n EXCEPT !.told[u] = @ + 1]
      BY <1>10, <2>1, <2>2 DEF Pass
    <2>4. t \in [Notifications!Accounts -> Nat] /\ t[u] = r.told[u] + 1 /\ \A x \in Notifications!Accounts : x # u => t[x] = r.told[x]
      BY <1>6, <1>14, <2>1
    <2>5. /\ q \in Pass /\ q.at = n.at /\ q.page = n.page /\ q.size = n.size /\ q.offset = n.offset
          /\ q.told = t /\ q.failed = n.failed /\ q.stayed = n.stayed /\ q.left = n.left /\ q.joined = n.joined
      BY <1>10, <2>2, <2>4 DEF Pass
    <2>6. q.told[u] >= 1
      BY <1>14, <2>4, <2>5
    <2>7. PassHolds(q, A)
      BY <1>10, <1>12, <2>4, <2>5, <2>6
    <2>8. ntWork' = [ntWork EXCEPT ![w] = q]
      BY <1>16, <2>3
    <2> QED
      BY <1>1, <1>13, <2>7, <2>8, PassMoves
  <1>17. CASE ntWork' = [ntWork EXCEPT ![w] = [n EXCEPT !.failed = @ \cup {u}]]
    <2>1. PICK q : q = [n EXCEPT !.failed = @ \cup {u}]
      OBVIOUS
    <2>2. /\ q \in Pass /\ q.at = n.at /\ q.page = n.page /\ q.size = n.size /\ q.offset = n.offset
          /\ q.told = n.told /\ q.failed = n.failed \cup {u} /\ q.stayed = n.stayed /\ q.left = n.left /\ q.joined = n.joined
      BY <1>6, <1>10, <2>1 DEF Pass
    <2>3. PassHolds(q, A)
      BY <1>10, <1>12, <2>2
    <2>4. ntWork' = [ntWork EXCEPT ![w] = q]
      BY <1>17, <2>1
    <2> QED
      BY <1>1, <1>13, <2>3, <2>4, PassMoves
  <1> QED
    BY <1>2, <1>3, <1>9, <1>15, <1>16, <1>17 DEF Notifications!Deliver

LEMMA PassEnds ==
  ASSUME NewsPassInv, NEW w \in NewsWorkers, Notifications!Ack(w) \/ Notifications!Fails(w)
  PROVE  NewsPassInv'
  <1>1. Notifications!NoPass \in Pass /\ Notifications!NoPass.at = "idle" /\ Notifications!NoPass.page = {}
    BY DEF Notifications!NoPass, Pass
  <1>2. PassHolds(Notifications!NoPass, Notifications!Audience)
    BY <1>1 DEF PassHolds
  <1>3. ntWork' = [ntWork EXCEPT ![w] = Notifications!NoPass] /\ UNCHANGED ntSet
    BY DEF Notifications!Ack, Notifications!Fails
  <1> QED
    BY <1>2, <1>3, PassMoves

\* Who joins moves nobody up; who leaves moves those behind up by one, of whom one at most comes
\* below the offset.
LEMMA PassSeesJoin ==
  ASSUME NEW A \in SUBSET Notifications!Accounts, NEW B \in SUBSET Notifications!Accounts, IsFiniteSet(B), A \subseteq B, B \subseteq Nat,
         NEW r \in Pass, NEW q \in Pass, PassHolds(r, A),
         q.at = r.at, q.page = r.page, q.size = r.size, q.offset = r.offset, q.told = r.told,
         q.failed = r.failed, q.stayed = r.stayed, q.left = r.left,
         q.joined = r.joined + 1 \/ (q.joined = r.joined /\ A = B)
  PROVE  PassHolds(q, B)
  <1> SUFFICES ASSUME r.at # "idle" PROVE Reached(q, B) /\ ToldFew(q, B)
    BY DEF PassHolds
  <1>1. Reached(r, A) /\ ToldFew(r, A) /\ r.offset \in Nat /\ r.left \in Nat /\ r.joined \in Nat
    BY DEF PassHolds, Pass
  <1>2. \A x : Rank(A, x) <= Rank(B, x) /\ Rank(A, x) \in Nat /\ Rank(B, x) \in Nat
    BY RankKept
  <1>3. IsFiniteSet(A) /\ r.stayed \subseteq A
    BY <1>1, FS_Subset DEF Reached
  <1>4. Missed(q, B) \in SUBSET Missed(r, A)
    <2>1. ASSUME NEW x, Past(q, B, x) PROVE Past(r, A, x)
      BY <1>1, <1>2, <2>1 DEF Past, Last
    <2> QED
      BY <2>1 DEF Missed
  <1>5. Cardinality(Missed(q, B)) <= r.left
    BY <1>1, <1>3, <1>4, MissedFinite, NoMore DEF Reached
  <1>6. ASSUME NEW u \in Notifications!Accounts
        PROVE  Times(q, u) <= q.joined + 1 /\ (~ (Rank(B, u) < q.offset) => Times(q, u) <= q.joined)
    <2>1. Times(q, u) = Times(r, u) /\ Times(r, u) \in Nat
      BY DEF Times, Pass
    <2>2. Times(r, u) <= r.joined + 1 /\ (~ (Rank(A, u) < r.offset) => Times(r, u) <= r.joined)
      BY <1>1 DEF ToldFew
    <2> QED
      BY <1>1, <2>1, <2>2
  <1> QED
    BY <1>1, <1>3, <1>5, <1>6 DEF Reached, ToldFew

LEMMA PassSeesLeave ==
  ASSUME NEW A \in SUBSET Notifications!Accounts, IsFiniteSet(A), A \subseteq Nat, NEW y \in A,
         NEW r \in Pass, NEW q \in Pass, PassHolds(r, A),
         q.at = r.at, q.page = r.page, q.size = r.size, q.offset = r.offset, q.told = r.told,
         q.failed = r.failed, q.stayed = r.stayed \ {y}, q.left = r.left + 1, q.joined = r.joined
  PROVE  PassHolds(q, A \ {y})
  <1> SUFFICES ASSUME r.at # "idle" PROVE Reached(q, A \ {y}) /\ ToldFew(q, A \ {y})
    BY DEF PassHolds
  <1> DEFINE B == A \ {y}
  <1>1. Reached(r, A) /\ ToldFew(r, A) /\ r.offset \in Nat /\ r.left \in Nat /\ r.joined \in Nat
    BY DEF PassHolds, Pass
  <1>2. \A x : Rank(B, x) <= Rank(A, x) /\ Rank(A, x) <= Rank(B, x) + 1 /\ Rank(A, x) \in Nat /\ Rank(B, x) \in Nat
    BY RankKept, RankDrops
  <1>3. r.stayed \subseteq A /\ Cardinality(Missed(r, A)) <= r.left /\ IsFiniteSet(Missed(r, A))
    BY <1>1, MissedFinite DEF Reached
  <1>4. ASSUME NEW x \in Missed(q, B), x \notin Missed(r, A) PROVE x \in A /\ Rank(A, x) = r.offset
    <2>1. x \in r.stayed /\ Past(q, B, x) /\ ~ Past(r, A, x)
      BY <1>4 DEF Missed
    <2>2. Rank(B, x) < r.offset /\ ~ (Rank(A, x) < r.offset)
      BY <2>1 DEF Past, Last
    <2>3. Rank(A, x) <= Rank(B, x) + 1 /\ Rank(A, x) \in Nat /\ Rank(B, x) \in Nat
      BY <1>2
    <2>4. Rank(A, x) = r.offset
      BY <1>1, <2>2, <2>3
    <2> QED
      BY <1>3, <2>1, <2>4
  <1>5. \A u, v \in A : Rank(A, u) = r.offset /\ Rank(A, v) = r.offset => u = v
    <2> SUFFICES ASSUME NEW u \in A, NEW v \in A, Rank(A, u) = Rank(A, v), u # v PROVE FALSE
      OBVIOUS
    <2>1. u \in Nat /\ v \in Nat
      OBVIOUS
    <2>2. u < v \/ v < u
      BY <2>1
    <2>3. Rank(A, u) < Rank(A, v) \/ Rank(A, v) < Rank(A, u)
      BY <2>2, RankGrows
    <2> QED
      BY <1>2, <2>3
  <1>6. \E x : Missed(q, B) \in SUBSET (Missed(r, A) \cup {x})
    <2>1. CASE Missed(q, B) \subseteq Missed(r, A)
      BY <2>1
    <2>2. CASE ~ (Missed(q, B) \subseteq Missed(r, A))
      <3>1. PICK x \in Missed(q, B) : x \notin Missed(r, A)
        BY <2>2
      <3>2. \A v \in Missed(q, B) : v \in Missed(r, A) \/ v = x
        BY <1>4, <1>5, <3>1
      <3> QED
        BY <3>2
    <2> QED
      BY <2>1, <2>2
  <1>7. Cardinality(Missed(q, B)) <= r.left + 1
    BY <1>1, <1>3, <1>6, OneMore
  <1>8. ASSUME NEW u \in Notifications!Accounts
        PROVE  Times(q, u) <= q.joined + 1 /\ (~ (Rank(B, u) < q.offset) => Times(q, u) <= q.joined)
    <2>1. Times(q, u) = Times(r, u)
      BY DEF Times
    <2>2. Times(r, u) <= r.joined + 1 /\ (~ (Rank(A, u) < r.offset) => Times(r, u) <= r.joined)
      BY <1>1 DEF ToldFew
    <2>3. ~ (Rank(B, u) < r.offset) => ~ (Rank(A, u) < r.offset)
      BY <1>1, <1>2
    <2> QED
      BY <2>1, <2>2, <2>3
  <1> QED
    BY <1>3, <1>7, <1>8 DEF Reached, ToldFew

LEMMA PassSeesSettings ==
  ASSUME NewsPassInv, NEW u \in Notifications!Accounts, NEW on \in BOOLEAN, NEW quiet \in BOOLEAN, Notifications!updateSettings(u, on, quiet)
  PROVE  NewsPassInv'
  <1>1. PICK A : A = Notifications!Audience
    OBVIOUS
  <1>2. PICK B : B = {v \in Notifications!Accounts : IF v = u THEN on ELSE ntSet[v].news}
    OBVIOUS
  <1>3. /\ ntSet' \in [Notifications!Accounts -> [news : BOOLEAN, quiet : BOOLEAN]]
        /\ \A v \in Notifications!Accounts : ntSet'[v].news = IF v = u THEN on ELSE ntSet[v].news
    BY DEF Notifications!updateSettings, Notifications!UpdateSettings, NewsPassInv
  <1>4. Notifications!Audience' = B
    BY <1>2, <1>3 DEF Notifications!Audience
  <1>5. IsFiniteSet(A) /\ IsFiniteSet(B) /\ A \in SUBSET Notifications!Accounts /\ B \in SUBSET Notifications!Accounts /\ Notifications!Accounts \in SUBSET Nat
    <2>1. IsFiniteSet(Notifications!Accounts) /\ Notifications!Accounts \in SUBSET Nat
      BY AudiencePages, FS_Interval DEF Notifications!Accounts
    <2>2. A \in SUBSET Notifications!Accounts /\ B \in SUBSET Notifications!Accounts
      BY <1>1, <1>2 DEF Notifications!Audience
    <2> QED
      BY <2>1, <2>2, FS_Subset
  <1>6. ntSet[u].news \in BOOLEAN
    BY DEF NewsPassInv
  <1> DEFINE leaves == ntSet[u].news /\ ~on
             joins == ~ntSet[u].news /\ on
  <1>7. leaves => u \in A /\ B = A \ {u}
    BY <1>1, <1>2 DEF Notifications!Audience
  <1>8. ~ leaves => A \subseteq B /\ (joins \/ A = B)
    BY <1>1, <1>2, <1>6 DEF Notifications!Audience
  <1>9. ASSUME NEW w \in NewsWorkers
        PROVE  ntWork'[w] \in Pass /\ PassHolds(ntWork'[w], B)
    <2>1. PICK r : r = ntWork[w]
      OBVIOUS
    <2>2. PassHolds(r, A) /\ r \in Pass
      BY <1>1, <2>1 DEF NewsPassInv, PassHolds
    <2>3. CASE r.at = "idle"
      <3>1. ntWork'[w] = r
        BY <2>1, <2>3 DEF Notifications!updateSettings, Notifications!Noted, Notifications!At
      <3> QED
        BY <2>2, <2>3, <3>1 DEF PassHolds
    <2>4. CASE r.at # "idle"
      <3>1. PICK q : q = ntWork'[w]
        OBVIOUS
      <3>2. q = [r EXCEPT !.stayed = IF leaves THEN @ \ {u} ELSE @,
                          !.left = IF leaves THEN @ + 1 ELSE @,
                          !.joined = IF joins THEN @ + 1 ELSE @]
        BY <2>1, <2>4, <3>1 DEF Notifications!updateSettings, Notifications!Noted, Notifications!At
      <3>3. CASE leaves
        <4>1. q = [r EXCEPT !.stayed = r.stayed \ {u}, !.left = r.left + 1]
          BY <2>2, <3>2, <3>3 DEF Pass
        <4>2. r.stayed \ {u} \in SUBSET Notifications!Accounts /\ r.left + 1 \in Nat
          BY <2>2 DEF Pass
        <4>3. /\ q \in Pass /\ q.at = r.at /\ q.page = r.page /\ q.size = r.size /\ q.offset = r.offset
              /\ q.told = r.told /\ q.failed = r.failed /\ q.stayed = r.stayed \ {u} /\ q.left = r.left + 1
              /\ q.joined = r.joined
          BY <2>2, <4>1, <4>2 DEF Pass
        <4>4. A \subseteq Nat /\ u \in A /\ B = A \ {u}
          BY <1>5, <1>7, <3>3
        <4>5. PassHolds(q, A \ {u})
          BY <1>5, <2>2, <4>3, <4>4, PassSeesLeave
        <4> QED
          BY <3>1, <4>3, <4>4, <4>5
      <3>4. CASE ~ leaves /\ joins
        <4>1. q = [r EXCEPT !.joined = r.joined + 1]
          BY <2>2, <3>2, <3>4 DEF Pass
        <4>2. /\ q \in Pass /\ q.at = r.at /\ q.page = r.page /\ q.size = r.size /\ q.offset = r.offset
              /\ q.told = r.told /\ q.failed = r.failed /\ q.stayed = r.stayed /\ q.left = r.left
              /\ q.joined = r.joined + 1
          BY <2>2, <4>1 DEF Pass
        <4>3. B \subseteq Nat /\ A \subseteq B
          BY <1>5, <1>8, <3>4
        <4> QED
          BY <1>5, <2>2, <3>1, <4>2, <4>3, PassSeesJoin
      <3>5. CASE ~ leaves /\ ~ joins
        <4>1. q = r
          BY <2>2, <3>2, <3>5 DEF Pass
        <4>2. A = B
          BY <1>8, <3>5
        <4> QED
          BY <2>2, <3>1, <4>1, <4>2
      <3> QED
        BY <3>3, <3>4, <3>5
    <2> QED
      BY <2>3, <2>4
  <1>10. DOMAIN ntWork' = NewsWorkers /\ ntWork' = [w \in DOMAIN ntWork' |-> ntWork'[w]]
    BY DEF Notifications!updateSettings, Notifications!Noted
  <1>11. ntWork' \in [NewsWorkers -> Pass]
    BY <1>9, <1>10
  <1> QED
    BY <1>3, <1>4, <1>9, <1>11 DEF NewsPassInv

LEMMA NewsPassStutters == ASSUME NewsPassInv, UNCHANGED <<ntSet, ntWork>> PROVE NewsPassInv'
  <1>1. Notifications!Audience' = Notifications!Audience
    BY DEF Notifications!Audience
  <1> QED
    BY <1>1 DEF NewsPassInv

LEMMA NewsPassNext == ASSUME NewsPassInv, Notifications!Next PROVE NewsPassInv'
  <1>1. ASSUME \/ \E u \in Notifications!Accounts : Notifications!handlePushSend(u)
               \/ \E t \in Tokens : Notifications!Send(t) \/ Notifications!unregisterToken(t) \/ Notifications!RevokeDevice(t)
               \/ Notifications!Sent
               \/ \E t \in Tokens, u \in Notifications!Accounts : Notifications!registerToken(t, u)
               \/ \E u \in Notifications!Accounts : \E n \in 0 .. ntUnread[u] - 1 : Notifications!markRead(u, n)
        PROVE  NewsPassInv'
    <2>1. UNCHANGED <<ntSet, ntWork>>
      BY <1>1 DEF Notifications!handlePushSend, Notifications!Send, Notifications!unregisterToken, Notifications!RevokeDevice, Notifications!Sent, Notifications!registerToken, Notifications!markRead
    <2> QED
      BY <2>1, NewsPassStutters
  <1> QED
    BY <1>1, PassStarts, PassReads, PassDelivers, PassEnds, PassSeesSettings DEF Notifications!Next

\* For any audience, page size and number of deliveries of the job, a pass misses no more of the people
\* who stay subscribed than leave while it runs, and tells nobody more often than once and once for
\* each who joins (handleNewsPublish, BreakingNewsAudience).
THEOREM AudienceTold == Spec => []SubscribersAreTold
  <1> DEFINE Holds == active = "notifications" => NewsPassInv
  <1>1. Init => Holds
    BY NewsPassInit DEF Init
  <1>2. Holds /\ [Next]_<<active, shared>> => Holds'
    <2> SUFFICES ASSUME active = "notifications", NewsPassInv, [Next]_<<active, shared>> PROVE NewsPassInv'
      BY OneMoves
    <2>1. CASE Notifications!Next
      BY <2>1, NewsPassNext
    <2>2. CASE UNCHANGED shared
      BY <2>2, NewsPassStutters DEF shared
    <2> QED
      BY <2>1, <2>2, OneMoves
  <1>3. Holds => SubscribersAreTold
    BY NewsPassInvImplies DEF SubscribersAreTold
  <1> QED
    BY <1>1, <1>2, <1>3, PTL DEF Spec

-----------------------------------------------------------------------------
(***************************************************************************)
(* Media: a file is vouched for when its content is as declared, all its   *)
(* parts are there and its bytes are stored, or the scanner condemned it.  *)
(* That stays so; a request about to finalize has seen it, and every job,  *)
(* worker and scan result is of a file that was finalized.                 *)
(***************************************************************************)
mdRow == x1
mdSess == x2
mdParts == x3
mdStore == x4
mdQueue == x5
mdReq == x6
mdWork == x7
mdTruth == x8
USE DEF mdRow, mdSess, mdParts, mdStore, mdQueue, mdReq, mdWork, mdTruth

\* The component counts with its own copy of Cardinality.
LEMMA MediaCard == \A S : Media!Cardinality(S) = Cardinality(S)
  BY DEF Media!Cardinality, Cardinality

MediaRow == [kind : {"none", "file", "image", "voice", "video"}, process : {"pending", "processing", "ready", "failed"},
             scan : {"pending", "skipped", "clean", "failed", "infected"}, final : BOOLEAN, deleted : BOOLEAN]
StoreRow == [upload : {"none", "open", "completed", "aborted"}, object : BOOLEAN,
             variants : SUBSET {"image", "opus", "poster", "rendition"}]
Full == Cardinality(mdParts) = TotalParts
Vouched == mdTruth.honest /\ Full /\ (mdStore.object \/ (mdTruth.infected /\ Media!Scanning # "off"))

FileTables ==
    /\ mdRow \in MediaRow /\ mdStore \in StoreRow /\ mdParts \subseteq 1 .. TotalParts
    /\ mdRow.scan # "pending" => mdRow.final
    /\ mdRow.final => Vouched

UploadsRight ==
    /\ DOMAIN mdReq = Handlers
    /\ \A h \in Handlers :
          /\ mdReq[h] \in {"assemble", "check"} => Full
          /\ mdReq[h] = "finalize" => Vouched
          /\ mdReq[h] \in {"complete", "publish"} => mdRow.final

MediaWork == [at : {"idle", "load", "scan", "infected", "derive", "poster", "renditions", "record", "ready", "failed"},
              job : {"first", "retry"}]

QueueRight == DOMAIN mdQueue = Media!Jobs /\ \A j \in Media!Jobs : mdQueue[j] # 0 => mdRow.final

WorkRight ==
    /\ mdWork \in [Workers -> MediaWork]
    /\ \A w \in Workers : mdWork[w].at # "idle" => mdRow.final

MediaInv == FileTables /\ UploadsRight /\ QueueRight /\ WorkRight

LEMMA MediaInvImplies == MediaInv => Media!VerifiedMediaIsStored
  BY MediaCard DEF MediaInv, FileTables, Vouched, Full, Media!VerifiedMediaIsStored

LEMMA MediaInit == Media!Init => MediaInv
  <1> SUFFICES ASSUME Media!Init PROVE MediaInv
    OBVIOUS
  <1>1. FileTables
    BY DEF Media!Init, FileTables, MediaRow, StoreRow
  <1>2. UploadsRight /\ QueueRight
    BY DEF Media!Init, UploadsRight, QueueRight
  <1>3. WorkRight
    BY DEF Media!Init, WorkRight, Media!NoWork, MediaWork
  <1> QED
    BY <1>1, <1>2, <1>3 DEF MediaInv

\* All the parts there can be stay all the parts there are.
LEMMA FullStays ==
  ASSUME MediaInv, Full, NEW n \in 1 .. TotalParts
  PROVE  mdParts \cup {n} = mdParts
  <1>1. IsFiniteSet(1 .. TotalParts) /\ Cardinality(1 .. TotalParts) = TotalParts
    BY PartsNumber, FS_Interval
  <1>2. mdParts \subseteq 1 .. TotalParts
    BY DEF MediaInv, FileTables
  <1>3. mdParts = 1 .. TotalParts
    BY <1>1, <1>2, FS_Subset DEF Full
  <1> QED
    BY <1>3

\* What a step has to show: the rest of the invariant follows.
LEMMA MediaSteps ==
  ASSUME MediaInv, mdRow' \in MediaRow, mdStore' \in StoreRow, mdParts' \subseteq 1 .. TotalParts,
         Full => Full', Vouched => Vouched', mdRow.final => mdRow'.final,
         mdRow'.final => mdRow.final \/ Vouched, mdRow'.scan # "pending" => mdRow'.final,
         UNCHANGED mdReq \/ UploadsRight', UNCHANGED mdQueue \/ QueueRight', UNCHANGED mdWork \/ WorkRight'
  PROVE  MediaInv'
  <1>1. FileTables'
    BY DEF MediaInv, FileTables
  <1>2. UploadsRight'
    BY DEF MediaInv, UploadsRight
  <1>3. QueueRight'
    BY DEF MediaInv, QueueRight
  <1>4. WorkRight'
    BY DEF MediaInv, WorkRight
  <1> QED
    BY <1>1, <1>2, <1>3, <1>4 DEF MediaInv

\* A step that leaves the file, its parts and its bytes alone.
LEMMA FileStays ==
  ASSUME MediaInv, UNCHANGED <<mdRow, mdParts, mdTruth>>, mdStore' \in StoreRow, mdStore'.object = mdStore.object
  PROVE  /\ mdParts' \subseteq 1 .. TotalParts /\ mdRow' \in MediaRow
         /\ (Full => Full') /\ (Vouched => Vouched') /\ (mdRow.final => mdRow'.final)
         /\ (mdRow'.final => mdRow.final \/ Vouched) /\ (mdRow'.scan # "pending" => mdRow'.final)
  <1>1. (Full => Full') /\ (Vouched => Vouched')
    BY DEF Full, Vouched, Media!Scanning
  <1> QED
    BY <1>1 DEF MediaInv, FileTables

\* A step that writes the file's row and nothing else of it; it finalizes only what is vouched for.
LEMMA RowWritten ==
  ASSUME MediaInv, NEW row \in MediaRow, mdRow' = row, UNCHANGED <<mdStore, mdParts, mdTruth>>,
         mdRow.final => row.final, row.final => mdRow.final \/ Vouched, row.scan # "pending" => row.final
  PROVE  /\ mdParts' \subseteq 1 .. TotalParts /\ mdRow' \in MediaRow /\ mdStore' \in StoreRow
         /\ (Full => Full') /\ (Vouched => Vouched') /\ (mdRow.final => mdRow'.final)
         /\ (mdRow'.final => mdRow.final \/ Vouched) /\ (mdRow'.scan # "pending" => mdRow'.final)
  <1>1. (Full => Full') /\ (Vouched => Vouched')
    BY DEF Full, Vouched, Media!Scanning
  <1> QED
    BY <1>1 DEF MediaInv, FileTables

LEMMA UploadMoves ==
  ASSUME MediaInv, NEW h \in Handlers, NEW at, Media!Goto(h, at),
         Full => Full', Vouched => Vouched', mdRow.final => mdRow'.final,
         at \in {"assemble", "check"} => Full, at = "finalize" => Vouched,
         at \in {"complete", "publish"} => mdRow'.final
  PROVE  UploadsRight'
  <1>1. DOMAIN mdReq' = Handlers /\ mdReq'[h] = at /\ \A g \in Handlers : g # h => mdReq'[g] = mdReq[g]
    BY DEF Media!Goto, MediaInv, UploadsRight
  <1> QED
    BY <1>1 DEF MediaInv, UploadsRight

LEMMA WorkMoves ==
  ASSUME MediaInv, NEW w \in Workers, NEW at, Media!Step(w, at), mdWork[w].at # "idle", mdRow.final => mdRow'.final,
         at \in {"idle", "scan", "infected", "derive", "poster", "renditions", "record", "ready", "failed"}
  PROVE  WorkRight' /\ mdRow.final
  <1>1. PICK r \in MediaWork : r = mdWork[w]
    BY DEF MediaInv, WorkRight
  <1>2. PICK q : q = [r EXCEPT !.at = at]
    OBVIOUS
  <1>3. q \in MediaWork
    BY <1>1, <1>2 DEF MediaWork
  <1>4. mdWork' = [mdWork EXCEPT ![w] = q] /\ mdRow.final
    BY <1>1, <1>2 DEF Media!Step, MediaInv, WorkRight
  <1> QED
    BY <1>3, <1>4 DEF MediaInv, WorkRight

LEMMA Acknowledged ==
  ASSUME MediaInv, NEW w \in Workers, Media!Ack(w), mdWork[w].at # "idle", mdRow.final => mdRow'.final
  PROVE  WorkRight' /\ QueueRight'
  <1>1. WorkRight' /\ mdRow.final
    BY WorkMoves DEF Media!Ack
  <1>2. DOMAIN mdQueue' = DOMAIN mdQueue
    BY DEF Media!Ack
  <1> QED
    BY <1>1, <1>2 DEF MediaInv, QueueRight

LEMMA MediaStutters ==
  ASSUME MediaInv, UNCHANGED <<mdRow, mdParts, mdStore, mdQueue, mdReq, mdWork, mdTruth>>
  PROVE  MediaInv'
  <1>1. mdStore' \in StoreRow /\ mdStore'.object = mdStore.object
    BY DEF MediaInv, FileTables
  <1> QED
    BY <1>1, FileStays, MediaSteps

\* The actions that touch the session, the row or storage on nobody's behalf.
LEMMA FileActions ==
  ASSUME MediaInv,
         \/ \E kind \in {"file", "image", "voice", "video"} : Media!CreateUpload(kind)
         \/ \E n \in 1 .. TotalParts : Media!RecordPart(n)
         \/ Media!AbortUpload \/ Media!Delete \/ Media!Lapse \/ Media!Expired \/ Media!reapExpiredUploads \/ Media!retryStrandedMedia
  PROVE  MediaInv'
  <1>r. PICK r \in MediaRow : r = mdRow
    BY DEF MediaInv, FileTables
  <1>s. PICK s \in StoreRow : s = mdStore
    BY DEF MediaInv, FileTables
  <1>f. (mdRow.scan # "pending" => mdRow.final) /\ (mdRow.final => Vouched) /\ mdParts \subseteq 1 .. TotalParts
    BY DEF MediaInv, FileTables
  <1>1. ASSUME NEW kind \in {"file", "image", "voice", "video"}, Media!CreateUpload(kind) PROVE MediaInv'
    <2>1. PICK q : q = [r EXCEPT !.kind = kind]
      OBVIOUS
    <2>2. q \in MediaRow /\ q.final = r.final /\ q.scan = r.scan
      BY <2>1 DEF MediaRow
    <2>3. PICK t : t = [s EXCEPT !.upload = "open"]
      OBVIOUS
    <2>4. t \in StoreRow /\ t.object = s.object
      BY <2>3 DEF StoreRow
    <2>5. mdRow' = q /\ mdStore' = t /\ UNCHANGED <<mdParts, mdQueue, mdReq, mdWork, mdTruth>>
      BY <1>1, <1>r, <1>s, <2>1, <2>3 DEF Media!CreateUpload
    <2>6. (Full => Full') /\ (Vouched => Vouched')
      BY <2>4, <2>5, <1>s DEF Full, Vouched, Media!Scanning
    <2> QED
      BY <2>2, <2>4, <2>5, <2>6, <1>r, <1>f, MediaSteps
  <1>2. ASSUME NEW n \in 1 .. TotalParts, Media!RecordPart(n) PROVE MediaInv'
    <2>1. mdParts' = mdParts \cup {n} /\ UNCHANGED <<mdRow, mdStore, mdQueue, mdReq, mdWork, mdTruth>>
      BY <1>2 DEF Media!RecordPart
    <2>2. Full => mdParts' = mdParts
      BY <2>1, FullStays
    <2>3. (Full => Full') /\ (Vouched => Vouched')
      BY <2>1, <2>2 DEF Full, Vouched, Media!Scanning
    <2> QED
      BY <2>1, <2>3, <1>r, <1>s, <1>f, MediaSteps
  <1>3. ASSUME Media!AbortUpload \/ Media!reapExpiredUploads PROVE MediaInv'
    <2>1. PICK u : u = IF s.upload = "open" THEN "aborted" ELSE s.upload
      OBVIOUS
    <2>2. PICK t : t = [s EXCEPT !.upload = u]
      OBVIOUS
    <2>3. t \in StoreRow /\ t.object = s.object
      BY <2>1, <2>2 DEF StoreRow
    <2>4. mdStore' = t /\ UNCHANGED <<mdRow, mdParts, mdQueue, mdReq, mdWork, mdTruth>>
      BY <1>3, <1>s, <2>1, <2>2 DEF Media!AbortUpload, Media!reapExpiredUploads, Media!AbortMultipartUpload
    <2> QED
      BY <2>3, <2>4, <1>s, FileStays, MediaSteps
  <1>4. ASSUME Media!Delete PROVE MediaInv'
    <2>1. PICK q : q = [r EXCEPT !.deleted = TRUE]
      OBVIOUS
    <2>2. q \in MediaRow /\ q.final = r.final /\ q.scan = r.scan
      BY <2>1 DEF MediaRow
    <2>3. mdRow' = q /\ UNCHANGED <<mdStore, mdParts, mdQueue, mdReq, mdWork, mdTruth>>
      BY <1>4, <1>r, <2>1 DEF Media!Delete
    <2>4. mdRow.final => q.final
      BY <2>2, <1>r
    <2>5. (q.final => mdRow.final \/ Vouched) /\ (q.scan # "pending" => q.final)
      BY <2>2, <1>r, <1>f
    <2> QED
      BY <2>2, <2>3, <2>4, <2>5, RowWritten, MediaSteps
  <1>5. ASSUME Media!Lapse \/ Media!Expired PROVE MediaInv'
    BY <1>5, MediaStutters DEF Media!Lapse, Media!Expired
  <1>6. ASSUME Media!retryStrandedMedia PROVE MediaInv'
    <2>1. mdRow.final
      BY <1>6, <1>f DEF Media!retryStrandedMedia, Media!PendingProcessing
    <2>2. DOMAIN mdQueue' = DOMAIN mdQueue /\ UNCHANGED <<mdRow, mdStore, mdParts, mdReq, mdWork, mdTruth>>
      BY <1>6 DEF Media!retryStrandedMedia, Media!PublishJob
    <2>3. QueueRight'
      BY <2>1, <2>2 DEF MediaInv, QueueRight
    <2> QED
      BY <2>2, <2>3, <1>s, FileStays, MediaSteps
  <1> QED
    BY <1>1, <1>2, <1>3, <1>4, <1>5, <1>6

LEMMA UploadActions ==
  ASSUME MediaInv, NEW h \in Handlers,
         \/ Media!completeUpload(h) \/ Media!CompleteMultipartUpload(h) \/ Media!CheckContent(h) \/ Media!Finalize(h)
         \/ Media!CompleteUpload(h) \/ Media!Enqueue(h) \/ Media!Abandon(h)
  PROVE  MediaInv'
  <1>r. PICK r \in MediaRow : r = mdRow
    BY DEF MediaInv, FileTables
  <1>s. PICK s \in StoreRow : s = mdStore
    BY DEF MediaInv, FileTables
  <1>f. (mdRow.scan # "pending" => mdRow.final) /\ (mdRow.final => Vouched) /\ mdParts \subseteq 1 .. TotalParts
    BY DEF MediaInv, FileTables
  <1>g. DOMAIN mdReq = Handlers /\ (mdReq[h] \in {"assemble", "check"} => Full)
        /\ (mdReq[h] = "finalize" => Vouched) /\ (mdReq[h] \in {"complete", "publish"} => mdRow.final)
    BY DEF MediaInv, UploadsRight
  <1>1. ASSUME Media!completeUpload(h) \/ Media!Abandon(h) \/ Media!CompleteUpload(h) PROVE MediaInv'
    <2>1. UNCHANGED <<mdRow, mdStore, mdParts, mdQueue, mdWork, mdTruth>>
      BY <1>1 DEF Media!completeUpload, Media!Abandon, Media!CompleteUpload
    <2>2. mdStore' \in StoreRow /\ mdStore'.object = mdStore.object
      BY <2>1, <1>s
    <2>3. PICK at : Media!Goto(h, at) /\ at \in {"assemble", "idle", "publish"}
                    /\ (at = "assemble" => Full) /\ (at = "publish" => mdRow.final)
      <3>1. CASE Media!completeUpload(h)
        BY <3>1, MediaCard DEF Media!completeUpload, Full
      <3>2. CASE Media!Abandon(h)
        BY <3>2 DEF Media!Abandon
      <3>3. CASE Media!CompleteUpload(h)
        BY <3>3, <1>g DEF Media!CompleteUpload, Media!In
      <3> QED
        BY <1>1, <3>1, <3>2, <3>3
    <2>4. UploadsRight'
      BY <2>1, <2>2, <2>3, FileStays, UploadMoves
    <2> QED
      BY <2>1, <2>2, <2>4, FileStays, MediaSteps
  <1>2. ASSUME Media!Enqueue(h) PROVE MediaInv'
    <2>1. UNCHANGED <<mdRow, mdStore, mdParts, mdWork, mdTruth>> /\ Media!Goto(h, "idle") /\ mdRow.final
      BY <1>2, <1>g DEF Media!Enqueue, Media!In
    <2>2. mdStore' \in StoreRow /\ mdStore'.object = mdStore.object
      BY <2>1, <1>s
    <2>3. UploadsRight'
      BY <2>1, <2>2, FileStays, UploadMoves
    <2>4. DOMAIN mdQueue' = DOMAIN mdQueue
      BY <1>2 DEF Media!Enqueue, Media!PublishJob
    <2>5. QueueRight'
      BY <2>1, <2>4 DEF MediaInv, QueueRight
    <2> QED
      BY <2>1, <2>2, <2>3, <2>5, FileStays, MediaSteps
  <1>3. ASSUME Media!CompleteMultipartUpload(h) PROVE MediaInv'
    <2>1. UNCHANGED <<mdRow, mdParts, mdQueue, mdWork, mdTruth>> /\ Full
      BY <1>3, <1>g DEF Media!CompleteMultipartUpload, Media!In
    <2>2. PICK t, at : /\ Media!Goto(h, at) /\ mdStore' = t /\ at \in {"check", "idle"}
                       /\ t \in StoreRow /\ (s.object => t.object)
      <3>1. CASE s.upload = "open"
        <4>1. PICK t : t = [s EXCEPT !.upload = "completed", !.object = TRUE]
          OBVIOUS
        <4>2. t \in StoreRow /\ t.object
          BY <4>1 DEF StoreRow
        <4>3. mdStore' = t /\ Media!Goto(h, "check")
          BY <1>3, <3>1, <4>1, <1>s DEF Media!CompleteMultipartUpload
        <4> QED
          BY <4>2, <4>3
      <3>2. CASE s.upload # "open"
        BY <1>3, <3>2, <1>s DEF Media!CompleteMultipartUpload
      <3> QED
        BY <3>1, <3>2
    <2>3. (Full => Full') /\ (Vouched => Vouched')
      BY <2>1, <2>2, <1>s DEF Full, Vouched, Media!Scanning
    <2>4. UploadsRight'
      BY <2>1, <2>2, <2>3, UploadMoves
    <2> QED
      BY <2>1, <2>2, <2>3, <2>4, <1>r, <1>f, MediaSteps
  <1>4. ASSUME Media!CheckContent(h) PROVE MediaInv'
    <2>1. UNCHANGED <<mdRow, mdParts, mdQueue, mdWork, mdTruth>> /\ Full
      BY <1>4, <1>g DEF Media!CheckContent, Media!In
    <2>2. CASE ~mdStore.object \/ mdTruth.honest
      <3>1. UNCHANGED mdStore
        BY <1>4, <2>2 DEF Media!CheckContent
      <3>2. mdStore' \in StoreRow /\ mdStore'.object = mdStore.object
        BY <3>1, <1>s
      <3>3. PICK at : Media!Goto(h, at) /\ at \in {"idle", "finalize"} /\ (at = "finalize" => Vouched)
        BY <1>4, <2>1, <2>2 DEF Media!CheckContent, Vouched
      <3>4. UploadsRight'
        BY <2>1, <3>2, <3>3, FileStays, UploadMoves
      <3> QED
        BY <2>1, <3>2, <3>4, FileStays, MediaSteps
    <2>3. CASE mdStore.object /\ ~mdTruth.honest
      <3>1. PICK t : t = [s EXCEPT !.object = FALSE]
        OBVIOUS
      <3>2. t \in StoreRow
        BY <3>1 DEF StoreRow
      <3>3. mdStore' = t /\ Media!Goto(h, "abort")
        BY <1>4, <2>3, <3>1, <1>s DEF Media!CheckContent
      <3>4. (Full => Full') /\ ~Vouched
        BY <2>1, <2>3 DEF Full, Vouched
      <3>5. UploadsRight'
        BY <2>1, <3>3, <3>4, UploadMoves
      <3> QED
        BY <2>1, <3>2, <3>3, <3>4, <3>5, <1>r, <1>f, MediaSteps
    <2> QED
      BY <2>2, <2>3
  <1>5. ASSUME Media!Finalize(h) PROVE MediaInv'
    <2>1. UNCHANGED <<mdStore, mdParts, mdQueue, mdWork, mdTruth>> /\ Vouched /\ Media!Goto(h, "complete")
      BY <1>5, <1>g DEF Media!Finalize, Media!In
    <2>2. PICK scan : scan = IF Media!Scanning = "off" THEN "skipped" ELSE "pending"
      OBVIOUS
    <2>3. PICK q : q = [r EXCEPT !.scan = scan, !.process = "pending", !.final = TRUE]
      OBVIOUS
    <2>4. q \in MediaRow /\ q.final
      BY <2>2, <2>3 DEF MediaRow
    <2>5. mdRow' = q
      BY <1>5, <1>r, <2>2, <2>3 DEF Media!Finalize, Media!FinalizeMedia
    <2>6. (Full => Full') /\ (Vouched => Vouched') /\ mdRow'.final
      BY <2>1, <2>4, <2>5, RowWritten
    <2>7. UploadsRight'
      BY <2>1, <2>6, UploadMoves
    <2> QED
      BY <2>1, <2>4, <2>5, <2>6, <2>7, <1>s, <1>f, MediaSteps
  <1> QED
    BY <1>1, <1>2, <1>3, <1>4, <1>5

\* A worker writes the row of a file that is final: it stays final.
LEMMA WorkerWrites ==
  ASSUME MediaInv, NEW row \in MediaRow, mdRow' = row, row.final, mdRow.final,
         UNCHANGED <<mdStore, mdParts, mdTruth, mdReq>>,
         UNCHANGED mdQueue \/ QueueRight', WorkRight'
  PROVE  MediaInv'
  <1>1. (Full => Full') /\ (Vouched => Vouched')
    BY RowWritten
  <1> QED
    BY <1>1, MediaSteps DEF MediaInv, FileTables

\* A worker adds what it derived to storage; the original stays.
LEMMA WorkerStores ==
  ASSUME MediaInv, UNCHANGED <<mdRow, mdParts, mdTruth, mdReq, mdQueue>>, WorkRight',
         mdStore' \in StoreRow, mdStore'.object = mdStore.object
  PROVE  MediaInv'
  BY FileStays, MediaSteps

LEMMA VariantAdded ==
  ASSUME MediaInv, NEW v \in {"image", "opus", "poster", "rendition"},
         mdStore' = [mdStore EXCEPT !.variants = @ \cup {v}]
  PROVE  mdStore' \in StoreRow /\ mdStore'.object = mdStore.object
  <1>1. PICK s \in StoreRow : s = mdStore
    BY DEF MediaInv, FileTables
  <1>2. PICK t : t = [s EXCEPT !.variants = s.variants \cup {v}]
    OBVIOUS
  <1>3. t \in StoreRow /\ t.object = s.object
    BY <1>2 DEF StoreRow
  <1> QED
    BY <1>1, <1>2, <1>3

LEMMA WorkActions ==
  ASSUME MediaInv, NEW w \in Workers,
         \/ \E j \in Media!Jobs : Media!handleJob(w, j)
         \/ Media!handleMediaProcess(w) \/ Media!scanObject(w) \/ Media!Infected(w) \/ Media!processMedia(w)
         \/ Media!storeImageVariants(w) \/ Media!processVideo(w) \/ Media!RecordDigest(w)
         \/ Media!Ready(w) \/ Media!GiveUp(w) \/ Media!MarkFailed(w) \/ Media!Die(w)
  PROVE  MediaInv'
  <1>r. PICK r \in MediaRow : r = mdRow
    BY DEF MediaInv, FileTables
  <1>s. PICK s \in StoreRow : s = mdStore
    BY DEF MediaInv, FileTables
  <1>w. mdWork[w].at # "idle" => mdRow.final
    BY DEF MediaInv, WorkRight
  <1>1. ASSUME NEW j \in Media!Jobs, Media!handleJob(w, j) PROVE MediaInv'
    <2>1. mdRow.final /\ UNCHANGED <<mdRow, mdParts, mdStore, mdReq, mdTruth>> /\ DOMAIN mdQueue' = DOMAIN mdQueue
      BY <1>1 DEF Media!handleJob, MediaInv, QueueRight
    <2>2. QueueRight'
      BY <2>1 DEF MediaInv, QueueRight
    <2>3. WorkRight'
      BY <1>1, <2>1 DEF Media!handleJob, MediaInv, WorkRight, MediaWork, Media!Jobs
    <2> QED
      BY <2>1, <2>2, <2>3, <1>s, FileStays, MediaSteps
  <1>2. ASSUME Media!handleMediaProcess(w) PROVE MediaInv'
    <2>1. mdWork[w].at # "idle" /\ mdRow.final /\ UNCHANGED <<mdStore, mdParts, mdReq, mdTruth>>
      BY <1>2, <1>w DEF Media!handleMediaProcess, Media!At
    <2>2. CASE mdRow.deleted \/ mdRow.process = "ready"
      <3>1. Media!Ack(w) /\ UNCHANGED mdRow
        BY <1>2, <2>2 DEF Media!handleMediaProcess
      <3>2. WorkRight' /\ QueueRight'
        BY <2>1, <3>1, Acknowledged
      <3> QED
        BY <2>1, <3>1, <3>2, <1>r, WorkerWrites
    <2>3. CASE ~(mdRow.deleted \/ mdRow.process = "ready")
      <3>1. PICK q : q = [r EXCEPT !.process = "processing"]
        OBVIOUS
      <3>2. q \in MediaRow /\ q.final = r.final
        BY <3>1 DEF MediaRow
      <3>3. mdRow' = q /\ Media!Step(w, "scan") /\ UNCHANGED mdQueue
        BY <1>2, <2>3, <1>r, <3>1 DEF Media!handleMediaProcess
      <3>4. WorkRight'
        BY <2>1, <3>2, <3>3, <1>r, WorkMoves
      <3> QED
        BY <2>1, <3>2, <3>3, <3>4, <1>r, WorkerWrites
    <2> QED
      BY <2>2, <2>3
  <1>3. ASSUME Media!scanObject(w) PROVE MediaInv'
    <2>1. mdWork[w].at # "idle" /\ mdRow.final /\ UNCHANGED <<mdParts, mdQueue, mdReq, mdTruth>>
      BY <1>3, <1>w DEF Media!scanObject, Media!At
    <2>2. ASSUME NEW at \in {"derive", "infected"}, Media!Step(w, at), UNCHANGED <<mdRow, mdStore>> PROVE MediaInv'
      <3>1. WorkRight'
        BY <2>1, <2>2, WorkMoves
      <3> QED
        BY <2>1, <2>2, <3>1, <1>s, WorkerStores
    <2>3. ASSUME NEW result \in {"failed", "clean"}, Media!SetScanResult(result), Media!Step(w, "derive"), UNCHANGED mdStore
          PROVE  MediaInv'
      <3>1. PICK q : q = [r EXCEPT !.scan = result]
        OBVIOUS
      <3>2. q \in MediaRow /\ q.final = r.final
        BY <3>1 DEF MediaRow
      <3>3. mdRow' = q
        BY <2>3, <1>r, <3>1 DEF Media!SetScanResult
      <3>4. WorkRight'
        BY <2>1, <2>3, <3>2, <3>3, <1>r, WorkMoves
      <3> QED
        BY <2>1, <2>3, <3>2, <3>3, <3>4, <1>r, WorkerWrites
    <2>4. ASSUME mdTruth.infected, Media!Scanning # "off", mdStore' = [mdStore EXCEPT !.object = FALSE],
                 Media!Step(w, "infected"), UNCHANGED mdRow
          PROVE  MediaInv'
      <3>1. PICK t : t = [s EXCEPT !.object = FALSE]
        OBVIOUS
      <3>2. t \in StoreRow /\ mdStore' = t
        BY <3>1, <2>4, <1>s DEF StoreRow
      <3>3. WorkRight'
        BY <2>1, <2>4, WorkMoves
      <3>4. (Full => Full') /\ (Vouched => Vouched')
        BY <2>1, <2>4 DEF Full, Vouched, Media!Scanning
      <3> QED
        BY <2>1, <2>4, <3>2, <3>3, <3>4, <1>r, MediaSteps DEF MediaInv, FileTables
    <2>5. \/ \E at \in {"derive", "infected"} : Media!Step(w, at) /\ UNCHANGED <<mdRow, mdStore>>
          \/ \E result \in {"failed", "clean"} : Media!SetScanResult(result) /\ Media!Step(w, "derive") /\ UNCHANGED mdStore
          \/ /\ mdTruth.infected /\ Media!Scanning # "off" /\ mdStore' = [mdStore EXCEPT !.object = FALSE]
             /\ Media!Step(w, "infected") /\ UNCHANGED mdRow
      BY <1>3 DEF Media!scanObject, Media!parseClamAVResponse
    <2> QED
      BY <2>2, <2>3, <2>4, <2>5
  <1>4. ASSUME Media!Infected(w) PROVE MediaInv'
    <2>1. mdWork[w].at # "idle" /\ mdRow.final /\ UNCHANGED <<mdStore, mdParts, mdQueue, mdReq, mdTruth>>
      BY <1>4, <1>w DEF Media!Infected, Media!At
    <2>2. PICK q : q = [r EXCEPT !.scan = "infected"]
      OBVIOUS
    <2>3. q \in MediaRow /\ q.final = r.final
      BY <2>2 DEF MediaRow
    <2>4. mdRow' = q /\ Media!Step(w, "failed")
      BY <1>4, <1>r, <2>2 DEF Media!Infected, Media!SetScanResult
    <2>5. WorkRight'
      BY <2>1, <2>3, <2>4, <1>r, WorkMoves
    <2> QED
      BY <2>1, <2>3, <2>4, <2>5, <1>r, WorkerWrites
  <1>5. ASSUME Media!processMedia(w) PROVE MediaInv'
    <2>1. mdWork[w].at # "idle" /\ UNCHANGED <<mdRow, mdParts, mdQueue, mdReq, mdTruth>>
      BY <1>5 DEF Media!processMedia, Media!At
    <2>2. ASSUME NEW at \in {"record", "ready", "renditions"}, Media!Step(w, at), UNCHANGED mdStore PROVE MediaInv'
      <3>1. WorkRight'
        BY <2>1, <2>2, WorkMoves
      <3> QED
        BY <2>1, <2>2, <3>1, <1>s, WorkerStores
    <2>3. ASSUME NEW v \in {"image", "opus", "poster", "rendition"}, NEW at \in {"record", "poster"}, Media!Step(w, at),
                 mdStore' = [mdStore EXCEPT !.variants = @ \cup {v}]
          PROVE  MediaInv'
      <3>1. WorkRight'
        BY <2>1, <2>3, WorkMoves
      <3> QED
        BY <2>1, <2>3, <3>1, VariantAdded, WorkerStores
    <2>4. \/ \E at \in {"record", "ready", "renditions"} : Media!Step(w, at) /\ UNCHANGED mdStore
          \/ \E v \in {"image", "opus", "poster", "rendition"}, at \in {"record", "poster"} :
                Media!Step(w, at) /\ mdStore' = [mdStore EXCEPT !.variants = @ \cup {v}]
      <3>1. \/ Media!processImage(w) \/ Media!processVoice(w) \/ Media!posterFrame(w)
            \/ (Media!Step(w, "record") /\ UNCHANGED mdStore) \/ (Media!Step(w, "ready") /\ UNCHANGED mdStore)
        BY <1>5 DEF Media!processMedia
      <3> QED
        BY <3>1 DEF Media!processImage, Media!processVoice, Media!posterFrame
    <2> QED
      BY <2>2, <2>3, <2>4
  <1>6. ASSUME Media!storeImageVariants(w) PROVE MediaInv'
    <2>1. mdWork[w].at # "idle" /\ mdRow.final /\ UNCHANGED <<mdStore, mdParts, mdQueue, mdReq, mdTruth>>
      BY <1>6, <1>w DEF Media!storeImageVariants, Media!At
    <2>2. PICK q : q = [r EXCEPT !.process = "ready"]
      OBVIOUS
    <2>3. q \in MediaRow /\ q.final = r.final
      BY <2>2 DEF MediaRow
    <2>4. mdRow' = q /\ Media!Step(w, "renditions")
      BY <1>6, <1>r, <2>2 DEF Media!storeImageVariants, Media!MarkReady
    <2>5. WorkRight'
      BY <2>1, <2>3, <2>4, <1>r, WorkMoves
    <2> QED
      BY <2>1, <2>3, <2>4, <2>5, <1>r, WorkerWrites
  <1>7. ASSUME Media!processVideo(w) PROVE MediaInv'
    <2>1. mdWork[w].at # "idle" /\ UNCHANGED <<mdRow, mdParts, mdQueue, mdReq, mdTruth>> /\ Media!Step(w, "record")
          /\ (mdStore' = [mdStore EXCEPT !.variants = @ \cup {"rendition"}] \/ UNCHANGED mdStore)
      BY <1>7 DEF Media!processVideo, Media!At
    <2>2. WorkRight'
      BY <2>1, WorkMoves
    <2>3. CASE mdStore' = [mdStore EXCEPT !.variants = @ \cup {"rendition"}]
      BY <2>1, <2>2, <2>3, VariantAdded, WorkerStores
    <2>4. CASE UNCHANGED mdStore
      BY <2>1, <2>2, <2>4, <1>s, WorkerStores
    <2> QED
      BY <2>1, <2>3, <2>4
  <1>8. ASSUME Media!RecordDigest(w) PROVE MediaInv'
    <2>1. mdWork[w].at # "idle" /\ mdRow.final /\ UNCHANGED <<mdStore, mdParts, mdQueue, mdReq, mdTruth>>
      BY <1>8, <1>w DEF Media!RecordDigest, Media!At
    <2>2. PICK q : q = [r EXCEPT !.scan = "clean", !.process = "pending", !.final = TRUE]
      OBVIOUS
    <2>3. q \in MediaRow /\ q.final
      BY <2>2 DEF MediaRow
    <2>4. mdRow' = q /\ Media!Step(w, "ready")
      BY <1>8, <1>r, <2>2 DEF Media!RecordDigest, Media!FinalizeMedia
    <2>5. WorkRight'
      BY <2>1, <2>3, <2>4, WorkMoves
    <2> QED
      BY <2>1, <2>3, <2>4, <2>5, WorkerWrites
  <1>9. ASSUME Media!Ready(w) \/ Media!MarkFailed(w) PROVE MediaInv'
    <2>1. mdWork[w].at # "idle" /\ mdRow.final /\ UNCHANGED <<mdStore, mdParts, mdReq, mdTruth>> /\ Media!Ack(w)
      BY <1>9, <1>w DEF Media!Ready, Media!MarkFailed, Media!At
    <2>2. \/ UNCHANGED mdRow
          \/ \E p \in {"ready", "failed"} : mdRow' = [mdRow EXCEPT !.process = p]
      BY <1>9 DEF Media!Ready, Media!MarkFailed, Media!MarkReady
    <2>3. PICK q : q = mdRow'
      OBVIOUS
    <2>4. q \in MediaRow /\ q.final = r.final /\ mdRow' = q
      BY <2>2, <2>3, <1>r DEF MediaRow
    <2>5. WorkRight' /\ QueueRight'
      BY <2>1, <2>4, <1>r, Acknowledged
    <2> QED
      BY <2>1, <2>4, <2>5, <1>r, WorkerWrites
  <1>10. ASSUME Media!Die(w) \/ Media!GiveUp(w) PROVE MediaInv'
    <2>1. /\ mdWork[w].at # "idle" /\ UNCHANGED <<mdRow, mdStore, mdParts, mdQueue, mdReq, mdTruth>>
          /\ Media!Step(w, "idle") \/ Media!Step(w, "failed")
      BY <1>10 DEF Media!Die, Media!GiveUp, Media!At
    <2>2. WorkRight'
      BY <2>1, WorkMoves
    <2> QED
      BY <2>1, <2>2, <1>s, WorkerStores
  <1> QED
    BY <1>1, <1>2, <1>3, <1>4, <1>5, <1>6, <1>7, <1>8, <1>9, <1>10

LEMMA MediaNext == ASSUME MediaInv, Media!Next PROVE MediaInv'
  BY FileActions, UploadActions, WorkActions DEF Media!Next, Media!expireUploadSessions

\* For any number of requests and workers, a finalized file was assembled from all its parts and
\* keeps its bytes unless the scanner condemned them, whatever aborts, expiries, sweeps and second
\* deliveries cross it (completeUpload, AbortUpload, reapExpiredUploads, scanObject).
THEOREM MediaStored == Spec => []VerifiedMediaIsStored
  <1> DEFINE Holds == active = "media" => MediaInv
  <1>1. Init => Holds
    BY MediaInit DEF Init
  <1>2. Holds /\ [Next]_<<active, shared>> => Holds'
    <2> SUFFICES ASSUME active = "media", MediaInv, [Next]_<<active, shared>> PROVE MediaInv'
      BY OneMoves
    <2>1. CASE Media!Next
      BY <2>1, MediaNext
    <2>2. CASE UNCHANGED shared
      BY <2>2, MediaStutters DEF shared
    <2> QED
      BY <2>1, <2>2, OneMoves
  <1>3. Holds => VerifiedMediaIsStored
    BY MediaInvImplies DEF VerifiedMediaIsStored
  <1> QED
    BY <1>1, <1>2, <1>3, PTL DEF Spec

-----------------------------------------------------------------------------
(***************************************************************************)
(* Stories: a view is recorded for a story there is, and the counter of a  *)
(* story is the number of its rows in story_views.                         *)
(***************************************************************************)
stStory == x1
stViews == x2
stFriends == x3
stBook == x4
stPoster == x5
stReq == x6
stGone == x7
USE DEF stStory, stViews, stFriends, stBook, stPoster, stReq, stGone

\* The component counts with its own copy of Cardinality.
LEMMA StoriesCard == \A S : Stories!Cardinality(S) = Cardinality(S)
  BY DEF Stories!Cardinality, Cardinality

StoryRow == [by : People \cup {"nobody"}, channel : BOOLEAN, privacy : Stories!Privacies, allow : SUBSET People,
             deny : SUBSET People, views : Nat, deleted : BOOLEAN, expired : BOOLEAN]
StoryRequest == [at : {"idle", "view"}, story : Stories!StoryIds \cup {0}, viewer : People \cup {"nobody"}]
ViewsOf(s) == {v \in stViews : v[1] = s}

StoryTables ==
    /\ stStory \in [Stories!StoryIds -> StoryRow]
    /\ stViews \subseteq Stories!StoryIds \X People
    /\ stReq \in [Handlers -> StoryRequest]
    /\ \A h \in Handlers : Stories!In(h, "view") => stReq[h].story \in Stories!StoryIds /\ stReq[h].viewer \in People

StoryInv ==
    /\ StoryTables
    /\ \A s \in Stories!StoryIds : stStory[s].views = Cardinality(ViewsOf(s)) /\ IsFiniteSet(ViewsOf(s))

LEMMA NoStoryShape ==
  /\ Stories!NoStory \in StoryRow /\ Stories!NoStory.views = 0 /\ Stories!NoStory.by = "nobody"
  /\ Stories!Idle \in StoryRequest /\ Stories!Idle.at = "idle"
  BY DEF Stories!NoStory, StoryRow, Stories!Privacies, Stories!Idle, StoryRequest

LEMMA StoryInvImplies == StoryInv => Stories!ViewsAreCountedAndFeedOpens
  <1> SUFFICES ASSUME StoryInv, NEW s \in Stories!StoryIds
               PROVE  /\ stStory[s].views = Cardinality({v \in stViews : v[1] = s})
                      /\ \A u \in People :
                            /\ s \in Stories!Feed(u) => Stories!View(s, u)
                            /\ Stories!View(s, u) /\ stStory[s].by \notin stGone => s \in Stories!Feed(u)
    BY StoriesCard DEF Stories!ViewsAreCountedAndFeedOpens
  <1>1. stStory[s].views = Cardinality({v \in stViews : v[1] = s})
    BY DEF StoryInv, ViewsOf
  <1>2. ASSUME NEW u \in People
        PROVE  /\ s \in Stories!Feed(u) => Stories!View(s, u)
               /\ Stories!View(s, u) /\ stStory[s].by \notin stGone => s \in Stories!Feed(u)
    BY DEF Stories!Feed, Stories!View, Stories!CanView
  <1> QED
    BY <1>1, <1>2

LEMMA StoryInit == Stories!Init => StoryInv
  <1> SUFFICES ASSUME Stories!Init PROVE StoryInv
    OBVIOUS
  <1>1. StoryTables
    BY NoStoryShape DEF Stories!Init, StoryTables, Stories!In
  <1>2. \A s \in Stories!StoryIds : ViewsOf(s) = {} /\ stStory[s].views = 0
    BY NoStoryShape DEF Stories!Init, ViewsOf
  <1> QED
    BY <1>1, <1>2, FS_EmptySet DEF StoryInv

\* A story's row is written, its counter kept.
LEMMA StoryWritten ==
  ASSUME StoryInv, NEW s \in Stories!StoryIds, NEW row \in StoryRow, row.views = stStory[s].views,
         stStory' = [stStory EXCEPT ![s] = row], UNCHANGED <<stViews, stReq>>
  PROVE  StoryInv'
  <1>1. stStory' \in [Stories!StoryIds -> StoryRow] /\ \A t \in Stories!StoryIds : stStory'[t].views = stStory[t].views
    BY DEF StoryInv, StoryTables
  <1>2. StoryTables'
    BY <1>1 DEF StoryInv, StoryTables, Stories!In
  <1>3. \A t \in Stories!StoryIds : ViewsOf(t)' = ViewsOf(t)
    BY DEF ViewsOf
  <1> QED
    BY <1>1, <1>2, <1>3 DEF StoryInv

LEMMA StoryStutters ==
  ASSUME StoryInv, UNCHANGED <<stStory, stViews, stReq>>
  PROVE  StoryInv'
  <1>1. StoryTables'
    BY DEF StoryInv, StoryTables, Stories!In
  <1>2. \A t \in Stories!StoryIds : ViewsOf(t)' = ViewsOf(t)
    BY DEF ViewsOf
  <1> QED
    BY <1>1, <1>2 DEF StoryInv

\* The upsert that makes a row adds one to the story's views; one that finds it adds nothing.
LEMMA ViewRecorded ==
  ASSUME StoryInv, NEW h \in Handlers, Stories!RecordView(h)
  PROVE  StoryInv'
  <1>1. PICK s \in Stories!StoryIds, u \in People : s = stReq[h].story /\ u = stReq[h].viewer
    BY DEF Stories!RecordView, StoryInv, StoryTables
  <1>2. /\ stViews' = stViews \cup {<<s, u>>} /\ stReq' = [stReq EXCEPT ![h] = Stories!Idle]
        /\ <<s, u>> \in stViews => UNCHANGED stStory
        /\ <<s, u>> \notin stViews => stStory' = [stStory EXCEPT ![s].views = @ + 1]
    BY <1>1 DEF Stories!RecordView, Stories!Inserted, Stories!Done
  <1>3. /\ stReq' \in [Handlers -> StoryRequest] /\ stReq'[h].at = "idle"
        /\ \A g \in Handlers : g # h => stReq'[g] = stReq[g]
    BY <1>2, NoStoryShape DEF StoryInv, StoryTables
  <1>4. \A t \in Stories!StoryIds : t # s => ViewsOf(t)' = ViewsOf(t)
    BY <1>2 DEF ViewsOf
  <1>5. ViewsOf(s)' = ViewsOf(s) \cup {<<s, u>>}
    BY <1>2 DEF ViewsOf
  <1>6. CASE <<s, u>> \in stViews
    <2>1. ViewsOf(s)' = ViewsOf(s)
      BY <1>5, <1>6 DEF ViewsOf
    <2>2. StoryTables'
      BY <1>2, <1>3, <1>6 DEF StoryInv, StoryTables, Stories!In
    <2> QED
      BY <1>2, <1>4, <1>6, <2>1, <2>2 DEF StoryInv
  <1>7. CASE <<s, u>> \notin stViews
    <2>1. PICK row : row = [stStory[s] EXCEPT !.views = stStory[s].views + 1]
      OBVIOUS
    <2>2. stStory[s] \in StoryRow
      BY DEF StoryInv, StoryTables
    <2>3. row \in StoryRow /\ row.views = stStory[s].views + 1
      BY <2>1, <2>2 DEF StoryRow
    <2>4. stStory' = [stStory EXCEPT ![s] = row]
      BY <1>2, <1>7, <2>1
    <2>5. /\ stStory' \in [Stories!StoryIds -> StoryRow] /\ stStory'[s] = row
          /\ \A t \in Stories!StoryIds : t # s => stStory'[t] = stStory[t]
      BY <2>3, <2>4 DEF StoryInv, StoryTables
    <2>6. StoryTables'
      BY <1>2, <1>3, <2>5 DEF StoryInv, StoryTables, Stories!In
    <2>7. IsFiniteSet(ViewsOf(s)) /\ stStory[s].views = Cardinality(ViewsOf(s)) /\ <<s, u>> \notin ViewsOf(s)
      BY <1>7 DEF StoryInv, ViewsOf
    <2>8. /\ IsFiniteSet(ViewsOf(s) \cup {<<s, u>>})
          /\ Cardinality(ViewsOf(s) \cup {<<s, u>>}) = Cardinality(ViewsOf(s)) + 1
      BY <2>7, FS_AddElement
    <2> QED
      BY <1>4, <1>5, <2>3, <2>5, <2>6, <2>7, <2>8 DEF StoryInv
  <1> QED
    BY <1>6, <1>7

LEMMA StoryNext == ASSUME StoryInv, Stories!Next PROVE StoryInv'
  <1>1. ASSUME NEW h \in Handlers, NEW s \in Stories!StoryIds, NEW u \in People, Stories!view(h, s, u)
        PROVE  StoryInv'
    <2>1. PICK q : q = [Stories!Idle EXCEPT !.at = "view", !.story = s, !.viewer = u]
      OBVIOUS
    <2>2. q \in StoryRequest /\ q.story = s /\ q.viewer = u
      BY <2>1 DEF Stories!Idle, StoryRequest
    <2>3. stReq' = [stReq EXCEPT ![h] = q] /\ UNCHANGED <<stStory, stViews>>
      BY <1>1, <2>1 DEF Stories!view
    <2>4. StoryTables'
      BY <2>2, <2>3 DEF StoryInv, StoryTables, Stories!In
    <2>5. \A t \in Stories!StoryIds : ViewsOf(t)' = ViewsOf(t)
      BY <2>3 DEF ViewsOf
    <2> QED
      BY <2>3, <2>4, <2>5 DEF StoryInv
  <1>2. ASSUME NEW s \in Stories!StoryIds, Stories!Expires(s) PROVE StoryInv'
    <2>1. PICK row : row = [stStory[s] EXCEPT !.expired = TRUE]
      OBVIOUS
    <2>2. stStory[s] \in StoryRow
      BY DEF StoryInv, StoryTables
    <2>3. row \in StoryRow /\ row.views = stStory[s].views
      BY <2>1, <2>2 DEF StoryRow
    <2>4. stStory' = [stStory EXCEPT ![s] = row] /\ UNCHANGED <<stViews, stReq>>
      BY <1>2, <2>1 DEF Stories!Expires
    <2> QED
      BY <2>3, <2>4, StoryWritten
  <1>3. ASSUME NEW s \in Stories!StoryIds, NEW u \in People, Stories!deleteStory(s, u) PROVE StoryInv'
    <2>1. PICK row : row = [stStory[s] EXCEPT !.deleted = TRUE]
      OBVIOUS
    <2>2. stStory[s] \in StoryRow
      BY DEF StoryInv, StoryTables
    <2>3. row \in StoryRow /\ row.views = stStory[s].views
      BY <2>1, <2>2 DEF StoryRow
    <2>4. stStory' = [stStory EXCEPT ![s] = row] /\ UNCHANGED <<stViews, stReq>>
      BY <1>3, <2>1 DEF Stories!deleteStory, Stories!Delete
    <2> QED
      BY <2>3, <2>4, StoryWritten
  <1>4. ASSUME NEW u \in People, NEW channel \in BOOLEAN, NEW privacy \in Stories!Privacies,
               NEW allow \in SUBSET People, NEW deny \in SUBSET People,
               Stories!create(u, channel, privacy, allow, deny)
        PROVE  StoryInv'
    <2>1. PICK row : row = [Stories!NoStory EXCEPT !.by = u, !.channel = channel, !.privacy = privacy, !.allow = allow,
                                                   !.deny = deny]
      OBVIOUS
    <2>2. row \in StoryRow /\ row.views = 0
      BY <2>1 DEF Stories!NoStory, StoryRow
    <2>3. PICK s \in Stories!StoryIds : stStory[s] = Stories!NoStory /\ stStory' = [stStory EXCEPT ![s] = row]
      BY <1>4, <2>1 DEF Stories!create, Stories!Create, Stories!Posted
    <2>4. UNCHANGED <<stViews, stReq>>
      BY <1>4 DEF Stories!create
    <2> QED
      BY <2>2, <2>3, <2>4, NoStoryShape, StoryWritten
  <1>5. ASSUME NEW u \in People, Stories!Appoint(u) PROVE StoryInv'
    BY <1>5, StoryStutters DEF Stories!Appoint
  <1>6. ASSUME NEW u \in People, NEW friends, Stories!setCloseFriends(u, friends) PROVE StoryInv'
    BY <1>6, StoryStutters DEF Stories!setCloseFriends
  <1>7. ASSUME NEW l \in Stories!Links, Stories!Befriend(l) PROVE StoryInv'
    BY <1>7, StoryStutters DEF Stories!Befriend
  <1>8. ASSUME NEW u \in People, Stories!Erase(u) PROVE StoryInv'
    BY <1>8, StoryStutters DEF Stories!Erase
  <1> QED
    BY <1>1, <1>2, <1>3, <1>4, <1>5, <1>6, <1>7, <1>8, ViewRecorded DEF Stories!Next

\* However many views of one story overlap, each person is counted once; the query of the feed and
\* that of the viewer agree on every story whose author has an account (RecordView, Feed, CanView).
THEOREM StoriesCounted == Spec => []ViewsAreCountedAndFeedOpens
  <1> DEFINE Holds == active = "stories" => StoryInv
  <1>1. Init => Holds
    BY StoryInit DEF Init
  <1>2. Holds /\ [Next]_<<active, shared>> => Holds'
    <2> SUFFICES ASSUME active = "stories", StoryInv, [Next]_<<active, shared>> PROVE StoryInv'
      BY OneMoves
    <2>1. CASE Stories!Next
      BY <2>1, StoryNext
    <2>2. CASE UNCHANGED shared
      BY <2>2, StoryStutters DEF shared
    <2> QED
      BY <2>1, <2>2, OneMoves
  <1>3. Holds => ViewsAreCountedAndFeedOpens
    BY StoryInvImplies DEF ViewsAreCountedAndFeedOpens
  <1> QED
    BY <1>1, <1>2, <1>3, PTL DEF Spec
=============================================================================
