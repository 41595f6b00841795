-------------------------------- MODULE Login --------------------------------
(***************************************************************************)
(* Signing in with a code (backend/internal/auth: RequestOTP, VerifyOTP,   *)
(* issueTokens): one phone number, several clients that ask for codes and  *)
(* present right and wrong ones at the same time.                          *)
(*                                                                         *)
(* A code is named by the challenge it was sent for; 0 is a wrong code.    *)
(* Every statement outside a transaction is a step of its own.             *)
(***************************************************************************)
EXTENDS Naturals, Sequences, FiniteSets

CONSTANTS
    Clients,         \* clients signing in with the number
    OTPMaxAttempts,  \* config.Auth.OTPMaxAttempts
    MaxDevices,      \* config.Auth.MaxDevicesPerUser
    MaxCodes,        \* bound on the codes asked for
    MaxVerifies      \* bound on the codes presented

VARIABLES
    otp,             \* otp_challenges in the order of created_at
    otpCooldown,     \* the cache key otp:cooldown:<phone> is set
    loginUser,       \* users: whether the account exists, its status and second factor
    loginDevices,    \* devices of the account that are not revoked
    loginSessions,   \* sessions opened, by challenge
    loginReq,        \* client -> where its verification stands
    loginTries       \* verifications so far

loginVars == <<otp, otpCooldown, loginUser, loginDevices, loginSessions, loginReq, loginTries>>

NoRequest == [at |-> "idle", ch |-> 0, new |-> FALSE, active |-> TRUE]
Goto(c, at) == loginReq' = [loginReq EXCEPT ![c].at = at]
Finish(c) == loginReq' = [loginReq EXCEPT ![c] = NoRequest]
In(c, at) == loginReq[c].at = at

Init ==
    /\ otp = <<>>
    /\ otpCooldown = FALSE
    /\ loginUser \in {[exists |-> FALSE, status |-> "active", twoStep |-> FALSE],
                      [exists |-> TRUE, status |-> "active", twoStep |-> TRUE]}
    /\ loginDevices = 0
    /\ loginSessions = [k \in 1 .. MaxCodes |-> 0]
    /\ loginReq = [c \in Clients |-> NoRequest]
    /\ loginTries = 0

CreateOTPChallenge == Append(otp, [attempts |-> 0, consumed |-> FALSE, expired |-> FALSE])

\* A code is issued unless one was in the last minute; a cache that does not answer
\* lets the request through, and a message that cannot be sent leaves the challenge.
RequestOTP ==
    /\ Len(otp) < MaxCodes
    /\ \/ ~otpCooldown /\ otpCooldown' = TRUE
       \/ UNCHANGED otpCooldown
    /\ otp' = CreateOTPChallenge
    /\ UNCHANGED <<loginUser, loginDevices, loginSessions, loginReq, loginTries>>

CooldownLapses ==
    /\ otpCooldown
    /\ otpCooldown' = FALSE
    /\ UNCHANGED <<otp, loginUser, loginDevices, loginSessions, loginReq, loginTries>>

OTPExpires ==
    /\ \E k \in DOMAIN otp : ~otp[k].expired /\ otp' = [otp EXCEPT ![k].expired = TRUE]
    /\ UNCHANGED <<otpCooldown, loginUser, loginDevices, loginSessions, loginReq, loginTries>>

\* The newest challenge nobody has used: when it is used, the one before it is the
\* newest again.
LatestOTPChallenge ==
    LET open == {k \in DOMAIN otp : ~otp[k].consumed}
    IN  IF open = {} THEN 0 ELSE CHOOSE k \in open : \A l \in open : l <= k

\* The challenge as read: unexpired, with attempts left, and compared with the code.
verifyOTP(c, code) ==
    LET k == LatestOTPChallenge IN
    /\ In(c, "idle")
    /\ loginTries < MaxVerifies
    /\ loginTries' = loginTries + 1
    /\ k # 0 /\ ~otp[k].expired /\ otp[k].attempts < OTPMaxAttempts
    /\ loginReq' = [loginReq EXCEPT ![c] = [NoRequest EXCEPT !.at = IF code = k THEN "user" ELSE "wrong",
                                                             !.ch = k]]
    /\ UNCHANGED <<otp, otpCooldown, loginUser, loginDevices, loginSessions>>

BurnOTPAttempt(c) ==
    /\ In(c, "wrong")
    /\ otp' = [otp EXCEPT ![loginReq[c].ch].attempts = @ + 1]
    /\ Finish(c)
    /\ UNCHANGED <<otpCooldown, loginUser, loginDevices, loginSessions, loginTries>>

\* The account is read; a wrong second password ends the request and keeps the code.
UserByPhone(c) ==
    /\ In(c, "user")
    /\ \/ loginReq' = [loginReq EXCEPT ![c].at = "consume", ![c].new = ~loginUser.exists,
                                              ![c].active = loginUser.status = "active"]
       \/ loginUser.exists /\ loginUser.twoStep /\ Finish(c)
    /\ UNCHANGED <<otp, otpCooldown, loginUser, loginDevices, loginSessions, loginTries>>

\* A form in which the update does not look whether the challenge is still open.
ConsumeUsed(k) == TRUE

Unconsumed(k) == ~otp[k].consumed

\* The conditional update decides between verifications of the same code.
ConsumeOTPChallenge(c) ==
    LET k == loginReq[c].ch IN
    /\ In(c, "consume")
    /\ IF Unconsumed(k)
       THEN /\ otp' = [otp EXCEPT ![k].consumed = TRUE]
            /\ IF loginReq[c].new THEN Goto(c, "create")
               ELSE IF loginReq[c].active THEN Goto(c, "count") ELSE Finish(c)
       ELSE Finish(c) /\ UNCHANGED otp
    /\ UNCHANGED <<otpCooldown, loginUser, loginDevices, loginSessions, loginTries>>

\* The account and its defaults in one transaction; the number is unique, so a client
\* that lost the race gets an error.
CreateUser(c) ==
    /\ In(c, "create")
    /\ IF loginUser.exists THEN Finish(c) /\ UNCHANGED loginUser
       ELSE /\ loginUser' = [loginUser EXCEPT !.exists = TRUE]
            /\ Goto(c, "count")
    /\ UNCHANGED <<otp, otpCooldown, loginDevices, loginSessions, loginTries>>

\* The devices are counted without a lock ...
DeviceCount(c) ==
    /\ In(c, "count")
    /\ IF loginDevices >= MaxDevices THEN Finish(c)
       ELSE Goto(c, "device")
    /\ UNCHANGED <<otp, otpCooldown, loginUser, loginDevices, loginSessions, loginTries>>

\* ... and a new one is inserted.
UpsertDevice(c) ==
    /\ In(c, "device")
    /\ loginDevices' = loginDevices + 1
    /\ Goto(c, "issue")
    /\ UNCHANGED <<otp, otpCooldown, loginUser, loginSessions, loginTries>>

issueTokens(c) ==
    /\ In(c, "issue")
    /\ loginSessions' = [loginSessions EXCEPT ![loginReq[c].ch] = @ + 1]
    /\ Finish(c)
    /\ UNCHANGED <<otp, otpCooldown, loginUser, loginDevices, loginTries>>

\* The client goes away: what its request has written stays.
Hangup(c) ==
    /\ ~In(c, "idle")
    /\ Finish(c)
    /\ UNCHANGED <<otp, otpCooldown, loginUser, loginDevices, loginSessions, loginTries>>

\* An administrator suspends the account, with every device of it.
SetUserStatus ==
    /\ loginUser.exists /\ loginUser.status = "active"
    /\ loginUser' = [loginUser EXCEPT !.status = "banned"]
    /\ loginDevices' = 0
    /\ UNCHANGED <<otp, otpCooldown, loginSessions, loginReq, loginTries>>

Next ==
    \/ RequestOTP \/ CooldownLapses \/ OTPExpires \/ SetUserStatus
    \/ \E c \in Clients :
         \/ \E code \in 0 .. MaxCodes : verifyOTP(c, code)
         \/ BurnOTPAttempt(c) \/ UserByPhone(c) \/ ConsumeOTPChallenge(c) \/ CreateUser(c)
         \/ DeviceCount(c) \/ UpsertDevice(c) \/ issueTokens(c) \/ Hangup(c)

Spec == Init /\ [][Next]_loginVars

-----------------------------------------------------------------------------
(* Properties *)

\* A code opens one session however many clients present it at the same time, whether it
\* is the newest or one that became the newest again, and no session is opened without
\* an account (VerifyOTP, ConsumeOTPChallenge).
CodeOpensOneSession ==
    /\ \A k \in 1 .. MaxCodes : loginSessions[k] <= 1
    /\ \A k \in 1 .. MaxCodes : loginSessions[k] > 0 =>
          loginUser.exists /\ k \in DOMAIN otp /\ otp[k].consumed

-----------------------------------------------------------------------------
(* What the repository says of this code and the code does not do *)

\* repository.go:267 says UpsertDevice is "enforcing the per-user device cap": two
\* sign-ins that count at the same time both find room for one.
DeviceCapHolds == loginDevices <= MaxDevices
=============================================================================
