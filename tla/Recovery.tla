------------------------------ MODULE Recovery ------------------------------
(***************************************************************************)
(* The recovery address of one account (backend/internal/auth/recovery.go):*)
(* enrolling an address, proving it with a code, taking it off again, and  *)
(* resetting the second factor with a code sent to it.                     *)
(*                                                                         *)
(* A code is named by the challenge it was mailed for; 0 is a wrong code.  *)
(* Each statement commits on its own and two requests may be at work.      *)
(***************************************************************************)
EXTENDS Naturals, Sequences, FiniteSets

CONSTANTS
    Emails,              \* addresses
    Handlers,            \* requests in flight at the same time
    EmailCodeAttempts,   \* emailCodeAttempts
    MaxEmailCodes        \* bound on the challenges

VARIABLES
    recEmail,       \* users.email, {} or one address
    recRecovery,    \* users.recovery_email, verified
    recCodes,       \* email_challenges in the order of created_at
    recRecent,      \* purposes with a challenge inside emailResendWindow
    recReq,         \* request -> where it stands
    recProved,      \* (ghost) addresses whose owner has presented a code sent there
    recResets       \* resets of the second factor

recVars == <<recEmail, recRecovery, recCodes, recRecent, recReq, recProved, recResets>>

Quiet == [at |-> "idle", email |-> {}, ch |-> 0, purpose |-> "verify"]
In(h, at) == recReq[h].at = at
Set(h, req) == recReq' = [recReq EXCEPT ![h] = req]
Done(h) == Set(h, Quiet)

Init ==
    /\ recEmail = {} /\ recRecovery = {}
    /\ recCodes = <<>> /\ recRecent = {}
    /\ recReq = [h \in Handlers |-> Quiet]
    /\ recProved = {} /\ recResets = 0

\* Nothing is mailed twice inside the window.
RecentEmailChallenge(purpose) == purpose \in recRecent

\* A new address takes the place of the old one and of what the old one could do ...
SetPendingEmail(e) == recEmail' = {e} /\ recRecovery' = {}

SetRecoveryEmail(h, e) ==
    /\ In(h, "idle")
    /\ ~RecentEmailChallenge("verify")
    /\ SetPendingEmail(e)
    /\ Set(h, [Quiet EXCEPT !.at = "mail", !.email = {e}])
    /\ UNCHANGED <<recCodes, recRecent, recProved, recResets>>

\* ... and a code goes to it; one that cannot be sent leaves its challenge behind.
issueEmailCode(h) ==
    /\ In(h, "mail")
    /\ Len(recCodes) < MaxEmailCodes
    /\ recCodes' = Append(recCodes, [email |-> recReq[h].email, purpose |-> recReq[h].purpose,
                                     attempts |-> 0, consumed |-> FALSE])
    /\ recRecent' = recRecent \cup {recReq[h].purpose}
    /\ Done(h)
    /\ UNCHANGED <<recEmail, recRecovery, recProved, recResets>>

WindowPasses ==
    /\ recRecent # {}
    /\ recRecent' = {}
    /\ UNCHANGED <<recEmail, recRecovery, recCodes, recReq, recProved, recResets>>

LatestEmailChallenge(purpose) ==
    LET open == {k \in DOMAIN recCodes : recCodes[k].purpose = purpose /\ ~recCodes[k].consumed}
    IN  IF open = {} THEN 0 ELSE CHOOSE k \in open : \A l \in open : l <= k

\* Every try costs an attempt before the code is compared.
BurnEmailAttempt(k) == [recCodes EXCEPT ![k].attempts = @ + 1]

\* A code is presented for a purpose: the newest open challenge loses an attempt, is
\* used up when there are none left, and goes on when the code is its own.
consumeEmailCode(h, purpose, code, next) ==
    LET k == LatestEmailChallenge(purpose)
        spent == recCodes[k].attempts + 1 > EmailCodeAttempts IN
    /\ k # 0
    /\ recCodes' = IF spent THEN [BurnEmailAttempt(k) EXCEPT ![k].consumed = TRUE]
                   ELSE BurnEmailAttempt(k)
    /\ IF ~spent /\ code = k THEN Set(h, [Quiet EXCEPT !.at = next, !.ch = k, !.purpose = purpose])
       ELSE Done(h)

verifyRecoveryEmail(h, code) ==
    /\ In(h, "idle")
    /\ consumeEmailCode(h, "verify", code, "consume")
    /\ UNCHANGED <<recEmail, recRecovery, recRecent, recProved, recResets>>

completeEmailRecovery(h, code) ==
    /\ In(h, "idle")
    /\ recRecovery # {}
    /\ consumeEmailCode(h, "recover", code, "consume")
    /\ UNCHANGED <<recEmail, recRecovery, recRecent, recProved, recResets>>

StillOpen(k) == ~recCodes[k].consumed

\* A code is good once: the conditional update decides between two requests.
ConsumeEmailChallenge(h) ==
    LET k == recReq[h].ch IN
    /\ In(h, "consume")
    /\ IF StillOpen(k)
       THEN /\ recCodes' = [recCodes EXCEPT ![k].consumed = TRUE]
            /\ recProved' = recProved \cup recCodes[k].email
            /\ Set(h, [recReq[h] EXCEPT !.at = IF @ = "consume" /\ recReq[h].purpose = "verify"
                                               THEN "confirm" ELSE "reset"])
       ELSE Done(h) /\ UNCHANGED <<recCodes, recProved>>
    /\ UNCHANGED <<recEmail, recRecovery, recRecent, recResets>>

\* A form in which the address of the challenge is promoted whatever the account says now.
PromoteAny(e) == recRecovery' = e

\* The address is promoted when it is still the one on the account.
ConfirmEmail(e) == IF recEmail = e THEN recRecovery' = e ELSE UNCHANGED recRecovery

VerifyRecoveryEmail(h) ==
    /\ In(h, "confirm")
    /\ ConfirmEmail(recCodes[recReq[h].ch].email)
    /\ Done(h)
    /\ UNCHANGED <<recEmail, recCodes, recRecent, recProved, recResets>>

RemoveRecoveryEmail ==
    /\ recEmail # {}
    /\ recEmail' = {} /\ recRecovery' = {}
    /\ UNCHANGED <<recCodes, recRecent, recReq, recProved, recResets>>

\* A recovery starts with a verified address; any other gets the same answer and no code.
StartEmailRecovery(h) ==
    /\ In(h, "idle")
    /\ recRecovery # {}
    /\ ~RecentEmailChallenge("recover")
    /\ Set(h, [Quiet EXCEPT !.at = "mail", !.email = recRecovery, !.purpose = "recover"])
    /\ UNCHANGED <<recEmail, recRecovery, recCodes, recRecent, recProved, recResets>>

\* The second factor is cleared (its sessions: ResetTwoStep of Sessions).
CompleteEmailRecovery(h) ==
    /\ In(h, "reset")
    /\ recResets' = recResets + 1
    /\ Done(h)
    /\ UNCHANGED <<recEmail, recRecovery, recCodes, recRecent, recProved>>

\* The client goes away between two statements.
Hangup(h) ==
    /\ ~In(h, "idle")
    /\ Done(h)
    /\ UNCHANGED <<recEmail, recRecovery, recCodes, recRecent, recProved, recResets>>

Next ==
    \/ WindowPasses \/ RemoveRecoveryEmail
    \/ \E h \in Handlers :
         \/ \E e \in Emails : SetRecoveryEmail(h, e)
         \/ \E code \in 0 .. MaxEmailCodes : verifyRecoveryEmail(h, code) \/ completeEmailRecovery(h, code)
         \/ issueEmailCode(h) \/ ConsumeEmailChallenge(h) \/ VerifyRecoveryEmail(h)
         \/ StartEmailRecovery(h) \/ CompleteEmailRecovery(h) \/ Hangup(h)

Spec == Init /\ [][Next]_recVars

-----------------------------------------------------------------------------
(* Properties *)

\* The recovery address is the address on the account, and its owner has presented a code
\* sent to it, however enrolling, proving and removing overlap; a reset of the second
\* factor has used up a code of its own (ConfirmEmail, ConsumeEmailChallenge).
RecoveryAddressIsProved ==
    /\ recRecovery \subseteq recEmail \cap recProved
    /\ recResets <= Cardinality({k \in DOMAIN recCodes :
                        recCodes[k].purpose = "recover" /\ recCodes[k].consumed})
=============================================================================
