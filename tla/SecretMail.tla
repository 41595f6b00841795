----------------------------- MODULE SecretMail -----------------------------
(***************************************************************************)
(* Encrypted chats and their mailboxes (backend/internal/secretchat): two  *)
(* users open the chat with each other at the same time, one of them sends *)
(* ciphertext to a device of the other, retries what was not answered, and *)
(* the device fetches and acknowledges.                                    *)
(***************************************************************************)
EXTENDS Naturals, FiniteSets

CONSTANTS
    Peers,        \* the two users
    Letters,      \* client_message_ids
    MaxTries,     \* bound on the sends of one message
    MaxOpens      \* bound on the requests to open the chat

VARIABLES
    mailChats,    \* chats of type secret: their ids
    mailPair,     \* secret_chat_keys: the chat of the pair, 0 for none
    mailOpen,     \* user -> where its request stands
    mailOpened,   \* requests so far
    mailAnswers,  \* (ghost) chat ids answered
    mailTries,    \* message -> sends so far; each try encrypts anew
    mailFlying,   \* sends the server has not dealt with: [letter, try]
    mailBox,      \* secret_messages of the device: [letter, try, since]
    mailFetched,  \* letters of the page the device has and has not acknowledged
    mailRead,     \* (ghost) letters the device has received
    mailSent      \* (ghost) letters whose send was answered with success

openVars == <<mailChats, mailPair, mailOpen, mailOpened, mailAnswers>>
boxVars == <<mailTries, mailFlying, mailBox, mailFetched, mailRead, mailSent>>
mailVars == <<openVars, boxVars>>

Init ==
    /\ mailChats = {} /\ mailPair = 0
    /\ mailOpen = [u \in Peers |-> "idle"] /\ mailOpened = 0
    /\ mailAnswers = {}
    /\ mailTries = [m \in Letters |-> 0]
    /\ mailFlying = {} /\ mailBox = {} /\ mailFetched = {} /\ mailRead = {} /\ mailSent = {}

Step(u, at) == mailOpen' = [mailOpen EXCEPT ![u] = at]

\* The ordered pair is looked up before anything is created.
LookUp(u) ==
    IF mailPair # 0 THEN mailAnswers' = mailAnswers \cup {mailPair} /\ UNCHANGED mailOpen
    ELSE Step(u, "create") /\ UNCHANGED mailAnswers

\* The peer has a device with keys.
OpenChat(u) ==
    /\ mailOpen[u] = "idle"
    /\ mailOpened < MaxOpens
    /\ mailOpened' = mailOpened + 1
    /\ LookUp(u)
    /\ UNCHANGED <<mailChats, mailPair, boxVars>>

\* The chat, the link and the members in one transaction: a unique violation on the
\* pair rolls the chat back too.
Link(u, id) ==
    IF mailPair = 0
    THEN /\ mailChats' = mailChats \cup {id}
         /\ mailPair' = id
         /\ mailAnswers' = mailAnswers \cup {id} /\ Step(u, "idle")
    ELSE Step(u, "adopt") /\ UNCHANGED <<mailChats, mailPair, mailAnswers>>

EnsureSecretChat(u) ==
    /\ mailOpen[u] = "create"
    /\ Link(u, Cardinality(mailChats) + 1)
    /\ UNCHANGED <<mailOpened, boxVars>>

\* The loser reads the winner's row after its rollback.
AdoptChat(u) ==
    /\ mailOpen[u] = "adopt"
    /\ mailAnswers' = mailAnswers \cup {mailPair}
    /\ Step(u, "idle")
    /\ UNCHANGED <<mailChats, mailPair, mailOpened, boxVars>>

\* The client sends, or sends again what was not answered.
send(m) ==
    /\ mailAnswers # {}
    /\ m \notin mailSent
    /\ mailTries[m] < MaxTries
    /\ mailTries' = [mailTries EXCEPT ![m] = @ + 1]
    /\ mailFlying' = mailFlying \cup {[letter |-> m, try |-> mailTries[m] + 1]}
    /\ UNCHANGED <<openVars, mailBox, mailFetched, mailRead, mailSent>>

\* A retry of a message that still waits replaces its ciphertext in place.
Waiting(m) == \E b \in mailBox : b.letter = m
Newest == CHOOSE n \in {0} \cup {b.since : b \in mailBox} : \A b \in mailBox : b.since <= n

StoreEnvelope(e) ==
    IF Waiting(e.letter)
    THEN {[b EXCEPT !.try = IF b.letter = e.letter THEN e.try ELSE @] : b \in mailBox}
    ELSE mailBox \cup {[letter |-> e.letter, try |-> e.try, since |-> Newest + 1]}

\* The envelope is durable before it is announced; the answer may be lost.
Send(e) ==
    /\ e \in mailFlying
    /\ mailFlying' = mailFlying \ {e}
    /\ mailBox' = StoreEnvelope(e)
    /\ \/ mailSent' = mailSent \cup {e.letter}
       \/ UNCHANGED mailSent
    /\ UNCHANGED <<openVars, mailTries, mailFetched, mailRead>>

\* The request never arrives.
SendLost(e) ==
    /\ e \in mailFlying
    /\ mailFlying' = mailFlying \ {e}
    /\ UNCHANGED <<openVars, mailTries, mailBox, mailFetched, mailRead, mailSent>>

\* The oldest envelopes, a page at a time.
PendingEnvelopes(limit) ==
    {b.letter : b \in {c \in mailBox : Cardinality({d \in mailBox : d.since <= c.since}) <= limit}}

Inbox ==
    /\ mailFetched = {}
    /\ \E limit \in {1, 2} :
          /\ PendingEnvelopes(limit) # {}
          /\ mailFetched' = PendingEnvelopes(limit)
          /\ mailRead' = mailRead \cup PendingEnvelopes(limit)
    /\ UNCHANGED <<openVars, mailTries, mailFlying, mailBox, mailSent>>

\* A form in which an acknowledgement empties the mailbox.
AcknowledgeAll(ids) == {}

AcknowledgeEnvelopes(ids) == {b \in mailBox : b.letter \notin ids}

\* Acknowledged envelopes are deleted; an answer that is lost costs nothing.
Acknowledge ==
    /\ mailFetched # {}
    /\ mailBox' = AcknowledgeEnvelopes(mailFetched)
    /\ mailFetched' = {}
    /\ UNCHANGED <<openVars, mailTries, mailFlying, mailRead, mailSent>>

\* The device dies before it acknowledges.
ForgetPage ==
    /\ mailFetched # {}
    /\ mailFetched' = {}
    /\ UNCHANGED <<openVars, mailTries, mailFlying, mailBox, mailRead, mailSent>>

Next ==
    \/ \E u \in Peers : OpenChat(u) \/ EnsureSecretChat(u) \/ AdoptChat(u)
    \/ \E m \in Letters : send(m)
    \/ \E e \in mailFlying : Send(e) \/ SendLost(e)
    \/ Inbox \/ Acknowledge \/ ForgetPage

Spec == Init /\ [][Next]_mailVars

-----------------------------------------------------------------------------
(* Properties *)

\* Two users have one encrypted chat, every request to open it is answered with it, and
\* a creation that lost the race leaves nothing behind (EnsureSecretChat).
OneSecretChat ==
    /\ Cardinality(mailChats) <= 1
    /\ mailAnswers \subseteq {mailPair}

\* Ciphertext whose send was answered waits in the mailbox until the device has it,
\* whatever arrives between a fetch and its acknowledgement.
NoEnvelopeLost ==
    \A m \in mailSent : m \in mailRead \/ Waiting(m)

\* Both together: what one side sends in the one chat of the two reaches the other (StoreEnvelope,
\* AcknowledgeEnvelopes, EnsureSecretChat).
SecretMailArrives == OneSecretChat /\ NoEnvelopeLost

-----------------------------------------------------------------------------
(* What the repository says of this code and the code does not do *)

\* secretchat.go:674 says client_message_id is "required for idempotent delivery": the
\* row that would recognise a retry is deleted by the acknowledgement, and a retry that
\* arrives after it is delivered again.
DeliveredOnce == [][\A m \in Letters : m \in mailRead =>
                       ~ (Waiting(m)' /\ ~ Waiting(m))]_mailVars
=============================================================================
