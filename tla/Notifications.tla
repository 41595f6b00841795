--------------------------- MODULE Notifications ----------------------------
(***************************************************************************)
(* Breaking news on its way to the people who asked for it                 *)
(* (backend/internal/notifications, backend/internal/worker/push.go): one  *)
(* job reads the audience page by page, records a notification for each    *)
(* member and queues a push for it, while people change their settings,    *)
(* register and give up devices, and the queue delivers the job again when *)
(* it was not acknowledged in time.                                        *)
(*                                                                         *)
(* Account identifiers are numbers: the audience is paged in their order.  *)
(* Titles, previews and collapse keys are left out.                        *)
(***************************************************************************)
EXTENDS Naturals, FiniteSets

CONSTANTS
    MaxAccount,      \* accounts are 1 .. MaxAccount
    PageSize,        \* members of the audience read at a time
    NewsWorkers,     \* deliveries of the job under way at the same time
    Tokens,          \* push tokens
    MaxDeliveries,   \* deliveries of the job
    MaxSettings      \* changes of settings

Accounts == 1 .. MaxAccount

VARIABLES
    ntSet,      \* notification_settings: breaking_news, and whether quiet hours are on now
    ntUnread,   \* notifications without read_at: account -> how many
    ntToken,    \* push_tokens: owner, is_valid, device revoked
    ntTries,    \* deliveries of the job so far; MaxDeliveries + 1 once acknowledged
    ntWork,     \* delivery of the job -> where it stands
    ntPush,     \* push jobs in the queue: account -> how many
    ntSend,     \* the push job being sent: account, tokens left
    ntEdits     \* changes of settings so far

ntVars == <<ntSet, ntUnread, ntToken, ntTries, ntWork, ntPush, ntSend, ntEdits>>

NoPass == [at |-> "idle", offset |-> 0, page |-> {}, size |-> 0, told |-> [u \in Accounts |-> 0], failed |-> {},
           stayed |-> {}, left |-> 0, joined |-> 0]
At(w, at) == ntWork[w].at = at
NoPushJob == [at |-> "idle", to |-> 0, left |-> {}]

\* SELECT ... WHERE breaking_news ORDER BY user_id
Audience == {u \in Accounts : ntSet[u].news}

Init ==
    /\ ntSet \in [Accounts -> [news : BOOLEAN, quiet : {FALSE}]]
    /\ ntUnread = [u \in Accounts |-> 0]
    /\ ntToken = [t \in Tokens |-> [owner |-> 0, valid |-> FALSE, revoked |-> FALSE]]
    /\ ntTries = 0
    /\ ntWork = [w \in NewsWorkers |-> NoPass]
    /\ ntPush = [u \in Accounts |-> 0]
    /\ ntSend = NoPushJob
    /\ ntEdits = 0

-----------------------------------------------------------------------------
(* The fan-out *)

\* A delivery of the job starts at the first page: nothing is kept of an earlier one.
handleNewsPublish(w) ==
    /\ At(w, "idle") /\ ntTries < MaxDeliveries
    /\ ntTries' = ntTries + 1
    /\ ntWork' = [ntWork EXCEPT ![w] = [NoPass EXCEPT !.at = "page", !.stayed = Audience]]
    /\ UNCHANGED <<ntSet, ntUnread, ntToken, ntPush, ntSend, ntEdits>>

\* How many come before an account in the order of the identifiers.
Before(u) == Cardinality({v \in Audience : v < u})

\* LIMIT pageSize OFFSET offset
BreakingNewsAudience(offset) == {u \in Audience : offset <= Before(u) /\ Before(u) < offset + PageSize}

\* A form in which a full page is taken for the last one.
LastPage(size) == size <= PageSize

\* A page that is not full is the last one, and an empty one ends the loop.
ShortPage(size) == size < PageSize

ReadPage(w) ==
    /\ At(w, "page")
    /\ LET pass == ntWork[w]  page == BreakingNewsAudience(pass.offset) IN
       ntWork' = [ntWork EXCEPT ![w] = [pass EXCEPT
           !.at = IF page = {} THEN "done" ELSE "deliver", !.page = page, !.size = Cardinality(page),
           !.offset = @ + Cardinality(page)]]
    /\ UNCHANGED <<ntSet, ntUnread, ntToken, ntTries, ntPush, ntSend, ntEdits>>

\* The rows of the page are taken in their order.
Told(w) == CHOOSE u \in ntWork[w].page : \A v \in ntWork[w].page : u <= v

Advance(pass, u) ==
    [pass EXCEPT !.page = @ \ {u}, !.at = IF pass.page # {u} THEN "deliver"
                                          ELSE IF ShortPage(pass.size) THEN "done" ELSE "page"]

allowsType(u) == ntSet[u].news

Create(u) == ntUnread' = [ntUnread EXCEPT ![u] = @ + 1]

inQuietHours(u) == ntSet[u].quiet

\* The settings are read again; a row is written, and the push queued unless it is night there.
\* A member whose row cannot be written, or whose row is written and whose push cannot be queued,
\* is logged and passed over.
Deliver(w) ==
    LET u == Told(w)  pass == ntWork[w]  next == Advance(pass, u) IN
    /\ At(w, "deliver")
    /\ \/ /\ ~allowsType(u)
          /\ ntWork' = [ntWork EXCEPT ![w] = next]
          /\ UNCHANGED <<ntUnread, ntPush>>
       \/ /\ allowsType(u)
          /\ Create(u)
          /\ ntPush' = IF inQuietHours(u) THEN ntPush ELSE [ntPush EXCEPT ![u] = @ + 1]
          /\ ntWork' = [ntWork EXCEPT ![w] = [next EXCEPT !.told[u] = @ + 1]]
       \/ /\ \/ UNCHANGED ntUnread
             \/ allowsType(u) /\ ~inQuietHours(u) /\ Create(u)
          /\ ntWork' = [ntWork EXCEPT ![w] = [next EXCEPT !.failed = @ \cup {u}]]
          /\ UNCHANGED ntPush
    /\ UNCHANGED <<ntSet, ntToken, ntTries, ntSend, ntEdits>>

\* Returning without an error acknowledges the job.
Ack(w) ==
    /\ At(w, "done")
    /\ ntTries' = MaxDeliveries + 1
    /\ ntWork' = [ntWork EXCEPT ![w] = NoPass]
    /\ UNCHANGED <<ntSet, ntUnread, ntToken, ntPush, ntSend, ntEdits>>

\* The worker dies, or a page cannot be read: the delivery is not acknowledged.
Fails(w) ==
    /\ ~At(w, "idle")
    /\ ntWork' = [ntWork EXCEPT ![w] = NoPass]
    /\ UNCHANGED <<ntSet, ntUnread, ntToken, ntTries, ntPush, ntSend, ntEdits>>

-----------------------------------------------------------------------------
(* The push *)

\* The valid tokens of devices that were not revoked.
TokensFor(u) == {t \in Tokens : ntToken[t].owner = u /\ ntToken[t].valid /\ ~ntToken[t].revoked}

handlePushSend(u) ==
    /\ ntSend = NoPushJob /\ ntPush[u] > 0
    /\ ntPush' = [ntPush EXCEPT ![u] = @ - 1]
    /\ ntSend' = [at |-> "send", to |-> u, left |-> TokensFor(u)]
    /\ UNCHANGED <<ntSet, ntUnread, ntToken, ntTries, ntWork, ntEdits>>

InvalidateToken(t) == ntToken' = [ntToken EXCEPT ![t].valid = FALSE]

\* The provider delivers it, has no such token any more, or fails; the others still get theirs.
Send(t) ==
    /\ ntSend.at = "send" /\ t \in ntSend.left
    /\ InvalidateToken(t) \/ UNCHANGED ntToken
    /\ ntSend' = [ntSend EXCEPT !.left = @ \ {t}]
    /\ UNCHANGED <<ntSet, ntUnread, ntTries, ntWork, ntPush, ntEdits>>

Sent ==
    /\ ntSend.at = "send" /\ ntSend.left = {}
    /\ ntSend' = NoPushJob
    /\ UNCHANGED <<ntSet, ntUnread, ntToken, ntTries, ntWork, ntPush, ntEdits>>

-----------------------------------------------------------------------------
(* The accounts *)

\* What a change of the audience means for the passes under way: how many came, how many went,
\* and who of those it started with has been there all along.
Noted(u, on) ==
    LET joins == ~ntSet[u].news /\ on  leaves == ntSet[u].news /\ ~on IN
    ntWork' = [w \in NewsWorkers |->
        IF At(w, "idle") THEN ntWork[w]
        ELSE [ntWork[w] EXCEPT !.stayed = IF leaves THEN @ \ {u} ELSE @,
                               !.left = IF leaves THEN @ + 1 ELSE @,
                               !.joined = IF joins THEN @ + 1 ELSE @]]

UpdateSettings(u, on, quiet) == ntSet' = [ntSet EXCEPT ![u] = [news |-> on, quiet |-> quiet]]

updateSettings(u, on, quiet) ==
    /\ ntEdits < MaxSettings /\ ntEdits' = ntEdits + 1
    /\ UpdateSettings(u, on, quiet)
    /\ Noted(u, on)
    /\ UNCHANGED <<ntUnread, ntToken, ntTries, ntPush, ntSend>>

\* The provider and the token are the key: a token that comes back is the new owner's.
RegisterToken(t, u) == ntToken' = [ntToken EXCEPT ![t] = [owner |-> u, valid |-> TRUE, revoked |-> FALSE]]

registerToken(t, u) ==
    /\ ntToken[t].owner # u \/ ~ntToken[t].valid
    /\ RegisterToken(t, u)
    /\ UNCHANGED <<ntSet, ntUnread, ntTries, ntWork, ntPush, ntSend, ntEdits>>

UnregisterToken(t) == ntToken' = [ntToken EXCEPT ![t].valid = FALSE]

\* Nothing asks whose token it is.
unregisterToken(t) ==
    /\ ntToken[t].valid
    /\ UnregisterToken(t)
    /\ UNCHANGED <<ntSet, ntUnread, ntTries, ntWork, ntPush, ntSend, ntEdits>>

\* devices.revoked_at
RevokeDevice(t) ==
    /\ ntToken[t].valid /\ ~ntToken[t].revoked
    /\ ntToken' = [ntToken EXCEPT ![t].revoked = TRUE]
    /\ UNCHANGED <<ntSet, ntUnread, ntTries, ntWork, ntPush, ntSend, ntEdits>>

\* Some of the account's notifications, or all it has by now.
MarkRead(u, n) == ntUnread' = [ntUnread EXCEPT ![u] = n]

markRead(u, n) ==
    /\ ntUnread[u] > 0
    /\ MarkRead(u, n)
    /\ UNCHANGED <<ntSet, ntToken, ntTries, ntWork, ntPush, ntSend, ntEdits>>

Next ==
    \/ \E w \in NewsWorkers : handleNewsPublish(w) \/ ReadPage(w) \/ Deliver(w) \/ Ack(w) \/ Fails(w)
    \/ \E u \in Accounts : handlePushSend(u)
    \/ \E t \in Tokens : Send(t) \/ unregisterToken(t) \/ RevokeDevice(t)
    \/ Sent
    \/ \E t \in Tokens, u \in Accounts : registerToken(t, u)
    \/ \E u \in Accounts, on, quiet \in BOOLEAN : updateSettings(u, on, quiet)
    \/ \E u \in Accounts : \E n \in 0 .. ntUnread[u] - 1 : markRead(u, n)

Spec == Init /\ [][Next]_ntVars

-----------------------------------------------------------------------------
(* Properties *)

\* A pass over the audience misses, of those who are in it from its start to its end and whose
\* notification could be written and queued, no more people than left it meanwhile; and it tells
\* nobody more often than once and once again for each one who joined (handleNewsPublish,
\* BreakingNewsAudience).
SubscribersAreTold ==
    \A w \in NewsWorkers : At(w, "done") =>
        /\ Cardinality({u \in ntWork[w].stayed \ ntWork[w].failed : ntWork[w].told[u] = 0}) <= ntWork[w].left
        /\ \A u \in Accounts : ntWork[w].told[u] <= 1 + ntWork[w].joined

-----------------------------------------------------------------------------
(* What the repository says of this code and the code does not do *)

\* worker/push.go:144 says "handleNewsPublish fans a breaking story out to every subscriber": a
\* page is found by counting from the front, and somebody who opts out of an earlier page moves
\* the next one up by one, past a subscriber.
EverySubscriberIsTold ==
    \A w \in NewsWorkers : At(w, "done") =>
        \A u \in ntWork[w].stayed \ ntWork[w].failed : ntWork[w].told[u] >= 1

\* notifications.go:195 says that a token is reassigned when a phone is handed on, as "otherwise
\* the previous owner would keep receiving pushes": a push that had read its tokens by then still
\* rings the phone, with the previous owner's notification.
PushRingsItsOwner == \A t \in ntSend.left : ntToken[t].valid => ntToken[t].owner = ntSend.to
=============================================================================
