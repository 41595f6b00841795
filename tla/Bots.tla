-------------------------------- MODULE Bots --------------------------------
(***************************************************************************)
(* One bot and what reaches it (backend/internal/bots): messages of the    *)
(* chats it is in, taps on its buttons and inline queries become rows of   *)
(* its update queue, each written by a transaction of its own beside the   *)
(* operation that caused it; the bot polls the queue and confirms what it  *)
(* has by asking for what comes after it.                                  *)
(*                                                                         *)
(* Payloads are left out.  The bot itself is outside the repository: it    *)
(* asks from an identifier it was given, as Poll's contract says.          *)
(***************************************************************************)
EXTENDS Naturals, FiniteSets, FiniteSetsExt

CONSTANTS
    BotHandlers,     \* requests that enqueue at the same time
    Buttons,         \* callback_data of a keyboard
    Results,         \* identifiers of inline results
    UpdateBacklog,   \* updates kept for a bot that does not collect
    PollLimit,       \* updates handed over at a time
    MaxUpdates       \* updates written

Ids == 1 .. MaxUpdates
Kinds == {"command", "addressed", "reply", "mention", "plain"}

VARIABLES
    buBot,       \* bots: is_active, privacy_mode, inline_enabled; a member of the chat; chat private
    buRow,       \* bot_updates: id -> none, open (not committed), pending, done, trimmed, void
    buReq,       \* request -> where it stands, the row it holds
    buShown,     \* (ghost) the updates handed to the bot
    buOver,      \* (ghost) the updates committed after a later one was handed over
    buKeys,      \* messages.reply_markup of the bot's message
    buTap,       \* bot_callback_queries: the last one
    buAsk,       \* bot_inline_queries: the last one
    buAlien      \* (ghost) an update from a chat the bot was not in

buVars == <<buBot, buRow, buReq, buShown, buOver, buKeys, buTap, buAsk, buAlien>>

Idle == [at |-> "idle", id |-> 0]
In(h, at) == buReq[h].at = at
Rows(state) == {i \in Ids : buRow[i] = state}

Init ==
    /\ buBot \in [active : {TRUE}, privacy : BOOLEAN, inline : BOOLEAN, member : BOOLEAN, private : BOOLEAN]
    /\ buRow = [i \in Ids |-> "none"]
    /\ buReq = [h \in BotHandlers |-> Idle]
    /\ buShown = {} /\ buOver = {} /\ buKeys = {} /\ buAlien = FALSE
    /\ buTap = "none"
    /\ buAsk = [state |-> "none", results |-> {}]

-----------------------------------------------------------------------------
(* The queue *)

\* The identifier is drawn when the row is inserted ...
enqueueUpdate(h) ==
    /\ In(h, "enqueue")
    /\ Rows("none") # {}
    /\ LET i == Min(Rows("none")) IN
       /\ buRow' = [buRow EXCEPT ![i] = "open"]
       /\ buReq' = [buReq EXCEPT ![h] = [at |-> "commit", id |-> i]]
    /\ UNCHANGED <<buBot, buShown, buOver, buKeys, buTap, buAsk, buAlien>>

\* A form in which the newest go.
Newest(pending) ==
    {i \in pending : Cardinality({j \in pending : j < i}) >= UpdateBacklog}

\* All but the last UpdateBacklog of the updates nobody collected.
Oldest(pending) ==
    {i \in pending : Cardinality({j \in pending : j > i}) >= UpdateBacklog}

\* ... and the row is there for others once its transaction, which also trims the backlog, ends.
Enqueue(h) ==
    LET i == buReq[h].id  pending == Rows("pending") \cup {i} IN
    /\ In(h, "commit")
    /\ buRow' = [j \in Ids |-> IF j \in Oldest(pending) THEN "trimmed" ELSE IF j = i THEN "pending" ELSE buRow[j]]
    /\ buOver' = IF \E j \in buShown : j > i THEN buOver \cup {i} ELSE buOver
    /\ buReq' = [buReq EXCEPT ![h] = Idle]
    /\ UNCHANGED <<buBot, buShown, buKeys, buTap, buAsk, buAlien>>

\* A failure to enqueue is logged: the message, the tap or the query stands.
Fails(h) ==
    /\ buReq[h].at \in {"enqueue", "commit"}
    /\ buRow' = IF In(h, "commit") THEN [buRow EXCEPT ![buReq[h].id] = "void"] ELSE buRow
    /\ buReq' = [buReq EXCEPT ![h] = Idle]
    /\ UNCHANGED <<buBot, buShown, buOver, buKeys, buTap, buAsk, buAlien>>

\* Asking for updates after id N confirms everything up to N.
Confirmed(offset) == {i \in Rows("pending") : offset > 0 /\ i <= offset}

\* The first PollLimit of what is left.
Page(offset) ==
    LET left == {i \in Rows("pending") \ Confirmed(offset) : i > offset}
    IN  {i \in left : Cardinality({j \in left : j < i}) < PollLimit}

Poll(offset) ==
    /\ buRow' = [i \in Ids |-> IF i \in Confirmed(offset) THEN "done" ELSE buRow[i]]
    /\ buShown' = buShown \cup Page(offset)

RequireBotToken == buBot.active

apiGetUpdates(offset) ==
    /\ RequireBotToken
    /\ Poll(offset)
    /\ UNCHANGED <<buBot, buReq, buOver, buKeys, buTap, buAsk, buAlien>>

-----------------------------------------------------------------------------
(* What becomes an update *)

\* Privacy mode leaves a bot in a group with commands, replies to it and messages that name it.
SubscribedBots(kind) ==
    /\ buBot.active /\ buBot.member
    /\ buBot.private \/ ~buBot.privacy \/ kind \in {"command", "reply", "mention"}

\* A command with an addressee goes to the bot of that name.
BotIDByUsername(kind) == kind = "addressed" /\ buBot.active

ObserveMessage(h, kind) ==
    /\ In(h, "idle")
    /\ BotIDByUsername(kind) \/ (kind # "addressed" /\ SubscribedBots(kind))
    /\ buReq' = [buReq EXCEPT ![h].at = "enqueue"]
    /\ buAlien' = (buAlien \/ ~buBot.member)
    /\ UNCHANGED <<buBot, buRow, buShown, buOver, buKeys, buTap, buAsk>>

SendMessageWithKeyboard(keys) ==
    /\ buBot.member
    /\ buKeys' = keys

\* A message of the bot that stands, with buttons or without.
SetReplyMarkup(keys) == buKeys' = keys

apiKeyboard(keys) ==
    /\ RequireBotToken
    /\ SendMessageWithKeyboard(keys) \/ SetReplyMarkup(keys)
    /\ UNCHANGED <<buBot, buRow, buReq, buShown, buOver, buTap, buAsk, buAlien>>

\* The button is on the message, and the person in the chat.
RecordCallback(data) ==
    /\ buBot.active /\ data \in buKeys
    /\ buTap' = "open"

Tap(h, data) ==
    /\ In(h, "idle")
    /\ RecordCallback(data)
    /\ buReq' = [buReq EXCEPT ![h].at = "enqueue"]
    /\ UNCHANGED <<buBot, buRow, buShown, buOver, buKeys, buAsk, buAlien>>

AnswerCallback ==
    /\ buTap = "open"
    /\ buTap' = "answered"

apiAnswerCallback ==
    /\ RequireBotToken
    /\ AnswerCallback
    /\ UNCHANGED <<buBot, buRow, buReq, buShown, buOver, buKeys, buAsk, buAlien>>

OpenInlineQuery ==
    /\ buBot.active /\ buBot.inline
    /\ buAsk' = [state |-> "open", results |-> {}]

StartInlineQuery(h) ==
    /\ In(h, "idle")
    /\ OpenInlineQuery
    /\ buReq' = [buReq EXCEPT ![h].at = "enqueue"]
    /\ UNCHANGED <<buBot, buRow, buShown, buOver, buKeys, buTap, buAlien>>

\* Until it expires a query may be answered, and answered again.
AnswerInlineQuery(results) ==
    /\ buAsk.state \in {"open", "answered"}
    /\ buAsk' = [state |-> "answered", results |-> results]

apiAnswerInlineQuery(results) ==
    /\ RequireBotToken
    /\ AnswerInlineQuery(results)
    /\ UNCHANGED <<buBot, buRow, buReq, buShown, buOver, buKeys, buTap, buAlien>>

InlineResults == IF buAsk.state = "answered" THEN buAsk.results ELSE {}

\* The message is the person's; the bot is told afterwards.
ChooseInlineResult(h, r) ==
    /\ In(h, "idle")
    /\ r \in InlineResults
    /\ buReq' = [buReq EXCEPT ![h].at = "enqueue"]
    /\ UNCHANGED <<buBot, buRow, buShown, buOver, buKeys, buTap, buAsk, buAlien>>

\* expires_at passes: the query is neither answered nor read any more.
Expire ==
    /\ buAsk.state \in {"open", "answered"}
    /\ buAsk' = [state |-> "expired", results |-> {}]
    /\ UNCHANGED <<buBot, buRow, buReq, buShown, buOver, buKeys, buTap, buAlien>>

UpdateSettings(active, privacy, inline) ==
    buBot' = [buBot EXCEPT !.active = active, !.privacy = privacy, !.inline = inline]

updateSettings(active) ==
    /\ buBot.active # active
    /\ UpdateSettings(active, buBot.privacy, buBot.inline)
    /\ UNCHANGED <<buRow, buReq, buShown, buOver, buKeys, buTap, buAsk, buAlien>>

Next ==
    \/ \E h \in BotHandlers :
        \/ enqueueUpdate(h) \/ Enqueue(h) \/ Fails(h) \/ StartInlineQuery(h)
        \/ \E kind \in Kinds : ObserveMessage(h, kind)
        \/ \E data \in Buttons : Tap(h, data)
        \/ \E r \in Results : ChooseInlineResult(h, r)
    \/ \E offset \in buShown \cup {0} : apiGetUpdates(offset)
    \/ \E keys \in SUBSET Buttons : apiKeyboard(keys)
    \/ apiAnswerCallback \/ Expire
    \/ \E results \in SUBSET Results : apiAnswerInlineQuery(results)
    \/ \E active \in BOOLEAN : updateSettings(active)

Spec == Init /\ [][Next]_buVars

-----------------------------------------------------------------------------
(* Properties *)

\* An update leaves the queue only when the bot was given it, or UpdateBacklog later ones were
\* written, or it was committed after a later one had been handed over, whatever the bot and
\* the writers do at the same time (Repository.Enqueue, Poll).
UpdatesReachTheBot ==
    \A i \in Ids :
        /\ buRow[i] = "done" => i \in buShown \cup buOver
        /\ buRow[i] = "trimmed" =>
              Cardinality({j \in Ids : j > i /\ buRow[j] \in {"pending", "done", "trimmed"}}) >= UpdateBacklog

-----------------------------------------------------------------------------
(* What the repository says of this code and the code does not do *)

\* bots.go:614 says "a bot that is offline or polling slowly loses nothing": identifiers are drawn
\* before they are committed, and a bot that asks for what comes after a later one confirms an
\* earlier one it was never given.
NothingIsLost == \A i \in Ids : buRow[i] = "done" => i \in buShown

\* observer.go:122 passes over a command "addressed to something that is not a bot here": any bot
\* with that name is told, in the chat or not.
BotHearsItsChats == ~buAlien
=============================================================================
