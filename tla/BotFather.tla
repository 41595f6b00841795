----------------------------- MODULE BotFather -----------------------------
(* Managing one's bots by conversation: internal/bots/botfather.go over the bots and their        *)
(* tokens of bots.go and service.go.                                                              *)
(*                                                                                                *)
(* The rows of one person: the conversation (bot_dialog_states), the bots they own and the live   *)
(* tokens of each.  Two messages of that person, from two devices, or a message and a request to  *)
(* the management API, are handled at the same time: the conversation is read when a message is   *)
(* taken up and acted on afterwards, and a limit is counted in one statement and relied on in     *)
(* the next.                                                                                      *)
EXTENDS Naturals, FiniteSets

CONSTANTS
    Handles,           \* the usernames bots may be given
    DialogHandlers,    \* the messages and requests in progress at once
    MaxBotsPerOwner,   \* MaxBotsPerOwner of bots.go
    MaxTokensPerBot    \* MaxTokensPerBot of bots.go

VARIABLES
    bfDialog,   \* the conversation's row
    bfBot,      \* handle -> [state : free, active or inactive, live : live tokens, privacy]
    bfReq,      \* handler -> what it is doing, with what it read
    bfWord,     \* handle -> how far the person's words go towards deleting it: see Heard
    bfRequest,  \* the bots a request to the management API switched off
    bfFirst     \* the person's first bot

bfVars == <<bfDialog, bfBot, bfReq, bfWord, bfRequest, bfFirst>>

Silence == [flow |-> "none", step |-> "none", bot |-> "none"]
Idle == [at |-> "idle", text |-> "none", dialog |-> Silence, owned |-> {}]
In(h, at) == bfReq[h].at = at
Commands == {"cancel", "newbot", "token", "setname", "deletebot"}
Answers == Handles \cup {"yes", "word"}
FlowOf == [token |-> "revoke", setname |-> "setname", deletebot |-> "delete"]

Init ==
    /\ bfDialog = Silence
    /\ bfBot = [b \in Handles |-> [state |-> "free", live |-> 0, privacy |-> TRUE]]
    /\ bfReq = [h \in DialogHandlers |-> Idle]
    /\ bfWord = [b \in Handles |-> 0]
    /\ bfRequest = {}
    /\ bfFirst = "none"

-----------------------------------------------------------------------------
(* The conversation's row *)

saveState(dialog) == bfDialog' = dialog

clearState == bfDialog' = Silence

\* A conversation left alone for dialogTTL is no longer read.
Lapse ==
    /\ bfDialog # Silence
    /\ clearState
    /\ UNCHANGED <<bfBot, bfReq, bfWord, bfRequest, bfFirst>>

loadState == bfDialog

ListForOwner == {b \in Handles : bfBot[b].state # "free"}

ownedBotByHandle(b) == b \in ListForOwner

Done(h) == bfReq' = [bfReq EXCEPT ![h] = Idle]

\* The conversation is over, unless clearing its row fails.
finishAnd(h) == (clearState \/ UNCHANGED bfDialog) /\ Done(h)

\* Reading or writing fails, or the process ends: whatever was to follow does not.
Fails(h) ==
    /\ ~In(h, "idle")
    /\ Done(h)
    /\ UNCHANGED <<bfDialog, bfBot, bfWord, bfRequest, bfFirst>>

-----------------------------------------------------------------------------
(* The bots and their tokens *)

\* The owned bots and the name are looked at before the rows are written.
Registrable(b) ==
    b \in Handles /\ bfBot[b].state = "free" /\ Cardinality(ListForOwner) < MaxBotsPerOwner

CountOwned(h, b) ==
    /\ Registrable(b)
    /\ bfReq' = [bfReq EXCEPT ![h].at = "create", ![h].text = b]

\* The account, the bot and a first token in one transaction; a name taken meanwhile undoes it.
Create(b) ==
    /\ bfBot' = IF bfBot[b].state = "free"
                THEN [bfBot EXCEPT ![b].state = "active", ![b].live = 1] ELSE bfBot
    /\ bfFirst' = IF ListForOwner = {} THEN b ELSE bfFirst

\* A conversation ends with the bot it made, and goes on when the name was taken.
Register(h) ==
    LET b == bfReq[h].text IN
    /\ In(h, "create")
    /\ Create(b)
    /\ IF bfReq[h].dialog # Silence /\ bfBot[b].state = "free" THEN clearState ELSE UNCHANGED bfDialog
    /\ Done(h)
    /\ UNCHANGED <<bfWord, bfRequest>>

\* POST /bots.
register(h, b) ==
    /\ In(h, "idle")
    /\ CountOwned(h, b)
    /\ UNCHANGED <<bfDialog, bfBot, bfWord, bfRequest, bfFirst>>

RevokeAllTokens(b) == bfBot' = [bfBot EXCEPT ![b].live = 0]

RevokeToken(b) ==
    /\ bfBot[b].live > 0
    /\ bfBot' = [bfBot EXCEPT ![b].live = @ - 1]

\* The live tokens are counted; at the limit nothing is issued and the conversation stays.
CountTokens(h) ==
    /\ In(h, "count")
    /\ bfReq' = [bfReq EXCEPT ![h] =
          IF bfBot[@.text].live < MaxTokensPerBot THEN [@ EXCEPT !.at = "issue"] ELSE Idle]
    /\ UNCHANGED <<bfDialog, bfBot, bfWord, bfRequest, bfFirst>>

issueToken(b) == bfBot' = [bfBot EXCEPT ![b].live = @ + 1]

IssueToken(h) ==
    /\ In(h, "issue")
    /\ issueToken(bfReq[h].text)
    /\ IF bfReq[h].dialog # Silence THEN clearState ELSE UNCHANGED bfDialog
    /\ Done(h)
    /\ UNCHANGED <<bfWord, bfRequest, bfFirst>>

\* POST and DELETE /bots/{id}/tokens.
requestToken(h, b) ==
    /\ In(h, "idle") /\ ownedBotByHandle(b)
    /\ bfReq' = [bfReq EXCEPT ![h] = [Idle EXCEPT !.at = "count", !.text = b]]
    /\ UNCHANGED <<bfDialog, bfBot, bfWord, bfRequest, bfFirst>>

revokeToken(b) ==
    /\ RevokeToken(b)
    /\ UNCHANGED <<bfDialog, bfReq, bfWord, bfRequest, bfFirst>>

UpdateSettings(b, settings) == bfBot' = [bfBot EXCEPT ![b] = settings]

\* PATCH /bots/{id} with is_active.
updateSettings(b, on) ==
    /\ ownedBotByHandle(b)
    /\ UpdateSettings(b, [bfBot[b] EXCEPT !.state = IF on THEN "active" ELSE "inactive"])
    /\ bfRequest' = IF on THEN bfRequest \ {b} ELSE bfRequest \cup {b}
    /\ UNCHANGED <<bfDialog, bfReq, bfWord, bfFirst>>

-----------------------------------------------------------------------------
(* A message to BotFather *)

\* The person's own words about deleting the bot b, in the order they were taken up: nothing; a
\* /deletebot; the handle after it; the handle once more.
Heard(text) == [b \in Handles |->
    IF (text = "deletebot" /\ bfWord[b] = 0) \/ (text = b /\ bfWord[b] \in {1, 2})
    THEN bfWord[b] + 1 ELSE bfWord[b]]

\* What the handler reads before it acts: the person's bots for a command, the conversation for
\* an answer.
Handle(h, text) ==
    /\ In(h, "idle")
    /\ bfReq' = [bfReq EXCEPT ![h] =
          [at |-> "act", text |-> text,
           dialog |-> IF text \in Commands THEN Silence ELSE loadState,
           owned |-> IF text \in DOMAIN FlowOf THEN ListForOwner ELSE {}]]
    /\ bfWord' = Heard(text)
    /\ UNCHANGED <<bfDialog, bfBot, bfRequest, bfFirst>>

\* Past "which bot?" to the flow's question.  The row is saved first: the person may never see the
\* question, whose sending may fail.
advanceAfterTarget(h, flow, b) ==
    /\ saveState([flow |-> flow, step |-> IF flow = "setname" THEN "value" ELSE "confirm", bot |-> b])
    /\ Done(h)
    /\ UNCHANGED <<bfBot, bfWord, bfRequest, bfFirst>>

\* Who has one bot is not asked which; who has none keeps whatever conversation there was.
startTargetedFlow(h, flow) ==
    LET owned == bfReq[h].owned IN
    \/ /\ owned = {}
       /\ Done(h)
       /\ UNCHANGED <<bfDialog, bfBot, bfWord, bfRequest, bfFirst>>
    \/ \E b \in owned : owned = {b} /\ advanceAfterTarget(h, flow, b)
    \/ /\ Cardinality(owned) > 1
       /\ saveState([flow |-> flow, step |-> "target", bot |-> "none"])
       /\ Done(h)
       /\ UNCHANGED <<bfBot, bfWord, bfRequest, bfFirst>>

handleCommand(h) ==
    /\ In(h, "act") /\ bfReq[h].text \in Commands
    /\ \/ /\ bfReq[h].text = "cancel"
          /\ finishAnd(h)
          /\ UNCHANGED <<bfBot, bfWord, bfRequest, bfFirst>>
       \/ /\ bfReq[h].text = "newbot"
          /\ saveState([flow |-> "newbot", step |-> "name", bot |-> "none"])
          /\ Done(h)
          /\ UNCHANGED <<bfBot, bfWord, bfRequest, bfFirst>>
       \/ \E c \in DOMAIN FlowOf : bfReq[h].text = c /\ startTargetedFlow(h, FlowOf[c])

\* /setprivacy, in one message.
toggleFlag(h, b) ==
    /\ In(h, "idle") /\ ownedBotByHandle(b)
    /\ UpdateSettings(b, [bfBot[b] EXCEPT !.privacy = ~@])
    /\ UNCHANGED <<bfDialog, bfReq, bfWord, bfRequest, bfFirst>>

\* The name first; then a username, asked for again until one that may be used is given.
continueNewBot(h, answer) ==
    \/ /\ bfReq[h].dialog.step = "name"
       /\ saveState([bfReq[h].dialog EXCEPT !.step = "username"])
       /\ Done(h)
       /\ UNCHANGED <<bfBot, bfWord, bfRequest, bfFirst>>
    \/ /\ bfReq[h].dialog.step = "username"
       /\ CountOwned(h, answer) \/ (~Registrable(answer) /\ Done(h))
       /\ UNCHANGED <<bfDialog, bfBot, bfWord, bfRequest, bfFirst>>

applyValue(h) ==
    /\ bfReq[h].dialog.flow = "setname" /\ ownedBotByHandle(bfReq[h].dialog.bot)
    /\ finishAnd(h)
    /\ UNCHANGED <<bfBot, bfWord, bfRequest, bfFirst>>

\* A form that takes a "yes".
Agreed(h, answer) == answer = "yes"

\* Typing the handle back is the confirmation.
TypedBack(h, answer) == answer = bfReq[h].dialog.bot

confirmDelete(h, answer) ==
    LET b == bfReq[h].dialog.bot IN
    /\ IF TypedBack(h, answer) /\ ownedBotByHandle(b)
       THEN UpdateSettings(b, [bfBot[b] EXCEPT !.state = "inactive"]) ELSE UNCHANGED bfBot
    /\ finishAnd(h)
    /\ UNCHANGED <<bfWord, bfRequest, bfFirst>>

\* Every token is retired, and then one is issued in their place.
confirmRevoke(h, answer) ==
    LET b == bfReq[h].dialog.bot IN
    \/ /\ answer = "yes" /\ ownedBotByHandle(b)
       /\ RevokeAllTokens(b)
       /\ bfReq' = [bfReq EXCEPT ![h].at = "count", ![h].text = b]
       /\ UNCHANGED <<bfDialog, bfWord, bfRequest, bfFirst>>
    \/ /\ answer # "yes"
       /\ finishAnd(h)
       /\ UNCHANGED <<bfBot, bfWord, bfRequest, bfFirst>>

\* No conversation: help.  "Which bot?": a bot of theirs, or the question stays.
continueFlow(h) ==
    LET answer == bfReq[h].text
        dialog == bfReq[h].dialog
    IN  /\ In(h, "act") /\ answer \notin Commands
        /\ \/ /\ dialog = Silence \/ (dialog.step = "target" /\ ~ownedBotByHandle(answer))
              /\ Done(h)
              /\ UNCHANGED <<bfDialog, bfBot, bfWord, bfRequest, bfFirst>>
           \/ dialog.step = "target" /\ ownedBotByHandle(answer) /\ advanceAfterTarget(h, dialog.flow, answer)
           \/ dialog.flow = "newbot" /\ continueNewBot(h, answer)
           \/ dialog.step = "value" /\ applyValue(h)
           \/ dialog.flow = "delete" /\ dialog.step = "confirm" /\ confirmDelete(h, answer)
           \/ dialog.flow = "revoke" /\ dialog.step = "confirm" /\ confirmRevoke(h, answer)

Next ==
    \/ Lapse
    \/ \E h \in DialogHandlers :
        \/ \E text \in Commands \cup Answers : Handle(h, text)
        \/ handleCommand(h) \/ continueFlow(h) \/ Fails(h)
        \/ Register(h) \/ CountTokens(h) \/ IssueToken(h)
        \/ \E b \in Handles : register(h, b) \/ requestToken(h, b) \/ toggleFlag(h, b)
    \/ \E b \in Handles : revokeToken(b) \/ \E on \in BOOLEAN : updateSettings(b, on)

Spec == Init /\ [][Next]_bfVars

-----------------------------------------------------------------------------
(* Properties *)

\* A bot is switched off by a request that says so, or by a person who said /deletebot, then the
\* bot's handle and then its handle again, or only once where it was the only bot they had: however
\* their messages cross each other and the requests, and whatever conversation each was read in.
\* A handle said before /deletebot, and a "yes", never count; and a token is live only for a bot
\* that exists (Handle, startTargetedFlow, advanceAfterTarget, confirmDelete, Create).
DeletedOnPurpose ==
    \A b \in Handles :
        /\ bfBot[b].state = "inactive" => b \in bfRequest \/ bfWord[b] = 3 \/ (bfWord[b] = 2 /\ b = bfFirst)
        /\ bfBot[b].live > 0 => bfBot[b].state # "free"

-----------------------------------------------------------------------------
(* What the repository says of this code and the code does not do *)

\* botfather.go:92 says "/cancel always works": an answer taken up before the command saves the
\* next step of the conversation after the command has cleared it.
CancelEndsTheConversation ==
    [][bfDialog = Silence /\ bfDialog' # Silence =>
          \E h \in DialogHandlers : bfReq[h].text \in Commands /\ bfReq'[h] = Idle]_bfVars

\* botfather.go:418 says "Revoking everything and issuing one replacement": a token asked for
\* through the API between the two statements is as live as the replacement.
OneReplacement ==
    \A h \in DialogHandlers : In(h, "issue") /\ bfReq[h].dialog # Silence => bfBot[bfReq[h].text].live = 0

\* bots.go refuses a bot past MaxBotsPerOwner and a token past MaxTokensPerBot: both are counted
\* without a lock, and two requests count the same rows.
LimitsHold ==
    /\ Cardinality(ListForOwner) <= MaxBotsPerOwner
    /\ \A b \in Handles : bfBot[b].live <= MaxTokensPerBot
=============================================================================
