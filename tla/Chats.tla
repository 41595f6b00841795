-------------------------------- MODULE Chats -------------------------------
(* What people do in chats and channels: calls, polls, forum topics, discussion groups, named      *)
(* roles, news, bots, and being seen online.                                                       *)
(*                                                                                                 *)
(* The components share no state, so a behaviour is of one of them: `active` says which, and the   *)
(* variables x1, x2, ... are its variables.                                                        *)
EXTENDS Naturals, FiniteSets

CONSTANTS
    People,     \* the people, or their devices, that a component serves
    Handlers,   \* requests in progress at once
    CallUsers, MaxGroupParticipants, MaxCallRequests,                   \* Calls
    Options, MaxPolls,                                                  \* Polls
    TopicStaff, TopicReader, ReadTopics, MaxTopics, MaxPosts,           \* ForumTopics
    Channels, Channel, Groups, Posts, MaxMirrors, MaxComments,          \* Discussions
    RoleNames, Alien, RoleMembers, MaxRolesPerChat,                     \* NamedRoles
    Readers, Desks, Pictures, MaxEdits, MaxDay,                         \* News
    Buttons, Results, UpdateBacklog, PollLimit, MaxUpdates,             \* Bots
    Handles, MaxBotsPerOwner, MaxTokensPerBot,                          \* BotFather
    Devices, Connections, Owner, Faults                                 \* Presence

\* What the proofs take from the constants.  A server has finitely many requests in flight and
\* finitely many people, a poll finitely many options; limits are numbers, "none" stands for no
\* link, and a device is somebody's.
ASSUME FiniteHandlers == IsFiniteSet(Handlers)
ASSUME FinitePeople == IsFiniteSet(People)
ASSUME FiniteOptions == IsFiniteSet(Options)
ASSUME RoleLimit == MaxRolesPerChat \in Nat \ {0}
ASSUME TopicBound == MaxTopics \in Nat
ASSUME LinkNames == Channel \in Channels /\ "none" \notin Groups \cup Channels
ASSUME UpdateBounds == MaxUpdates \in Nat /\ UpdateBacklog \in Nat /\ PollLimit \in Nat
ASSUME PhoneOwners == Owner \in [Devices -> People]

VARIABLES
    active,     \* the component that moves
    x1, x2, x3, x4, x5, x6, x7, x8, x9, x10, x11   \* its variables

shared == <<x1, x2, x3, x4, x5, x6, x7, x8, x9, x10, x11>>

Calls == INSTANCE Calls WITH
    callRow <- x1, callPart <- x2, callSess <- x3, callReq <- x4, callCount <- x5,
    callTold <- x6, callOver <- x7
Polls == INSTANCE Polls WITH
    Voters <- People, PollHandlers <- Handlers, poPoll <- x1, poVotes <- x2, poMsg <- x3,
    poReq <- x4, poShown <- x5, poFinal <- x6
ForumTopics == INSTANCE ForumTopics WITH
    TopicUsers <- People, TopicHandlers <- Handlers, tpForum <- x1, tpTopic <- x2,
    tpPost <- x3, tpRead <- x4, tpReq <- x5, tpRule <- x6
Discussions == INSTANCE Discussions WITH
    CommentHandlers <- Handlers, dcLink <- x1, dcBack <- x2, dcEnabled <- x3, dcPost <- x4,
    dcMirror <- x5, dcThread <- x6, dcComment <- x7, dcCount <- x8, dcMember <- x9,
    dcReq <- x10
NamedRoles == INSTANCE NamedRoles WITH
    RoleHandlers <- Handlers, rlDef <- x1, rlHeld <- x2, rlIn <- x3, rlReq <- x4,
    rlWanted <- x5
News == INSTANCE News WITH
    nwArt <- x1, nwViews <- x2, nwReader <- x3, nwCategory <- x4, nwGallery <- x5,
    nwTrans <- x6, nwReq <- x7, nwJobs <- x8, nwIndex <- x9, nwMoved <- x10, nwClock <- x11
Bots == INSTANCE Bots WITH
    BotHandlers <- Handlers, buBot <- x1, buRow <- x2, buReq <- x3, buShown <- x4,
    buOver <- x5, buKeys <- x6, buTap <- x7, buAsk <- x8, buAlien <- x9
BotFather == INSTANCE BotFather WITH
    DialogHandlers <- Handlers, bfDialog <- x1, bfBot <- x2, bfReq <- x3, bfWord <- x4,
    bfRequest <- x5, bfFirst <- x6
Presence == INSTANCE Presence WITH
    Users <- People, at <- x1, device <- x2, key <- x3, listed <- x4, lastSeen <- x5,
    announced <- x6, failed <- x7

-----------------------------------------------------------------------------
(* One component moves *)

Init ==
    \/ /\ active = "calls" /\ Calls!Init
       /\ x8 = 0 /\ x9 = 0 /\ x10 = 0 /\ x11 = 0
    \/ /\ active = "polls" /\ Polls!Init
       /\ x7 = 0 /\ x8 = 0 /\ x9 = 0 /\ x10 = 0 /\ x11 = 0
    \/ /\ active = "topics" /\ ForumTopics!Init
       /\ x7 = 0 /\ x8 = 0 /\ x9 = 0 /\ x10 = 0 /\ x11 = 0
    \/ /\ active = "discussions" /\ Discussions!Init
       /\ x11 = 0
    \/ /\ active = "roles" /\ NamedRoles!Init
       /\ x6 = 0 /\ x7 = 0 /\ x8 = 0 /\ x9 = 0 /\ x10 = 0 /\ x11 = 0
    \/ /\ active = "news" /\ News!Init
    \/ /\ active = "bots" /\ Bots!Init
       /\ x10 = 0 /\ x11 = 0
    \/ /\ active = "botfather" /\ BotFather!Init
       /\ x7 = 0 /\ x8 = 0 /\ x9 = 0 /\ x10 = 0 /\ x11 = 0
    \/ /\ active = "presence" /\ Presence!Init
       /\ x8 = 0 /\ x9 = 0 /\ x10 = 0 /\ x11 = 0

CallsStep == active = "calls" /\ Calls!Next /\ UNCHANGED <<active, x8, x9, x10, x11>>
PollsStep == active = "polls" /\ Polls!Next /\ UNCHANGED <<active, x7, x8, x9, x10, x11>>
ForumTopicsStep == active = "topics" /\ ForumTopics!Next /\ UNCHANGED <<active, x7, x8, x9, x10, x11>>
DiscussionsStep == active = "discussions" /\ Discussions!Next /\ UNCHANGED <<active, x11>>
NamedRolesStep == active = "roles" /\ NamedRoles!Next /\ UNCHANGED <<active, x6, x7, x8, x9, x10, x11>>
NewsStep == active = "news" /\ News!Next /\ UNCHANGED active
BotsStep == active = "bots" /\ Bots!Next /\ UNCHANGED <<active, x10, x11>>
BotFatherStep == active = "botfather" /\ BotFather!Next /\ UNCHANGED <<active, x7, x8, x9, x10, x11>>
PresenceStep == active = "presence" /\ Presence!Next /\ UNCHANGED <<active, x8, x9, x10, x11>>

Next ==
    \/ CallsStep \/ PollsStep \/ ForumTopicsStep \/ DiscussionsStep \/ NamedRolesStep
    \/ NewsStep \/ BotsStep \/ BotFatherStep \/ PresenceStep

Spec == Init /\ [][Next]_<<active, shared>>

-----------------------------------------------------------------------------
(* Properties *)

\* A direct call is over for good once a hang-up or a refusal has been answered, whatever the other
\* side was doing (Answer, Leave, End).
HangUpIsFinal == active = "calls" => Calls!HangUpIsFinal

\* The counters of a poll say what its stored ballots say, whatever ballots cross (Vote, Close).
TalliesMatchBallots == active = "polls" => Polls!TalliesMatchBallots

\* Topics count their messages across conversions and sends that cross them, and stay closed until a
\* moderator opens them (EnableForum, UpdateTopic, DeleteTopic).
TopicsHoldTheirMessages == active = "topics" => ForumTopics!TopicsHoldTheirMessages

\* The comments of a post answer one mirror of it, however many handlers mirror it at once
\* (RecordCommentThread, WithdrawMirror).
OneThreadAPost == active = "discussions" => Discussions!OneThreadAPost

\* A member holds the role last given to them, and a refused request takes nothing away
\* (AssignRole, DeleteRole).
HeldAsGiven == active = "roles" => NamedRoles!HeldAsGiven

\* Only an editor's decision moves an article into or out of the feed, however an author's
\* withdrawal crosses the worker's promotion (SetStatus, publishScheduledArticles).
OnlyEditorsMoveTheFeed == active = "news" => News!OnlyEditorsMoveTheFeed

\* An update leaves the queue only when the bot was given it or enough later ones were written
\* (Enqueue, Poll).
UpdatesReachTheBot == active = "bots" => Bots!UpdatesReachTheBot

\* A bot is switched off only by a person who was asked about it and typed its handle
\* (confirmDelete).
DeletedOnPurpose == active = "botfather" => BotFather!DeletedOnPurpose

\* Once every connection of a user has gone, the user is offline and was last announced offline,
\* however connections of several devices overlap, until a command to Redis fails (MarkOnline,
\* MarkOffline).
QuietMeansOffline == active = "presence" => Presence!QuietMeansOffline

\* Every presence key belongs to a connection that has yet to remove it, until a command to Redis
\* fails (ServeHTTP pairs MarkOnline with MarkOffline).
NoGhostDevice == active = "presence" => Presence!NoGhostDevice
=============================================================================
