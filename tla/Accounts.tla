------------------------------ MODULE Accounts ------------------------------
(* The components that serve one account: signing in, sessions, recovery, data requests, contacts, *)
(* limits, secret chats, notifications, uploads and stories.                                       *)
(*                                                                                                 *)
(* The components share no state, so a behaviour is of one of them: `active` says which, and the   *)
(* variables x1, x2, ... are its variables.                                                        *)
EXTENDS Naturals, FiniteSets

CONSTANTS
    People,     \* the people, or their devices, that a component serves
    Handlers,   \* requests in progress at once
    Workers,    \* worker processes
    OTPMaxAttempts, MaxDevices, MaxCodes, MaxVerifies,                  \* Login
    SessionIds, MaxRotations, MaxVersions,                              \* Sessions
    Emails, EmailCodeAttempts, MaxEmailCodes,                           \* Recovery
    MaxRequests, DataRequestBatch, DeletionDelay, RetryDelay, MaxTime,  \* DataRights
    MaxAsked,                                                           \* Contacts
    Limit, Window, Processes, WeightReport, WeightBlock,                \* AntiSpam
    WeightRateLimit,
    RestrictThreshold, RestrictFor, DecayPerDay, TicksPerDay,
    SweepAge, MaxClock, MaxScore,
    KeyIds, MaxIdentities, MaxClaims,                                   \* SecretKeys
    Letters, MaxTries, MaxOpens,                                        \* SecretMail
    MaxAccount, PageSize, NewsWorkers, Tokens, MaxDeliveries,           \* Notifications
    MaxSettings,
    TotalParts, MaxDeliver,                                             \* Media
    MaxStories                                                          \* Stories

\* What the proofs take from the constants.  A server has finitely many requests in flight; key
\* numbers, delays and limits are numbers, and a limit's window is not empty.
ASSUME FiniteHandlers == IsFiniteSet(Handlers)
ASSUME CodeBound == MaxCodes \in Nat
ASSUME DataDelays == MaxRequests \in Nat /\ DeletionDelay \in Nat /\ RetryDelay \in Nat
ASSUME AskedBound == MaxAsked \in Nat
ASSUME RuleAssumption ==
    Limit \in Nat /\ Processes \in Nat \ {0} /\ Window \in Nat \ {0} /\ RestrictFor \in Nat
ASSUME KeyNumbers == KeyIds \subseteq Nat
ASSUME AudiencePages == MaxAccount \in Nat /\ PageSize \in Nat \ {0}
ASSUME PartsNumber == TotalParts \in Nat

VARIABLES
    active,     \* the component that moves
    x1, x2, x3, x4, x5, x6, x7, x8, x9, x10, x11   \* its variables

shared == <<x1, x2, x3, x4, x5, x6, x7, x8, x9, x10, x11>>

Login == INSTANCE Login WITH
    Clients <- People, otp <- x1, otpCooldown <- x2, loginUser <- x3, loginDevices <- x4,
    loginSessions <- x5, loginReq <- x6, loginTries <- x7
Sessions == INSTANCE Sessions WITH
    Requests <- Handlers, sessRow <- x1, sessUser <- x2, sessTokens <- x3, sessDenied <- x4,
    sessCached <- x5, sessCacheUp <- x6, sessReq <- x7, sessOut <- x8
Recovery == INSTANCE Recovery WITH
    recEmail <- x1, recRecovery <- x2, recCodes <- x3, recRecent <- x4, recReq <- x5,
    recProved <- x6, recResets <- x7
DataRights == INSTANCE DataRights WITH
    AskHandlers <- Handlers, DataWorkers <- Workers, drNow <- x1, drRow <- x2, drAsk <- x3,
    drWork <- x4, drAccount <- x5, drDone <- x6, drTaken <- x7
Contacts == INSTANCE Contacts WITH
    ctBook <- x1, ctFavorite <- x2, ctBlocked <- x3, ctAsked <- x4, ctReq <- x5,
    ctResolved <- x6
AntiSpam == INSTANCE AntiSpam WITH
    asNow <- x1, asRedis <- x2, asWindow <- x3, asScore <- x4, asAllowed <- x5,
    asSentence <- x6
SecretKeys == INSTANCE SecretKeys WITH
    Claimers <- People, skIdentity <- x1, skLocal <- x2, skPrekeys <- x3, skRevoked <- x4,
    skClaim <- x5, skClaims <- x6, skSession <- x7, skHanded <- x8
SecretMail == INSTANCE SecretMail WITH
    Peers <- People, mailChats <- x1, mailPair <- x2, mailOpen <- x3, mailOpened <- x4,
    mailAnswers <- x5, mailTries <- x6, mailFlying <- x7, mailBox <- x8, mailFetched <- x9,
    mailRead <- x10, mailSent <- x11
Notifications == INSTANCE Notifications WITH
    ntSet <- x1, ntUnread <- x2, ntToken <- x3, ntTries <- x4, ntWork <- x5, ntPush <- x6,
    ntSend <- x7, ntEdits <- x8
Media == INSTANCE Media WITH
    Uploaders <- Handlers, MediaWorkers <- Workers, mdRow <- x1, mdSess <- x2,
    mdParts <- x3, mdStore <- x4, mdQueue <- x5, mdReq <- x6, mdWork <- x7, mdTruth <- x8
Stories == INSTANCE Stories WITH
    StoryUsers <- People, StoryHandlers <- Handlers, stStory <- x1, stViews <- x2,
    stFriends <- x3, stBook <- x4, stPoster <- x5, stReq <- x6, stGone <- x7

-----------------------------------------------------------------------------
(* One component moves *)

Init ==
    \/ /\ active = "login" /\ Login!Init
       /\ x8 = 0 /\ x9 = 0 /\ x10 = 0 /\ x11 = 0
    \/ /\ active = "sessions" /\ Sessions!Init
       /\ x9 = 0 /\ x10 = 0 /\ x11 = 0
    \/ /\ active = "recovery" /\ Recovery!Init
       /\ x8 = 0 /\ x9 = 0 /\ x10 = 0 /\ x11 = 0
    \/ /\ active = "data" /\ DataRights!Init
       /\ x8 = 0 /\ x9 = 0 /\ x10 = 0 /\ x11 = 0
    \/ /\ active = "contacts" /\ Contacts!Init
       /\ x7 = 0 /\ x8 = 0 /\ x9 = 0 /\ x10 = 0 /\ x11 = 0
    \/ /\ active = "limits" /\ AntiSpam!Init
       /\ x7 = 0 /\ x8 = 0 /\ x9 = 0 /\ x10 = 0 /\ x11 = 0
    \/ /\ active = "keys" /\ SecretKeys!Init
       /\ x9 = 0 /\ x10 = 0 /\ x11 = 0
    \/ /\ active = "mail" /\ SecretMail!Init
    \/ /\ active = "notifications" /\ Notifications!Init
       /\ x9 = 0 /\ x10 = 0 /\ x11 = 0
    \/ /\ active = "media" /\ Media!Init
       /\ x9 = 0 /\ x10 = 0 /\ x11 = 0
    \/ /\ active = "stories" /\ Stories!Init
       /\ x8 = 0 /\ x9 = 0 /\ x10 = 0 /\ x11 = 0

LoginStep == active = "login" /\ Login!Next /\ UNCHANGED <<active, x8, x9, x10, x11>>
SessionsStep == active = "sessions" /\ Sessions!Next /\ UNCHANGED <<active, x9, x10, x11>>
RecoveryStep == active = "recovery" /\ Recovery!Next /\ UNCHANGED <<active, x8, x9, x10, x11>>
DataRightsStep == active = "data" /\ DataRights!Next /\ UNCHANGED <<active, x8, x9, x10, x11>>
ContactsStep == active = "contacts" /\ Contacts!Next /\ UNCHANGED <<active, x7, x8, x9, x10, x11>>
AntiSpamStep == active = "limits" /\ AntiSpam!Next /\ UNCHANGED <<active, x7, x8, x9, x10, x11>>
SecretKeysStep == active = "keys" /\ SecretKeys!Next /\ UNCHANGED <<active, x9, x10, x11>>
SecretMailStep == active = "mail" /\ SecretMail!Next /\ UNCHANGED active
NotificationsStep == active = "notifications" /\ Notifications!Next /\ UNCHANGED <<active, x9, x10, x11>>
MediaStep == active = "media" /\ Media!Next /\ UNCHANGED <<active, x9, x10, x11>>
StoriesStep == active = "stories" /\ Stories!Next /\ UNCHANGED <<active, x8, x9, x10, x11>>

Next ==
    \/ LoginStep \/ SessionsStep \/ RecoveryStep \/ DataRightsStep \/ ContactsStep
    \/ AntiSpamStep \/ SecretKeysStep \/ SecretMailStep \/ NotificationsStep
    \/ MediaStep \/ StoriesStep

Spec == Init /\ [][Next]_<<active, shared>>

-----------------------------------------------------------------------------
(* Properties *)

\* A code opens one session however many clients present it at once (VerifyOTP,
\* ConsumeOTPChallenge).
CodeOpensOneSession == active = "login" => Login!CodeOpensOneSession

\* No request that starts after a sign-out has reached the denylist is let in by a token of that
\* session, whatever the cache does (AuthenticateToken, denySession).
SignedOutStaysOut == active = "sessions" => Sessions!SignedOutStaysOut

\* The recovery address is the address on the account and was proved, however enrolling, proving
\* and removing overlap (ConfirmEmail, ConsumeEmailChallenge).
RecoveryAddressIsProved == active = "recovery" => Recovery!RecoveryAddressIsProved

\* An account is deleted only on a request that had its full delay and was not withdrawn while it
\* waited (ClaimDue, Cancel, MarkFailed, Delete).
DeletionHasItsDelay == active = "data" => DataRights!DeletionHasItsDelay

\* A contact request is answered once, and a full sync spares the favourites it still finds
\* (ResolveRequest, ReplaceContacts).
ContactsHold ==
    /\ [](active = "contacts" => Contacts!RequestResolvedOnce)
    /\ [][active = "contacts" => Contacts!SparesFavorites]_<<active, shared>>

\* No more than Limit events pass in a window, and a restriction is served to its end (Allow,
\* Record, Decay).
LimitsAreKept == active = "limits" => AntiSpam!LimitsAreKept

\* A one-time prekey is handed out once, however claims, uploads and reinstallations overlap
\* (ClaimBundle, StorePrekeys).
PrekeyHandedOnce == active = "keys" => SecretKeys!PrekeyHandedOnce

\* Two users have one secret chat, and an envelope waits in it until the device has it
\* (EnsureSecretChat, AcknowledgeEnvelopes).
SecretMailArrives == active = "mail" => SecretMail!SecretMailArrives

\* A pass over the audience misses no more of those who stay in it than leave it meanwhile, and
\* repeats itself no more often than people join (handleNewsPublish, BreakingNewsAudience).
SubscribersAreTold == active = "notifications" => Notifications!SubscribersAreTold

\* A file the server has vouched for keeps its bytes unless the scanner condemned it
\* (CompleteUpload, AbortUpload, reapExpiredUploads).
VerifiedMediaIsStored == active = "media" => Media!VerifiedMediaIsStored

\* A story is counted once per viewer; what the feed lists may be opened, and what may be opened
\* is listed while its author has an account (RecordView, Feed, CanView, Delete of datarights).
ViewsAreCountedAndFeedOpens == active = "stories" => Stories!ViewsAreCountedAndFeedOpens
=============================================================================
