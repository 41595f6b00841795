SPECIFICATION Spec
CONSTRAINTS TwoAtAFile FewNamed PassAlone
CONSTANTS
    People = {"a", "b"}
    Handlers = {h1, h2}
    Workers = {w1, w2}
    \* Login
    OTPMaxAttempts = 1  MaxDevices = 1  MaxCodes = 2  MaxVerifies = 4
    \* Sessions
    SessionIds = {1, 2}  MaxRotations = 2  MaxVersions = 2
    \* Recovery
    Emails = {"a", "b"}  EmailCodeAttempts = 2  MaxEmailCodes = 3
    \* DataRights
    MaxRequests = 2  DataRequestBatch = 2  DeletionDelay = 2  RetryDelay = 1
    MaxTime = 3
    \* Contacts
    MaxAsked = 1
    \* AntiSpam
    Limit = 2  Window = 2  Processes = 1  WeightReport = 3  WeightBlock = 2  WeightRateLimit = 1
    RestrictThreshold = 4  RestrictFor = 3  DecayPerDay = 3  TicksPerDay = 3
    SweepAge = 1  MaxClock = 6  MaxScore = 5
    \* SecretKeys
    KeyIds = {1, 2}  MaxIdentities = 2  MaxClaims = 2
    \* SecretMail
    Letters = {"m1", "m2"}  MaxTries = 2  MaxOpens = 3
    \* Notifications
    MaxAccount = 3  PageSize = 2  NewsWorkers = {"w"}  Tokens = {"t"}
    MaxDeliveries = 2  MaxSettings = 2
    \* Media
    TotalParts = 1  MaxDeliver = 2
    \* Stories
    MaxStories = 1
SYMMETRY Symmetry
INVARIANTS
    CodeOpensOneSession
    SignedOutStaysOut
    RecoveryAddressIsProved
    DeletionHasItsDelay
    LimitsAreKept
    PrekeyHandedOnce
    SecretMailArrives
    SubscribersAreTold
    VerifiedMediaIsStored
    ViewsAreCountedAndFeedOpens
PROPERTIES ContactsHold
CHECK_DEADLOCK FALSE
