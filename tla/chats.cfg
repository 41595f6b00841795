SPECIFICATION Spec
CONSTRAINTS OneTopicModerated OnePostDiscussed DeletionUnderWay ReadersAndButtons
CONSTANTS
    People = {"a", "b"}
    Handlers = {h1, h2}
    \* Calls
    CallUsers = {s1, s2, s3}  MaxGroupParticipants = 2  MaxCallRequests = 3
    \* Polls
    Options = {"x", "y"}  MaxPolls = 1
    \* ForumTopics
    TopicStaff = {"a"}  TopicReader = "b"  ReadTopics = {1}  MaxTopics = 1
    MaxPosts = 2
    \* Discussions
    Channels = {"c1", "c2"}  Channel = "c1"  Groups = {t1, t2}  Posts = {"p"}
    MaxMirrors = 2  MaxComments = 2
    \* NamedRoles
    RoleNames = {"r1", "r2"}  Alien = "x"  RoleMembers = {"owner", "admin", "member"}
    MaxRolesPerChat = 1
    \* News
    Readers = {"a"}  Desks = {"h"}  Pictures = {"p"}  MaxEdits = 2  MaxDay = 2
    \* Bots
    Buttons = {"x"}  Results = {"r"}  UpdateBacklog = 2  PollLimit = 1  MaxUpdates = 3
    \* BotFather
    Handles = {t1, t2}  MaxBotsPerOwner = 2  MaxTokensPerBot = 1
    \* Presence
    Devices = {"d1", "d2", "d3"}  Connections = {s1, s2, s3}  Owner <- Owners
    Faults = {"lapse", "cache"}
SYMMETRY Symmetry
INVARIANTS
    HangUpIsFinal
    TalliesMatchBallots
    TopicsHoldTheirMessages
    OneThreadAPost
    HeldAsGiven
    OnlyEditorsMoveTheFeed
    UpdatesReachTheBot
    DeletedOnPurpose
    QuietMeansOffline
    NoGhostDevice
CHECK_DEADLOCK FALSE
