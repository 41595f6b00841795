SPECIFICATION FairSpec
CONSTANTS
    Users = {1, 2}
    Chats = {c1, c2}
    ClientIds = {k1}
    Handlers = {h1, h2}
    InitialMembers <- EveryoneIn
    Movers = {}
    FanoutThreshold = 5
    Ops = {"send", "publish", "delete", "clear_all", "read", "rollback"}
    Reads <- OneReader
    MaxSeq = 2
    MaxEvents = 3
INVARIANT OneMessagePerKey
PROPERTIES StoreIsSound ImplementsEventLog RequestsFinish
CHECK_DEADLOCK FALSE
