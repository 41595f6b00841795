SPECIFICATION Spec
CONSTANTS
    Users = {1, 2}
    Chats = {c1}
    ClientIds = {k1}
    Handlers = {h1, h2}
    InitialMembers <- EveryoneIn
    Movers = {}
    FanoutThreshold = 5
    Ops = {"send", "read"}
    Reads <- AnyRead
    MaxSeq = 3
    MaxEvents = 4
INVARIANTS UnreadNeverLost
CHECK_DEADLOCK FALSE
