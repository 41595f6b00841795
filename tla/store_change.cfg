SPECIFICATION Spec
CONSTANTS
    Users = {1, 2}
    Chats = {c1}
    ClientIds = {k1}
    Handlers = {h1, h2}
    InitialMembers <- OnlyTheFirstIn
    Movers = {2}
    FanoutThreshold = 1
    Ops = {"send", "as_chat", "edit", "delete", "clear_all", "clear_self", "membership"}
    Reads = {}
    MaxSeq = 2
    MaxEvents = 3
SYMMETRY Symmetry
INVARIANTS ChatGapFree ReplayIsFaithful ClearIsExact
CHECK_DEADLOCK FALSE
