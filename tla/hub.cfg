SPECIFICATION Spec
CONSTANTS
    Users = {u1, u2}
    Sockets = {s1, s2}
    Chats = {c1}
    SendBuffer = 1
    MaxPosts = 2
    MaxRequests = 1
    Faults = {"subscribe", "shutdown"}
SYMMETRY Symmetry
INVARIANTS SubscriptionsMatchListeners FramesArriveOnce
