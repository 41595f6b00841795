SPECIFICATION Spec
CONSTANTS
    u1 = u1
    u2 = u2
    u3 = u3
    r1 = r1
    r2 = r2
    Users = {u1, u2, u3}
    Creator = u1
    Requests = {r1, r2}
    Operations = {"add", "remove", "leave", "delete", "invite", "public", "settings"}
    ChatType = "group"
    GrantedRoles = {"admin"}
    MemberLimits = {1, 2}
    LinkLimit = 1
    MaxCount = 4
SYMMETRY Symmetry
INVARIANT CountsMatch
PROPERTY EntryIsGuarded
CHECK_DEADLOCK FALSE
