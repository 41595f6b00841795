SPECIFICATION Spec
CONSTANTS
    u1 = u1
    u2 = u2
    u3 = u3
    r1 = r1
    r2 = r2
    Users = {u1, u2, u3}
    Creator = u1
    Requests = {r1, r2}
    Operations = {"transfer", "role", "public", "approve", "reject", "erase",
                  "add", "remove", "leave", "delete", "invite", "link"}
    ChatType = "group"
    GrantedRoles = {"admin"}
    MemberLimits = {2, 3}
    LinkLimit = 1
    MaxCount = 3
CONSTRAINT OneFamily
SYMMETRY Symmetry
INVARIANTS AtMostOneOwner
CHECK_DEADLOCK FALSE
