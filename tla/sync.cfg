SPECIFICATION Spec
CONSTANTS
    Devices = {d1, d2}
    Mobile = {d1}
    NoDevice = NoDevice
    Runs = {r1}
    PageSize = 1
    MaxPages = 2
    MaxEvents = 2
    MaxHellos = 2
    Faults = {"lose_frame", "disconnect", "restart", "rest_error"}
PROPERTY NoEventIsLost
CHECK_DEADLOCK FALSE
