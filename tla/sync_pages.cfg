SPECIFICATION Spec
CONSTANTS
    Devices = {d1}
    Mobile = {d1}
    NoDevice = NoDevice
    Runs = {r1}
    PageSize = 1
    MaxPages = 3
    MaxEvents = 2
    MaxHellos = 2
    Faults = {"disconnect"}
INVARIANTS CatchUpReachesTheHead
CHECK_DEADLOCK FALSE
