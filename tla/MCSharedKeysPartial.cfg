\* The server refuses a command.
SPECIFICATION Spec
CONSTANTS
    k1 = k1
    k2 = k2
    k3 = k3
    phone = phone
    laptop = laptop
    getter = getter
    eventLoop = eventLoop
    Sharers = {phone}
    Keys = {k1, k2, k3}
    Nothing = Nothing
    MaxCalls = 2
    Faults = {"error"}
INVARIANT PutIsReadable
CHECK_DEADLOCK FALSE
