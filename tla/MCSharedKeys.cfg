\* Two clients of the sharer that do not create a key at the same time, every fault.
SPECIFICATION ApartSpec
CONSTANTS
    k1 = k1
    k2 = k2
    k3 = k3
    phone = phone
    laptop = laptop
    getter = getter
    eventLoop = eventLoop
    Sharers = {phone, laptop}
    Keys = {k1, k2, k3}
    Nothing = Nothing
    MaxCalls = 4
    Faults = {"error", "lost"}
SYMMETRY Symmetry
INVARIANTS
    TypeOK
    RightKey
    KeysAgree
    CacheIsFresh
    OneKey
CHECK_DEADLOCK FALSE
