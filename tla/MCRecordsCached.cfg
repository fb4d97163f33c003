\* cache() on the SharedKey, as examples/share.py does.
SPECIFICATION Spec
CONSTANTS
    me = me
    other = other
    NoOne = NoOne
    None = None
    Cached = {"shared"}
    Timed = {"self"}
    Sends <- AllFlags
    MayFail = FALSE
    MaxPuts = 1
INVARIANT DeletedIsGone
CHECK_DEADLOCK FALSE
