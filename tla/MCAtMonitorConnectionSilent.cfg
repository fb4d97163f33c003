\* The network goes silent: no line, no error, no acknowledgement.
SPECIFICATION Spec
CONSTANTS
    heartbeat = heartbeat
    app = app
    other = other
    Starters = {app}
    Stoppers = {}
    PeerFaults = {"silent"}
    MaxStarts = 1
    Stoppable = FALSE
INVARIANT RestartGoesThrough
CHECK_DEADLOCK FALSE
