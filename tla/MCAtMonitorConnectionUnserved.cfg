\* The server breaks the connection under a reader that it serves.
SPECIFICATION HistorySpec
CONSTANTS
    heartbeat = heartbeat
    app = app
    other = other
    Starters = {app}
    Stoppers = {}
    PeerFaults = {"reset"}
    MaxStarts = 1
    Stoppable = FALSE
INVARIANT ReadersAreServed
CHECK_DEADLOCK FALSE
