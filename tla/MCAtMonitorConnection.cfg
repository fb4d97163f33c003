\* One application thread that starts the monitor once, as in examples/repl.py, one
\* that stops it, and every fault.
SPECIFICATION FairSpec
CONSTANTS
    heartbeat = heartbeat
    app = app
    other = other
    Starters = {app}
    Stoppers = {other}
    PeerFaults = {"silent", "eof", "reset"}
    MaxStarts = 1
    Stoppable = TRUE
INVARIANTS
    TypeOK
    AtMostOneReader
    OwnerIsRunning
    LockHasHolder
PROPERTIES
    HeartbeatTakesOver
    ClosedIsNoticed
    HeartbeatStopsUnlessReading
CHECK_DEADLOCK FALSE
