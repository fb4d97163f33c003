\* A read() that returns a part of a record: a reply whose newline ends a chunk of 1024
\* bytes, or one whose prompt travels in a record of its own.
SPECIFICATION Spec
CONSTANTS
    Callers = {main}
    main = main
    eventLoop = eventLoop
    MaxCommands = 3
    ShortReads = TRUE
    Reconnects = FALSE
    Retries = {FALSE}
    PeerFaults = {}
INVARIANT ReplyMatchesCommand
CHECK_DEADLOCK FALSE
