\* The prompt and the event loop of examples/repl.py on one connection.
SPECIFICATION Spec
CONSTANTS
    Callers <- ReplThreads
    main = main
    eventLoop = eventLoop
    MaxCommands = 2
    ShortReads = FALSE
    Reconnects = FALSE
    Retries = {FALSE}
    PeerFaults = {}
INVARIANT ReplyMatchesCommand
CHECK_DEADLOCK FALSE
