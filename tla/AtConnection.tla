---------------------------- MODULE AtConnection ----------------------------
(***************************************************************************)
(* One AtConnection (at_client/connections/atconnection.py) and the        *)
(* threads that call execute_command on it, with the byte stream between   *)
(* the client and the server it is connected to.                           *)
(*                                                                         *)
(* The stream is a sequence of TLS records.  A record is a sequence of     *)
(* units: a reply line, and the pieces of the prompt the server prints     *)
(* when it is ready ("@" before authentication, "@alice@" after it).  A    *)
(* unit carries the number of the command it answers, which the real       *)
(* protocol does not: replies are told apart by their position only.       *)
(*                                                                         *)
(* execute_command(read_the_response=False) is used by the monitor         *)
(* connection only and is modelled there.                                  *)
(***************************************************************************)
EXTENDS Naturals, Sequences

CONSTANTS
    Callers,      \* the threads that call execute_command on this connection
    MaxCommands,  \* bound: how many commands they issue in all
    ShortReads,   \* may one read() return a part of a record?
    Reconnects,   \* does the owner call connect() before a command when the
                  \* connection is down?  find_secondary does, AtClient does not
    Retries,      \* the values of retry_on_exception that callers pass
    PeerFaults    \* what may go wrong: subset of {"eof", "reset", "timeout"}

ASSUME BoundAssumption == MaxCommands \in Nat
ASSUME OptionAssumption ==
    /\ ShortReads \in BOOLEAN
    /\ Reconnects \in BOOLEAN
    /\ Retries \subseteq BOOLEAN
    /\ PeerFaults \subseteq {"eof", "reset", "timeout"}
\* The connections that threads share belong to AtClient, which never opens its
\* connection a second time.  (A thread blocked in read() stays on the old
\* socket when another thread replaces it: one stream would not be enough.)
ASSUME SharingAssumption ==
    (\E c, d \in Callers : c # d) => ~Reconnects /\ Retries = {FALSE}

VARIABLES
    connected,  \* _connected
    sock,       \* _secure_root_socket and its TCP connection
    stream,     \* records on their way to the client, the oldest first
    requests,   \* commands on their way to the server, or being served
    issued,     \* how many commands were issued (numbers the commands)
    pc,         \* pc[c]: where thread c is
    cmd,        \* cmd[c]: the command c is executing, or executed last
    raising,    \* raising[c]: the raise_exception of the running call
    retry,      \* retry[c]: the retry_on_exception of the running call
    buf,        \* buf[c]: response, the local variable of read()
    status,     \* status[c]: how the last call of c ended
    reply       \* reply[c]: the command whose reply that call ended with

link == <<connected, sock, stream, requests>>
call == <<cmd, raising, retry>>
result == <<status, reply>>
vars == <<link, issued, pc, call, buf, result>>

-----------------------------------------------------------------------------
Commands == 1..MaxCommands
NoCommand == 0

\* What parse_raw_response and get_exception tell apart: a result, an error,
\* the error AT0021 (AtSecondaryConnectException), a line they cannot read.
LineKinds == {"data", "error", "refused", "malformed"}
Unit ==
    [kind : LineKinds, of : Commands]
        \cup [kind : {"at", "name"}, of : {NoCommand}]

Line(kind, k) == [kind |-> kind, of |-> k]
At == [kind |-> "at", of |-> NoCommand]      \* the byte that ends a prompt
Name == [kind |-> "name", of |-> NoCommand]  \* "@alice", after authentication

\* What the server prints when a client connects.
Greeting == <<At>>

\* What the server prints for command k: its reply, and a prompt.
ReplyRecords(k) ==
    {<<Line(kind, k), At>> : kind \in LineKinds}
        \cup {<<Line(kind, k), Name, At>> : kind \in LineKinds}

\* The reply lines in a sequence of units (read() stops at the first).
Lines(units) == {units[i] : i \in {j \in DOMAIN units : units[j].kind \in LineKinds}}

TypeOK ==
    /\ connected \in BOOLEAN
    /\ sock \in {"none", "open", "eof", "reset", "closed"}
    /\ stream \in Seq(Seq(Unit))
    /\ requests \in Seq(Commands)
    /\ issued \in 0..MaxCommands
    /\ pc \in [Callers -> {"idle", "connect", "greet", "write", "read", "parse"}]
    /\ cmd \in [Callers -> 0..issued]
    /\ raising \in [Callers -> BOOLEAN]
    /\ retry \in [Callers -> BOOLEAN]
    /\ buf \in [Callers -> Seq(Unit)]
    /\ status \in [Callers -> {"none", "data", "error", "failed"}]
    /\ reply \in [Callers -> Commands \cup {NoCommand}]
    /\ \A c \in Callers :
          /\ pc[c] # "idle" => cmd[c] # NoCommand /\ reply[c] = NoCommand
          /\ status[c] \in {"data", "error"} <=> reply[c] # NoCommand

Init ==
    /\ connected = FALSE
    /\ sock = "none"
    /\ stream = <<>>
    /\ requests = <<>>
    /\ issued = 0
    /\ pc = [c \in Callers |-> "idle"]
    /\ cmd = [c \in Callers |-> NoCommand]
    /\ raising = [c \in Callers |-> FALSE]
    /\ retry = [c \in Callers |-> FALSE]
    /\ buf = [c \in Callers |-> <<>>]
    /\ status = [c \in Callers |-> "none"]
    /\ reply = [c \in Callers |-> NoCommand]

-----------------------------------------------------------------------------
Goto(c, label) == pc' = [pc EXCEPT ![c] = label]

\* The call of c ends; k is the command whose reply it ends with.
Return(c, how, k) ==
    /\ Goto(c, "idle")
    /\ status' = [status EXCEPT ![c] = how]
    /\ reply' = [reply EXCEPT ![c] = k]

\* The call of c ends with an exception that no reply caused.
Raise(c) == Return(c, "failed", NoCommand)

\* A thread begins a command.  The constructor of AtClient opens the
\* connection once; find_secondary opens it whenever it is down.
Call(c) ==
    /\ pc[c] = "idle"
    /\ issued < MaxCommands
    /\ issued' = issued + 1
    /\ cmd' = [cmd EXCEPT ![c] = issued']
    /\ \E r \in BOOLEAN : raising' = [raising EXCEPT ![c] = r]
    /\ \E r \in Retries : retry' = [retry EXCEPT ![c] = r]
    /\ status' = [status EXCEPT ![c] = "none"]
    /\ reply' = [reply EXCEPT ![c] = NoCommand]
    /\ Goto(c, IF ~connected /\ (Reconnects \/ sock = "none")
               THEN "connect" ELSE "write")
    /\ UNCHANGED <<link, buf>>

\* connect() of a connection that is up does nothing.
AlreadyConnected(c) ==
    /\ pc[c] = "connect"
    /\ connected
    /\ Goto(c, "write")
    /\ UNCHANGED <<link, issued, call, buf, result>>

\* Mutant: connect() does not read the prompt the server greets with.
OpenSocketNoGreeting(c) ==
    /\ pc[c] = "connect"
    /\ ~connected
    /\ connected' = TRUE
    /\ sock' = "open"
    /\ stream' = <<Greeting>>
    /\ requests' = <<>>
    /\ Goto(c, "write")
    /\ UNCHANGED <<issued, call, buf, result>>

\* connect() makes a new socket, sets _connected and goes on to read the prompt.
OpenSocket(c) ==
    /\ pc[c] = "connect"
    /\ ~connected
    /\ connected' = TRUE
    /\ sock' = "open"
    /\ stream' = <<Greeting>>
    /\ requests' = <<>>
    /\ Goto(c, "greet")
    /\ UNCHANGED <<issued, call, buf, result>>

\* The TCP connection or the TLS handshake fails: connect() raises before it
\* has replaced _secure_root_socket.
OpenFails(c) ==
    /\ pc[c] = "connect"
    /\ ~connected
    /\ Raise(c)
    /\ UNCHANGED <<link, issued, call, buf>>

\* write() does not look at _connected.  After the peer's FIN it still succeeds.
Write(c) ==
    /\ pc[c] = "write"
    /\ sock \in {"open", "eof"}
    /\ requests' = IF sock = "open" THEN Append(requests, cmd[c]) ELSE requests
    /\ Goto(c, "read")
    /\ UNCHANGED <<connected, sock, stream, issued, call, buf, result>>

\* write() raises on a broken or a closed socket, and leaves _connected alone.
WriteFails(c) ==
    /\ pc[c] = "write"
    /\ sock \in {"none", "reset", "closed"}
    /\ Raise(c)
    /\ UNCHANGED <<link, issued, call, buf>>

\* The condition under which the loop of read() ends: a chunk that is "@", or
\* that holds a newline.
EndsRead(chunk) == chunk = <<At>> \/ Lines(chunk) # {}

\* Where read() was called from, and goes back to.
AfterRead == [greet |-> "write", read |-> "parse"]

\* One iteration of the loop of read().  At the end of file read() returns b""
\* for ever and the loop goes round without changing anything: that is no action.
ReadChunk(c) ==
    /\ pc[c] \in {"greet", "read"}
    /\ sock \in {"open", "eof"}
    /\ stream # <<>>
    /\ \E n \in 1..Len(Head(stream)) :
          LET record == Head(stream)
              chunk == SubSeq(record, 1, n)
              rest == SubSeq(record, n + 1, Len(record))
          IN /\ ShortReads \/ n = Len(record)
             /\ stream' = IF rest = <<>> THEN Tail(stream) ELSE <<rest>> \o Tail(stream)
             /\ buf' = [buf EXCEPT ![c] =
                          IF EndsRead(chunk) /\ pc[c] = "greet" THEN <<>> ELSE @ \o chunk]
             /\ Goto(c, IF EndsRead(chunk) THEN AfterRead[pc[c]] ELSE pc[c])
    /\ UNCHANGED <<connected, sock, requests, issued, call, result>>

\* Mutant: disconnect() that lets the exception of close() on a broken socket out
\* before it has cleared _connected.
DisconnectInterrupted ==
    /\ sock' = "closed"
    /\ stream' = <<>>
    /\ requests' = <<>>
    /\ UNCHANGED connected

\* disconnect(): whatever close() does, _connected is cleared.  What was on its way is
\* never read.
Disconnect ==
    /\ connected' = FALSE
    /\ sock' = "closed"
    /\ stream' = <<>>
    /\ requests' = <<>>

\* Mutant: a read() that catches the error of the socket and tries again.
ReadFailsSwallowed(c) ==
    /\ pc[c] = "read"
    /\ sock \in {"reset", "closed"} \/ "timeout" \in PeerFaults
    /\ UNCHANGED vars

\* Mutant: execute_command before its fix: a failed read keeps the connection.
ReadFailsKept(c) ==
    /\ pc[c] = "read"
    /\ sock \in {"reset", "closed"} \/ "timeout" \in PeerFaults
    /\ Raise(c)
    /\ buf' = [buf EXCEPT ![c] = <<>>]
    /\ UNCHANGED <<link, issued, call>>

\* read() raises: the socket is broken, another thread has closed it, or a timeout
\* the application has put on it since connect() (which sets none) expires.
\* execute_command calls disconnect() and lets the exception go on.
ReadFails(c) ==
    /\ pc[c] = "read"
    /\ sock \in {"reset", "closed"} \/ "timeout" \in PeerFaults
    /\ Disconnect
    /\ Raise(c)
    /\ buf' = [buf EXCEPT ![c] = <<>>]
    /\ UNCHANGED <<issued, call>>

\* read() raises in connect(): nothing disconnects, _connected stays TRUE.
GreetFails(c) ==
    /\ pc[c] = "greet"
    /\ sock \in {"reset", "closed"}
    /\ Raise(c)
    /\ buf' = [buf EXCEPT ![c] = <<>>]
    /\ UNCHANGED <<link, issued, call>>

-----------------------------------------------------------------------------
(* parse_raw_response and what execute_command makes of the response. *)

\* A data: line, or an error: line that is returned, or raised as itself.
ParseReply(c) ==
    /\ pc[c] = "parse"
    /\ \E line \in Lines(buf[c]) :
          \/ /\ line.kind = "data"
             /\ Return(c, "data", line.of)
          \/ /\ line.kind = "error" \/ (line.kind = "refused" /\ ~raising[c])
             /\ Return(c, "error", line.of)
    /\ buf' = [buf EXCEPT ![c] = <<>>]
    /\ UNCHANGED <<link, issued, call>>

\* AT0021 without a retry: _connected is cleared, the socket is left open.
ParseRefused(c) ==
    /\ pc[c] = "parse"
    /\ \E line \in Lines(buf[c]) :
          /\ line.kind = "refused"
          /\ raising[c] /\ ~retry[c]
          /\ Return(c, "error", line.of)
    /\ connected' = FALSE
    /\ buf' = [buf EXCEPT ![c] = <<>>]
    /\ UNCHANGED <<sock, stream, requests, issued, call>>

\* AT0021 with a retry: connect(), then execute_command(command, False).
ParseRetry(c) ==
    /\ pc[c] = "parse"
    /\ \E line \in Lines(buf[c]) : line.kind = "refused"
    /\ raising[c] /\ retry[c]
    /\ Goto(c, "connect")
    /\ raising' = [raising EXCEPT ![c] = FALSE]
    /\ retry' = [retry EXCEPT ![c] = FALSE]
    /\ buf' = [buf EXCEPT ![c] = <<>>]
    /\ UNCHANGED <<link, issued, cmd, result>>

\* Mutant: a reply that cannot be read is handed on as if it were data.
ParseInvalidReturned(c) ==
    /\ pc[c] = "parse"
    /\ \A line \in Lines(buf[c]) : line.kind = "malformed"
    /\ Return(c, "data", NoCommand)
    /\ buf' = [buf EXCEPT ![c] = <<>>]
    /\ UNCHANGED <<link, issued, call>>

\* ValueError("Invalid response from server"), or the TypeError get_exception
\* makes of an unknown error code: no handler, the connection is kept.
ParseInvalid(c) ==
    /\ pc[c] = "parse"
    /\ \A line \in Lines(buf[c]) : line.kind = "malformed"
    /\ Raise(c)
    /\ buf' = [buf EXCEPT ![c] = <<>>]
    /\ UNCHANGED <<link, issued, call>>

-----------------------------------------------------------------------------
(* The server, and the network. *)

\* The server serves one connection's commands in order, one at a time.
ServerReplies ==
    /\ sock = "open"
    /\ requests # <<>>
    /\ requests' = Tail(requests)
    /\ \E record \in ReplyRecords(Head(requests)) : stream' = Append(stream, record)
    /\ UNCHANGED <<connected, sock, issued, pc, call, buf, result>>

\* The server closes the connection: what it sent arrives, nothing else will.
PeerCloses ==
    /\ "eof" \in PeerFaults
    /\ sock = "open"
    /\ sock' = "eof"
    /\ requests' = <<>>
    /\ UNCHANGED <<connected, stream, issued, pc, call, buf, result>>

\* The connection breaks: what was on its way is lost.
PeerResets ==
    /\ "reset" \in PeerFaults
    /\ sock \in {"open", "eof"}
    /\ sock' = "reset"
    /\ stream' = <<>>
    /\ requests' = <<>>
    /\ UNCHANGED <<connected, issued, pc, call, buf, result>>

-----------------------------------------------------------------------------
Connect(c) == AlreadyConnected(c) \/ OpenSocket(c) \/ OpenFails(c)
Read(c) == ReadChunk(c) \/ ReadFails(c) \/ GreetFails(c)
Parse(c) == ParseReply(c) \/ ParseRefused(c) \/ ParseRetry(c) \/ ParseInvalid(c)

\* The steps a call takes once it has begun.
Step(c) == Connect(c) \/ Write(c) \/ WriteFails(c) \/ Read(c) \/ Parse(c)

Next ==
    \/ \E c \in Callers : Call(c) \/ Step(c)
    \/ ServerReplies
    \/ PeerCloses
    \/ PeerResets

Spec == Init /\ [][Next]_vars

\* The operating system runs every thread; the server answers what it received.
\* Nobody is obliged to issue a command, and nothing is obliged to fail.
Fairness ==
    /\ \A c \in Callers : WF_vars(Step(c))
    /\ WF_vars(ServerReplies)

FairSpec == Spec /\ Fairness

\* No two threads are inside a call of the connection: what an application with one
\* thread does, and what a lock around execute_command would see to.
Serial == \A c, d \in Callers : pc[c] # "idle" /\ pc[d] # "idle" => c = d

\* Any number of threads that take turns.
SerialSpec == Init /\ [][Next /\ Serial']_vars

-----------------------------------------------------------------------------
\* A call that ended with a reply ended with the reply to its own command, never
\* with one an earlier command, or another thread's, left on the socket.
ReplyMatchesCommand ==
    \A c \in Callers : pc[c] = "idle" /\ status[c] \in {"data", "error"} => reply[c] = cmd[c]

\* Between commands the connection owes nothing: no reply line is on its way,
\* no command unserved.  (execute_command: "so the next use starts from a clean
\* stream".)
CleanStream ==
    (\A c \in Callers : pc[c] = "idle") =>
        /\ requests = <<>>
        /\ \A i \in DOMAIN stream : Lines(stream[i]) = {}

\* What is on its way where thread c is: while it reads, the greeting, or its command
\* or the whole reply to it; and what it has read when it has done so.
OnItsWay(c) ==
    /\ pc[c] = "greet" => stream \in {<<>>, <<Greeting>>} /\ requests = <<>>
    /\ pc[c] = "read" =>
          \/ stream = <<>> /\ requests \in {<<>>, <<cmd[c]>>}
          \/ requests = <<>> /\ \E record \in ReplyRecords(cmd[c]) : stream = <<record>>
    /\ IF pc[c] = "parse" THEN buf[c] \in ReplyRecords(cmd[c]) ELSE buf[c] = <<>>

\* Why replies match, as an inductive invariant: the stream and the threads are in
\* step.  Outside a read nothing is on its way in either direction.
InStep ==
    /\ \/ stream = <<>> /\ requests = <<>>
       \/ \E c \in Callers : pc[c] \in {"greet", "read"}
    /\ sock \in {"none", "reset", "closed"} => stream = <<>>
    /\ \A c \in Callers : OnItsWay(c)

\* disconnect() always clears _connected: a connection that counts as up is not
\* one whose socket this client has closed.
ClosedMeansDisconnected == connected => sock \notin {"none", "closed"}

\* A call of a connection whose server did not close it ends.
CommandCompletesUnlessEof ==
    \A c \in Callers : pc[c] # "idle" ~> pc[c] = "idle" \/ sock = "eof"

\* The connection keeps the promise of RequestReply.
Promise == INSTANCE RequestReply WITH
    pending <- {c \in Callers : pc[c] # "idle"},
    asked <- cmd,
    answer <- reply
ImplementsRequestReply == Promise!Spec
=============================================================================
