------------------------- MODULE AtMonitorConnection -------------------------
(***************************************************************************)
(* The threads around one AtMonitorConnection                              *)
(* (at_client/connections/atmonitorconnection.py): the application threads *)
(* that call AtClient.start_monitor and stop_monitor, the heartbeat thread *)
(* that restarts a monitor it takes for dead, and the server's end of the  *)
(* connection.  start_monitor runs the reading loop _run in the thread     *)
(* that calls it, so the heartbeat thread reads too, after a restart.      *)
(*                                                                         *)
(* Time is abstracted: how long ago the last heartbeat was sent and        *)
(* acknowledged is one of four cases (gap), and a wait may last any time.  *)
(* What the lines say and the events made of them are not modelled here.   *)
(*                                                                         *)
(* connect() and disconnect() run in all of these threads, and no lock     *)
(* keeps them apart.  The one assigns the new socket, and sets _connected, *)
(* in two steps; the other closes the newest socket, and clears            *)
(* _connected, in two steps.  (Assigning the socket's line reader goes     *)
(* with the socket: who reads a line in between would be a second reader.) *)
(*                                                                         *)
(* The sections under should_be_running_lock are single steps.             *)
(* running_lock is explicit: threading.Lock has no owner, so that a thread *)
(* may release a lock another one holds, and a lock nobody holds raises    *)
(* RuntimeError when it is released.                                       *)
(***************************************************************************)
EXTENDS Naturals

CONSTANTS
    Starters,      \* application threads that call AtClient.start_monitor
    Stoppers,      \* application threads that call AtClient.stop_monitor
    heartbeat,     \* the thread of _start_heart_beat
    PeerFaults,    \* what may go wrong: subset of {"silent", "eof", "reset"}
    MaxStarts,     \* bound: how often AtClient.start_monitor is called in all
    Stoppable      \* may stop_heart_beat be called?

Apps == Starters \cup Stoppers
Threads == Apps \cup {heartbeat}

ASSUME ThreadsAssumption == heartbeat \notin Apps
ASSUME FaultsAssumption == PeerFaults \subseteq {"silent", "eof", "reset"}
ASSUME BoundAssumption == MaxStarts \in Nat
ASSUME StoppableAssumption == Stoppable \in BOOLEAN

VARIABLES
    starts,            \* how often AtClient.start_monitor was called
    constructed,       \* AtClient.monitor_connection is not None
    running,           \* the flag of that name
    should_be_running, \* the flag of that name
    running_lock,      \* is it held?
    connected,         \* _connected
    sock,              \* the newest socket: _secure_root_socket
    authenticated,     \* has that connection passed PKAM?
    monitoring,        \* does the server send notifications on it?
    gap,               \* _last_heartbeat_sent_time against _last_heartbeat_ack_time
    stop_event,        \* _heartbeat_stop_event is set
    pc,                \* pc[t]: where thread t is
    reading            \* reading[t]: the socket t is blocked on, if any; "older" is one
                       \* that was closed or replaced while t was

flags == <<starts, constructed, running, should_be_running>>
link == <<connected, sock, authenticated, monitoring>>
vars == <<flags, running_lock, link, gap, stop_event, pc, reading>>

-----------------------------------------------------------------------------
\* Inside start_monitor.
StartLabels == {"start", "startFlag", "startLock", "claim", "claimSet", "startRelease",
                "skipRelease", "connect", "opening", "opened", "greet",
                "undoLock", "undo", "undoRelease"}
\* Inside _run.
RunLabels == {"command", "loop", "read", "broken", "brokenClose", "brokenClosed",
              "endLock", "end", "endRelease", "endDisconnect", "endDisconnected"}
\* Inside _start_heart_beat.
BeatLabels == {"unborn", "poll", "beat", "restartLock", "await", "awaitRelease", "awaitAgain",
               "releaseAgain", "awaited", "relock", "relocked", "failed", "done"}
\* Inside AtClient's methods, and stop_monitor, which both kinds of thread call.
ClientLabels == {"idle", "clientConnect", "clientOpening", "clientOpened", "clientGreet",
                 "auth", "authReply", "authClose", "authClosed", "check"}
StopLabels == {"stop", "times", "disconnect", "disconnected"}

\* Where a thread is blocked on a socket.
ReadLabels == {"read", "greet", "clientGreet", "authReply"}

TypeOK ==
    /\ starts \in 0..MaxStarts
    /\ constructed \in BOOLEAN
    /\ running \in BOOLEAN
    /\ should_be_running \in BOOLEAN
    /\ running_lock \in BOOLEAN
    /\ connected \in BOOLEAN
    /\ sock \in {"none", "up", "silent", "eof", "reset", "closed"}
    /\ authenticated \in BOOLEAN
    /\ monitoring \in BOOLEAN
    \* equal; acknowledged; unacknowledged for less, or no less, than the interval
    /\ gap \in {"equal", "acked", "short", "late"}
    /\ stop_event \in BOOLEAN
    /\ pc \in [Threads -> StartLabels \cup RunLabels \cup BeatLabels
                              \cup ClientLabels \cup StopLabels]
    /\ reading \in [Threads -> {"nothing", "newest", "older"}]
    /\ monitoring => authenticated
    /\ \A t \in Threads : reading[t] # "nothing" => pc[t] \in ReadLabels
    /\ \A t \in Apps : pc[t] \notin BeatLabels
    /\ pc[heartbeat] \notin ClientLabels

Init ==
    /\ starts = 0
    /\ constructed = FALSE
    /\ running = FALSE
    /\ should_be_running = FALSE
    /\ running_lock = FALSE
    /\ connected = FALSE
    /\ sock = "none"
    /\ authenticated = FALSE
    /\ monitoring = FALSE
    /\ gap = "equal"
    /\ stop_event = FALSE
    /\ pc = [t \in Threads |-> IF t = heartbeat THEN "unborn" ELSE "idle"]
    /\ reading = [t \in Threads |-> "nothing"]

-----------------------------------------------------------------------------
Move(t, from, to) == pc[t] = from /\ pc' = [pc EXCEPT ![t] = to]

\* A step that changes nothing but the place of t.
Jump(t, from, to) ==
    /\ Move(t, from, to)
    /\ UNCHANGED <<flags, running_lock, link, gap, stop_event, reading>>

\* Mutant: an exception of the restart is not caught, and ends the heartbeat thread.
HandlerUncaught(t) == "idle"

\* Where a method called by t returns to, and where an exception ends up: AtClient
\* prints it and returns; the heartbeat prints "Monitor restart failed" and goes on.
Caller(t) == IF t = heartbeat THEN "poll" ELSE "idle"
Handler(t) == IF t = heartbeat THEN "failed" ELSE "idle"

\* running_lock.acquire(blocking=1)
Acquire(t, from, to) ==
    /\ Move(t, from, to)
    /\ ~running_lock
    /\ running_lock' = TRUE
    /\ UNCHANGED <<flags, link, gap, stop_event, reading>>

\* running_lock.release(): RuntimeError when nobody holds the lock.
Release(t, from, to) ==
    /\ Move(t, from, IF running_lock THEN to ELSE Handler(t))
    /\ running_lock' = FALSE
    /\ UNCHANGED <<flags, link, gap, stop_event, reading>>

\* The newest socket is closed, or replaced: who is blocked on it stays so.
Abandon == reading' = [t \in Threads |-> IF reading[t] = "newest" THEN "older" ELSE reading[t]]

\* _last_heartbeat_sent_time = _last_heartbeat_ack_time = now
Times(t, from, to) ==
    /\ Move(t, from, to)
    /\ gap' = "equal"
    /\ UNCHANGED <<flags, running_lock, link, stop_event, reading>>

-----------------------------------------------------------------------------
(* connect() *)

\* if not self._connected: there is nothing to do otherwise.
ConnectSkips(t, from, to) == connected /\ Jump(t, from, to)
ConnectBegins(t, from, to) == ~connected /\ Jump(t, from, to)

\* TCP and TLS; then the socket is the newest one, which the server has not authenticated.
SocketOpened(t, from, to) ==
    /\ Move(t, from, to)
    /\ sock' = "up"
    /\ authenticated' = FALSE
    /\ monitoring' = FALSE
    /\ Abandon
    /\ UNCHANGED <<flags, running_lock, connected, gap, stop_event>>

\* The server is out of reach.
SocketFails(t, from, to) == Jump(t, from, to)

\* self._connected = True, whatever became of the socket; and the prompt is waited for.
SetConnected(t, from, to) ==
    /\ Move(t, from, to)
    /\ connected' = TRUE
    /\ reading' = [reading EXCEPT ![t] = "newest"]
    /\ UNCHANGED <<flags, running_lock, sock, authenticated, monitoring, gap, stop_event>>

\* The read of the prompt returns, or raises.  At the end of file, or when the network is
\* silent, it does neither.
Greeted(t, from, to, fail) ==
    /\ reading[t] = "newest"
    /\ \/ sock = "up" /\ Move(t, from, to)
       \/ sock \in {"reset", "closed"} /\ Move(t, from, fail)
    /\ reading' = [reading EXCEPT ![t] = "nothing"]
    /\ UNCHANGED <<flags, running_lock, link, gap, stop_event>>

-----------------------------------------------------------------------------
(* disconnect() *)

\* close(), whose exceptions are ignored.
Close(t, from, to) ==
    /\ Move(t, from, to)
    /\ sock' = IF sock = "none" THEN "none" ELSE "closed"
    /\ authenticated' = FALSE
    /\ monitoring' = FALSE
    /\ Abandon
    /\ UNCHANGED <<flags, running_lock, connected, gap, stop_event>>

\* Mutant: an exception of close() leaves disconnect() before _connected is cleared.
StaysConnected(t, from, to) == Jump(t, from, to)

\* self._connected = False, whatever became of the socket.
ClearConnected(t, from, to) ==
    /\ Move(t, from, to)
    /\ connected' = FALSE
    /\ UNCHANGED <<flags, running_lock, sock, authenticated, monitoring, gap, stop_event, reading>>

-----------------------------------------------------------------------------
(* AtClient.start_monitor, AtClient.stop_monitor *)

\* The first call constructs the connection, which starts the heartbeat thread.
ClientStart(t) ==
    /\ starts < MaxStarts
    /\ Move(t, "idle", IF constructed THEN "check" ELSE "clientConnect")
    /\ starts' = starts + 1
    /\ constructed' = TRUE
    /\ UNCHANGED <<running, should_be_running, running_lock, link, gap, stop_event, reading>>

\* The new thread begins its loop.
HeartbeatBegins ==
    /\ constructed
    /\ Jump(heartbeat, "unborn", "poll")

\* It then connects.  When that fails the connection object stays, and the next call takes
\* it as it is.
ClientConnect(t) ==
    \/ ConnectSkips(t, "clientConnect", "auth")
    \/ ConnectBegins(t, "clientConnect", "clientOpening")
    \/ SocketOpened(t, "clientOpening", "clientOpened")
    \/ SocketFails(t, "clientOpening", "idle")
    \/ SetConnected(t, "clientOpened", "clientGreet")
    \/ Greeted(t, "clientGreet", "auth", "idle")

\* It authenticates with PKAM: commands that are written, and whose replies are read.
AuthSent(t) ==
    /\ sock \in {"up", "silent", "eof"}
    /\ Move(t, "auth", "authReply")
    /\ reading' = [reading EXCEPT ![t] = "newest"]
    /\ UNCHANGED <<flags, running_lock, link, gap, stop_event>>

AuthNotSent(t) ==
    /\ sock \in {"none", "reset", "closed"}
    /\ Jump(t, "auth", "idle")

AuthOk(t) ==
    /\ reading[t] = "newest" /\ sock = "up"
    /\ Move(t, "authReply", "check")
    /\ authenticated' = TRUE
    /\ reading' = [reading EXCEPT ![t] = "nothing"]
    /\ UNCHANGED <<flags, running_lock, connected, sock, monitoring, gap, stop_event>>

\* The server answers with an error; execute_command takes one of them for the end of the
\* connection, and clears _connected without closing it.
AuthRefused(t) ==
    /\ reading[t] = "newest" /\ sock = "up"
    /\ Move(t, "authReply", "idle")
    /\ connected' \in {connected, FALSE}
    /\ reading' = [reading EXCEPT ![t] = "nothing"]
    /\ UNCHANGED <<flags, running_lock, sock, authenticated, monitoring, gap, stop_event>>

\* The connection breaks: a read that fails disconnects, a write does not.
AuthBreaks(t) ==
    /\ reading[t] = "newest" /\ sock = "reset"
    /\ \E to \in {"idle", "authClose"} : Move(t, "authReply", to)
    /\ reading' = [reading EXCEPT ![t] = "nothing"]
    /\ UNCHANGED <<flags, running_lock, link, gap, stop_event>>

Authenticate(t) ==
    \/ AuthSent(t) \/ AuthNotSent(t)
    \/ AuthOk(t) \/ AuthRefused(t) \/ AuthBreaks(t)
    \/ Close(t, "authClose", "authClosed")
    \/ ClearConnected(t, "authClosed", "idle")

ClientCheck(t) == Jump(t, "check", IF running THEN "idle" ELSE "start")

\* AtClient.stop_monitor stops a monitor that is not running, and no other.
ClientStop(t) ==
    /\ constructed
    /\ ~running
    /\ Jump(t, "idle", "stop")

-----------------------------------------------------------------------------
(* stop_monitor *)

StopFlag(t) ==
    /\ Move(t, "stop", "times")
    /\ should_be_running' = FALSE
    /\ UNCHANGED <<starts, constructed, running, running_lock, link, gap, stop_event, reading>>

Stop(t) ==
    \/ StopFlag(t)
    \/ Times(t, "times", "disconnect")
    \/ Close(t, "disconnect", "disconnected")
    \/ ClearConnected(t, "disconnected", IF t = heartbeat THEN "restartLock" ELSE "idle")

-----------------------------------------------------------------------------
(* start_monitor *)

StartFlag(t) ==
    /\ Move(t, "startFlag", "startLock")
    /\ should_be_running' = TRUE
    /\ UNCHANGED <<starts, constructed, running, running_lock, link, gap, stop_event, reading>>

\* Mutant: start_monitor does not look at running.
ClaimUnchecked(t) == Jump(t, "claim", "claimSet")

\* Mutant: start_monitor returns with the lock held when the monitor runs.
ClaimKeepsLock(t) == Jump(t, "claim", IF running THEN Caller(t) ELSE "claimSet")

\* if not self.running:
Claim(t) == Jump(t, "claim", IF running THEN "skipRelease" ELSE "claimSet")

\*     self.running = True
ClaimSet(t) ==
    /\ Move(t, "claimSet", "startRelease")
    /\ running' = TRUE
    /\ UNCHANGED <<starts, constructed, should_be_running, running_lock, link, gap, stop_event, reading>>

\* _connect(): connects, and does not authenticate.
MonitorConnect(t) ==
    \/ ConnectSkips(t, "connect", "command")
    \/ ConnectBegins(t, "connect", "opening")
    \/ SocketOpened(t, "opening", "opened")
    \/ SocketFails(t, "opening", "undoLock")
    \/ SetConnected(t, "opened", "greet")
    \/ Greeted(t, "greet", "command", "undoLock")

\* Mutant: running is not cleared.
ClearForgotten(t, from, to) == Jump(t, from, to)

\* running := FALSE, in the handler of a failed connect and at the end of _run.
Clear(t, from, to) ==
    /\ Move(t, from, to)
    /\ running' = FALSE
    /\ UNCHANGED <<starts, constructed, should_be_running, running_lock, link, gap, stop_event, reading>>

Start(t) ==
    \/ Times(t, "start", "startFlag")
    \/ StartFlag(t)
    \/ Acquire(t, "startLock", "claim")
    \/ Claim(t)
    \/ Release(t, "skipRelease", Caller(t))
    \/ ClaimSet(t)
    \/ Release(t, "startRelease", "connect")
    \/ MonitorConnect(t)
    \/ Acquire(t, "undoLock", "undo")
    \/ Clear(t, "undo", "undoRelease")
    \/ Release(t, "undoRelease", Caller(t))

-----------------------------------------------------------------------------
(* _run *)

\* execute_command(monitor, read_the_response=False).  The server honours it on an
\* authenticated connection only; otherwise its answer is an error: line.
SendMonitor(t) ==
    /\ sock \in {"up", "silent", "eof"}
    /\ Move(t, "command", "loop")
    /\ monitoring' = (monitoring \/ (sock = "up" /\ authenticated))
    /\ UNCHANGED <<flags, running_lock, connected, sock, authenticated, gap, stop_event, reading>>

SendMonitorFails(t) ==
    /\ sock \in {"none", "reset", "closed"}
    /\ Jump(t, "command", "broken")

\* while self.should_be_running: readline()
Loop(t) ==
    /\ should_be_running
    /\ sock # "closed"
    /\ Move(t, "loop", "read")
    /\ reading' = [reading EXCEPT ![t] = "newest"]
    /\ UNCHANGED <<flags, running_lock, link, gap, stop_event>>

LoopOnClosed(t) ==
    /\ should_be_running
    /\ sock = "closed"
    /\ Jump(t, "loop", "broken")

LoopEnds(t) ==
    /\ ~should_be_running
    /\ Jump(t, "loop", "endLock")

\* A line arrives, or b"" at the end of file; "data:ok" acknowledges a heartbeat.
ReadLine(t) ==
    /\ reading[t] = "newest"
    /\ sock \in {"up", "eof"}
    /\ Move(t, "read", "loop")
    /\ reading' = [reading EXCEPT ![t] = "nothing"]
    /\ \/ sock = "up" /\ gap \in {"short", "late"} /\ gap' = "acked"
       \/ UNCHANGED gap
    /\ UNCHANGED <<flags, running_lock, link, stop_event>>

\* recv raises: the socket is broken.
ReadFails(t) ==
    /\ reading[t] = "newest"
    /\ sock = "reset"
    /\ Move(t, "read", "broken")
    /\ reading' = [reading EXCEPT ![t] = "nothing"]
    /\ UNCHANGED <<flags, running_lock, link, gap, stop_event>>

\* Where a read that ends at last may lead.
Outcomes(label) ==
    CASE label = "read" -> {"loop", "broken"}
      [] label = "greet" -> {"command", "undoLock"}
      [] label = "clientGreet" -> {"auth", "idle"}
      [] label = "authReply" -> {"check", "authClose", "idle"}

\* The socket was closed, or replaced, under a thread that was blocked on it: the recv ends
\* when the server sends something more on it, which it may never do.
ReadOlder(t) ==
    /\ reading[t] = "older"
    /\ \E to \in Outcomes(pc[t]) : Move(t, pc[t], to)
    /\ reading' = [reading EXCEPT ![t] = "nothing"]
    /\ \/ pc'[t] = "loop" /\ gap \in {"short", "late"} /\ gap' = "acked"
       \/ UNCHANGED gap
    /\ UNCHANGED <<flags, running_lock, link, stop_event>>

\* The handler: "Monitor heartbeat thread should restart the monitor shortly".
Broken(t) == Jump(t, "broken", IF should_be_running THEN "brokenClose" ELSE "endLock")

Run(t) ==
    \/ SendMonitor(t) \/ SendMonitorFails(t)
    \/ Loop(t) \/ LoopOnClosed(t) \/ LoopEnds(t)
    \/ ReadLine(t) \/ ReadFails(t)
    \/ Broken(t)
    \/ Close(t, "brokenClose", "brokenClosed")
    \/ ClearConnected(t, "brokenClosed", "endLock")
    \/ Acquire(t, "endLock", "end")
    \/ Clear(t, "end", "endRelease")
    \/ Release(t, "endRelease", "endDisconnect")
    \/ Close(t, "endDisconnect", "endDisconnected")
    \/ ClearConnected(t, "endDisconnected", Caller(t))

-----------------------------------------------------------------------------
(* _start_heart_beat *)

Poll ==
    /\ ~stop_event
    /\ should_be_running
    /\ Jump(heartbeat, "poll", "beat")

\* Mutant: the event is looked at only when the monitor should not run.
PollStopsIdle ==
    /\ stop_event /\ ~should_be_running
    /\ Jump(heartbeat, "poll", "done")

\* while not self._heartbeat_stop_event.is_set()
PollStops ==
    /\ stop_event
    /\ Jump(heartbeat, "poll", "done")

\* The monitor is taken for dead: its thread has ended, or a heartbeat was not
\* acknowledged for the interval.  Both are read without a lock.
BeatMissed ==
    /\ ~running \/ gap = "late"
    /\ Jump(heartbeat, "beat", "stop")

\* Not yet time for a heartbeat; or its write raises, and is ignored.
BeatNothing ==
    /\ running /\ gap # "late"
    /\ Jump(heartbeat, "beat", "poll")

\* noop:0.  The time it is sent is later than the last one by the interval or more.
BeatSent ==
    /\ running /\ gap # "late"
    /\ sock \in {"up", "silent", "eof"}
    /\ Move(heartbeat, "beat", "poll")
    /\ \/ gap \in {"equal", "short"} /\ gap' = "late"
       \/ gap = "acked" /\ gap' \in {"short", "late"}
    /\ UNCHANGED <<flags, running_lock, link, stop_event, reading>>

\* while self.running and less than 5 seconds have gone by: running_lock is held when
\* the loop is entered, and not when it comes round.
Await == Jump(heartbeat, "await", IF running THEN "awaitRelease" ELSE "awaited")

AwaitAgain == Jump(heartbeat, "awaitAgain", IF running THEN "releaseAgain" ELSE "relock")

\* Five seconds have gone by (time.sleep(1) may last longer).
AwaitTimeout == Jump(heartbeat, "awaitAgain", "relock")

\* "Monitor restart failed": the heartbeat goes back to waiting.
RestartFailed == Jump(heartbeat, "failed", "poll")

Beat ==
    \/ HeartbeatBegins
    \/ Poll \/ PollStops
    \/ BeatMissed \/ BeatNothing \/ BeatSent
    \/ Stop(heartbeat)
    \/ Acquire(heartbeat, "restartLock", "await")
    \/ Await
    \/ Release(heartbeat, "awaitRelease", "awaitAgain")
    \/ AwaitAgain \/ AwaitTimeout
    \/ Release(heartbeat, "releaseAgain", "awaitAgain")
    \/ Release(heartbeat, "awaited", "relock")
    \/ Acquire(heartbeat, "relock", "relocked")
    \/ Release(heartbeat, "relocked", "start")
    \/ RestartFailed

StopHeartBeat ==
    /\ Stoppable /\ constructed /\ ~stop_event
    /\ stop_event' = TRUE
    /\ UNCHANGED <<flags, running_lock, link, gap, pc, reading>>

-----------------------------------------------------------------------------
(* The server, and the network. *)

PeerFails(fault) ==
    /\ fault \in PeerFaults
    /\ sock = "up" \/ (fault = "reset" /\ sock \in {"silent", "eof"})
    /\ sock' = fault
    /\ monitoring' = FALSE
    /\ UNCHANGED <<flags, running_lock, connected, authenticated, gap, stop_event, pc, reading>>

-----------------------------------------------------------------------------
Client(t) ==
    \/ ClientConnect(t) \/ Authenticate(t) \/ ClientCheck(t)
    \/ Stop(t)

\* The steps of a thread once it is inside a method.
Step(t) ==
    \/ Start(t) \/ Run(t)
    \/ t \in Apps /\ Client(t)
    \/ t = heartbeat /\ Beat

Next ==
    \/ \E t \in Threads : Start(t) \/ Run(t) \/ ReadOlder(t)
    \/ \E t \in Apps : Client(t)
    \/ Beat
    \/ \E t \in Starters : ClientStart(t)
    \/ \E t \in Stoppers : ClientStop(t)
    \/ StopHeartBeat
    \/ \E fault \in {"silent", "eof", "reset"} : PeerFails(fault)

Spec == Init /\ [][Next]_vars

\* The operating system runs every thread, and lets it have the lock in the end; a
\* server that is tried again and again is reached in the end.  Nobody is obliged to
\* call, the network is not obliged to fail, and a recv on a socket closed under it is
\* not obliged to end.
Fairness ==
    /\ \A t \in Threads : SF_vars(Step(t))
    /\ SF_vars(SocketOpened(heartbeat, "opening", "opened"))

FairSpec == Spec /\ Fairness

-----------------------------------------------------------------------------
\* The threads that have set running and not cleared it yet.
Owns(t) == pc[t] \in {"startRelease", "connect", "opening", "opened", "greet",
                      "undoLock", "undo", "command", "loop", "read", "broken", "brokenClose", "brokenClosed",
                      "endLock", "end"}

\* The threads inside a section under running_lock.
Holds(t) == pc[t] \in {"claim", "claimSet", "skipRelease", "startRelease", "undo", "undoRelease",
                       "end", "endRelease", "await", "awaitRelease", "awaited", "relocked"}

\* At most one thread reads the connection, or is about to: the heartbeat does not
\* start a second reader beside one that still runs.  (For one start_monitor by the
\* application: a second one can meet a lock that was released twice.)
AtMostOneReader == \A t, u \in Threads : Owns(t) /\ Owns(u) => t = u

\* While a thread reads, running says so: nobody takes the monitor for stopped.
OwnerIsRunning == \A t \in Threads : Owns(t) => running

\* running_lock is never left held by nobody: it cannot block a thread for ever.
LockHasHolder == running_lock => \E t \in Threads : Holds(t)

\* When a reader meets a broken connection, the heartbeat, or another reader, gets to make a
\* new socket; or the heartbeat reports that the restart failed; or one of the two was
\* stopped.  ("Otherwise _connected stays True and the monitor restart path never rebuilds
\* the socket")
HeartbeatTakesOver ==
    \A t \in Threads :
        pc[t] = "broken" /\ should_be_running ~>
            \/ \E u \in Threads : pc[u] = "opened"
            \/ \E u \in Stoppers : pc[u] \in StopLabels
            \/ pc[heartbeat] \in {"failed", "done"}

\* One thread's connect() and another's disconnect() may leave _connected set over a closed
\* socket.  While the monitor should run, that does not last, unless as above.
ClosedIsNoticed ==
    /\ connected /\ sock = "closed" /\ should_be_running
    /\ running => \E u \in Threads : Owns(u)
    ~>
        \/ ~connected \/ sock # "closed"
        \/ \E u \in Stoppers : pc[u] \in StopLabels
        \/ pc[heartbeat] \in {"failed", "done"}

\* stop_heart_beat() ends the heartbeat thread, unless that thread has become the reader.
HeartbeatStopsUnlessReading == stop_event ~> pc[heartbeat] = "done" \/ Owns(heartbeat)

\* The heartbeat's restart of a monitor that does not stop goes through.  ("Monitor
\* thread has not stopped, but going to start another one anyway")
RestartGoesThrough == pc[heartbeat] # "failed"
=============================================================================
