--------------------- MODULE AtMonitorConnection_proofs ---------------------
(***************************************************************************)
(* Proofs about AtMonitorConnection.                                       *)
(*                                                                         *)
(* Types and the lock's holder need nothing but the assumptions of the     *)
(* module.  That there is one reader holds when                            *)
(* AtClient.start_monitor is called once: a second reader can follow a     *)
(* second call, because the heartbeat may release running_lock while the   *)
(* reader's thread holds it.                                               *)
(***************************************************************************)
EXTENDS AtMonitorConnection, TLAPS

-----------------------------------------------------------------------------
(* Types. *)

\* The labels a thread may be at.
Places(t) == StartLabels \cup RunLabels \cup StopLabels
                 \cup IF t = heartbeat THEN BeatLabels ELSE ClientLabels

\* The part of TypeOK that is about places.
PlacesOK ==
    /\ pc \in [Threads -> StartLabels \cup RunLabels \cup BeatLabels
                              \cup ClientLabels \cup StopLabels]
    /\ \A t \in Apps : pc[t] \notin BeatLabels
    /\ pc[heartbeat] \notin ClientLabels
    /\ reading \in [Threads -> {"nothing", "newest", "older"}]
    /\ \A t \in Threads : reading[t] # "nothing" => pc[t] \in ReadLabels

\* The part that is about the rest.
StateOK ==
    /\ starts \in 0..MaxStarts
    /\ constructed \in BOOLEAN
    /\ running \in BOOLEAN
    /\ should_be_running \in BOOLEAN
    /\ running_lock \in BOOLEAN
    /\ connected \in BOOLEAN
    /\ sock \in {"none", "up", "silent", "eof", "reset", "closed"}
    /\ authenticated \in BOOLEAN
    /\ monitoring \in BOOLEAN
    /\ gap \in {"equal", "acked", "short", "late"}
    /\ stop_event \in BOOLEAN
    /\ monitoring => authenticated

\* The label sets have no member in common that matters to TypeOK.
LEMMA LabelsAreApart ==
    ASSUME NEW t \in Threads, NEW label \in Places(t)
    PROVE  /\ label \in StartLabels \cup RunLabels \cup BeatLabels \cup ClientLabels \cup StopLabels
           /\ t \in Apps => label \notin BeatLabels
           /\ t = heartbeat => label \notin ClientLabels
  BY ThreadsAssumption DEF Places, StartLabels, RunLabels, BeatLabels, ClientLabels, StopLabels

\* A thread moves, and what is read does not change.
LEMMA MoveTyped ==
    ASSUME PlacesOK, NEW t \in Threads, NEW from, NEW to \in Places(t), Move(t, from, to),
           reading' = reading, from \notin ReadLabels
    PROVE  PlacesOK'
  BY LabelsAreApart DEF PlacesOK, Move, Threads

\* A thread begins to read.
LEMMA ReadBegins ==
    ASSUME PlacesOK, NEW t \in Threads, NEW from, NEW to \in Places(t) \cap ReadLabels,
           Move(t, from, to), reading' = [reading EXCEPT ![t] = "newest"]
    PROVE  PlacesOK'
  BY LabelsAreApart DEF PlacesOK, Move, Threads

\* A thread has read, or has failed to.
LEMMA ReadEnds ==
    ASSUME PlacesOK, NEW t \in Threads, NEW from, NEW to \in Places(t), Move(t, from, to),
           reading' = [reading EXCEPT ![t] = "nothing"]
    PROVE  PlacesOK'
  BY LabelsAreApart DEF PlacesOK, Move, Threads

\* A thread moves, and closes or replaces the newest socket: the others read an older one now.
LEMMA MoveAbandons ==
    ASSUME PlacesOK, NEW t \in Threads, NEW from, NEW to \in Places(t), Move(t, from, to),
           Abandon, from \notin ReadLabels
    PROVE  PlacesOK'
  BY LabelsAreApart DEF PlacesOK, Move, Threads, Abandon

\* The steps of stop_monitor keep the places in their types.
LEMMA StopTyped ==
    ASSUME PlacesOK, NEW t \in Threads, Stop(t)
    PROVE  PlacesOK'
  <1> USE DEF Places, StartLabels, RunLabels, StopLabels, BeatLabels, ClientLabels, ReadLabels
  <1>1. CASE StopFlag(t)
    BY <1>1, MoveTyped DEF StopFlag
  <1>2. CASE Times(t, "times", "disconnect")
    BY <1>2, MoveTyped DEF Times
  <1>3. CASE Close(t, "disconnect", "disconnected")
    BY <1>3, MoveAbandons DEF Close
  <1>4. CASE ClearConnected(t, "disconnected", IF t = heartbeat THEN "restartLock" ELSE "idle")
    BY <1>4, MoveTyped DEF ClearConnected
  <1> QED
    BY <1>1, <1>2, <1>3, <1>4 DEF Stop

\* The steps of start_monitor's connect do.
LEMMA MonitorConnectTyped ==
    ASSUME PlacesOK, NEW t \in Threads, MonitorConnect(t)
    PROVE  PlacesOK'
  <1> USE DEF Jump, Places, StartLabels, RunLabels, StopLabels, BeatLabels, ClientLabels, ReadLabels
  <1>1. CASE ConnectSkips(t, "connect", "command")
    BY <1>1, MoveTyped DEF ConnectSkips
  <1>2. CASE ConnectBegins(t, "connect", "opening")
    BY <1>2, MoveTyped DEF ConnectBegins
  <1>3. CASE SocketOpened(t, "opening", "opened")
    BY <1>3, MoveAbandons DEF SocketOpened
  <1>4. CASE SocketFails(t, "opening", "undoLock")
    BY <1>4, MoveTyped DEF SocketFails
  <1>5. CASE SetConnected(t, "opened", "greet")
    BY <1>5, ReadBegins DEF SetConnected
  <1>6. CASE Greeted(t, "greet", "command", "undoLock")
    BY <1>6, ReadEnds DEF Greeted
  <1> QED
    BY <1>1, <1>2, <1>3, <1>4, <1>5, <1>6 DEF MonitorConnect

\* The steps of AtClient's connect do.
LEMMA ClientConnectTyped ==
    ASSUME PlacesOK, NEW t \in Threads, t # heartbeat, ClientConnect(t)
    PROVE  PlacesOK'
  <1> USE DEF Jump, Places, StartLabels, RunLabels, StopLabels, BeatLabels, ClientLabels, ReadLabels
  <1>1. CASE ConnectSkips(t, "clientConnect", "auth")
    BY <1>1, MoveTyped DEF ConnectSkips
  <1>2. CASE ConnectBegins(t, "clientConnect", "clientOpening")
    BY <1>2, MoveTyped DEF ConnectBegins
  <1>3. CASE SocketOpened(t, "clientOpening", "clientOpened")
    BY <1>3, MoveAbandons DEF SocketOpened
  <1>4. CASE SocketFails(t, "clientOpening", "idle")
    BY <1>4, MoveTyped DEF SocketFails
  <1>5. CASE SetConnected(t, "clientOpened", "clientGreet")
    BY <1>5, ReadBegins DEF SetConnected
  <1>6. CASE Greeted(t, "clientGreet", "auth", "idle")
    BY <1>6, ReadEnds DEF Greeted
  <1> QED
    BY <1>1, <1>2, <1>3, <1>4, <1>5, <1>6 DEF ClientConnect

\* The steps of its authentication do.
LEMMA AuthenticateTyped ==
    ASSUME PlacesOK, NEW t \in Threads, t # heartbeat, Authenticate(t)
    PROVE  PlacesOK'
  <1> USE DEF Jump, Places, StartLabels, RunLabels, StopLabels, BeatLabels, ClientLabels, ReadLabels
  <1>1. CASE AuthSent(t)
    BY <1>1, ReadBegins DEF AuthSent
  <1>2. CASE AuthNotSent(t)
    BY <1>2, MoveTyped DEF AuthNotSent
  <1>3. CASE AuthOk(t)
    BY <1>3, ReadEnds DEF AuthOk
  <1>4. CASE AuthRefused(t)
    BY <1>4, ReadEnds DEF AuthRefused
  <1>5. CASE AuthBreaks(t)
    BY <1>5, ReadEnds DEF AuthBreaks
  <1>6. CASE Close(t, "authClose", "authClosed")
    BY <1>6, MoveAbandons DEF Close
  <1>7. CASE ClearConnected(t, "authClosed", "idle")
    BY <1>7, MoveTyped DEF ClearConnected
  <1> QED
    BY <1>1, <1>2, <1>3, <1>4, <1>5, <1>6, <1>7 DEF Authenticate

\* The steps of start_monitor do.
LEMMA StartTyped ==
    ASSUME PlacesOK, NEW t \in Threads, Start(t)
    PROVE  PlacesOK'
  <1> USE DEF Jump, Caller, Handler, Places,
              StartLabels, RunLabels, StopLabels, BeatLabels, ClientLabels, ReadLabels
  <1>1. CASE Times(t, "start", "startFlag")
    BY <1>1, MoveTyped DEF Times
  <1>2. CASE StartFlag(t)
    BY <1>2, MoveTyped DEF StartFlag
  <1>3. CASE Acquire(t, "startLock", "claim")
    BY <1>3, MoveTyped DEF Acquire
  <1>4. CASE Claim(t)
    BY <1>4, MoveTyped DEF Claim
  <1>5. CASE Release(t, "skipRelease", Caller(t))
    BY <1>5, MoveTyped DEF Release
  <1>6. CASE ClaimSet(t)
    BY <1>6, MoveTyped DEF ClaimSet
  <1>7. CASE Release(t, "startRelease", "connect")
    BY <1>7, MoveTyped DEF Release
  <1>8. CASE MonitorConnect(t)
    BY <1>8, MonitorConnectTyped
  <1>9. CASE Acquire(t, "undoLock", "undo")
    BY <1>9, MoveTyped DEF Acquire
  <1>10. CASE Clear(t, "undo", "undoRelease")
    BY <1>10, MoveTyped DEF Clear
  <1>11. CASE Release(t, "undoRelease", Caller(t))
    BY <1>11, MoveTyped DEF Release
  <1> QED
    BY <1>1, <1>2, <1>3, <1>4, <1>5, <1>6, <1>7, <1>8, <1>9, <1>10, <1>11 DEF Start

\* The steps of _run do.
LEMMA RunTyped ==
    ASSUME PlacesOK, NEW t \in Threads, Run(t)
    PROVE  PlacesOK'
  <1> USE DEF Jump, Caller, Handler, Places,
              StartLabels, RunLabels, StopLabels, BeatLabels, ClientLabels, ReadLabels
  <1>1. CASE SendMonitor(t)
    BY <1>1, MoveTyped DEF SendMonitor
  <1>2. CASE SendMonitorFails(t)
    BY <1>2, MoveTyped DEF SendMonitorFails
  <1>3. CASE Loop(t)
    BY <1>3, ReadBegins DEF Loop
  <1>4. CASE LoopOnClosed(t)
    BY <1>4, MoveTyped DEF LoopOnClosed
  <1>5. CASE LoopEnds(t)
    BY <1>5, MoveTyped DEF LoopEnds
  <1>6. CASE ReadLine(t)
    BY <1>6, ReadEnds DEF ReadLine
  <1>7. CASE ReadFails(t)
    BY <1>7, ReadEnds DEF ReadFails
  <1>8. CASE Broken(t)
    BY <1>8, MoveTyped DEF Broken
  <1>9. CASE Close(t, "brokenClose", "brokenClosed")
    BY <1>9, MoveAbandons DEF Close
  <1>10. CASE ClearConnected(t, "brokenClosed", "endLock")
    BY <1>10, MoveTyped DEF ClearConnected
  <1>11. CASE Acquire(t, "endLock", "end")
    BY <1>11, MoveTyped DEF Acquire
  <1>12. CASE Clear(t, "end", "endRelease")
    BY <1>12, MoveTyped DEF Clear
  <1>13. CASE Release(t, "endRelease", "endDisconnect")
    BY <1>13, MoveTyped DEF Release
  <1>14. CASE Close(t, "endDisconnect", "endDisconnected")
    BY <1>14, MoveAbandons DEF Close
  <1>15. CASE ClearConnected(t, "endDisconnected", Caller(t))
    BY <1>15, MoveTyped DEF ClearConnected
  <1> QED
    BY <1>1, <1>2, <1>3, <1>4, <1>5, <1>6, <1>7, <1>8, <1>9, <1>10, <1>11, <1>12, <1>13,
       <1>14, <1>15
    DEF Run

\* The steps of AtClient's methods do.
LEMMA ClientTyped ==
    ASSUME PlacesOK, NEW t \in Apps, Client(t)
    PROVE  PlacesOK'
  <1>1. t \in Threads /\ t # heartbeat
    BY ThreadsAssumption DEF Threads
  <1>2. CASE ClientCheck(t)
    BY <1>1, <1>2, MoveTyped DEF ClientCheck, Jump, Places, StartLabels, ClientLabels, ReadLabels
  <1> QED
    BY <1>1, <1>2, ClientConnectTyped, AuthenticateTyped, StopTyped DEF Client

\* The steps of _start_heart_beat do.
LEMMA BeatTyped ==
    ASSUME PlacesOK, Beat
    PROVE  PlacesOK'
  <1> USE DEF Jump, Caller, Handler, Places,
              StartLabels, RunLabels, StopLabels, BeatLabels, ClientLabels, ReadLabels
  <1>0. heartbeat \in Threads
    BY DEF Threads
  <1>1. CASE HeartbeatBegins
    BY <1>0, <1>1, MoveTyped DEF HeartbeatBegins
  <1>2. CASE Poll
    BY <1>0, <1>2, MoveTyped DEF Poll
  <1>3. CASE PollStops
    BY <1>0, <1>3, MoveTyped DEF PollStops
  <1>4. CASE BeatMissed
    BY <1>0, <1>4, MoveTyped DEF BeatMissed
  <1>5. CASE BeatNothing
    BY <1>0, <1>5, MoveTyped DEF BeatNothing
  <1>6. CASE BeatSent
    BY <1>0, <1>6, MoveTyped DEF BeatSent
  <1>7. CASE Stop(heartbeat)
    BY <1>0, <1>7, StopTyped
  <1>8. CASE Acquire(heartbeat, "restartLock", "await")
    BY <1>0, <1>8, MoveTyped DEF Acquire
  <1>9. CASE Await
    BY <1>0, <1>9, MoveTyped DEF Await
  <1>10. CASE Release(heartbeat, "awaitRelease", "awaitAgain")
    BY <1>0, <1>10, MoveTyped DEF Release
  <1>11. CASE AwaitAgain
    BY <1>0, <1>11, MoveTyped DEF AwaitAgain
  <1>12. CASE AwaitTimeout
    BY <1>0, <1>12, MoveTyped DEF AwaitTimeout
  <1>13. CASE Release(heartbeat, "releaseAgain", "awaitAgain")
    BY <1>0, <1>13, MoveTyped DEF Release
  <1>14. CASE Release(heartbeat, "awaited", "relock")
    BY <1>0, <1>14, MoveTyped DEF Release
  <1>15. CASE Acquire(heartbeat, "relock", "relocked")
    BY <1>0, <1>15, MoveTyped DEF Acquire
  <1>16. CASE Release(heartbeat, "relocked", "start")
    BY <1>0, <1>16, MoveTyped DEF Release
  <1>17. CASE RestartFailed
    BY <1>0, <1>17, MoveTyped DEF RestartFailed
  <1> QED
    BY <1>1, <1>2, <1>3, <1>4, <1>5, <1>6, <1>7, <1>8,
       <1>9, <1>10, <1>11, <1>12, <1>13, <1>14, <1>15, <1>16, <1>17
    DEF Beat

\* The calls, the faults and the sockets that are closed already keep them.
LEMMA OthersTyped ==
    ASSUME PlacesOK,
           \/ \E t \in Threads : ReadOlder(t)
           \/ \E t \in Starters : ClientStart(t)
           \/ \E t \in Stoppers : ClientStop(t)
           \/ StopHeartBeat
           \/ \E fault \in {"silent", "eof", "reset"} : PeerFails(fault)
    PROVE  PlacesOK'
  <1> USE DEF Jump, Places, StartLabels, RunLabels, StopLabels, BeatLabels, ClientLabels, ReadLabels
  <1>1. \A t \in Apps : t \in Threads /\ t # heartbeat
    BY ThreadsAssumption DEF Threads
  <1>2. ASSUME NEW t \in Threads, ReadOlder(t)
        PROVE  PlacesOK'
    <2>1. pc[t] \in ReadLabels /\ pc[t] \in Places(t)
      BY <1>2, ThreadsAssumption DEF ReadOlder, PlacesOK, Threads, Apps
    <2>2. PICK to \in Outcomes(pc[t]) : Move(t, pc[t], to)
      BY <1>2 DEF ReadOlder
    <2>3. to \in Places(t)
      BY <2>1, <2>2 DEF Outcomes
    <2>4. reading' = [reading EXCEPT ![t] = "nothing"]
      BY <1>2 DEF ReadOlder
    <2> HIDE DEF Places
    <2> QED
      BY <2>2, <2>3, <2>4, ReadEnds
  <1>3. ASSUME NEW t \in Starters, ClientStart(t)
        PROVE  PlacesOK'
    <2>1. t \in Threads /\ t # heartbeat
      BY <1>1 DEF Apps
    <2> QED
      BY <2>1, <1>3, MoveTyped DEF ClientStart
  <1>4. ASSUME NEW t \in Stoppers, ClientStop(t)
        PROVE  PlacesOK'
    BY <1>1, <1>4, MoveTyped DEF ClientStop, Apps
  <1>5. ASSUME StopHeartBeat
        PROVE  PlacesOK'
    BY <1>5 DEF StopHeartBeat, PlacesOK
  <1>6. ASSUME NEW fault \in {"silent", "eof", "reset"}, PeerFails(fault)
        PROVE  PlacesOK'
    BY <1>6 DEF PeerFails, PlacesOK
  <1> QED
    BY <1>2, <1>3, <1>4, <1>5, <1>6

\* What happens to the connection alone keeps the types of what the threads share.
LEMMA LinkChanges ==
    ASSUME StateOK, UNCHANGED <<flags, running_lock, gap, stop_event>>,
           connected' \in BOOLEAN,
           sock' \in {"none", "up", "silent", "eof", "reset", "closed"},
           authenticated' \in BOOLEAN, monitoring' \in BOOLEAN,
           monitoring' => authenticated'
    PROVE  StateOK'
  BY DEF StateOK, flags

\* Closing a socket, opening one, and what goes with it.
LEMMA LinkStates ==
    ASSUME StateOK, NEW t \in Threads, NEW from, NEW to,
           \/ SocketOpened(t, from, to)
           \/ SetConnected(t, from, to)
           \/ Close(t, from, to)
           \/ ClearConnected(t, from, to)
    PROVE  StateOK'
  <1> USE DEF StateOK, flags
  <1>1. CASE SocketOpened(t, from, to)
    BY <1>1 DEF SocketOpened
  <1>2. CASE SetConnected(t, from, to)
    BY <1>2 DEF SetConnected
  <1>3. CASE Close(t, from, to)
    BY <1>3 DEF Close
  <1>4. CASE ClearConnected(t, from, to)
    BY <1>4 DEF ClearConnected
  <1> QED
    BY <1>1, <1>2, <1>3, <1>4

\* The steps of stop_monitor keep the types of what the threads share.
LEMMA StopStates ==
    ASSUME StateOK, NEW t \in Threads, Stop(t)
    PROVE  StateOK'
  <1>1. CASE StopFlag(t)
    BY <1>1 DEF StopFlag, StateOK, link
  <1>2. CASE Times(t, "times", "disconnect")
    BY <1>2 DEF Times, StateOK, flags, link
  <1> QED
    BY <1>1, <1>2, LinkStates DEF Stop

\* Those of connect(), and of the authentication, do.
LEMMA ConnectStates ==
    ASSUME StateOK, NEW t \in Threads, MonitorConnect(t) \/ ClientConnect(t) \/ Authenticate(t)
    PROVE  StateOK'
  <1> DEFINE Quiet == UNCHANGED <<flags, running_lock, link, gap, stop_event>>
  <1>1. ASSUME Quiet
        PROVE  StateOK'
    BY <1>1 DEF StateOK, flags, link
  <1>2. CASE MonitorConnect(t)
    <2>1. ASSUME \/ ConnectSkips(t, "connect", "command")
                 \/ ConnectBegins(t, "connect", "opening")
                 \/ SocketFails(t, "opening", "undoLock")
                 \/ Greeted(t, "greet", "command", "undoLock")
          PROVE  Quiet
      BY <2>1 DEF ConnectSkips, ConnectBegins, SocketFails, Greeted, Jump
    <2> HIDE DEF Quiet
    <2> QED
      BY <1>1, <1>2, <2>1, LinkStates DEF MonitorConnect
  <1>3. CASE ClientConnect(t)
    <2>1. ASSUME \/ ConnectSkips(t, "clientConnect", "auth")
                 \/ ConnectBegins(t, "clientConnect", "clientOpening")
                 \/ SocketFails(t, "clientOpening", "idle")
                 \/ Greeted(t, "clientGreet", "auth", "idle")
          PROVE  Quiet
      BY <2>1 DEF ConnectSkips, ConnectBegins, SocketFails, Greeted, Jump
    <2> HIDE DEF Quiet
    <2> QED
      BY <1>1, <1>3, <2>1, LinkStates DEF ClientConnect
  <1>4. CASE Authenticate(t)
    <2>1. ASSUME AuthSent(t) \/ AuthNotSent(t) \/ AuthBreaks(t)
          PROVE  Quiet
      BY <2>1 DEF AuthSent, AuthNotSent, AuthBreaks, Jump
    <2>2. ASSUME AuthOk(t)
          PROVE  StateOK'
      BY <2>2 DEF AuthOk, StateOK, flags
    <2>3. ASSUME AuthRefused(t)
          PROVE  StateOK'
      BY <2>3 DEF AuthRefused, StateOK, flags
    <2> HIDE DEF Quiet
    <2> QED
      BY <1>1, <1>4, <2>1, <2>2, <2>3, LinkStates DEF Authenticate
  <1> QED
    BY <1>2, <1>3, <1>4

\* Those of start_monitor do.
LEMMA StartStates ==
    ASSUME StateOK, NEW t \in Threads, Start(t)
    PROVE  StateOK'
  <1> USE DEF StateOK, flags, link, Jump
  <1>1. CASE Times(t, "start", "startFlag")
    BY <1>1 DEF Times
  <1>2. CASE StartFlag(t)
    BY <1>2 DEF StartFlag
  <1>3. CASE Acquire(t, "startLock", "claim")
    BY <1>3 DEF Acquire
  <1>4. CASE Claim(t)
    BY <1>4 DEF Claim
  <1>5. CASE Release(t, "skipRelease", Caller(t))
    BY <1>5 DEF Release
  <1>6. CASE ClaimSet(t)
    BY <1>6 DEF ClaimSet
  <1>7. CASE Release(t, "startRelease", "connect")
    BY <1>7 DEF Release
  <1>8. CASE MonitorConnect(t)
    BY <1>8, ConnectStates
  <1>9. CASE Acquire(t, "undoLock", "undo")
    BY <1>9 DEF Acquire
  <1>10. CASE Clear(t, "undo", "undoRelease")
    BY <1>10 DEF Clear
  <1>11. CASE Release(t, "undoRelease", Caller(t))
    BY <1>11 DEF Release
  <1> QED
    BY <1>1, <1>2, <1>3, <1>4, <1>5, <1>6, <1>7, <1>8, <1>9, <1>10, <1>11 DEF Start

\* Those of _run do.
LEMMA RunStates ==
    ASSUME StateOK, NEW t \in Threads, Run(t)
    PROVE  StateOK'
  <1> USE DEF StateOK, flags, link, Jump
  <1>1. CASE SendMonitor(t)
    BY <1>1 DEF SendMonitor
  <1>2. CASE SendMonitorFails(t)
    BY <1>2 DEF SendMonitorFails
  <1>3. CASE Loop(t)
    BY <1>3 DEF Loop
  <1>4. CASE LoopOnClosed(t)
    BY <1>4 DEF LoopOnClosed
  <1>5. CASE LoopEnds(t)
    BY <1>5 DEF LoopEnds
  <1>6. CASE ReadLine(t)
    BY <1>6 DEF ReadLine
  <1>7. CASE ReadFails(t)
    BY <1>7 DEF ReadFails
  <1>8. CASE Broken(t)
    BY <1>8 DEF Broken
  <1>9. CASE Acquire(t, "endLock", "end")
    BY <1>9 DEF Acquire
  <1>10. CASE Clear(t, "end", "endRelease")
    BY <1>10 DEF Clear
  <1>11. CASE Release(t, "endRelease", "endDisconnect")
    BY <1>11 DEF Release
  <1>12. CASE \/ Close(t, "brokenClose", "brokenClosed")
              \/ ClearConnected(t, "brokenClosed", "endLock")
              \/ Close(t, "endDisconnect", "endDisconnected")
              \/ ClearConnected(t, "endDisconnected", Caller(t))
    BY <1>12, LinkStates
  <1> QED
    BY <1>1, <1>2, <1>3, <1>4, <1>5, <1>6, <1>7, <1>8, <1>9, <1>10, <1>11, <1>12 DEF Run

\* Those of AtClient's methods do.
LEMMA ClientStates ==
    ASSUME StateOK, NEW t \in Apps, Client(t)
    PROVE  StateOK'
  <1>1. t \in Threads
    BY DEF Threads
  <1>2. CASE ClientCheck(t)
    BY <1>2 DEF ClientCheck, Jump, StateOK, flags, link
  <1> QED
    BY <1>1, <1>2, ConnectStates, StopStates DEF Client

\* Those of _start_heart_beat do.
LEMMA BeatStates ==
    ASSUME StateOK, Beat
    PROVE  StateOK'
  <1> USE DEF StateOK, flags, link, Jump
  <1>1. CASE HeartbeatBegins
    BY <1>1 DEF HeartbeatBegins
  <1>2. CASE Poll
    BY <1>2 DEF Poll
  <1>3. CASE PollStops
    BY <1>3 DEF PollStops
  <1>4. CASE BeatMissed
    BY <1>4 DEF BeatMissed
  <1>5. CASE BeatNothing
    BY <1>5 DEF BeatNothing
  <1>6. CASE BeatSent
    BY <1>6 DEF BeatSent
  <1>7. CASE Stop(heartbeat)
    BY <1>7, StopStates DEF Threads
  <1>8. CASE Acquire(heartbeat, "restartLock", "await")
    BY <1>8 DEF Acquire
  <1>9. CASE Await
    BY <1>9 DEF Await
  <1>10. CASE Release(heartbeat, "awaitRelease", "awaitAgain")
    BY <1>10 DEF Release
  <1>11. CASE AwaitAgain
    BY <1>11 DEF AwaitAgain
  <1>12. CASE AwaitTimeout
    BY <1>12 DEF AwaitTimeout
  <1>13. CASE Release(heartbeat, "releaseAgain", "awaitAgain")
    BY <1>13 DEF Release
  <1>14. CASE Release(heartbeat, "awaited", "relock")
    BY <1>14 DEF Release
  <1>15. CASE Acquire(heartbeat, "relock", "relocked")
    BY <1>15 DEF Acquire
  <1>16. CASE Release(heartbeat, "relocked", "start")
    BY <1>16 DEF Release
  <1>17. CASE RestartFailed
    BY <1>17 DEF RestartFailed
  <1> QED
    BY <1>1, <1>2, <1>3, <1>4, <1>5, <1>6, <1>7, <1>8,
       <1>9, <1>10, <1>11, <1>12, <1>13, <1>14, <1>15, <1>16, <1>17
    DEF Beat

\* The calls, the faults and the sockets that are closed already do.
LEMMA OthersStates ==
    ASSUME StateOK,
           \/ \E t \in Threads : ReadOlder(t)
           \/ \E t \in Starters : ClientStart(t)
           \/ \E t \in Stoppers : ClientStop(t)
           \/ StopHeartBeat
           \/ \E fault \in {"silent", "eof", "reset"} : PeerFails(fault)
    PROVE  StateOK'
  <1> USE DEF StateOK, flags, link, Jump
  <1>1. ASSUME NEW t \in Threads, ReadOlder(t)
        PROVE  StateOK'
    BY <1>1 DEF ReadOlder
  <1>2. ASSUME NEW t \in Starters, ClientStart(t)
        PROVE  StateOK'
    BY <1>2, BoundAssumption DEF ClientStart
  <1>3. ASSUME NEW t \in Stoppers, ClientStop(t)
        PROVE  StateOK'
    BY <1>3 DEF ClientStop
  <1>4. ASSUME StopHeartBeat
        PROVE  StateOK'
    BY <1>4 DEF StopHeartBeat
  <1>5. ASSUME NEW fault \in {"silent", "eof", "reset"}, PeerFails(fault)
        PROVE  StateOK'
    <2>1. /\ UNCHANGED <<flags, running_lock, gap, stop_event>>
          /\ connected' = connected /\ authenticated' = authenticated
          /\ monitoring' = FALSE /\ sock' = fault
      BY <1>5 DEF PeerFails
    <2>2. /\ connected' \in BOOLEAN /\ authenticated' \in BOOLEAN
          /\ sock' \in {"none", "up", "silent", "eof", "reset", "closed"}
      BY <2>1
    <2> QED
      BY <2>1, <2>2, LinkChanges
  <1> QED
    BY <1>1, <1>2, <1>3, <1>4, <1>5

\* TypeOK is its two parts.
LEMMA TypeOKParts == TypeOK <=> PlacesOK /\ StateOK
  BY DEF TypeOK, PlacesOK, StateOK

\* Every variable has its type; nothing is read but by a thread that is reading; the
\* server sends notifications on authenticated connections only.
THEOREM MonitorTypeCorrect == Spec => []TypeOK
  <1>1. Init => TypeOK
    <2> SUFFICES ASSUME Init PROVE PlacesOK /\ StateOK
      BY TypeOKParts
    <2>1. PlacesOK
      <3>1. /\ "unborn" \in BeatLabels /\ "unborn" \notin ClientLabels
            /\ "idle" \in ClientLabels /\ "idle" \notin BeatLabels
        BY DEF BeatLabels, ClientLabels
      <3> QED
        BY <3>1, ThreadsAssumption DEF Init, PlacesOK, Threads
    <2>2. starts \in 0..MaxStarts
      BY BoundAssumption DEF Init
    <2>3. StateOK
      BY <2>2 DEF Init, StateOK
    <2> QED
      BY <2>1, <2>3
  <1>2. ASSUME TypeOK, [Next]_vars
        PROVE  TypeOK'
    <2>1. PlacesOK /\ StateOK
      BY <1>2, TypeOKParts
    <2>2. CASE Next
      <3>1. ASSUME NEW t \in Threads, Start(t) \/ Run(t)
            PROVE  PlacesOK' /\ StateOK'
        BY <2>1, <3>1, StartTyped, RunTyped, StartStates, RunStates
      <3>2. ASSUME NEW t \in Apps, Client(t)
            PROVE  PlacesOK' /\ StateOK'
        BY <2>1, <3>2, ClientTyped, ClientStates
      <3>3. ASSUME Beat
            PROVE  PlacesOK' /\ StateOK'
        BY <2>1, <3>3, BeatTyped, BeatStates
      <3>4. PlacesOK' /\ StateOK'
        BY <2>1, <2>2, <3>1, <3>2, <3>3, OthersTyped, OthersStates DEF Next
      <3> QED
        BY <3>4 DEF TypeOK, PlacesOK, StateOK
    <2>3. CASE UNCHANGED vars
      BY <1>2, <2>3 DEF vars, flags, link, TypeOK
    <2> QED
      BY <1>2, <2>2, <2>3
  <1> QED
    BY <1>1, <1>2, PTL DEF Spec
-----------------------------------------------------------------------------
(* One start: the heartbeat does not start a second reader. *)

\* Inside the first start, before running is set.
Early(a) == pc[a] \in {"clientConnect", "clientOpening", "clientOpened", "clientGreet", "auth",
                       "authReply", "authClose", "authClosed", "check",
                       "start", "startFlag", "startLock", "claim", "claimSet"}

\* Inside the first start.
Active(a) == pc[a] \notin {"idle", "stop", "times", "disconnect", "disconnected"}

\* Before the start nobody is there but application threads that have called nothing.
NothingYet ==
    starts = 0 =>
        /\ ~constructed
        /\ ~running
        /\ pc[heartbeat] = "unborn"
        /\ \A a \in Apps : pc[a] = "idle"

\* One application thread is inside the start.
OneStarter == \A a, b \in Apps : Active(a) /\ Active(b) => a = b

\* Until that start has set running, only the heartbeat can have: it is not waiting for
\* a reader to end, and the lock it holds is its own.
FirstStarter ==
    \A a \in Apps : Early(a) =>
        /\ running => Owns(heartbeat)
        /\ Holds(heartbeat) => running_lock
        /\ pc[heartbeat] \notin {"awaitRelease", "awaitAgain", "releaseAgain"}

\* The start looks at running, and sets it, under a lock the heartbeat does not hold.
ClaimsAlone ==
    \A a \in Apps : pc[a] \in {"claim", "claimSet"} => running_lock /\ ~Holds(heartbeat)

\* A thread about to set running has found it clear, and it still is.
ClaimsStopped == \A t \in Threads : pc[t] = "claimSet" => ~running

\* The inductive invariant: what the start may rely on before it sets running, and the
\* two properties.
MonitorInv ==
    /\ NothingYet
    /\ OneStarter
    /\ FirstStarter
    /\ ClaimsAlone
    /\ ClaimsStopped
    /\ OwnerIsRunning
    /\ AtMostOneReader

\* A step of t that claims nothing, and neither takes nor gives back anything.
Harmless(t) ==
    /\ \A u \in Threads \ {t} : pc'[u] = pc[u]
    /\ UNCHANGED <<starts, constructed, running, running_lock>>
    /\ constructed \/ pc[t] \notin {"idle", "unborn"}
    /\ Owns(t)' <=> Owns(t)
    /\ Holds(t)' <=> Holds(t)
    /\ pc'[t] \notin {"claim", "claimSet"}
    /\ pc'[t] \in {"awaitRelease", "awaitAgain", "releaseAgain"} =>
           pc[t] \in {"awaitRelease", "awaitAgain", "releaseAgain"}
    /\ t \in Apps => (Early(t)' => Early(t)) /\ (Active(t)' => Active(t))

\* Such a step keeps the invariant.
LEMMA HarmlessKeeps ==
    ASSUME MonitorInv, NEW t \in Threads, Harmless(t)
    PROVE  MonitorInv'
  <1> USE ThreadsAssumption DEF Harmless, MonitorInv, Threads
  <1>1. NothingYet'
    BY DEF NothingYet
  <1>2. OneStarter'
    BY DEF OneStarter, Active
  <1>3. FirstStarter'
    BY DEF FirstStarter, Early, Owns, Holds
  <1>4. ClaimsAlone'
    BY DEF ClaimsAlone, Holds
  <1>5. ClaimsStopped'
    BY DEF ClaimsStopped
  <1>6. OwnerIsRunning'
    BY DEF OwnerIsRunning, Owns
  <1>7. AtMostOneReader'
    BY DEF AtMostOneReader, Owns
  <1> QED
    BY <1>1, <1>2, <1>3, <1>4, <1>5, <1>6, <1>7

\* Taking running_lock.
LEMMA AcquireKeeps ==
    ASSUME MonitorInv, PlacesOK, NEW t \in Threads, NEW from, NEW to,
           \/ from = "startLock" /\ to = "claim"
           \/ from = "undoLock" /\ to = "undo"
           \/ from = "endLock" /\ to = "end"
           \/ t = heartbeat /\ from = "restartLock" /\ to = "await"
           \/ t = heartbeat /\ from = "relock" /\ to = "relocked",
           Acquire(t, from, to)
    PROVE  MonitorInv'
  <1> USE ThreadsAssumption DEF MonitorInv, Threads
  <1>1. /\ pc[t] = from /\ pc'[t] = to
        /\ \A u \in Threads : u # t => pc'[u] = pc[u]
        /\ ~running_lock /\ running_lock'
        /\ UNCHANGED <<starts, constructed, running>>
    BY DEF Acquire, Move, PlacesOK, flags
  <1> HIDE DEF MonitorInv
  <1>2. NothingYet'
    BY <1>1 DEF NothingYet, MonitorInv
  <1>3. OneStarter'
    BY <1>1 DEF OneStarter, Active, MonitorInv
  <1>4. FirstStarter'
    BY <1>1 DEF FirstStarter, Early, Owns, Holds, MonitorInv
  <1>5. ClaimsAlone'
    BY <1>1 DEF ClaimsAlone, FirstStarter, Early, OneStarter, Active, Holds, MonitorInv
  <1>6. ClaimsStopped'
    BY <1>1 DEF ClaimsStopped, MonitorInv
  <1>7. OwnerIsRunning'
    BY <1>1 DEF OwnerIsRunning, Owns, MonitorInv
  <1>8. AtMostOneReader'
    BY <1>1 DEF AtMostOneReader, Owns, MonitorInv
  <1> QED
    BY <1>2, <1>3, <1>4, <1>5, <1>6, <1>7, <1>8 DEF MonitorInv

\* Giving it back, or failing to.
LEMMA ReleaseKeeps ==
    ASSUME MonitorInv, PlacesOK, NEW t \in Threads, NEW from, NEW to,
           \/ from = "skipRelease" /\ to = Caller(t)
           \/ from = "startRelease" /\ to = "connect"
           \/ from = "undoRelease" /\ to = Caller(t)
           \/ from = "endRelease" /\ to = "endDisconnect"
           \/ t = heartbeat /\ from = "awaitRelease" /\ to = "awaitAgain"
           \/ t = heartbeat /\ from = "releaseAgain" /\ to = "awaitAgain"
           \/ t = heartbeat /\ from = "awaited" /\ to = "relock"
           \/ t = heartbeat /\ from = "relocked" /\ to = "start",
           Release(t, from, to)
    PROVE  MonitorInv'
  <1> USE ThreadsAssumption DEF Threads
  <1>1. /\ pc[t] = from
        /\ pc'[t] = IF running_lock THEN to ELSE Handler(t)
        /\ \A u \in Threads : u # t => pc'[u] = pc[u]
        /\ ~running_lock'
        /\ UNCHANGED <<starts, constructed, running>>
    BY DEF Release, Move, PlacesOK, flags
  <1> USE DEF Caller, Handler
  <1>2. NothingYet'
    BY <1>1 DEF NothingYet, MonitorInv
  <1>3. OneStarter'
    BY <1>1 DEF OneStarter, Active, MonitorInv
  <1>4. FirstStarter'
    BY <1>1 DEF FirstStarter, OneStarter, Active, Early, Owns, Holds, MonitorInv
  <1>5. ClaimsAlone'
    BY <1>1 DEF ClaimsAlone, FirstStarter, Early, OneStarter, Active, Holds, MonitorInv
  <1>6. ClaimsStopped'
    BY <1>1 DEF ClaimsStopped, MonitorInv
  <1>7. OwnerIsRunning'
    BY <1>1 DEF OwnerIsRunning, Owns, MonitorInv
  <1>8. AtMostOneReader'
    BY <1>1 DEF AtMostOneReader, Owns, MonitorInv
  <1> QED
    BY <1>2, <1>3, <1>4, <1>5, <1>6, <1>7, <1>8 DEF MonitorInv

\* Looking at running, and finding it clear or set.
LEMMA ClaimKeeps ==
    ASSUME MonitorInv, PlacesOK, NEW t \in Threads, Claim(t)
    PROVE  MonitorInv'
  <1> USE ThreadsAssumption DEF Threads
  <1>1. /\ pc[t] = "claim"
        /\ pc'[t] = IF running THEN "skipRelease" ELSE "claimSet"
        /\ \A u \in Threads : u # t => pc'[u] = pc[u]
        /\ UNCHANGED <<starts, constructed, running, running_lock>>
    BY DEF Claim, Jump, Move, PlacesOK, flags
  <1>2. NothingYet'
    BY <1>1 DEF NothingYet, MonitorInv
  <1>3. OneStarter'
    BY <1>1 DEF OneStarter, Active, MonitorInv
  <1>4. FirstStarter'
    BY <1>1 DEF FirstStarter, Early, Owns, Holds, MonitorInv
  <1>5. ClaimsAlone'
    BY <1>1 DEF ClaimsAlone, Holds, MonitorInv
  <1>6. ClaimsStopped'
    BY <1>1 DEF ClaimsStopped, MonitorInv
  <1>7. OwnerIsRunning'
    BY <1>1 DEF OwnerIsRunning, Owns, MonitorInv
  <1>8. AtMostOneReader'
    BY <1>1 DEF AtMostOneReader, Owns, MonitorInv
  <1> QED
    BY <1>2, <1>3, <1>4, <1>5, <1>6, <1>7, <1>8 DEF MonitorInv

\* Setting running.
LEMMA ClaimSetKeeps ==
    ASSUME MonitorInv, PlacesOK, NEW t \in Threads, ClaimSet(t)
    PROVE  MonitorInv'
  <1> USE ThreadsAssumption DEF Threads
  <1>1. /\ pc[t] = "claimSet" /\ pc'[t] = "startRelease"
        /\ \A u \in Threads : u # t => pc'[u] = pc[u]
        /\ UNCHANGED <<starts, constructed, running_lock>>
        /\ running'
    BY DEF ClaimSet, Move, PlacesOK, flags
  <1>2. NothingYet'
    BY <1>1 DEF NothingYet, MonitorInv
  <1>3. OneStarter'
    BY <1>1 DEF OneStarter, Active, MonitorInv
  <1>4. FirstStarter'
    BY <1>1 DEF FirstStarter, OneStarter, Active, Early, Owns, Holds, MonitorInv
  <1>5. ClaimsAlone'
    BY <1>1 DEF ClaimsAlone, Holds, MonitorInv
  \* No other thread is at claimSet: it would hold the lock too.
  <1>6. ClaimsStopped'
    BY <1>1 DEF ClaimsStopped, ClaimsAlone, OneStarter, Active, Holds, MonitorInv
  <1>7. OwnerIsRunning'
    BY <1>1 DEF OwnerIsRunning, MonitorInv
  \* Nor does one own the monitor: running was clear.
  <1>8. \A u \in Threads : ~Owns(u)
    BY <1>1 DEF ClaimsStopped, OwnerIsRunning, MonitorInv
  <1>9. AtMostOneReader'
    BY <1>1, <1>8 DEF AtMostOneReader, Owns
  <1> QED
    BY <1>2, <1>3, <1>4, <1>5, <1>6, <1>7, <1>9 DEF MonitorInv

\* Clearing it.
LEMMA ClearKeeps ==
    ASSUME MonitorInv, PlacesOK, NEW t \in Threads, NEW from, NEW to,
           \/ from = "undo" /\ to = "undoRelease"
           \/ from = "end" /\ to = "endRelease",
           Clear(t, from, to)
    PROVE  MonitorInv'
  <1> USE ThreadsAssumption DEF Threads
  <1>1. /\ pc[t] = from /\ pc'[t] = to
        /\ \A u \in Threads : u # t => pc'[u] = pc[u]
        /\ UNCHANGED <<starts, constructed, running_lock>>
        /\ ~running'
    BY DEF Clear, Move, PlacesOK, flags
  <1>2. NothingYet'
    BY <1>1 DEF NothingYet, MonitorInv
  <1>3. OneStarter'
    BY <1>1 DEF OneStarter, Active, MonitorInv
  <1>4. FirstStarter'
    BY <1>1 DEF FirstStarter, Early, Holds, MonitorInv
  <1>5. ClaimsAlone'
    BY <1>1 DEF ClaimsAlone, Holds, MonitorInv
  <1>6. ClaimsStopped'
    BY <1>1 DEF ClaimsStopped, MonitorInv
  \* The thread that clears running was the only one that owned the monitor.
  <1>7. OwnerIsRunning'
    BY <1>1 DEF OwnerIsRunning, AtMostOneReader, Owns, MonitorInv
  <1>8. AtMostOneReader'
    BY <1>1 DEF AtMostOneReader, Owns, MonitorInv
  <1> QED
    BY <1>2, <1>3, <1>4, <1>5, <1>6, <1>7, <1>8 DEF MonitorInv

\* The heartbeat waits for the reader to end.
LEMMA AwaitKeeps ==
    ASSUME MonitorInv, PlacesOK, Await
    PROVE  MonitorInv'
  <1> USE ThreadsAssumption DEF Threads
  <1>1. /\ pc[heartbeat] = "await"
        /\ pc'[heartbeat] = IF running THEN "awaitRelease" ELSE "awaited"
        /\ \A u \in Threads : u # heartbeat => pc'[u] = pc[u]
        /\ UNCHANGED <<starts, constructed, running, running_lock>>
    BY DEF Await, Jump, Move, PlacesOK, flags
  <1>2. NothingYet'
    BY <1>1 DEF NothingYet, MonitorInv
  <1>3. OneStarter'
    BY <1>1 DEF OneStarter, Active, MonitorInv
  \* Before the first start has set running, there is nothing to wait for.
  <1>4. FirstStarter'
    BY <1>1 DEF FirstStarter, Early, Owns, Holds, MonitorInv
  <1>5. ClaimsAlone'
    BY <1>1 DEF ClaimsAlone, Holds, MonitorInv
  <1>6. ClaimsStopped'
    BY <1>1 DEF ClaimsStopped, MonitorInv
  <1>7. OwnerIsRunning'
    BY <1>1 DEF OwnerIsRunning, Owns, MonitorInv
  <1>8. AtMostOneReader'
    BY <1>1 DEF AtMostOneReader, Owns, MonitorInv
  <1> QED
    BY <1>2, <1>3, <1>4, <1>5, <1>6, <1>7, <1>8 DEF MonitorInv

\* The one call of AtClient.start_monitor.
LEMMA ClientStartKeeps ==
    ASSUME MonitorInv, PlacesOK, starts \in Nat, MaxStarts <= 1, NEW t \in Starters, ClientStart(t)
    PROVE  MonitorInv'
  <1> USE ThreadsAssumption, BoundAssumption DEF Threads
  <1>1. starts = 0
    BY DEF ClientStart
  <1>2. /\ t \in Apps /\ t # heartbeat
        /\ pc'[t] \in {"clientConnect", "check"}
        /\ \A u \in Threads : u # t => pc'[u] = pc[u]
        /\ UNCHANGED <<running, running_lock>>
        /\ starts' = 1
    BY <1>1 DEF ClientStart, Move, PlacesOK, Apps
  <1>3. /\ ~running /\ pc[heartbeat] = "unborn"
        /\ \A a \in Apps : pc[a] = "idle"
    BY <1>1 DEF NothingYet, MonitorInv
  <1>4. NothingYet'
    BY <1>2 DEF NothingYet
  <1>5. OneStarter'
    BY <1>2, <1>3 DEF OneStarter, Active
  <1>6. FirstStarter'
    BY <1>2, <1>3 DEF FirstStarter, Holds
  <1>7. ClaimsAlone' /\ ClaimsStopped'
    BY <1>2, <1>3 DEF ClaimsAlone, ClaimsStopped
  <1>8. OwnerIsRunning' /\ AtMostOneReader'
    BY <1>2, <1>3 DEF OwnerIsRunning, AtMostOneReader, Owns
  <1> QED
    BY <1>4, <1>5, <1>6, <1>7, <1>8 DEF MonitorInv

-----------------------------------------------------------------------------
(* Every step is of one of a few kinds. *)

\* Taking running_lock.
Takes(t) ==
    \/ Acquire(t, "startLock", "claim")
    \/ Acquire(t, "undoLock", "undo")
    \/ Acquire(t, "endLock", "end")
    \/ t = heartbeat /\ Acquire(t, "restartLock", "await")
    \/ t = heartbeat /\ Acquire(t, "relock", "relocked")

\* Giving it back.
Gives(t) ==
    \/ Release(t, "skipRelease", Caller(t))
    \/ Release(t, "startRelease", "connect")
    \/ Release(t, "undoRelease", Caller(t))
    \/ Release(t, "endRelease", "endDisconnect")
    \/ t = heartbeat /\ Release(t, "awaitRelease", "awaitAgain")
    \/ t = heartbeat /\ Release(t, "releaseAgain", "awaitAgain")
    \/ t = heartbeat /\ Release(t, "awaited", "relock")
    \/ t = heartbeat /\ Release(t, "relocked", "start")

\* Clearing running.
Clears(t) ==
    \/ Clear(t, "undo", "undoRelease")
    \/ Clear(t, "end", "endRelease")

\* The kinds of step of a thread.
Kinds(t) ==
    \/ Harmless(t)
    \/ Takes(t)
    \/ Gives(t)
    \/ Claim(t)
    \/ ClaimSet(t)
    \/ Clears(t)
    \/ t = heartbeat /\ Await
    \/ t \in Starters /\ ClientStart(t)

\* The steps of stop_monitor are of these kinds.
LEMMA StopKinds ==
    ASSUME PlacesOK, NEW t \in Threads, Stop(t)
    PROVE  Harmless(t)
  <1> USE ThreadsAssumption DEF Harmless, Owns, Holds, Early, Active, PlacesOK, Move, flags, Threads
  <1>1. CASE StopFlag(t)
    BY <1>1 DEF StopFlag
  <1>2. CASE Times(t, "times", "disconnect")
    BY <1>2 DEF Times
  <1>3. CASE Close(t, "disconnect", "disconnected")
    BY <1>3 DEF Close
  <1>4. CASE ClearConnected(t, "disconnected", IF t = heartbeat THEN "restartLock" ELSE "idle")
    BY <1>4 DEF ClearConnected
  <1> QED
    BY <1>1, <1>2, <1>3, <1>4 DEF Stop

\* The steps of start_monitor's connect are.
LEMMA MonitorConnectKinds ==
    ASSUME PlacesOK, NEW t \in Threads, MonitorConnect(t)
    PROVE  Harmless(t)
  <1> USE DEF Harmless, Owns, Holds, Early, Active, PlacesOK, Move, Jump, flags
  <1>1. CASE ConnectSkips(t, "connect", "command")
    BY <1>1 DEF ConnectSkips
  <1>2. CASE ConnectBegins(t, "connect", "opening")
    BY <1>2 DEF ConnectBegins
  <1>3. CASE SocketOpened(t, "opening", "opened")
    BY <1>3 DEF SocketOpened
  <1>4. CASE SocketFails(t, "opening", "undoLock")
    BY <1>4 DEF SocketFails
  <1>5. CASE SetConnected(t, "opened", "greet")
    BY <1>5 DEF SetConnected
  <1>6. CASE Greeted(t, "greet", "command", "undoLock")
    BY <1>6 DEF Greeted
  <1> QED
    BY <1>1, <1>2, <1>3, <1>4, <1>5, <1>6 DEF MonitorConnect

\* The steps of AtClient's connect are.
LEMMA ClientConnectKinds ==
    ASSUME PlacesOK, NEW t \in Threads, ClientConnect(t)
    PROVE  Harmless(t)
  <1> USE DEF Harmless, Owns, Holds, Early, Active, PlacesOK, Move, Jump, flags
  <1>1. CASE ConnectSkips(t, "clientConnect", "auth")
    BY <1>1 DEF ConnectSkips
  <1>2. CASE ConnectBegins(t, "clientConnect", "clientOpening")
    BY <1>2 DEF ConnectBegins
  <1>3. CASE SocketOpened(t, "clientOpening", "clientOpened")
    BY <1>3 DEF SocketOpened
  <1>4. CASE SocketFails(t, "clientOpening", "idle")
    BY <1>4 DEF SocketFails
  <1>5. CASE SetConnected(t, "clientOpened", "clientGreet")
    BY <1>5 DEF SetConnected
  <1>6. CASE Greeted(t, "clientGreet", "auth", "idle")
    BY <1>6 DEF Greeted
  <1> QED
    BY <1>1, <1>2, <1>3, <1>4, <1>5, <1>6 DEF ClientConnect

\* The steps of its authentication are.
LEMMA AuthenticateKinds ==
    ASSUME PlacesOK, NEW t \in Threads, Authenticate(t)
    PROVE  Harmless(t)
  <1> USE DEF Harmless, Owns, Holds, Early, Active, PlacesOK, Move, Jump, flags
  <1>1. CASE AuthSent(t)
    BY <1>1 DEF AuthSent
  <1>2. CASE AuthNotSent(t)
    BY <1>2 DEF AuthNotSent
  <1>3. CASE AuthOk(t)
    BY <1>3 DEF AuthOk
  <1>4. CASE AuthRefused(t)
    BY <1>4 DEF AuthRefused
  <1>5. CASE AuthBreaks(t)
    BY <1>5 DEF AuthBreaks
  <1>6. CASE Close(t, "authClose", "authClosed")
    BY <1>6 DEF Close
  <1>7. CASE ClearConnected(t, "authClosed", "idle")
    BY <1>7 DEF ClearConnected
  <1> QED
    BY <1>1, <1>2, <1>3, <1>4, <1>5, <1>6, <1>7 DEF Authenticate

\* A read that ends at last is.
LEMMA OlderKinds ==
    ASSUME PlacesOK, NEW t \in Threads, ReadOlder(t)
    PROVE  Harmless(t)
  <1>1. PICK to \in Outcomes(pc[t]) : Move(t, pc[t], to)
    BY DEF ReadOlder
  <1>2. pc[t] \in ReadLabels
    BY DEF ReadOlder, PlacesOK
  <1>3. UNCHANGED <<starts, constructed, running, running_lock>>
    BY DEF ReadOlder, flags
  <1> QED
    BY <1>1, <1>2, <1>3
    DEF Outcomes, ReadLabels, Harmless, Owns, Holds, Early, Active, PlacesOK, Move

\* The steps of start_monitor are of these kinds.
LEMMA StartKinds ==
    ASSUME PlacesOK, NEW t \in Threads, Start(t)
    PROVE  Kinds(t)
  <1> USE DEF Harmless, Owns, Holds, Early, Active, PlacesOK, Move, flags
  <1>1. ASSUME Times(t, "start", "startFlag") PROVE Harmless(t)
    BY <1>1 DEF Times
  <1>2. ASSUME StartFlag(t) PROVE Harmless(t)
    BY <1>2 DEF StartFlag
  <1> HIDE DEF Harmless
  <1> QED
    BY <1>1, <1>2, MonitorConnectKinds DEF Start, Kinds, Takes, Gives, Clears

\* The steps of _run are.
LEMMA RunKinds ==
    ASSUME PlacesOK, NEW t \in Threads, Run(t)
    PROVE  Kinds(t)
  <1> USE DEF Harmless, Owns, Holds, Early, Active, PlacesOK, Move, Jump, flags
  <1>1. ASSUME SendMonitor(t) PROVE Harmless(t)
    BY <1>1 DEF SendMonitor
  <1>2. ASSUME SendMonitorFails(t) PROVE Harmless(t)
    BY <1>2 DEF SendMonitorFails
  <1>3. ASSUME Loop(t) PROVE Harmless(t)
    BY <1>3 DEF Loop
  <1>4. ASSUME LoopOnClosed(t) PROVE Harmless(t)
    BY <1>4 DEF LoopOnClosed
  <1>5. ASSUME LoopEnds(t) PROVE Harmless(t)
    BY <1>5 DEF LoopEnds
  <1>6. ASSUME ReadLine(t) PROVE Harmless(t)
    BY <1>6 DEF ReadLine
  <1>7. ASSUME ReadFails(t) PROVE Harmless(t)
    BY <1>7 DEF ReadFails
  <1>8. ASSUME Broken(t) PROVE Harmless(t)
    BY <1>8 DEF Broken
  <1>9. ASSUME Close(t, "brokenClose", "brokenClosed") PROVE Harmless(t)
    BY <1>9 DEF Close
  <1>10. ASSUME ClearConnected(t, "brokenClosed", "endLock") PROVE Harmless(t)
    BY <1>10 DEF ClearConnected
  <1>11. ASSUME Close(t, "endDisconnect", "endDisconnected") PROVE Harmless(t)
    BY <1>11 DEF Close
  <1>12. ASSUME ClearConnected(t, "endDisconnected", Caller(t)) PROVE Harmless(t)
    BY <1>12 DEF ClearConnected, Caller
  <1> HIDE DEF Harmless
  <1> QED
    BY <1>1, <1>2, <1>3, <1>4, <1>5, <1>6, <1>7, <1>8, <1>9, <1>10, <1>11, <1>12
    DEF Run, Kinds, Takes, Gives, Clears

\* The steps of AtClient's methods are.
LEMMA ClientKinds ==
    ASSUME PlacesOK, NEW t \in Apps, Client(t)
    PROVE  Kinds(t)
  <1>1. t \in Threads /\ t # heartbeat
    BY ThreadsAssumption DEF Threads
  <1>2. ASSUME ClientCheck(t) PROVE Harmless(t)
    BY <1>1, <1>2
    DEF ClientCheck, Harmless, Owns, Holds, Early, Active, PlacesOK, Move, Jump, flags
  <1> QED
    BY <1>1, <1>2, ClientConnectKinds, AuthenticateKinds, StopKinds DEF Client, Kinds

\* The steps of _start_heart_beat are.
LEMMA BeatKinds ==
    ASSUME PlacesOK, Beat
    PROVE  Kinds(heartbeat)
  <1> USE DEF Harmless, Owns, Holds, Early, Active, PlacesOK, Move, Jump, flags
  <1>0. heartbeat \in Threads /\ heartbeat \notin Apps
    BY ThreadsAssumption DEF Threads
  <1>1. ASSUME HeartbeatBegins PROVE Harmless(heartbeat)
    BY <1>0, <1>1 DEF HeartbeatBegins
  <1>2. ASSUME Poll PROVE Harmless(heartbeat)
    BY <1>0, <1>2 DEF Poll
  <1>3. ASSUME PollStops PROVE Harmless(heartbeat)
    BY <1>0, <1>3 DEF PollStops
  <1>4. ASSUME BeatMissed PROVE Harmless(heartbeat)
    BY <1>0, <1>4 DEF BeatMissed
  <1>5. ASSUME BeatNothing PROVE Harmless(heartbeat)
    BY <1>0, <1>5 DEF BeatNothing
  <1>6. ASSUME BeatSent PROVE Harmless(heartbeat)
    BY <1>0, <1>6 DEF BeatSent
  <1>7. ASSUME AwaitAgain PROVE Harmless(heartbeat)
    BY <1>0, <1>7 DEF AwaitAgain
  <1>8. ASSUME AwaitTimeout PROVE Harmless(heartbeat)
    BY <1>0, <1>8 DEF AwaitTimeout
  <1>9. ASSUME RestartFailed PROVE Harmless(heartbeat)
    BY <1>0, <1>9 DEF RestartFailed
  <1> HIDE DEF Harmless
  <1> QED
    BY <1>0, <1>1, <1>2, <1>3, <1>4, <1>5, <1>6, <1>7, <1>8, <1>9, StopKinds
    DEF Beat, Kinds, Takes, Gives, Clears

\* Every step of the system is of one of these kinds, or moves no thread.
LEMMA StepKinds ==
    ASSUME PlacesOK, [Next]_vars
    PROVE  \/ \E t \in Threads : Kinds(t)
           \/ UNCHANGED <<starts, constructed, running, running_lock, pc>>
  <1>1. ASSUME NEW t \in Threads, Start(t) \/ Run(t)
        PROVE  Kinds(t)
    BY <1>1, StartKinds, RunKinds
  <1>2. ASSUME NEW t \in Threads, ReadOlder(t)
        PROVE  Kinds(t)
    BY <1>2, OlderKinds DEF Kinds
  <1>3. ASSUME NEW t \in Apps, Client(t)
        PROVE  t \in Threads /\ Kinds(t)
    BY <1>3, ClientKinds DEF Threads
  <1>4. ASSUME Beat
        PROVE  heartbeat \in Threads /\ Kinds(heartbeat)
    BY <1>4, BeatKinds DEF Threads
  <1>5. ASSUME NEW t \in Starters, ClientStart(t)
        PROVE  t \in Threads /\ Kinds(t)
    BY <1>5 DEF Kinds, Threads, Apps
  <1>6. ASSUME NEW t \in Stoppers, ClientStop(t)
        PROVE  t \in Threads /\ Kinds(t)
    <2>1. t \in Threads
      BY DEF Threads, Apps
    <2>2. Harmless(t)
      BY <1>6, <2>1
      DEF ClientStop, Harmless, Owns, Holds, Early, Active, PlacesOK, Move, Jump, flags
    <2> QED
      BY <2>1, <2>2 DEF Kinds
  <1>7. ASSUME \/ StopHeartBeat
               \/ \E fault \in {"silent", "eof", "reset"} : PeerFails(fault)
               \/ UNCHANGED vars
        PROVE  UNCHANGED <<starts, constructed, running, running_lock, pc>>
    BY <1>7 DEF StopHeartBeat, PeerFails, vars, flags
  <1> QED
    BY <1>1, <1>2, <1>3, <1>4, <1>5, <1>6, <1>7 DEF Next

-----------------------------------------------------------------------------
(* The theorems. *)

\* However often the monitor is started: running_lock is never left held by nobody, so
\* no thread waits for it for ever because another one forgot it.
THEOREM LockIsHeldBySomebody == Spec => []LockHasHolder
  <1>1. Init => LockHasHolder
    BY DEF Init, LockHasHolder
  <1>2. ASSUME TypeOK, LockHasHolder, [Next]_vars
        PROVE  LockHasHolder'
    <2>1. PlacesOK
      BY <1>2, TypeOKParts
    <2>2. CASE UNCHANGED <<starts, constructed, running, running_lock, pc>>
      BY <1>2, <2>2 DEF LockHasHolder, Holds
    <2>3. ASSUME NEW t \in Threads, Kinds(t)
          PROVE  LockHasHolder'
      <3>1. CASE Takes(t)
        <4>1. Holds(t)'
          BY <2>1, <3>1 DEF Takes, Acquire, Holds, Move, PlacesOK
        <4> QED
          BY <4>1 DEF LockHasHolder
      <3>2. CASE Gives(t)
        BY <3>2 DEF Gives, Release, LockHasHolder
      <3>3. ASSUME ~Takes(t), ~Gives(t)
            PROVE  /\ running_lock' = running_lock
                   /\ Holds(t)' <=> Holds(t)
                   /\ \A u \in Threads : u # t => pc'[u] = pc[u]
        <4> USE DEF Holds, Move, Jump, PlacesOK
        <4>1. CASE Harmless(t)
          BY <4>1 DEF Harmless
        <4>2. CASE Claim(t)
          BY <2>1, <4>2 DEF Claim
        <4>3. CASE ClaimSet(t)
          BY <2>1, <4>3 DEF ClaimSet
        <4>4. CASE Clears(t)
          BY <2>1, <4>4 DEF Clears, Clear
        <4>5. CASE t = heartbeat /\ Await
          BY <2>1, <4>5 DEF Await
        <4>6. CASE ClientStart(t)
          BY <2>1, <4>6 DEF ClientStart
        <4> QED
          BY <2>3, <3>3, <4>1, <4>2, <4>3, <4>4, <4>5, <4>6 DEF Kinds
      <3>4. CASE ~Takes(t) /\ ~Gives(t)
        BY <1>2, <3>3, <3>4 DEF LockHasHolder, Holds
      <3> QED
        BY <3>1, <3>2, <3>4
    <2> QED
      BY <1>2, <2>1, <2>2, <2>3, StepKinds
  <1> QED
    BY <1>1, <1>2, MonitorTypeCorrect, PTL DEF Spec

\* MonitorInv is kept by every step, when start_monitor is called once.
LEMMA MonitorInductive ==
    ASSUME MaxStarts <= 1, TypeOK, MonitorInv, [Next]_vars
    PROVE  MonitorInv'
  <1>1. PlacesOK /\ starts \in Nat
    BY TypeOKParts, BoundAssumption DEF StateOK
  <1>2. CASE UNCHANGED <<starts, constructed, running, running_lock, pc>>
    BY <1>2 DEF MonitorInv, NothingYet, OneStarter, FirstStarter, ClaimsAlone, ClaimsStopped,
                OwnerIsRunning, AtMostOneReader, Early, Active, Owns, Holds
  <1>3. ASSUME NEW t \in Threads, Kinds(t)
        PROVE  MonitorInv'
    <2>1. CASE Harmless(t)
      BY <2>1, HarmlessKeeps
    <2>2. CASE Takes(t)
      BY <1>1, <2>2, AcquireKeeps DEF Takes
    <2>3. CASE Gives(t)
      BY <1>1, <2>3, ReleaseKeeps DEF Gives
    <2>4. CASE Claim(t)
      BY <1>1, <2>4, ClaimKeeps
    <2>5. CASE ClaimSet(t)
      BY <1>1, <2>5, ClaimSetKeeps
    <2>6. CASE Clears(t)
      BY <1>1, <2>6, ClearKeeps DEF Clears
    <2>7. CASE t = heartbeat /\ Await
      BY <1>1, <2>7, AwaitKeeps
    <2>8. CASE t \in Starters /\ ClientStart(t)
      BY <1>1, <2>8, ClientStartKeeps
    <2> QED
      BY <1>3, <2>1, <2>2, <2>3, <2>4, <2>5, <2>6, <2>7, <2>8 DEF Kinds
  <1> QED
    BY <1>1, <1>2, <1>3, StepKinds

\* It holds in every state, then.
LEMMA MonitorInvariant ==
    ASSUME MaxStarts <= 1
    PROVE  Spec => []MonitorInv
  <1>1. Init => MonitorInv
    BY ThreadsAssumption DEF Init, MonitorInv, NothingYet, OneStarter, FirstStarter, ClaimsAlone,
       ClaimsStopped, OwnerIsRunning, AtMostOneReader, Early, Active, Owns, Holds, Threads
  <1>2. TypeOK /\ MonitorInv /\ [Next]_vars => MonitorInv'
    BY MonitorInductive
  <1> QED
    BY <1>1, <1>2, MonitorTypeCorrect, PTL DEF Spec

\* For one call of AtClient.start_monitor, and any number of calls of stop_monitor: the
\* heartbeat's restart never puts a second reader beside one that still runs, although
\* it releases running_lock while another thread holds it.
THEOREM OneReader ==
    ASSUME MaxStarts <= 1
    PROVE  Spec => []AtMostOneReader
  <1>1. MonitorInv => AtMostOneReader
    BY DEF MonitorInv
  <1> QED
    BY <1>1, MonitorInvariant, PTL

\* For one call of AtClient.start_monitor: running is set as long as a thread reads, so
\* that neither AtClient nor the heartbeat takes the monitor for stopped.
THEOREM ReaderKeepsRunning ==
    ASSUME MaxStarts <= 1
    PROVE  Spec => []OwnerIsRunning
  <1>1. MonitorInv => OwnerIsRunning
    BY DEF MonitorInv
  <1> QED
    BY <1>1, MonitorInvariant, PTL
=============================================================================
