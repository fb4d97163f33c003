---------------------------- MODULE MonitorFeed -----------------------------
(***************************************************************************)
(* The way of a notification: from the atServer's log over the monitor     *)
(* connection to the reader (_run, atmonitorconnection.py), which makes an *)
(* event of each line and queues it, and on to the event loop              *)
(* (AtClient.handle_event, called from examples/repl.py), which decrypts   *)
(* updates and queues the result as an event of its own.  When the         *)
(* connection is lost the application makes a new client, which resumes    *)
(* where last_received_time says.                                          *)
(*                                                                         *)
(* Which thread reads, and when a monitor is restarted, is the matter of   *)
(* AtMonitorConnection; which key decrypts, of SharedKeys.  A line is      *)
(* what _run tells apart in it, and the notification it carries.           *)
(***************************************************************************)
EXTENDS Naturals, Sequences, SequencesExt

CONSTANTS
    Kinds,        \* what the notifications of this atSign may be
    Noises,       \* what else the server may say to a client that monitors
    MaxLog,       \* bound: how many notifications there are
    MaxNoise,     \* bound: how many lines that are not in the log are sent
    MaxQueue,     \* bound: how far the end of file, read again and again, fills the queue
    MaxLosses     \* bound: how often the connection is lost

\* A "legacy" update has no ivNonce in its metadata, and an "empty" one no value; a "strange"
\* notification has an operation _run does not know.
ASSUME KindsAssumption ==
    Kinds \subseteq {"update", "legacy", "empty", "sharedKey", "delete", "strange"}
ASSUME NoisesAssumption == Noises \subseteq {"stats", "ack", "unreadable"}
ASSUME BoundAssumption == {MaxLog, MaxNoise, MaxQueue, MaxLosses} \subseteq Nat

VARIABLES
    log,         \* the server's log: a sequence of [kind, time]
    clock,       \* the server's clock
    noise,       \* how many lines that are not in the log were sent
    losses,      \* how often the connection was lost
    session,     \* the monitor connection, as the server sees it
    stream,      \* lines on their way to the reader
    last_received_time,
    queue,       \* the Queue that reader and event loop share
    loop,        \* the thread of the event loop is "alive", or "dead": ended, or stuck for ever
    received,    \* the notifications events were made of, in that order
    stamps,      \* the times of the stats lines events were made of
    shown,       \* the updates the application was given in clear, in that order
    reported     \* the updates handle_event could not decrypt, and said so

server == <<log, clock, noise, losses>>
history == <<received, stamps>>
reader == <<session, stream, last_received_time, history>>
consumer == <<loop, shown, reported>>
vars == <<server, reader, queue, consumer>>

-----------------------------------------------------------------------------
Ids == 1..MaxLog
None == 0                  \* a line, or an event, of no notification
Times == 0..(MaxLog + MaxNoise)

LogEntry == [kind : Kinds, time : Times]

LineOf(id, entry) == [kind |-> entry.kind, id |-> id, time |-> entry.time]
Noise(kind, time) == [kind |-> kind, id |-> None, time |-> time]
Lines == [kind : Kinds \cup {"stats", "ack", "unreadable"}, id : Ids \cup {None}, time : Times]

Types == {"UPDATE", "SHARED_KEY", "DELETE", "STATS", "HEARTBEAT_ACK", "EXCEPTION", "DECRYPTED"}
Events == [type : Types, id : Ids \cup {None}, body : {"whole", "noIv", "noValue"}]

\* The lines with an epochMillis: the notifications, and the statistics.
Timed(line) == line.kind \notin {"ack", "unreadable"}

\* What _run makes of a line.
Classify(line) ==
    CASE line.kind \in {"update", "legacy", "empty"} -> "UPDATE"
      [] line.kind = "sharedKey" -> "SHARED_KEY"
      [] line.kind = "delete" -> "DELETE"
      [] line.kind = "stats" -> "STATS"
      [] line.kind = "ack" -> "HEARTBEAT_ACK"
      [] line.kind \in {"strange", "unreadable"} -> "EXCEPTION"

\* What handle_event will look for in it.
Body(line) ==
    CASE line.kind = "legacy" -> "noIv"
      [] line.kind = "empty" -> "noValue"
      [] OTHER -> "whole"

EventOf(line) == [type |-> Classify(line), id |-> line.id, body |-> Body(line)]
EofEvent == [type |-> "EXCEPTION", id |-> None, body |-> "whole"]

TypeOK ==
    /\ log \in Seq(LogEntry) /\ Len(log) \in 0..MaxLog
    /\ clock \in Times
    /\ noise \in 0..MaxNoise
    /\ losses \in 0..MaxLosses
    /\ session \in {"down", "served", "unserved", "eof"}
    /\ stream \in Seq(Lines)
    /\ last_received_time \in Times
    /\ queue \in Seq(Events)
    /\ loop \in {"alive", "dead"}
    /\ received \in Seq(DOMAIN log)
    /\ stamps \subseteq Times
    /\ shown \in Seq(ToSet(received))
    /\ reported \subseteq ToSet(received)

Init ==
    /\ log = <<>>
    /\ clock = 0
    /\ noise = 0
    /\ losses = 0
    /\ session = "down"
    /\ stream = <<>>
    /\ last_received_time = 0
    /\ queue = <<>>
    /\ loop = "alive"
    /\ received = <<>>
    /\ stamps = {}
    /\ shown = <<>>
    /\ reported = {}

-----------------------------------------------------------------------------
(* The server, and the network. *)

\* A notification comes in, perhaps in the same millisecond as the one before it, and
\* goes out at once to a client that monitors.
Arrives ==
    /\ Len(log) < MaxLog
    /\ clock' \in {clock, clock + 1} \ {0}
    /\ \E kind \in Kinds :
          LET entry == [kind |-> kind, time |-> clock'] IN
          /\ log' = Append(log, entry)
          /\ stream' = IF session = "served"
                       THEN Append(stream, LineOf(Len(log) + 1, entry)) ELSE stream
    /\ UNCHANGED <<noise, losses, session, last_received_time, history, queue, consumer>>

\* The statistics the server sends with id -1 and with the time it is, which may be a
\* millisecond no notification has; the answer to a heartbeat; and whatever else it may say.
Chatter ==
    /\ noise < MaxNoise
    /\ session = "served"
    /\ noise' = noise + 1
    /\ clock' \in {clock, clock + 1} \ {0}
    /\ \E kind \in Noises : stream' = Append(stream, Noise(kind, clock'))
    /\ UNCHANGED <<log, losses, session, last_received_time, history, queue, consumer>>

\* The connection breaks, or the heartbeat closes it: what was on its way is lost.
Lost ==
    /\ losses < MaxLosses \/ session = "eof"
    /\ session # "down"
    /\ session' = "down"
    /\ losses' = IF session = "eof" THEN losses ELSE losses + 1
    /\ stream' = <<>>
    /\ UNCHANGED <<log, clock, noise, last_received_time, history, queue, consumer>>

\* The server closes the connection: what it sent arrives.
Closed ==
    /\ losses < MaxLosses
    /\ session = "served"
    /\ session' = "eof"
    /\ losses' = losses + 1
    /\ UNCHANGED <<log, clock, noise, stream, last_received_time, history, queue, consumer>>

-----------------------------------------------------------------------------
(* The reader. *)

\* What the server sends again for monitor:<since>: the notifications later than that.
Replay(since) ==
    LET seen == CHOOSE n \in 0..Len(log) : \A i \in DOMAIN log : log[i].time > since <=> i > n
    IN  [j \in 1..(Len(log) - seen) |-> LineOf(seen + j, log[seen + j])]

\* Mutant: a new client that does not ask for what it missed.
NewClientFromNow ==
    /\ session \in {"down", "unserved"}
    /\ session' = "served"
    /\ stream' = <<>>
    /\ UNCHANGED <<server, last_received_time, history, queue, consumer>>

\* start_monitor(last_received_time=...) of a new AtClient, which has authenticated.
NewClient ==
    /\ session \in {"down", "unserved"}
    /\ session' = "served"
    /\ stream' = Replay(last_received_time)
    /\ UNCHANGED <<server, last_received_time, history, queue, consumer>>

\* The restart by the heartbeat connects and does not authenticate: the server answers
\* the monitor command with an error line.
HeartbeatRestarts ==
    /\ session = "down"
    /\ losses > 0
    /\ session' = "unserved"
    /\ stream' = <<Noise("unreadable", clock)>>
    /\ UNCHANGED <<server, last_received_time, history, queue, consumer>>

\* Mutant: last_received_time is the time of the client, and that is late.
ReadLineLate ==
    /\ stream # <<>>
    /\ stream' = Tail(stream)
    /\ queue' = Append(queue, EventOf(Head(stream)))
    /\ last_received_time' = IF Timed(Head(stream)) THEN clock ELSE last_received_time
    /\ received' = IF Head(stream).id = None THEN received ELSE Append(received, Head(stream).id)
    /\ stamps' = IF Head(stream).kind = "stats" THEN stamps \cup {clock} ELSE stamps
    /\ UNCHANGED <<server, session, consumer>>

\* Mutant: every line is counted as a notification.
ReadLineCountsAll ==
    /\ stream # <<>>
    /\ stream' = Tail(stream)
    /\ queue' = Append(queue, EventOf(Head(stream)))
    /\ last_received_time' = IF Timed(Head(stream)) THEN Head(stream).time ELSE last_received_time
    /\ received' = Append(received, Head(stream).id)
    /\ UNCHANGED <<server, session, stamps, consumer>>

\* One iteration of the loop of _run.
ReadLine ==
    /\ stream # <<>>
    /\ LET line == Head(stream) IN
          /\ queue' = Append(queue, EventOf(line))
          /\ last_received_time' = IF Timed(line) THEN line.time ELSE last_received_time
          /\ received' = IF line.id = None THEN received ELSE Append(received, line.id)
          /\ stamps' = IF line.kind = "stats" THEN stamps \cup {line.time} ELSE stamps
    /\ stream' = Tail(stream)
    /\ UNCHANGED <<server, session, consumer>>

\* At the end of file readline() returns b"", again and again: "Malformed response".
ReadEof ==
    /\ session = "eof"
    /\ stream = <<>>
    /\ Len(queue) < MaxQueue
    /\ queue' = Append(queue, EofEvent)
    /\ UNCHANGED <<server, reader, consumer>>

-----------------------------------------------------------------------------
(* The event loop. *)

\* queue.get(block=False)
Take(type) ==
    /\ loop = "alive"
    /\ queue # <<>>
    /\ Head(queue).type = type

\* Mutant: an update that cannot be decrypted is queued again, and its turn comes later.
HandleUpdateRetries ==
    /\ Take("UPDATE")
    /\ Head(queue).body = "whole"
    /\ \/ queue' = Append(Tail(queue), [Head(queue) EXCEPT !.type = "DECRYPTED"])
       \/ queue' = Append(Tail(queue), Head(queue))
    /\ UNCHANGED <<server, reader, consumer>>

\* Mutant: an update that cannot be decrypted is dropped without a word.
HandleUpdateDrops ==
    /\ Take("UPDATE")
    /\ Head(queue).body = "whole"
    /\ \/ queue' = Append(Tail(queue), [Head(queue) EXCEPT !.type = "DECRYPTED"])
       \/ queue' = Tail(queue)
    /\ UNCHANGED <<server, reader, consumer>>

\* handle_event, UPDATE_NOTIFICATION: the event is queued again, in clear; or what it
\* failed of is printed.
HandleUpdate ==
    /\ Take("UPDATE")
    /\ Head(queue).body = "whole"
    /\ \/ /\ queue' = Append(Tail(queue), [Head(queue) EXCEPT !.type = "DECRYPTED"])
          /\ UNCHANGED reported
       \/ /\ queue' = Tail(queue)
          /\ reported' = reported \cup {Head(queue).id}
    /\ UNCHANGED <<server, reader, loop, shown>>

\* if event_data["value"] != None: an update without a value ends here, without a word.
HandleEmptyUpdate ==
    /\ Take("UPDATE")
    /\ Head(queue).body = "noValue"
    /\ queue' = Tail(queue)
    /\ UNCHANGED <<server, reader, consumer>>

\* The key is looked up on a connection the server has closed: that read does not return.
HandleUpdateHangs ==
    /\ Take("UPDATE")
    /\ Head(queue).body = "whole"
    /\ loop' = "dead"
    /\ queue' = Tail(queue)
    /\ UNCHANGED <<server, reader, shown, reported>>

\* The KeyError of a missing ivNonce is caught by nobody: the thread ends.
HandleLegacyUpdate ==
    /\ Take("UPDATE")
    /\ Head(queue).body = "noIv"
    /\ loop' = "dead"
    /\ queue' = Tail(queue)
    /\ UNCHANGED <<server, reader, shown, reported>>

HandleDecrypted ==
    /\ Take("DECRYPTED")
    /\ shown' = Append(shown, Head(queue).id)
    /\ queue' = Tail(queue)
    /\ UNCHANGED <<server, reader, loop, reported>>

\* Every other event ends here: SHARED_KEY changes the keys of the client.
HandleOther ==
    /\ \E type \in Types \ {"UPDATE", "DECRYPTED"} : Take(type)
    /\ queue' = Tail(queue)
    /\ UNCHANGED <<server, reader, consumer>>

Handle ==
    \/ HandleUpdate \/ HandleUpdateHangs \/ HandleEmptyUpdate \/ HandleLegacyUpdate
    \/ HandleDecrypted \/ HandleOther

Next ==
    \/ Arrives \/ Chatter \/ Lost \/ Closed
    \/ NewClient \/ HeartbeatRestarts \/ ReadLine \/ ReadEof
    \/ Handle

Spec == Init /\ [][Next]_vars

\* The threads run, and a lookup of handle_event returns unless it hangs for ever; a
\* connection that is closed is found to be in the end (the heartbeat misses its answers);
\* and the application that lost its monitor makes a new client.
Fairness ==
    /\ WF_vars(ReadLine)
    /\ WF_vars(Handle)
    /\ WF_vars(session = "eof" /\ Lost)
    /\ WF_vars(NewClient)

FairSpec == Spec /\ Fairness

-----------------------------------------------------------------------------
\* A line with the time of this notification was received: this one, or an earlier
\* notification, or a stats line.
Passed(i) ==
    \/ \E r \in ToSet(received) : r <= i /\ log[r].time = log[i].time
    \/ log[i].time \in stamps

\* However often the connection is lost, each notification was received, or is on its way,
\* or is later than the time the next client will resume from; but for one that has the
\* same epochMillis as a line that was received: an earlier notification, or a stats line.
NoneIsLost ==
    \A i \in DOMAIN log :
        \/ Passed(i)
        \/ \E j \in DOMAIN stream : stream[j].id = i
        \/ session # "served" /\ log[i].time > last_received_time

\* Notifications are received once, in the order of the log, and without a gap but those
\* in a millisecond of which another line was received; and the application sees updates
\* in clear in that order: losses of the connection, replays and the second turn of an
\* update through the queue cannot be seen from outside.
Promised == INSTANCE Feed WITH arrived <- log
ImplementsFeed == Promised!Spec

\* Every notification is received in the end, or another line of the same time.
EveryNotificationIsReceived ==
    \A i \in Ids : i \in DOMAIN log ~> i \in DOMAIN log /\ Passed(i)

\* An update that was received, and has a value and a nonce, is shown or reported in the
\* end, unless the event loop has died of another one, or is stuck in the lookup of a key.
EveryUpdateIsHandled ==
    \A i \in Ids :
        i \in ToSet(received) /\ log[i].kind = "update" ~>
            i \in ToSet(shown) \/ i \in reported \/ loop = "dead"

-----------------------------------------------------------------------------
\* Why nothing is lost: log, stream and queue are in order, and whatever a line's time has
\* passed is received, or before it in the stream.  (The inductive invariant is
\* FeedInStep, with TypeOK and NoneIsLost.)

\* Times grow, and each cuts the log in two.
LogInOrder ==
    /\ clock <= Len(log) + noise
    /\ \A i \in DOMAIN log : log[i].time \in 1..clock
    /\ \A i, k \in DOMAIN log : i <= k => log[i].time <= log[k].time
    /\ \A since \in Times : \E n \in 0..Len(log) :
          \A i \in DOMAIN log : log[i].time > since <=> i > n

ReceivedInOrder ==
    /\ last_received_time <= clock
    /\ \A i \in DOMAIN received : log[received[i]].time <= last_received_time
    /\ \/ last_received_time \in stamps \cup {0}
       \/ \E r \in ToSet(received) : log[r].time = last_received_time
    /\ \A i, k \in DOMAIN received : i < k => received[i] < received[k]

StreamInOrder ==
    /\ session = "down" => stream = <<>>
    /\ session = "unserved" => \A j \in DOMAIN stream : stream[j].kind = "unreadable"
    /\ \A j \in DOMAIN stream :
          /\ stream[j].time \in last_received_time..clock
          /\ IF stream[j].kind \in Kinds
             THEN /\ stream[j].id \in DOMAIN log
                  /\ stream[j].time = log[stream[j].id].time
                  /\ \A r \in ToSet(received) : r < stream[j].id
             ELSE stream[j].id = None
    /\ \A j, k \in DOMAIN stream : j < k =>
          /\ stream[j].time <= stream[k].time
          /\ stream[k].id = None \/ stream[j].id < stream[k].id

QueueInOrder ==
    \A j \in DOMAIN queue : queue[j].type \in {"UPDATE", "DECRYPTED"} =>
        /\ queue[j].id \in ToSet(received)
        /\ \A i \in DOMAIN shown : shown[i] < queue[j].id
        /\ \A k \in DOMAIN queue :
              \/ queue[k].type = queue[j].type /\ j < k
              \/ queue[k].type = "UPDATE" /\ queue[j].type = "DECRYPTED"
              => queue[j].id < queue[k].id

\* A line of the time of notification i was received, or is among the first n on their way:
\* the notification, an earlier one, or a stats line.
Seen(i, n) ==
    \/ \E r \in 1..i :
          /\ log[r].time = log[i].time
          /\ r \in ToSet(received) \/ \E j \in 1..n : stream[j].id = r
    \/ log[i].time \in stamps
    \/ \E j \in 1..n : stream[j].kind = "stats" /\ stream[j].time = log[i].time

TimesTell ==
    \A i \in DOMAIN log :
        /\ log[i].time <= last_received_time => Seen(i, 0)
        /\ session \in {"served", "eof"} => \A j \in DOMAIN stream :
              Timed(stream[j]) /\ log[i].time <= stream[j].time => Seen(i, j)

FeedInStep == LogInOrder /\ ReceivedInOrder /\ StreamInOrder /\ QueueInOrder /\ TimesTell
=============================================================================
