--------------------------- MODULE MonitorFeed_proofs ---------------------------
(***************************************************************************)
(* Proofs about MonitorFeed, for logs of any length, any number of losses, *)
(* other lines and events, and any times of the notifications and of those *)
(* lines: types, that nothing is lost but what shares its time with a line *)
(* that was received, and that Feed is implemented.                        *)
(***************************************************************************)
EXTENDS MonitorFeed, SequenceTheorems, TLAPS

-----------------------------------------------------------------------------
(* Sequences. *)

\* A sequence of members of a set is one of members of a larger set.
LEMMA SeqWidens ==
    ASSUME NEW S, NEW T, S \subseteq T, NEW s \in Seq(S)
    PROVE  s \in Seq(T)
  <1>1. Len(s) \in Nat /\ s \in [1..Len(s) -> S]
    OBVIOUS
  <1>2. s \in [1..Len(s) -> T]
    BY <1>1
  <1> QED
    BY <1>1, <1>2

\* What there is of log and received.
LEMMA Places ==
    ASSUME TypeOK
    PROVE  /\ log \in Seq(LogEntry) /\ Len(log) \in 0..MaxLog /\ DOMAIN log = 1..Len(log)
           /\ Len(log) \in Nat
           /\ received \in Seq(1..Len(log)) /\ Len(received) \in Nat
           /\ DOMAIN received = 1..Len(received)
           /\ ToSet(received) \subseteq 1..Len(log)
           /\ \A i \in DOMAIN received : received[i] \in ToSet(received)
           /\ \A r \in ToSet(received) : \E i \in DOMAIN received : received[i] = r
           /\ shown \in Seq(ToSet(received))
  <1>1. /\ log \in Seq(LogEntry) /\ Len(log) \in 0..MaxLog /\ DOMAIN log = 1..Len(log)
        /\ Len(log) \in Nat
    BY DEF TypeOK
  <1>2. received \in Seq(1..Len(log))
    BY <1>1 DEF TypeOK
  <1>3. Len(received) \in Nat /\ DOMAIN received = 1..Len(received)
    BY <1>2
  <1>4. \A i \in DOMAIN received : received[i] \in 1..Len(log)
    BY <1>2, <1>3
  <1>5. /\ ToSet(received) \subseteq 1..Len(log)
        /\ \A i \in DOMAIN received : received[i] \in ToSet(received)
        /\ \A r \in ToSet(received) : \E i \in DOMAIN received : received[i] = r
    BY <1>4 DEF ToSet
  <1> QED
    BY <1>1, <1>2, <1>3, <1>5 DEF TypeOK

\* An event is made of every line.
LEMMA EventsAreTyped ==
    ASSUME NEW line \in Lines
    PROVE  EventOf(line) \in Events
  <1>1. line.kind \in Kinds \cup {"stats", "ack", "unreadable"} /\ line.id \in Ids \cup {None}
    BY DEF Lines
  <1>2. Classify(line) \in Types
    BY <1>1, KindsAssumption DEF Classify, Types
  <1>3. Body(line) \in {"whole", "noIv", "noValue"}
    BY DEF Body
  <1> QED
    BY <1>1, <1>2, <1>3 DEF EventOf, Events

\* What the server sends again is the log from some place on.
LEMMA ReplayIsTheRest ==
    ASSUME TypeOK, LogInOrder, NEW since \in Times
    PROVE  \E n \in 0..Len(log) :
              /\ \A i \in DOMAIN log : log[i].time > since <=> i > n
              /\ Replay(since) \in Seq(Lines)
              /\ Len(Replay(since)) = Len(log) - n
              /\ \A j \in 1..(Len(log) - n) : Replay(since)[j] = LineOf(n + j, log[n + j])
  <1> DEFINE l == Len(log)
             Cuts(n) == \A i \in DOMAIN log : log[i].time > since <=> i > n
             seen == CHOOSE n \in 0..l : Cuts(n)
  <1>1. l \in 0..MaxLog /\ l \in Nat /\ DOMAIN log = 1..l /\ log \in Seq(LogEntry)
    BY Places
  <1>2. \E n \in 0..l : Cuts(n)
    BY DEF LogInOrder
  <1>3. seen \in 0..l /\ Cuts(seen)
    <2> HIDE DEF Cuts
    <2> QED
      BY <1>2
  <1>4. Replay(since) = [j \in 1..(l - seen) |-> LineOf(seen + j, log[seen + j])]
    BY DEF Replay
  <1> HIDE DEF seen, Cuts, l
  <1>5. \A j \in 1..(l - seen) : LineOf(seen + j, log[seen + j]) \in Lines
    <2> SUFFICES ASSUME NEW j \in 1..(l - seen)
                 PROVE  LineOf(seen + j, log[seen + j]) \in Lines
      OBVIOUS
    <2>1. seen + j \in 1..l
      BY <1>1, <1>3
    <2>2. log[seen + j] \in LogEntry
      BY <1>1, <2>1 DEF l
    <2>3. seen + j \in Ids
      BY <1>1, <2>1, BoundAssumption DEF Ids
    <2> QED
      BY <2>2, <2>3 DEF LogEntry, LineOf, Lines
  <1>6. PICK m \in Nat : m = l - seen
    <2>1. l - seen \in Nat
      BY <1>1, <1>3
    <2> QED
      BY <2>1
  <1>7. Replay(since) = [j \in 1..m |-> LineOf(seen + j, log[seen + j])]
    BY <1>4, <1>6
  <1>8. Replay(since) \in [1..m -> Lines]
    BY <1>5, <1>6, <1>7
  <1>9. Replay(since) \in Seq(Lines) /\ Len(Replay(since)) = m
    BY <1>8
  <1> QED
    BY <1>3, <1>6, <1>7, <1>9 DEF Cuts, l

\* An event that waits for its turn, and was made of an update.
Update(event) == event.type \in {"UPDATE", "DECRYPTED"}

\* The queue without its first event.
LEMMA RestOfQueue ==
    ASSUME TypeOK, queue # <<>>
    PROVE  /\ Head(queue) \in Events /\ Head(queue) = queue[1]
           /\ Tail(queue) \in Seq(Events)
           /\ Len(queue) \in Nat \ {0}
           /\ Len(Tail(queue)) = Len(queue) - 1
           /\ DOMAIN queue = 1..Len(queue)
           /\ DOMAIN Tail(queue) = 1..(Len(queue) - 1)
           /\ \A j \in DOMAIN Tail(queue) : j + 1 \in DOMAIN queue /\ Tail(queue)[j] = queue[j + 1]
  <1>1. queue \in Seq(Events)
    BY DEF TypeOK
  <1>2. Len(queue) \in Nat \ {0} /\ DOMAIN queue = 1..Len(queue)
    BY <1>1
  <1>3. /\ Head(queue) \in Events
        /\ Tail(queue) \in Seq(Events)
        /\ Len(Tail(queue)) = Len(queue) - 1
        /\ \A i \in 1..Len(Tail(queue)) : Tail(queue)[i] = queue[i + 1]
    BY <1>1, HeadTailProperties
  <1>4. Head(queue) = queue[1]
    BY <1>1
  <1>5. DOMAIN Tail(queue) = 1..(Len(queue) - 1)
    BY <1>3
  <1> QED
    BY <1>2, <1>3, <1>4, <1>5

-----------------------------------------------------------------------------
(* Events. *)

\* Whatever the event loop makes of an event, and whatever the end of file adds, the
\* updates stay in order.
LEMMA HandledInOrder ==
    ASSUME TypeOK, FeedInStep, Handle \/ ReadEof
    PROVE  TypeOK' /\ QueueInOrder'
  <1> DEFINE R == ToSet(received)
             q == Tail(queue)
             again == [Head(queue) EXCEPT !.type = "DECRYPTED"]
  <1>1. UNCHANGED <<server, reader>>
    BY DEF Handle, HandleUpdate, HandleUpdateHangs, HandleEmptyUpdate, HandleLegacyUpdate,
           HandleDecrypted, HandleOther, ReadEof
  <1>2. /\ R \subseteq Nat /\ shown \in Seq(R)
        /\ received' = received /\ R' = R
    BY <1>1, Places DEF reader, history
  <1>3. ASSUME queue' \in Seq(Events), loop' \in {"alive", "dead"}, shown' \in Seq(R),
               reported' \subseteq R
        PROVE  TypeOK'
    BY <1>1, <1>2, <1>3 DEF TypeOK, server, reader, history
  <1>4. queue # <<>> =>
           /\ Head(queue) \in Events /\ Head(queue) = queue[1]
           /\ q \in Seq(Events)
           /\ Len(queue) \in Nat \ {0} /\ Len(q) = Len(queue) - 1
           /\ DOMAIN queue = 1..Len(queue) /\ DOMAIN q = 1..(Len(queue) - 1)
           /\ \A j \in DOMAIN q : j + 1 \in DOMAIN queue /\ q[j] = queue[j + 1]
    BY RestOfQueue
  <1> HIDE DEF q
  <1>5. \A j \in DOMAIN queue : Update(queue[j]) =>
           /\ queue[j].id \in R
           /\ \A i \in DOMAIN shown : shown[i] < queue[j].id
           /\ \A k \in DOMAIN queue :
                 \/ queue[k].type = queue[j].type /\ j < k
                 \/ queue[k].type = "UPDATE" /\ queue[j].type = "DECRYPTED"
                 => queue[j].id < queue[k].id
    BY <1>2 DEF FeedInStep, QueueInOrder, Update
  <1>6. ASSUME queue # <<>>, queue' = q, shown' = shown
        PROVE  QueueInOrder'
    <2> SUFFICES ASSUME NEW j \in DOMAIN q, Update(q[j])
                 PROVE  /\ q[j].id \in R
                        /\ \A i \in DOMAIN shown : shown[i] < q[j].id
                        /\ \A k \in DOMAIN q :
                              \/ q[k].type = q[j].type /\ j < k
                              \/ q[k].type = "UPDATE" /\ q[j].type = "DECRYPTED"
                              => q[j].id < q[k].id
      BY <1>2, <1>6 DEF QueueInOrder, Update
    <2>1. j + 1 \in DOMAIN queue /\ q[j] = queue[j + 1]
      BY <1>4, <1>6
    <2>2. ASSUME NEW k \in DOMAIN q
          PROVE  k + 1 \in DOMAIN queue /\ q[k] = queue[k + 1] /\ (j < k <=> j + 1 < k + 1)
      BY <1>4, <1>6, <2>2
    <2> QED
      BY <1>5, <2>1, <2>2
  <1>7. CASE HandleUpdate
    <2>1. /\ queue # <<>> /\ Head(queue).type = "UPDATE" /\ shown' = shown /\ loop' = loop
      BY <1>7 DEF HandleUpdate, Take
    <2>2. Head(queue).id \in R
      BY <1>4, <1>5, <2>1 DEF Update
    <2>3. CASE queue' = Append(q, again) /\ UNCHANGED reported
      <3>1. again \in Events /\ again.type = "DECRYPTED" /\ again.id = queue[1].id
        BY <1>4, <2>1 DEF Events, Types
      <3> HIDE DEF again
      <3>2. /\ queue' \in Seq(Events)
            /\ Len(queue') = Len(queue)
            /\ DOMAIN queue' = 1..Len(queue)
            /\ \A j \in 1..(Len(queue) - 1) : queue'[j] = queue[j + 1]
            /\ queue'[Len(queue)] = again
        <4>1. /\ Append(q, again) \in Seq(Events)
              /\ Len(Append(q, again)) = Len(q) + 1
              /\ \A i \in 1..Len(q) : Append(q, again)[i] = q[i]
              /\ Append(q, again)[Len(q) + 1] = again
          BY <1>4, <2>1, <3>1, AppendProperties
        <4> QED
          BY <1>4, <2>1, <2>3, <4>1
      <3>3. TypeOK'
        BY <1>2, <1>3, <2>1, <2>3, <3>2 DEF TypeOK
      <3>4. QueueInOrder'
        <4> SUFFICES ASSUME NEW j \in 1..Len(queue), Update(queue'[j])
                     PROVE  /\ queue'[j].id \in R
                            /\ \A i \in DOMAIN shown : shown[i] < queue'[j].id
                            /\ \A k \in 1..Len(queue) :
                                  \/ queue'[k].type = queue'[j].type /\ j < k
                                  \/ queue'[k].type = "UPDATE" /\ queue'[j].type = "DECRYPTED"
                                  => queue'[j].id < queue'[k].id
          BY <1>2, <2>1, <3>2 DEF QueueInOrder, Update
        <4>1. Len(queue) \in Nat \ {0} /\ DOMAIN queue = 1..Len(queue) /\ 1 \in DOMAIN queue
              /\ queue[1].type = "UPDATE" /\ Update(queue[1])
          BY <1>4, <2>1 DEF Update
        <4>2. CASE j = Len(queue)
          <5>1. queue'[j] = again
            BY <3>2, <4>2
          <5>2. ASSUME NEW k \in 1..Len(queue), queue'[k].type = "UPDATE"
                PROVE  again.id < queue'[k].id
            <6>1. k \in 1..(Len(queue) - 1)
              BY <3>1, <3>2, <4>1, <5>2
            <6>2. k + 1 \in DOMAIN queue /\ 1 < k + 1 /\ queue'[k] = queue[k + 1]
              BY <3>2, <4>1, <6>1
            <6> QED
              BY <1>5, <3>1, <4>1, <5>2, <6>2
          <5>3. \A k \in 1..Len(queue) : ~(j < k)
            BY <4>1, <4>2
          <5>4. queue[1].id \in R /\ \A i \in DOMAIN shown : shown[i] < queue[1].id
            BY <1>5, <4>1
          <5> QED
            BY <3>1, <5>1, <5>2, <5>3, <5>4
        <4>3. CASE j \in 1..(Len(queue) - 1)
          <5>1. j + 1 \in DOMAIN queue /\ queue'[j] = queue[j + 1] /\ Update(queue[j + 1])
            BY <3>2, <4>1, <4>3
          <5>2. ASSUME NEW k \in 1..(Len(queue) - 1)
                PROVE  /\ k + 1 \in DOMAIN queue /\ queue'[k] = queue[k + 1]
                       /\ j < k <=> j + 1 < k + 1
            BY <3>2, <4>1, <5>2, <4>3
          <5>3. queue'[Len(queue)].type = "DECRYPTED" /\ queue'[Len(queue)].id = queue[1].id
            BY <3>1, <3>2
          <5>4. queue[j + 1].type = "DECRYPTED" => queue[j + 1].id < queue[1].id
            BY <1>5, <4>1, <5>1
          <5>5. ASSUME NEW k \in 1..Len(queue),
                       \/ queue'[k].type = queue'[j].type /\ j < k
                       \/ queue'[k].type = "UPDATE" /\ queue'[j].type = "DECRYPTED"
                PROVE  queue'[j].id < queue'[k].id
            <6>1. CASE k = Len(queue)
              BY <5>1, <5>3, <5>4, <5>5, <6>1 DEF Update
            <6>2. CASE k \in 1..(Len(queue) - 1)
              BY <1>5, <5>1, <5>2, <5>5, <6>2
            <6>3. k = Len(queue) \/ k \in 1..(Len(queue) - 1)
              <7>1. Len(queue) \in Nat
                BY <4>1
              <7> QED
                BY <7>1
            <6> QED
              BY <6>1, <6>2, <6>3
          <5> QED
            BY <1>5, <5>1, <5>5
        <4>4. j = Len(queue) \/ j \in 1..(Len(queue) - 1)
          <5>1. Len(queue) \in Nat
            BY <4>1
          <5> QED
            BY <5>1
        <4> HIDE DEF R
        <4> QED
          BY <4>2, <4>3, <4>4
      <3> QED
        BY <3>3, <3>4
    <2>4. CASE queue' = q /\ reported' = reported \cup {Head(queue).id}
      BY <1>2, <1>3, <1>4, <1>6, <2>1, <2>2, <2>4 DEF TypeOK
    <2> QED
      BY <1>7, <2>3, <2>4 DEF HandleUpdate, q
  <1>8. CASE HandleLegacyUpdate \/ HandleUpdateHangs
    <2>1. /\ queue # <<>> /\ queue' = q /\ shown' = shown /\ reported' = reported
          /\ loop' = "dead"
      BY <1>8 DEF HandleLegacyUpdate, HandleUpdateHangs, Take, q
    <2> QED
      BY <1>2, <1>3, <1>4, <1>6, <2>1 DEF TypeOK
  <1>9. CASE HandleDecrypted
    <2>1. /\ queue # <<>> /\ queue' = q /\ Head(queue).type = "DECRYPTED"
          /\ shown' = Append(shown, Head(queue).id) /\ loop' = loop /\ reported' = reported
      BY <1>9 DEF HandleDecrypted, Take, q
    <2>2. 1 \in DOMAIN queue /\ Update(queue[1]) /\ queue[1].id \in R
      BY <1>4, <1>5, <2>1 DEF Update
    <2>3. /\ shown' \in Seq(R)
          /\ DOMAIN shown = 1..Len(shown) /\ Len(shown) \in Nat
          /\ DOMAIN shown' = 1..(Len(shown) + 1)
          /\ \A i \in DOMAIN shown : shown'[i] = shown[i]
          /\ shown'[Len(shown) + 1] = queue[1].id
      BY <1>2, <1>4, <2>1, <2>2, AppendProperties
    <2>4. TypeOK'
      BY <1>2, <1>3, <1>4, <2>1, <2>3 DEF TypeOK
    <2>5. QueueInOrder'
      <3> SUFFICES ASSUME NEW j \in DOMAIN q, Update(q[j])
                   PROVE  /\ q[j].id \in R
                          /\ \A i \in DOMAIN shown' : shown'[i] < q[j].id
                          /\ \A k \in DOMAIN q :
                                \/ q[k].type = q[j].type /\ j < k
                                \/ q[k].type = "UPDATE" /\ q[j].type = "DECRYPTED"
                                => q[j].id < q[k].id
        BY <1>2, <2>1 DEF QueueInOrder, Update
      <3>1. j + 1 \in DOMAIN queue /\ 1 < j + 1 /\ q[j] = queue[j + 1]
        BY <1>4, <2>1
      <3>2. queue[1].id < queue[j + 1].id
        BY <1>4, <1>5, <2>1, <2>2, <3>1 DEF Update
      <3>3. \A i \in DOMAIN shown' : shown'[i] < q[j].id
        BY <1>5, <2>3, <3>1, <3>2
      <3>4. ASSUME NEW k \in DOMAIN q
            PROVE  k + 1 \in DOMAIN queue /\ q[k] = queue[k + 1] /\ (j < k <=> j + 1 < k + 1)
        BY <1>4, <2>1, <3>4
      <3> QED
        BY <1>5, <3>1, <3>3, <3>4
    <2> QED
      BY <2>4, <2>5
  <1>10. CASE HandleOther \/ HandleEmptyUpdate
    <2>1. queue # <<>> /\ queue' = q /\ UNCHANGED consumer
      BY <1>10 DEF HandleOther, HandleEmptyUpdate, Take, q
    <2> QED
      BY <1>2, <1>3, <1>4, <1>6, <2>1 DEF TypeOK, consumer
  <1>11. CASE ReadEof
    <2>1. queue' = Append(queue, EofEvent) /\ UNCHANGED consumer
      BY <1>11 DEF ReadEof
    <2>2. queue \in Seq(Events) /\ EofEvent \in Events
      BY DEF TypeOK, EofEvent, Events, Types
    <2>3. /\ queue' \in Seq(Events)
          /\ DOMAIN queue = 1..Len(queue) /\ Len(queue) \in Nat
          /\ DOMAIN queue' = 1..(Len(queue) + 1)
          /\ \A j \in DOMAIN queue : queue'[j] = queue[j]
          /\ queue'[Len(queue) + 1].type = "EXCEPTION"
      BY <2>1, <2>2, AppendProperties DEF EofEvent
    <2>4. TypeOK'
      BY <1>2, <1>3, <2>1, <2>3 DEF TypeOK, consumer
    <2>5. QueueInOrder'
      <3> SUFFICES ASSUME NEW j \in DOMAIN queue', Update(queue'[j])
                   PROVE  /\ queue'[j].id \in R
                          /\ \A i \in DOMAIN shown : shown[i] < queue'[j].id
                          /\ \A k \in DOMAIN queue' :
                                \/ queue'[k].type = queue'[j].type /\ j < k
                                \/ queue'[k].type = "UPDATE" /\ queue'[j].type = "DECRYPTED"
                                => queue'[j].id < queue'[k].id
        BY <1>2, <2>1 DEF QueueInOrder, Update, consumer
      <3>1. ASSUME NEW k \in DOMAIN queue', Update(queue'[k])
            PROVE  k \in DOMAIN queue /\ queue'[k] = queue[k]
        BY <2>3, <3>1 DEF Update
      <3> QED
        BY <1>5, <3>1 DEF Update
    <2> QED
      BY <2>4, <2>5
  <1> QED
    BY <1>7, <1>8, <1>9, <1>10, <1>11 DEF Handle

\* Numbers, for the provers.
LEMMA Numbers ==
    ASSUME TypeOK
    PROVE  /\ clock \in Nat /\ last_received_time \in Nat /\ noise \in Nat
           /\ MaxLog \in Nat /\ MaxNoise \in Nat /\ MaxLosses \in Nat
           /\ stream \in Seq(Lines) /\ DOMAIN stream = 1..Len(stream) /\ Len(stream) \in Nat
           /\ \A i \in DOMAIN log : log[i] \in LogEntry /\ log[i].time \in Nat
           /\ \A j \in DOMAIN stream : stream[j] \in Lines /\ stream[j].time \in Nat
  <1>1. /\ clock \in Nat /\ last_received_time \in Nat /\ noise \in Nat
        /\ MaxLog \in Nat /\ MaxNoise \in Nat /\ MaxLosses \in Nat
    BY BoundAssumption DEF TypeOK, Times
  <1>2. \A i \in DOMAIN log : log[i] \in LogEntry /\ log[i].time \in Nat
    <2>1. \A i \in DOMAIN log : log[i] \in LogEntry
      BY Places
    <2> QED
      BY <1>1, <2>1 DEF LogEntry, Times
  <1>3. stream \in Seq(Lines) /\ DOMAIN stream = 1..Len(stream) /\ Len(stream) \in Nat
    BY DEF TypeOK
  <1>4. \A j \in DOMAIN stream : stream[j] \in Lines /\ stream[j].time \in Nat
    <2>1. \A j \in DOMAIN stream : stream[j] \in Lines
      BY <1>3
    <2> QED
      BY <1>1, <2>1 DEF Lines, Times
  <1> QED
    BY <1>1, <1>2, <1>3, <1>4

-----------------------------------------------------------------------------
(* What was seen of a notification. *)

\* Passed is Seen, before any line.
LEMMA PassedIsSeen ==
    ASSUME TypeOK, NEW i \in DOMAIN log
    PROVE  Passed(i) <=> Seen(i, 0)
  <1>1. ToSet(received) \subseteq 1..Len(log) /\ DOMAIN log = 1..Len(log)
    BY Places
  <1>2. \A r \in ToSet(received) : r <= i <=> r \in 1..i
    BY <1>1
  <1>3. 1..0 = {}
    OBVIOUS
  <1> QED
    BY <1>2, <1>3 DEF Passed, Seen

\* More lines show no less.
LEMMA MoreIsSeen ==
    ASSUME NEW i, NEW m \in Nat, NEW n \in Nat, m <= n
    PROVE  (Seen(i, m) => Seen(i, n)) /\ (Seen(i, m)' => Seen(i, n)')
  <1>1. 1..m \subseteq 1..n
    OBVIOUS
  <1> QED
    BY <1>1 DEF Seen

\* What was seen stays so, while log, lines and what was received only grow.
LEMMA SeenStays ==
    ASSUME NEW i \in Nat \ {0}, NEW n, Seen(i, n),
           \A r \in 1..i : log'[r] = log[r],
           ToSet(received) \subseteq ToSet(received'), stamps \subseteq stamps',
           \A j \in 1..n : stream'[j] = stream[j]
    PROVE  Seen(i, n)'
  <1>0. i \in 1..i
    OBVIOUS
  <1>1. CASE \E r \in 1..i :
                /\ log[r].time = log[i].time
                /\ r \in ToSet(received) \/ \E j \in 1..n : stream[j].id = r
    BY <1>0, <1>1 DEF Seen
  <1>2. CASE log[i].time \in stamps
    BY <1>0, <1>2 DEF Seen
  <1>3. CASE \E j \in 1..n : stream[j].kind = "stats" /\ stream[j].time = log[i].time
    BY <1>0, <1>3 DEF Seen
  <1> QED
    BY <1>1, <1>2, <1>3 DEF Seen

\* A client that the server serves has seen, or will see, all of the log.
LEMMA ServedSees ==
    ASSUME TypeOK, NoneIsLost, session = "served", NEW i \in DOMAIN log
    PROVE  Seen(i, Len(stream))
  <1>1. DOMAIN log = 1..Len(log) /\ Len(log) \in Nat
    BY Places
  <1>2. Len(stream) \in Nat /\ DOMAIN stream = 1..Len(stream)
    BY DEF TypeOK
  <1>3. CASE Passed(i)
    <2>1. Seen(i, 0)
      BY <1>3, PassedIsSeen
    <2> QED
      BY <1>2, <2>1, MoreIsSeen
  <1>4. CASE \E j \in DOMAIN stream : stream[j].id = i
    <2>1. i \in 1..i /\ log[i].time = log[i].time
      BY <1>1
    <2> QED
      BY <1>2, <1>4, <2>1 DEF Seen
  <1> QED
    BY <1>3, <1>4 DEF NoneIsLost

\* No server sends what arrives: the next client is still to come.
Unserved == session # "served"

\* Nothing is lost meanwhile: the next client asks for the rest.
LEMMA NextClientAsks ==
    TypeOK /\ TimesTell /\ Unserved => NoneIsLost
  <1> SUFFICES ASSUME TypeOK, TimesTell, Unserved, NEW i \in DOMAIN log, ~Passed(i)
               PROVE  log[i].time > last_received_time
    BY DEF NoneIsLost, Unserved
  <1>1. ~(log[i].time <= last_received_time)
    BY PassedIsSeen DEF TimesTell
  <1>2. log[i].time \in Nat /\ last_received_time \in Nat
    BY Numbers
  <1> QED
    BY <1>1, <1>2

\* And so it is after a step.
LEMMA NextClientWillAsk ==
    TypeOK' /\ TimesTell' /\ Unserved' => NoneIsLost'
  <1> QED
    BY NextClientAsks, PTL

-----------------------------------------------------------------------------
(* The server. *)

\* The log grows in order, in the same millisecond or a later one.
LEMMA LogGrows ==
    ASSUME TypeOK, LogInOrder, ReceivedInOrder, Len(log) < MaxLog,
           NEW entry \in LogEntry, log' = Append(log, entry),
           clock' \in {clock, clock + 1} \ {0}, entry.time = clock',
           UNCHANGED <<noise, received, stamps, last_received_time>>
    PROVE  /\ log' \in Seq(LogEntry) /\ Len(log') = Len(log) + 1
           /\ DOMAIN log' = 1..(Len(log) + 1)
           /\ \A i \in 1..Len(log) : log'[i] = log[i]
           /\ log'[Len(log) + 1] = entry
           /\ clock' \in Times /\ clock <= clock'
           /\ LogInOrder' /\ ReceivedInOrder'
  <1> DEFINE l == Len(log)
  <1>1. /\ log \in Seq(LogEntry) /\ DOMAIN log = 1..l /\ l \in Nat /\ clock \in Nat
        /\ l < MaxLog /\ MaxLog \in Nat
        /\ noise \in Nat /\ noise <= MaxNoise /\ MaxNoise \in Nat
        /\ \A i \in 1..l : log[i].time \in Nat
    BY Places, Numbers DEF TypeOK
  <1>2. /\ log' \in Seq(LogEntry) /\ Len(log') = l + 1 /\ DOMAIN log' = 1..(l + 1)
        /\ \A i \in 1..l : log'[i] = log[i]
        /\ log'[l + 1] = entry
    BY <1>1, AppendProperties
  <1>3. clock' \in Nat /\ clock' >= 1 /\ clock <= clock' /\ clock' <= clock + 1
    BY <1>1
  <1>4. /\ clock <= l + noise
        /\ \A i \in 1..l : log[i].time \in 1..clock
        /\ \A i, k \in 1..l : i <= k => log[i].time <= log[k].time
        /\ \A since \in Times : \E n \in 0..l : \A i \in 1..l : log[i].time > since <=> i > n
    BY <1>1 DEF LogInOrder
  <1> HIDE DEF l
  <1>5. clock' \in Times
    BY <1>1, <1>3, <1>4 DEF Times
  <1>6. \A i \in 1..(l + 1) : log'[i].time \in 1..clock'
    <2> SUFFICES ASSUME NEW i \in 1..(l + 1) PROVE log'[i].time \in 1..clock'
      OBVIOUS
    <2>1. CASE i \in 1..l
      BY <1>1, <1>2, <1>3, <1>4, <2>1
    <2>2. CASE i = l + 1
      BY <1>2, <1>3, <2>2
    <2> QED
      BY <1>1, <2>1, <2>2
  <1>7. \A i, k \in 1..(l + 1) : i <= k => log'[i].time <= log'[k].time
    <2> SUFFICES ASSUME NEW i \in 1..(l + 1), NEW k \in 1..(l + 1), i <= k
                 PROVE  log'[i].time <= log'[k].time
      OBVIOUS
    <2>1. CASE k \in 1..l
      <3>1. i \in 1..l
        BY <1>1, <2>1
      <3> QED
        BY <1>2, <1>4, <2>1, <3>1
    <2>2. CASE k = l + 1
      BY <1>2, <1>3, <1>6, <2>2
    <2> QED
      BY <1>1, <2>1, <2>2
  <1>8. \A since \in Times : \E n \in 0..(l + 1) :
           \A i \in 1..(l + 1) : log'[i].time > since <=> i > n
    <2> SUFFICES ASSUME NEW since \in Times
                 PROVE  \E n \in 0..(l + 1) :
                           \A i \in 1..(l + 1) : log'[i].time > since <=> i > n
      OBVIOUS
    <2>0. since \in Nat
      BY <1>1 DEF Times
    <2>1. CASE since >= clock'
      <3>1. \A i \in 1..(l + 1) : ~(log'[i].time > since) /\ ~(i > l + 1)
        BY <1>1, <1>3, <1>6, <2>0, <2>1
      <3>2. l + 1 \in 0..(l + 1)
        BY <1>1
      <3> QED
        BY <3>1, <3>2
    <2>2. CASE since < clock'
      <3>1. PICK n \in 0..l : \A i \in 1..l : log[i].time > since <=> i > n
        BY <1>4
      <3>2. \A i \in 1..l : log'[i].time > since <=> i > n
        BY <1>2, <3>1
      <3>3. log'[l + 1].time > since /\ l + 1 > n
        BY <1>1, <1>2, <1>3, <2>0, <2>2, <3>1
      <3>4. n \in 0..(l + 1) /\ \A i \in 1..(l + 1) : i \in 1..l \/ i = l + 1
        BY <1>1, <3>1
      <3> QED
        BY <3>2, <3>3, <3>4
    <2>3. since >= clock' \/ since < clock'
      BY <1>3, <2>0
    <2> QED
      BY <2>1, <2>2, <2>3
  <1>9. clock' <= (l + 1) + noise
    BY <1>1, <1>3, <1>4
  <1>10. LogInOrder'
    <2>1. Times' = Times
      BY DEF Times
    <2> QED
      BY <1>2, <1>6, <1>7, <1>8, <1>9, <2>1 DEF LogInOrder
  <1>11. ReceivedInOrder'
    <2>1. \A i \in DOMAIN received : received[i] \in 1..l
      BY Places DEF l
    <2>2. last_received_time <= clock'
      BY <1>1, <1>3, Numbers DEF ReceivedInOrder
    <2>3. \A r \in ToSet(received) : r \in 1..l
      BY Places DEF l
    <2> QED
      BY <1>2, <2>1, <2>2, <2>3 DEF ReceivedInOrder
  <1> QED
    BY <1>2, <1>3, <1>5, <1>10, <1>11 DEF l

\* A line that is sent is behind all others: stream and log go together.
LEMMA LineIsSent ==
    ASSUME TypeOK, LogInOrder, ReceivedInOrder, StreamInOrder, session = "served",
           NEW line \in Lines, stream' = Append(stream, line), line.time = clock',
           clock <= clock', clock' \in Nat,
           \A i \in DOMAIN log : i \in DOMAIN log' /\ log'[i] = log[i],
           IF line.kind \in Kinds
           THEN /\ line.id \in DOMAIN log' /\ line.id \in Nat \ {0}
                /\ line.time = log'[line.id].time
                /\ \A i \in DOMAIN log : i < line.id
           ELSE line.id = None,
           UNCHANGED <<session, received, last_received_time>>
    PROVE  /\ StreamInOrder'
           /\ stream' \in Seq(Lines) /\ DOMAIN stream' = 1..(Len(stream) + 1)
           /\ \A j \in 1..Len(stream) : stream'[j] = stream[j]
           /\ stream'[Len(stream) + 1] = line
  <1> DEFINE m == Len(stream)
  <1>1. /\ m \in Nat /\ DOMAIN stream = 1..m /\ clock \in Nat /\ last_received_time \in Nat
        /\ \A j \in 1..m : stream[j] \in Lines /\ stream[j].time \in Nat
    BY Numbers
  <1>2. /\ stream' \in Seq(Lines) /\ DOMAIN stream' = 1..(m + 1)
        /\ \A j \in 1..m : stream'[j] = stream[j]
        /\ stream'[m + 1] = line
    BY <1>1, Numbers, AppendProperties
  <1>3. /\ \A r \in ToSet(received) : r \in DOMAIN log
        /\ DOMAIN log \subseteq Nat \ {0}
    BY Places
  <1>4. ASSUME NEW j \in 1..m
        PROVE  /\ stream[j].time \in last_received_time..clock
               /\ IF stream[j].kind \in Kinds
                  THEN /\ stream[j].id \in DOMAIN log
                       /\ stream[j].time = log[stream[j].id].time
                       /\ \A r \in ToSet(received) : r < stream[j].id
                  ELSE stream[j].id = None
    BY <1>1, <1>4 DEF StreamInOrder
  <1>5. \A j, k \in 1..m : j < k =>
           /\ stream[j].time <= stream[k].time
           /\ stream[k].id = None \/ stream[j].id < stream[k].id
    BY <1>1 DEF StreamInOrder
  <1> HIDE DEF m
  <1>6. ASSUME NEW j \in 1..(m + 1)
        PROVE  /\ stream'[j].time \in last_received_time..clock'
               /\ IF stream'[j].kind \in Kinds
                  THEN /\ stream'[j].id \in DOMAIN log'
                       /\ stream'[j].time = log'[stream'[j].id].time
                       /\ \A r \in ToSet(received) : r < stream'[j].id
                  ELSE stream'[j].id = None
    <2>1. CASE j \in 1..m
      <3>1. stream'[j].time \in last_received_time..clock'
        BY <1>1, <1>2, <1>4, <2>1
      <3>2. stream'[j] = stream[j]
        BY <1>2, <2>1
      <3>3. CASE stream[j].kind \in Kinds
        <4>1. /\ stream[j].id \in DOMAIN log
              /\ stream[j].time = log[stream[j].id].time
              /\ \A r \in ToSet(received) : r < stream[j].id
          BY <1>4, <2>1, <3>3
        <4>2. stream[j].id \in DOMAIN log' /\ log'[stream[j].id] = log[stream[j].id]
          BY <4>1
        <4> QED
          BY <3>1, <3>2, <3>3, <4>1, <4>2
      <3>4. CASE stream[j].kind \notin Kinds
        <4>1. stream[j].id = None
          BY <1>4, <2>1, <3>4
        <4> QED
          BY <3>1, <3>2, <3>4, <4>1
      <3> QED
        BY <3>3, <3>4
    <2>2. CASE j = m + 1
      <3>1. line.time \in last_received_time..clock'
        BY <1>1 DEF ReceivedInOrder
      <3> QED
        BY <1>2, <1>3, <2>2, <3>1
    <2> QED
      BY <1>1, <2>1, <2>2
  <1>7. ASSUME NEW j \in 1..(m + 1), NEW k \in 1..(m + 1), j < k
        PROVE  /\ stream'[j].time <= stream'[k].time
               /\ stream'[k].id = None \/ stream'[j].id < stream'[k].id
    <2>1. j \in 1..m
      BY <1>1, <1>7
    <2>2. CASE k \in 1..m
      BY <1>2, <1>5, <1>7, <2>1, <2>2
    <2>3. CASE k = m + 1
      <3>1. stream'[j].time <= line.time
        BY <1>1, <1>2, <1>4, <2>1
      <3>2. line.kind \in Kinds => stream[j].id < line.id
        BY <1>3, <1>4, <2>1 DEF None
      <3> QED
        BY <1>2, <2>1, <2>3, <3>1, <3>2
    <2> QED
      BY <1>1, <2>2, <2>3
  <1>8. StreamInOrder'
    <2>1. session' = "served" /\ DOMAIN stream' = 1..(m + 1)
      BY <1>2
    <2>2. None' = None /\ Kinds' = Kinds
      BY DEF None
    <2> QED
      BY <1>6, <1>7, <2>1, <2>2 DEF StreamInOrder
  <1> QED
    BY <1>2, <1>8 DEF m

\* The lines on their way stay in order when log and clock grow.
LEMMA LinesStay ==
    ASSUME TypeOK, StreamInOrder,
           \A i \in DOMAIN log : i \in DOMAIN log' /\ log'[i] = log[i],
           clock <= clock', clock' \in Nat,
           UNCHANGED <<session, stream, received, last_received_time>>
    PROVE  StreamInOrder'
  <1>1. ASSUME NEW j \in DOMAIN stream
        PROVE  /\ stream[j].time \in last_received_time..clock'
               /\ IF stream[j].kind \in Kinds
                  THEN /\ stream[j].id \in DOMAIN log'
                       /\ stream[j].time = log'[stream[j].id].time
                       /\ \A r \in ToSet(received) : r < stream[j].id
                  ELSE stream[j].id = None
    <2>1. stream[j].time \in last_received_time..clock
      BY DEF StreamInOrder
    <2>2. clock \in Nat /\ last_received_time \in Nat
      BY Numbers
    <2>3. stream[j].time \in last_received_time..clock'
      BY <2>1, <2>2
    <2> QED
      BY <2>3 DEF StreamInOrder
  <1>2. None' = None
    BY DEF None
  <1> QED
    BY <1>1, <1>2 DEF StreamInOrder

\* A notification arrives, and goes out at once if there is a client that is served.
LEMMA ArrivesInStep ==
    ASSUME TypeOK, FeedInStep, NoneIsLost, Arrives
    PROVE  /\ TypeOK' /\ FeedInStep' /\ NoneIsLost'
           /\ Len(log') = Len(log) + 1
           /\ \A i \in DOMAIN log :
                 log'[i] = log[i] /\ log[i].time <= log'[Len(log) + 1].time
  <1>0. Len(log) \in Nat /\ Len(stream) \in Nat
    BY Places, Numbers
  <1>l. PICK l \in Nat : l = Len(log)
    BY <1>0
  <1>m. PICK m \in Nat : m = Len(stream)
    BY <1>0
  <1>1. /\ l < MaxLog
        /\ clock' \in {clock, clock + 1} \ {0}
        /\ UNCHANGED <<noise, losses, session, last_received_time, received, stamps, queue,
                       loop, shown, reported>>
    BY <1>l DEF Arrives, history, consumer
  <1>2. PICK kind \in Kinds :
           /\ log' = Append(log, [kind |-> kind, time |-> clock'])
           /\ stream' = IF session = "served"
                        THEN Append(stream, LineOf(l + 1, [kind |-> kind, time |-> clock']))
                        ELSE stream
    BY <1>l DEF Arrives
  <1> DEFINE entry == [kind |-> kind, time |-> clock']
             line == LineOf(l + 1, entry)
  <1>3. /\ l \in Nat /\ MaxLog \in Nat /\ m \in Nat /\ clock \in Nat
        /\ last_received_time \in Nat
        /\ DOMAIN log = 1..l /\ DOMAIN stream = 1..m
        /\ \A j \in 1..m : stream[j].time \in Nat
    <2>1. /\ MaxLog \in Nat /\ clock \in Nat /\ last_received_time \in Nat
          /\ DOMAIN stream = 1..m /\ DOMAIN log = 1..l
      BY <1>l, <1>m, Places, Numbers
    <2>2. \A j \in DOMAIN stream : stream[j].time \in Nat
      BY Numbers
    <2> QED
      BY <2>1, <2>2
  <1>4. /\ LogInOrder /\ ReceivedInOrder /\ StreamInOrder /\ QueueInOrder /\ TimesTell
        /\ last_received_time <= clock
        /\ \A i \in 1..l : log[i].time \in 1..clock
        /\ \A j \in 1..m : stream[j].time <= clock
    <2>1. LogInOrder /\ ReceivedInOrder /\ StreamInOrder /\ QueueInOrder /\ TimesTell
      BY DEF FeedInStep
    <2>2. \A j \in 1..m : stream[j].time \in last_received_time..clock
      BY <1>3, <2>1 DEF StreamInOrder
    <2>3. \A j \in 1..m : stream[j].time <= clock
      BY <1>3, <2>2
    <2> QED
      BY <1>3, <1>l, <2>1, <2>3 DEF LogInOrder, ReceivedInOrder
  <1>5. clock' \in Times /\ clock' \in Nat \ {0} /\ clock <= clock'
    <2>1. /\ clock <= l + noise /\ noise \in Nat /\ noise <= MaxNoise
          /\ MaxNoise \in Nat
      BY <1>4, <1>l, Numbers DEF LogInOrder, TypeOK
    <2> QED
      BY <1>1, <1>3, <2>1 DEF Times
  <1>6. entry \in LogEntry /\ entry.time = clock' /\ entry.kind = kind
    BY <1>5 DEF LogEntry
  <1>7. line \in Lines /\ line.kind = kind /\ line.id = l + 1 /\ line.time = clock'
    <2>1. l + 1 \in Ids
      BY <1>1, <1>3 DEF Ids
    <2> QED
      BY <1>5, <2>1 DEF LineOf, Lines
  <1> HIDE DEF entry, line
  <1>8. /\ log' = Append(log, entry)
        /\ stream' = IF session = "served" THEN Append(stream, line) ELSE stream
    BY <1>2 DEF entry, line
  <1>9. /\ log' \in Seq(LogEntry) /\ Len(log') = l + 1 /\ DOMAIN log' = 1..(l + 1)
        /\ \A i \in 1..l : log'[i] = log[i]
        /\ log'[l + 1] = entry
        /\ LogInOrder' /\ ReceivedInOrder'
    BY <1>1, <1>4, <1>6, <1>8, <1>l, LogGrows
  <1>10. \A i \in DOMAIN log : i \in DOMAIN log' /\ log'[i] = log[i]
    BY <1>3, <1>9
  <1>11. /\ StreamInOrder'
         /\ stream' \in Seq(Lines)
         /\ \A j \in 1..m : stream'[j] = stream[j]
         /\ IF session = "served"
            THEN DOMAIN stream' = 1..(m + 1) /\ stream'[m + 1] = line
            ELSE DOMAIN stream' = 1..m
    <2>1. CASE session = "served"
      <3>1. /\ line.id \in DOMAIN log' /\ line.id \in Nat \ {0}
            /\ line.time = log'[line.id].time
            /\ \A i \in DOMAIN log : i < line.id
        BY <1>3, <1>6, <1>7, <1>9
      <3> QED
        BY <1>1, <1>4, <1>5, <1>7, <1>8, <1>10, <1>m, <2>1, <3>1, LineIsSent
    <2>2. CASE session # "served"
      BY <1>1, <1>3, <1>4, <1>5, <1>8, <1>10, <2>2, Numbers, LinesStay
    <2> QED
      BY <2>1, <2>2
  <1>12. QueueInOrder'
    BY <1>1, <1>4 DEF QueueInOrder
  <1>13. TypeOK'
    <2>1. received \in Seq(1..l) /\ 1..l \subseteq 1..(l + 1)
      BY <1>3, <1>l, Places
    <2>2. received' \in Seq(1..(l + 1))
      BY <1>1, <2>1, SeqWidens
    <2>3. ToSet(received') = ToSet(received) /\ Len(log') \in 0..MaxLog
      BY <1>1, <1>3, <1>9
    <2> QED
      BY <1>1, <1>5, <1>9, <1>11, <2>2, <2>3 DEF TypeOK
  <1>14. ASSUME NEW i \in 1..l, NEW n \in 0..m, Seen(i, n)
         PROVE  Seen(i, n)'
    <2>1. /\ \A r \in 1..i : log'[r] = log[r]
          /\ \A j \in 1..n : stream'[j] = stream[j]
          /\ i \in Nat \ {0}
      BY <1>3, <1>9, <1>11, <1>14
    <2>2. ToSet(received') = ToSet(received) /\ stamps' = stamps
      BY <1>1
    <2> QED
      BY <1>14, <2>1, <2>2, SeenStays
  <1>15. ASSUME clock' = last_received_time
         PROVE  Seen(l + 1, 0)'
    <2>1. log'[l + 1].time = last_received_time /\ last_received_time # 0
      BY <1>5, <1>6, <1>9, <1>15
    <2>2. CASE last_received_time \in stamps
      BY <1>1, <2>1, <2>2 DEF Seen
    <2>3. CASE \E r \in ToSet(received) : log[r].time = last_received_time
      <3>1. PICK r \in ToSet(received) : log[r].time = last_received_time
        BY <2>3
      <3>2. r \in 1..l /\ r \in 1..(l + 1)
        BY <1>l, Places
      <3> QED
        BY <1>1, <1>9, <2>1, <3>1, <3>2 DEF Seen
    <2> QED
      BY <1>4, <2>1, <2>2, <2>3 DEF ReceivedInOrder
  <1>16. ASSUME NEW j \in 1..m, Timed(stream[j]), clock' = stream[j].time
         PROVE  Seen(l + 1, j)'
    <2>1. j \in 1..j /\ stream'[j] = stream[j] /\ log'[l + 1].time = clock'
      BY <1>6, <1>9, <1>11
    <2>2. CASE stream[j].kind = "stats"
      BY <1>16, <2>1, <2>2 DEF Seen
    <2>3. CASE stream[j].kind \in Kinds
      <3>1. stream[j].id \in 1..l /\ stream[j].time = log[stream[j].id].time
        BY <1>3, <1>4, <2>3 DEF StreamInOrder
      <3>2. stream[j].id \in 1..(l + 1) /\ log'[stream[j].id].time = log'[l + 1].time
        BY <1>9, <1>16, <2>1, <3>1
      <3> QED
        BY <2>1, <3>2 DEF Seen
    <2>4. stream[j] \in Lines
      BY <1>3, Numbers
    <2> QED
      BY <1>16, <2>2, <2>3, <2>4 DEF Lines, Timed
  <1>17. ASSUME NEW i \in 1..(l + 1), log'[i].time <= last_received_time
         PROVE  Seen(i, 0)'
    <2>1. CASE i \in 1..l
      <3>1. Seen(i, 0)
        BY <1>3, <1>4, <1>9, <1>17, <2>1 DEF TimesTell
      <3> QED
        BY <1>3, <1>14, <2>1, <3>1
    <2>2. CASE i = l + 1
      <3>1. clock' = last_received_time
        BY <1>3, <1>4, <1>5, <1>6, <1>9, <1>17, <2>2
      <3> QED
        BY <1>15, <2>2, <3>1
    <2> QED
      BY <1>3, <2>1, <2>2
  <1>18. ASSUME session \in {"served", "eof"}, NEW i \in 1..(l + 1), NEW j \in 1..m,
                Timed(stream[j]), log'[i].time <= stream[j].time
         PROVE  Seen(i, j)'
    <2>1. CASE i \in 1..l
      <3>1. Seen(i, j)
        BY <1>3, <1>4, <1>9, <1>18, <2>1 DEF TimesTell
      <3> QED
        BY <1>3, <1>14, <2>1, <3>1
    <2>2. CASE i = l + 1
      <3>1. clock' = stream[j].time
        BY <1>3, <1>4, <1>5, <1>6, <1>9, <1>18, <2>2
      <3> QED
        BY <1>16, <1>18, <2>2, <3>1
    <2> QED
      BY <1>3, <2>1, <2>2
  <1>19. ASSUME session = "served", NEW i \in 1..(l + 1)
         PROVE  Seen(i, m + 1)'
    <2>1. CASE i \in 1..l
      <3>1. Seen(i, m)
        BY <1>3, <1>19, <1>m, <2>1, ServedSees
      <3>2. Seen(i, m)'
        BY <1>3, <1>14, <2>1, <3>1
      <3> QED
        BY <1>3, <3>2, MoreIsSeen
    <2>2. CASE i = l + 1
      <3>1. i \in 1..i /\ m + 1 \in 1..(m + 1) /\ stream'[m + 1].id = i
        BY <1>3, <1>7, <1>11, <1>19, <2>2
      <3> QED
        BY <3>1 DEF Seen
    <2> QED
      BY <1>3, <2>1, <2>2
  <1>20. TimesTell'
    <2>1. ASSUME NEW i \in 1..(l + 1), log'[i].time <= last_received_time'
          PROVE  Seen(i, 0)'
      BY <1>1, <1>17, <2>1
    <2>2. ASSUME session' \in {"served", "eof"}, NEW i \in 1..(l + 1), NEW j \in DOMAIN stream',
                 Timed(stream'[j]), log'[i].time <= stream'[j].time
          PROVE  Seen(i, j)'
      <3>1. j \in 1..m \/ (session = "served" /\ j = m + 1)
        BY <1>3, <1>11
      <3>2. CASE j \in 1..m
        BY <1>1, <1>11, <1>18, <2>2, <3>2
      <3> QED
        BY <1>19, <3>1, <3>2
    <2> QED
      BY <1>9, <2>1, <2>2 DEF TimesTell, Timed
  <1>21. NoneIsLost'
    <2>1. CASE session = "served"
      <3> SUFFICES ASSUME NEW i \in 1..(l + 1)
                   PROVE  Passed(i)' \/ \E j \in DOMAIN stream' : stream'[j].id = i
        BY <1>9 DEF NoneIsLost
      <3>1. CASE i = l + 1
        BY <1>3, <1>7, <1>11, <2>1, <3>1
      <3>2. CASE i \in 1..l
        <4>1. Passed(i) \/ \E j \in DOMAIN stream : stream[j].id = i
          BY <1>3, <2>1, <3>2 DEF NoneIsLost
        <4>2. Passed(i) => Passed(i)'
          <5>1. ToSet(received) \subseteq 1..l /\ received' = received /\ stamps' = stamps
            BY <1>1, <1>l, Places
          <5> QED
            BY <1>9, <3>2, <5>1 DEF Passed
        <4>3. DOMAIN stream \subseteq DOMAIN stream'
          BY <1>3, <1>11, <2>1
        <4> QED
          BY <1>3, <1>11, <4>1, <4>2, <4>3
      <3> QED
        BY <1>3, <3>1, <3>2
    <2>2. CASE session # "served"
      <3>1. Unserved'
        BY <1>1, <2>2 DEF Unserved
      <3> QED
        BY <1>13, <1>20, <3>1, NextClientWillAsk
    <2> QED
      BY <2>1, <2>2
  <1>22. \A i \in 1..l : log'[i] = log[i] /\ log[i].time <= log'[l + 1].time
    BY <1>3, <1>4, <1>5, <1>6, <1>9
  <1> QED
    BY <1>3, <1>9, <1>11, <1>12, <1>13, <1>20, <1>21, <1>22, <1>l DEF FeedInStep

\* What a step that concerns the connection alone leaves as it is.
LEMMA TheRestStays ==
    ASSUME TypeOK, FeedInStep,
           UNCHANGED <<log, last_received_time, received, stamps, queue, consumer>>,
           clock' \in Times, clock <= clock', clock' <= Len(log) + noise',
           noise' \in 0..MaxNoise, losses' \in 0..MaxLosses,
           session' \in {"down", "served", "unserved", "eof"}, stream' \in Seq(Lines)
    PROVE  /\ TypeOK' /\ LogInOrder' /\ ReceivedInOrder' /\ QueueInOrder'
           /\ \A i \in DOMAIN log : log[i].time <= last_received_time => Seen(i, 0)'
           /\ \A i \in DOMAIN log : Passed(i) => Passed(i)'
  <1>1. TypeOK'
    BY DEF TypeOK, consumer
  <1>n. clock \in Nat /\ clock' \in Nat /\ last_received_time \in Nat
    BY Numbers, BoundAssumption DEF Times
  <1>2. LogInOrder' /\ ReceivedInOrder' /\ QueueInOrder'
    <2>1. LogInOrder'
      <3>1. \A i \in DOMAIN log : log[i].time \in 1..clock'
        BY <1>n DEF FeedInStep, LogInOrder
      <3>2. Times' = Times
        BY DEF Times
      <3> QED
        BY <3>1, <3>2 DEF FeedInStep, LogInOrder
    <2>2. ReceivedInOrder'
      BY <1>n DEF FeedInStep, ReceivedInOrder
    <2>3. QueueInOrder'
      BY DEF FeedInStep, QueueInOrder, consumer
    <2> QED
      BY <2>1, <2>2, <2>3
  <1>3. ASSUME NEW i \in DOMAIN log, log[i].time <= last_received_time
        PROVE  Seen(i, 0)'
    <2>1. Seen(i, 0) /\ i \in Nat \ {0}
      BY <1>3, Places DEF FeedInStep, TimesTell
    <2> QED
      BY <2>1, SeenStays
  <1>4. \A i \in DOMAIN log : Passed(i) => Passed(i)'
    BY DEF Passed
  <1> QED
    BY <1>1, <1>2, <1>3, <1>4

\* A line that is not in the log is the last of the stream, and of now.
LEMMA ChatterInStep ==
    ASSUME TypeOK, FeedInStep, NoneIsLost, Chatter
    PROVE  TypeOK' /\ FeedInStep' /\ NoneIsLost'
  <1>0. Len(stream) \in Nat
    BY Numbers
  <1>m. PICK m \in Nat : m = Len(stream)
    BY <1>0
  <1>1. /\ session = "served" /\ noise' \in 0..MaxNoise /\ noise' = noise + 1
        /\ clock' \in {clock, clock + 1}
        /\ UNCHANGED <<log, losses, session, last_received_time, received, stamps, queue,
                       consumer>>
    BY Numbers DEF Chatter, TypeOK, history
  <1>c. /\ clock' \in Times /\ clock' \in Nat /\ clock <= clock'
        /\ clock' <= Len(log) + noise'
    <2>1. /\ clock <= Len(log) + noise /\ Len(log) \in Nat /\ noise \in Nat
          /\ Len(log) <= MaxLog /\ noise' <= MaxNoise /\ clock \in Nat
          /\ MaxLog \in Nat /\ MaxNoise \in Nat
      BY <1>1, Places, Numbers DEF FeedInStep, LogInOrder
    <2> QED
      BY <1>1, <2>1 DEF Times
  <1>2. PICK kind \in Noises : stream' = Append(stream, Noise(kind, clock'))
    BY DEF Chatter
  <1> DEFINE line == Noise(kind, clock')
  <1>3. /\ line \in Lines /\ line.kind \notin Kinds
        /\ line.id = None /\ line.time = clock'
    BY <1>2, <1>c, KindsAssumption, NoisesAssumption DEF Noise, Lines
  <1> HIDE DEF line
  <1>4. /\ StreamInOrder' /\ stream' \in Seq(Lines)
        /\ DOMAIN stream = 1..m /\ DOMAIN stream' = 1..(m + 1)
        /\ \A j \in 1..m : stream'[j] = stream[j]
        /\ stream'[m + 1].id = None
    <2>1. DOMAIN stream = 1..Len(stream) /\ stream' = Append(stream, line)
      BY <1>2, Numbers DEF line
    <2>2. /\ StreamInOrder'
          /\ stream' \in Seq(Lines) /\ DOMAIN stream' = 1..(Len(stream) + 1)
          /\ \A j \in 1..Len(stream) : stream'[j] = stream[j]
          /\ stream'[Len(stream) + 1] = line
      BY <1>1, <1>3, <1>c, <2>1, LineIsSent DEF FeedInStep
    <2> QED
      BY <1>3, <1>m, <2>1, <2>2
  <1>5. /\ TypeOK' /\ LogInOrder' /\ ReceivedInOrder' /\ QueueInOrder'
        /\ \A i \in DOMAIN log : log[i].time <= last_received_time => Seen(i, 0)'
        /\ \A i \in DOMAIN log : Passed(i) => Passed(i)'
    BY <1>1, <1>4, <1>c, TheRestStays DEF TypeOK
  <1>6. ASSUME NEW i \in DOMAIN log, NEW j \in 1..m, Seen(i, j)
        PROVE  Seen(i, j)'
    <2>1. /\ \A r \in 1..i : log'[r] = log[r]
          /\ \A k \in 1..j : stream'[k] = stream[k]
          /\ i \in Nat \ {0}
      BY <1>1, <1>4, Places
    <2> QED
      BY <1>1, <1>6, <2>1, SeenStays
  <1>7. TimesTell'
    <2> SUFFICES ASSUME NEW i \in DOMAIN log, NEW j \in 1..(m + 1),
                        Timed(stream'[j]), log[i].time <= stream'[j].time
                 PROVE  Seen(i, j)'
      BY <1>1, <1>4, <1>5 DEF TimesTell, Timed
    <2>1. CASE j \in 1..m
      <3>1. Seen(i, j)
        BY <1>1, <1>4, <2>1 DEF FeedInStep, TimesTell
      <3> QED
        BY <1>6, <2>1, <3>1
    <2>2. CASE j = m + 1
      <3>1. Seen(i, m)
        BY <1>1, <1>m, ServedSees
      <3>2. Seen(i, m)'
        <4>1. m \in 1..m \/ m = 0
          OBVIOUS
        <4>2. /\ \A r \in 1..i : log'[r] = log[r]
              /\ \A k \in 1..m : stream'[k] = stream[k]
              /\ i \in Nat \ {0}
          BY <1>1, <1>4, Places
        <4> QED
          BY <1>1, <3>1, <4>2, SeenStays
      <3> QED
        BY <2>2, <3>2, MoreIsSeen
    <2> QED
      BY <2>1, <2>2
  <1>8. NoneIsLost'
    <2> SUFFICES ASSUME NEW i \in DOMAIN log
                 PROVE  Passed(i)' \/ \E j \in DOMAIN stream' : stream'[j].id = i
      BY <1>1 DEF NoneIsLost
    <2>1. Passed(i) \/ \E j \in DOMAIN stream : stream[j].id = i
      BY <1>1 DEF NoneIsLost
    <2>2. DOMAIN stream \subseteq DOMAIN stream'
      BY <1>4
    <2> QED
      BY <1>4, <1>5, <2>1, <2>2
  <1> QED
    BY <1>4, <1>5, <1>7, <1>8 DEF FeedInStep

\* A connection that is lost, or that the heartbeat restarts, brings nothing: what was not
\* received is what the next client asks for.
LEMMA LossesInStep ==
    ASSUME TypeOK, FeedInStep, Lost \/ HeartbeatRestarts
    PROVE  TypeOK' /\ FeedInStep' /\ NoneIsLost'
  <1>1. /\ session' \in {"down", "unserved"}
        /\ noise' \in 0..MaxNoise /\ losses' \in 0..MaxLosses
        /\ UNCHANGED <<log, clock, noise, last_received_time, received, stamps, queue,
                       consumer>>
    <2>1. CASE Lost
      <3>1. losses \in 0..MaxLosses /\ MaxLosses \in Nat /\ noise \in 0..MaxNoise
        BY Numbers DEF TypeOK
      <3> QED
        BY <2>1, <3>1 DEF Lost, history
    <2>2. CASE HeartbeatRestarts
      BY <2>2 DEF HeartbeatRestarts, TypeOK, server, history
    <2> QED
      BY <2>1, <2>2
  <1>2. /\ stream' \in Seq(Lines)
        /\ session' = "down" => stream' = <<>>
        /\ \A j \in DOMAIN stream' :
              /\ stream'[j].kind = "unreadable" /\ stream'[j].kind \notin Kinds
              /\ stream'[j].id = None /\ stream'[j].time = clock
        /\ \A j, k \in DOMAIN stream' : ~(j < k)
    <2>1. CASE Lost
      <3>1. stream' = <<>> /\ DOMAIN stream' = {}
        BY <2>1 DEF Lost
      <3> QED
        BY <3>1
    <2>2. CASE HeartbeatRestarts
      <3>1. stream' = <<Noise("unreadable", clock)>> /\ session' = "unserved"
        BY <2>2 DEF HeartbeatRestarts
      <3>2. /\ Noise("unreadable", clock) \in Lines
            /\ Noise("unreadable", clock).kind = "unreadable" /\ "unreadable" \notin Kinds
            /\ Noise("unreadable", clock).id = None /\ Noise("unreadable", clock).time = clock
        BY KindsAssumption DEF Noise, Lines, TypeOK
      <3> HIDE DEF Noise
      <3>3. stream' \in Seq(Lines) /\ DOMAIN stream' = {1} /\ stream'[1] = Noise("unreadable", clock)
        BY <3>1, <3>2
      <3> QED
        BY <3>1, <3>2, <3>3
    <2> QED
      BY <2>1, <2>2
  <1>3. /\ TypeOK' /\ LogInOrder' /\ ReceivedInOrder' /\ QueueInOrder'
        /\ \A i \in DOMAIN log : log[i].time <= last_received_time => Seen(i, 0)'
    <2>1. clock' \in Times /\ clock <= clock' /\ clock' <= Len(log) + noise'
      BY <1>1, Numbers DEF TypeOK, FeedInStep, LogInOrder
    <2> QED
      BY <1>1, <1>2, <2>1, TheRestStays
  <1>4. clock \in last_received_time..clock
    BY Numbers DEF FeedInStep, ReceivedInOrder
  <1>5. StreamInOrder'
    <2>1. None' = None
      BY DEF None
    <2> QED
      BY <1>1, <1>2, <1>4, <2>1 DEF StreamInOrder
  <1>6. TimesTell'
    BY <1>1, <1>3 DEF TimesTell
  <1>7. NoneIsLost'
    BY <1>1, <1>3, <1>6, NextClientWillAsk DEF Unserved
  <1> QED
    BY <1>3, <1>5, <1>6, <1>7 DEF FeedInStep

\* What the server sent before it closed the connection arrives.
LEMMA ClosedInStep ==
    ASSUME TypeOK, FeedInStep, Closed
    PROVE  TypeOK' /\ FeedInStep' /\ NoneIsLost'
  <1>1. /\ session = "served" /\ session' = "eof" /\ losses' \in 0..MaxLosses
        /\ UNCHANGED <<log, clock, noise, stream, last_received_time, received, stamps, queue,
                       consumer>>
    BY Numbers DEF Closed, TypeOK, history
  <1>2. /\ TypeOK' /\ LogInOrder' /\ ReceivedInOrder' /\ QueueInOrder'
    <2>1. clock' \in Times /\ clock <= clock' /\ clock' <= Len(log) + noise'
      BY <1>1, Numbers DEF TypeOK, FeedInStep, LogInOrder
    <2> QED
      BY <1>1, <2>1, TheRestStays DEF TypeOK
  <1>3. StreamInOrder'
    BY <1>1 DEF FeedInStep, StreamInOrder, None
  <1>4. TimesTell'
    BY <1>1 DEF FeedInStep, TimesTell, Seen, Timed
  <1>5. NoneIsLost'
    BY <1>1, <1>2, <1>4, NextClientWillAsk DEF Unserved
  <1> QED
    BY <1>2, <1>3, <1>4, <1>5 DEF FeedInStep

\* A new client is sent again what is later than last_received_time, and that is what was
\* not received, but for one of the same millisecond.
LEMMA NewClientInStep ==
    ASSUME TypeOK, FeedInStep, NewClient
    PROVE  TypeOK' /\ FeedInStep' /\ NoneIsLost'
  <1>0. Len(log) \in Nat
    BY Places
  <1>l. PICK l \in Nat : l = Len(log)
    BY <1>0
  <1>1. /\ session' = "served" /\ stream' = Replay(last_received_time)
        /\ UNCHANGED <<log, clock, noise, losses, last_received_time, received, stamps, queue,
                       consumer>>
    BY DEF NewClient, server, history
  <1>2. LogInOrder /\ ReceivedInOrder /\ last_received_time \in Times
    BY DEF FeedInStep, TypeOK
  <1>3. PICK n \in 0..l :
           /\ \A i \in 1..l : log[i].time > last_received_time <=> i > n
           /\ stream' \in Seq(Lines) /\ Len(stream') = l - n
           /\ \A j \in 1..(l - n) : stream'[j] = LineOf(n + j, log[n + j])
    BY <1>1, <1>2, <1>l, Places, ReplayIsTheRest
  <1>4. /\ DOMAIN stream' = 1..(l - n)
        /\ \A j \in 1..(l - n) :
              /\ n + j \in 1..l /\ stream'[j].id = n + j
              /\ stream'[j].kind = log[n + j].kind /\ stream'[j].time = log[n + j].time
    <2>1. l - n \in Nat /\ \A j \in 1..(l - n) : n + j \in 1..l
      BY <1>3
    <2>2. DOMAIN stream' = 1..(l - n)
      BY <1>3, <2>1
    <2>3. \A j \in 1..(l - n) : stream'[j] = LineOf(n + j, log[n + j])
      BY <1>3
    <2> QED
      BY <2>1, <2>2, <2>3 DEF LineOf
  <1>5. /\ DOMAIN log = 1..l
        /\ clock \in Nat /\ last_received_time \in Nat
        /\ \A i \in 1..l : log[i].time \in Nat /\ log[i].kind \in Kinds
    <2>1. DOMAIN log = 1..l /\ clock \in Nat /\ last_received_time \in Nat
      BY <1>l, Places, Numbers
    <2>2. \A i \in DOMAIN log : log[i] \in LogEntry /\ log[i].time \in Nat
      BY Numbers
    <2> QED
      BY <2>1, <2>2 DEF LogEntry
  <1>6. /\ \A i \in 1..l : log[i].time <= clock
        /\ \A i, k \in 1..l : i <= k => log[i].time <= log[k].time
    <2>1. \A i \in 1..l : log[i].time \in 1..clock
      BY <1>2, <1>5 DEF LogInOrder
    <2>2. \A i \in 1..l : log[i].time <= clock
      BY <1>5, <2>1
    <2> QED
      BY <1>2, <1>5, <2>2 DEF LogInOrder
  <1>7. \A r \in ToSet(received) : r \in 1..l /\ r <= n
    <2> SUFFICES ASSUME NEW r \in ToSet(received) PROVE r \in 1..l /\ r <= n
      OBVIOUS
    <2>1. r \in 1..l /\ \E i \in DOMAIN received : received[i] = r
      BY <1>l, Places
    <2>2. log[r].time <= last_received_time
      BY <1>2, <2>1 DEF ReceivedInOrder
    <2> QED
      BY <1>3, <1>5, <2>1, <2>2
  <1>8. /\ TypeOK' /\ LogInOrder' /\ ReceivedInOrder' /\ QueueInOrder'
        /\ \A i \in DOMAIN log : log[i].time <= last_received_time => Seen(i, 0)'
        /\ \A i \in DOMAIN log : Passed(i) => Passed(i)'
    <2>1. clock' \in Times /\ clock <= clock' /\ clock' <= Len(log) + noise'
      BY <1>1, Numbers DEF TypeOK, FeedInStep, LogInOrder
    <2> QED
      BY <1>1, <1>3, <2>1, TheRestStays DEF TypeOK
  <1>9. ASSUME NEW j \in 1..(l - n)
        PROVE  /\ stream'[j].time \in last_received_time..clock
               /\ stream'[j].kind \in Kinds
               /\ stream'[j].id \in DOMAIN log
               /\ stream'[j].time = log[stream'[j].id].time
               /\ \A r \in ToSet(received) : r < stream'[j].id
    <2>1. n + j \in 1..l /\ n + j > n
      BY <1>3, <1>4
    <2>2. log[n + j].time > last_received_time
      BY <1>3, <2>1
    <2>3. log[n + j].time \in last_received_time..clock
      BY <1>5, <1>6, <2>1, <2>2
    <2>4. \A r \in ToSet(received) : r < n + j
      BY <1>3, <1>7, <2>1
    <2> QED
      BY <1>4, <1>5, <2>1, <2>3, <2>4
  <1>10. ASSUME NEW j \in 1..(l - n), NEW k \in 1..(l - n), j < k
         PROVE  stream'[j].time <= stream'[k].time /\ stream'[j].id < stream'[k].id
    <2>1. n + j <= n + k /\ n + j < n + k
      BY <1>3, <1>10
    <2> QED
      BY <1>4, <1>6, <2>1
  <1>11. StreamInOrder'
    BY <1>1, <1>4, <1>9, <1>10 DEF StreamInOrder
  <1>12. ASSUME NEW i \in 1..l, NEW j \in 1..(l - n), log[i].time <= stream'[j].time
         PROVE  Seen(i, j)'
    <2>1. CASE i <= n
      <3>1. log[i].time <= last_received_time
        BY <1>3, <1>5, <2>1
      <3>2. Seen(i, 0)'
        BY <1>5, <1>8, <3>1
      <3> QED
        BY <1>3, <3>2, MoreIsSeen
    <2>2. CASE i > n /\ i <= n + j
      <3>1. i - n \in 1..j /\ i - n \in 1..(l - n) /\ n + (i - n) = i /\ i \in 1..i
        BY <1>3, <2>2
      <3>2. stream'[i - n].id = i
        BY <1>4, <3>1
      <3> QED
        BY <3>1, <3>2 DEF Seen
    <2>3. CASE i > n + j
      <3>1. n + j \in 1..i /\ n + j \in 1..l /\ n + j <= i /\ j \in 1..j
        BY <1>3, <1>4, <2>3
      <3>2. log[n + j].time = log[i].time /\ stream'[j].id = n + j
        <4>1. stream'[j].time = log[n + j].time /\ stream'[j].id = n + j
          BY <1>4
        <4>2. log[n + j].time <= log[i].time
          BY <1>6, <3>1
        <4>3. log[n + j].time \in Nat /\ log[i].time \in Nat
          BY <1>5, <3>1
        <4> QED
          BY <1>12, <4>1, <4>2, <4>3
      <3> QED
        BY <1>1, <3>1, <3>2 DEF Seen
    <2>4. i <= n \/ (i > n /\ i <= n + j) \/ i > n + j
      BY <1>3
    <2> QED
      BY <2>1, <2>2, <2>3, <2>4
  <1>13. TimesTell'
    BY <1>1, <1>4, <1>5, <1>8, <1>12 DEF TimesTell
  <1>14. NoneIsLost'
    <2> SUFFICES ASSUME NEW i \in 1..l
                 PROVE  Passed(i)' \/ \E j \in DOMAIN stream' : stream'[j].id = i
      BY <1>1, <1>5 DEF NoneIsLost
    <2>1. CASE i <= n
      <3>1. log[i].time <= last_received_time
        BY <1>3, <1>5, <2>1
      <3>2. Passed(i)
        BY <1>5, <3>1, PassedIsSeen DEF FeedInStep, TimesTell
      <3> QED
        BY <1>5, <1>8, <3>2
    <2>2. CASE i > n
      <3>1. i - n \in 1..(l - n) /\ n + (i - n) = i
        BY <1>3, <2>2
      <3> QED
        BY <1>4, <3>1
    <2>3. i <= n \/ i > n
      BY <1>3
    <2> QED
      BY <2>1, <2>2, <2>3
  <1> QED
    BY <1>8, <1>11, <1>13, <1>14 DEF FeedInStep

\* What can be seen of the reader from outside: it receives a notification,
ReceivesOne ==
    \E i \in DOMAIN log :
        /\ received' = Append(received, i) /\ stamps' = stamps
        /\ \A r \in ToSet(received) : r < i
        /\ \A missed \in 1..(i - 1) :
              \/ \E r \in ToSet(received) : r <= missed /\ log[r].time = log[missed].time
              \/ log[missed].time \in stamps

\* or a line of statistics.
HearsOne ==
    \E time \in stamps' :
        /\ stamps' = stamps \cup {time} /\ received' = received
        /\ \A r \in ToSet(received) : log[r].time <= time

\* The reader takes the first line: what it was about is received, and nothing is left out
\* but what shares its time with something received earlier.
LEMMA ReadInStep ==
    ASSUME TypeOK, FeedInStep, NoneIsLost, ReadLine
    PROVE  /\ TypeOK' /\ FeedInStep' /\ NoneIsLost'
           /\ UNCHANGED <<log, shown>>
           /\ ReceivesOne \/ HearsOne \/ UNCHANGED <<received, stamps>>
  <1>0. Len(stream) \in Nat /\ Len(log) \in Nat /\ Len(received) \in Nat /\ Len(queue) \in Nat
    BY Places, Numbers DEF TypeOK
  <1>m. PICK m \in Nat : m = Len(stream)
    BY <1>0
  <1>l. PICK l \in Nat : l = Len(log)
    BY <1>0
  <1>1. PICK line : line = stream[1]
    OBVIOUS
  <1>2. /\ m > 0 /\ stream # <<>> /\ DOMAIN stream = 1..m /\ line \in Lines /\ line = Head(stream)
        /\ stream' \in Seq(Lines) /\ DOMAIN stream' = 1..(m - 1)
        /\ \A j \in 1..(m - 1) : stream'[j] = stream[j + 1] /\ j + 1 \in 1..m
    <2>1. stream \in Seq(Lines) /\ stream # <<>> /\ stream' = Tail(stream)
      BY Numbers DEF ReadLine
    <2>2. m > 0 /\ DOMAIN stream = 1..m /\ line \in Lines /\ line = Head(stream)
      BY <1>1, <1>m, <2>1
    <2>3. /\ Tail(stream) \in Seq(Lines) /\ Len(Tail(stream)) = m - 1
          /\ \A j \in 1..Len(Tail(stream)) : Tail(stream)[j] = stream[j + 1]
      BY <1>m, <2>1, HeadTailProperties
    <2> QED
      BY <2>1, <2>2, <2>3
  <1>3. /\ queue' = Append(queue, EventOf(line))
        /\ last_received_time' = IF Timed(line) THEN line.time ELSE last_received_time
        /\ received' = IF line.id = None THEN received ELSE Append(received, line.id)
        /\ stamps' = IF line.kind = "stats" THEN stamps \cup {line.time} ELSE stamps
        /\ stamps \subseteq stamps'
        /\ UNCHANGED <<log, clock, noise, losses, session, loop, shown, reported>>
    BY <1>2 DEF ReadLine, server, consumer
  <1>4. /\ DOMAIN log = 1..l
        /\ clock \in Nat /\ last_received_time \in Nat
        /\ \A i \in 1..l : log[i].time \in Nat
        /\ \A j \in 1..m : stream[j].time \in Nat
        /\ ToSet(received) \subseteq 1..l
        /\ DOMAIN received = 1..Len(received)
        /\ \A r \in ToSet(received) : \E i \in DOMAIN received : received[i] = r
    <2>1. DOMAIN log = 1..l /\ clock \in Nat /\ last_received_time \in Nat
      BY <1>l, Places, Numbers
    <2>2. \A i \in DOMAIN log : log[i].time \in Nat
      BY Numbers
    <2>3. \A j \in DOMAIN stream : stream[j].time \in Nat
      BY Numbers
    <2> QED
      BY <1>l, <1>2, <2>1, <2>2, <2>3, Places
  <1>5. /\ last_received_time <= clock
        /\ \A i \in DOMAIN received : log[received[i]].time <= last_received_time
        /\ \A i, k \in DOMAIN received : i < k => received[i] < received[k]
        /\ \/ last_received_time \in stamps \cup {0}
           \/ \E r \in ToSet(received) : log[r].time = last_received_time
        /\ \A i, k \in 1..l : i <= k => log[i].time <= log[k].time
    BY <1>4 DEF FeedInStep, ReceivedInOrder, LogInOrder
  <1>6. /\ session # "down"
        /\ session = "unserved" => \A j \in 1..m : stream[j].kind = "unreadable"
        /\ \A j \in 1..m :
              /\ stream[j].time \in last_received_time..clock
              /\ IF stream[j].kind \in Kinds
                 THEN /\ stream[j].id \in 1..l
                      /\ stream[j].time = log[stream[j].id].time
                      /\ \A r \in ToSet(received) : r < stream[j].id
                 ELSE stream[j].id = None
        /\ \A j, k \in 1..m : j < k =>
              /\ stream[j].time <= stream[k].time
              /\ stream[k].id = None \/ stream[j].id < stream[k].id
    BY <1>2, <1>4 DEF FeedInStep, StreamInOrder
  <1>7. /\ line.time \in Nat /\ last_received_time <= line.time /\ line.time <= clock
        /\ line.id # None <=> line.kind \in Kinds
        /\ line.id # None =>
              /\ line.id \in 1..l /\ line.time = log[line.id].time
              /\ \A r \in ToSet(received) : r < line.id
              /\ Timed(line) /\ line.kind # "stats"
    <2>1. 1 \in 1..m
      BY <1>2
    <2>2. line.time \in Nat /\ last_received_time <= line.time /\ line.time <= clock
      BY <1>1, <1>4, <1>6, <2>1
    <2>3. IF line.kind \in Kinds
          THEN /\ line.id \in 1..l /\ line.time = log[line.id].time
               /\ \A r \in ToSet(received) : r < line.id
          ELSE line.id = None
      BY <1>1, <1>6, <2>1
    <2>4. line.kind \in Kinds => Timed(line) /\ line.kind # "stats"
      BY KindsAssumption DEF Timed
    <2>5. None \notin 1..l
      BY DEF None
    <2> QED
      BY <2>2, <2>3, <2>4, <2>5
  <1>8. /\ last_received_time' \in Nat /\ last_received_time' \in Times
        /\ last_received_time <= last_received_time'
        /\ last_received_time' <= line.time
        /\ line.id # None => last_received_time' = line.time
    <2>1. line.time \in Times /\ last_received_time \in Times
      BY <1>2 DEF Lines, TypeOK
    <2> QED
      BY <1>3, <1>4, <1>7, <2>1
  <1>9. /\ received \in Seq(1..l) /\ received' \in Seq(1..l)
        /\ line.id # None => Len(received') = Len(received) + 1
        /\ line.id # None => received'[Len(received) + 1] = line.id
        /\ \A i \in 1..Len(received) : received'[i] = received[i]
        /\ ToSet(received') = IF line.id = None THEN ToSet(received)
                              ELSE ToSet(received) \cup {line.id}
    <2>1. received \in Seq(1..l)
      BY <1>l, Places
    <2>2. CASE line.id = None
      BY <1>3, <2>1, <2>2
    <2>3. CASE line.id # None
      <3>1. /\ received' \in Seq(1..l) /\ Len(received') = Len(received) + 1
            /\ received'[Len(received) + 1] = line.id
            /\ \A i \in 1..Len(received) : received'[i] = received[i]
        BY <1>3, <1>7, <2>1, <2>3, AppendProperties
      <3>2. DOMAIN received' = 1..(Len(received) + 1) /\ DOMAIN received = 1..Len(received)
        BY <2>1, <3>1
      <3>3. ToSet(received') = ToSet(received) \cup {line.id}
        <4>1. 1..(Len(received) + 1) = (1..Len(received)) \cup {Len(received) + 1}
          BY <1>0
        <4> QED
          BY <3>1, <3>2, <4>1 DEF ToSet
      <3> QED
        BY <2>1, <2>3, <3>1, <3>3
    <2> QED
      BY <2>2, <2>3
  <1>10. EventOf(line) \in Events /\ queue \in Seq(Events)
    BY <1>2, EventsAreTyped DEF TypeOK
  <1>11. /\ queue' \in Seq(Events) /\ DOMAIN queue = 1..Len(queue)
         /\ DOMAIN queue' = 1..(Len(queue) + 1)
         /\ \A j \in 1..Len(queue) : queue'[j] = queue[j]
         /\ queue'[Len(queue) + 1] = EventOf(line)
    BY <1>3, <1>10, AppendProperties
  <1>12. TypeOK'
    <2>1. shown' \in Seq(ToSet(received')) /\ reported' \subseteq ToSet(received')
      <3>1. ToSet(received) \subseteq ToSet(received')
        BY <1>9
      <3>2. shown \in Seq(ToSet(received)) /\ reported \subseteq ToSet(received)
        BY DEF TypeOK
      <3> QED
        BY <1>3, <3>1, <3>2, SeqWidens
    <2>2. received' \in Seq(DOMAIN log')
      BY <1>3, <1>4, <1>9
    <2>3. stamps' \subseteq Times
      BY <1>2, <1>3 DEF TypeOK, Lines
    <2> QED
      BY <1>2, <1>3, <1>8, <1>11, <2>1, <2>2, <2>3 DEF TypeOK
  <1>13. LogInOrder'
    BY <1>3 DEF FeedInStep, LogInOrder
  <1>14. ReceivedInOrder'
    <2>1. last_received_time' <= clock'
      BY <1>3, <1>4, <1>7, <1>8
    <2>2. \A i \in 1..Len(received) :
             /\ log[received[i]].time <= last_received_time'
             /\ received[i] \in 1..l /\ received[i] \in ToSet(received)
      <3>1. \A i \in 1..Len(received) : received[i] \in 1..l /\ received[i] \in ToSet(received)
        BY <1>4, <1>9, Places
      <3> QED
        BY <1>4, <1>5, <1>8, <3>1
    <2>5. \/ last_received_time' \in stamps' \cup {0}
          \/ \E r \in ToSet(received') : log[r].time = last_received_time'
      <3>1. CASE line.id # None
        BY <1>7, <1>8, <1>9, <3>1
      <3>2. CASE line.id = None /\ Timed(line)
        <4>1. line.kind = "stats"
          BY <1>2, <1>7, <3>2 DEF Lines, Timed
        <4> QED
          BY <1>3, <3>2, <4>1
      <3>3. CASE ~Timed(line)
        BY <1>3, <1>5, <1>9, <3>3
      <3> QED
        BY <3>1, <3>2, <3>3
    <2>3. CASE line.id = None
      BY <1>3, <1>4, <1>5, <2>1, <2>2, <2>3, <2>5 DEF ReceivedInOrder
    <2>4. CASE line.id # None
      <3>1. DOMAIN received' = 1..(Len(received) + 1)
        BY <1>9, <2>4
      <3>2. \A i \in 1..(Len(received) + 1) : log[received'[i]].time <= last_received_time'
        <4>1. log[received'[Len(received) + 1]].time <= last_received_time'
          BY <1>7, <1>8, <1>9, <2>4
        <4>2. \A i \in 1..Len(received) : log[received'[i]].time <= last_received_time'
          BY <1>9, <2>2
        <4>3. \A i \in 1..(Len(received) + 1) : i \in 1..Len(received) \/ i = Len(received) + 1
          BY <1>0
        <4> QED
          BY <4>1, <4>2, <4>3
      <3>3. ASSUME NEW i \in 1..(Len(received) + 1), NEW k \in 1..(Len(received) + 1), i < k
            PROVE  received'[i] < received'[k]
        <4>1. i \in 1..Len(received) /\ received[i] \in ToSet(received)
          BY <1>0, <2>2, <3>3
        <4>2. CASE k \in 1..Len(received)
          BY <1>4, <1>5, <1>9, <3>3, <4>1, <4>2
        <4>3. CASE k = Len(received) + 1
          BY <1>7, <1>9, <2>4, <4>1, <4>3
        <4> QED
          BY <1>0, <4>2, <4>3
      <3> QED
        BY <1>3, <2>1, <2>5, <3>1, <3>2, <3>3 DEF ReceivedInOrder
    <2> QED
      BY <2>3, <2>4
  <1>15. StreamInOrder'
    <2>1. ASSUME NEW j \in 1..(m - 1)
          PROVE  /\ stream'[j].time \in last_received_time'..clock
                 /\ IF stream'[j].kind \in Kinds
                    THEN /\ stream'[j].id \in 1..l
                         /\ stream'[j].time = log[stream'[j].id].time
                         /\ \A r \in ToSet(received') : r < stream'[j].id
                    ELSE stream'[j].id = None
      <3>1. j + 1 \in 1..m /\ 1 \in 1..m /\ 1 < j + 1 /\ stream'[j] = stream[j + 1]
        BY <1>2
      <3>2. /\ stream[j + 1].time \in Nat /\ stream[j + 1].time <= clock
            /\ line.time <= stream[j + 1].time
        BY <1>1, <1>4, <1>6, <3>1
      <3>3. stream[j + 1].time \in last_received_time'..clock
        BY <1>4, <1>7, <1>8, <3>2
      <3>4. stream[j + 1].id # None => line.id < stream[j + 1].id
        BY <1>1, <1>6, <3>1
      <3>5. stream[j + 1].id \in 1..l => stream[j + 1].id # None
        BY DEF None
      <3>6. IF stream[j + 1].kind \in Kinds
            THEN /\ stream[j + 1].id \in 1..l
                 /\ stream[j + 1].time = log[stream[j + 1].id].time
                 /\ \A r \in ToSet(received) : r < stream[j + 1].id
            ELSE stream[j + 1].id = None
        BY <1>6, <3>1
      <3>7. stream[j + 1].kind \in Kinds => \A r \in ToSet(received') : r < stream[j + 1].id
        BY <1>9, <3>4, <3>5, <3>6
      <3> QED
        BY <3>1, <3>3, <3>6, <3>7
    <2>2. ASSUME NEW j \in 1..(m - 1), NEW k \in 1..(m - 1), j < k
          PROVE  /\ stream'[j].time <= stream'[k].time
                 /\ stream'[k].id = None \/ stream'[j].id < stream'[k].id
      <3>1. j + 1 \in 1..m /\ k + 1 \in 1..m /\ j + 1 < k + 1
        BY <1>2, <2>2
      <3> QED
        BY <1>2, <1>6, <3>1
    <2>3. session = "unserved" => \A j \in 1..(m - 1) : stream'[j].kind = "unreadable"
      BY <1>2, <1>6
    <2>4. None' = None
      BY DEF None
    <2> QED
      BY <1>2, <1>3, <1>4, <1>6, <2>1, <2>2, <2>3, <2>4 DEF StreamInOrder
  <1>16. QueueInOrder'
    <2> DEFINE R == ToSet(received)
               q == Len(queue)
    <2>1. \A j \in 1..q : Update(queue[j]) =>
             /\ queue[j].id \in R
             /\ \A i \in DOMAIN shown : shown[i] < queue[j].id
             /\ \A k \in 1..q :
                   \/ queue[k].type = queue[j].type /\ j < k
                   \/ queue[k].type = "UPDATE" /\ queue[j].type = "DECRYPTED"
                   => queue[j].id < queue[k].id
      BY <1>11 DEF FeedInStep, QueueInOrder, Update
    <2>2. /\ EventOf(line).id = line.id /\ EventOf(line).type # "DECRYPTED"
          /\ EventOf(line).type = "UPDATE" => line.id # None
      <3>1. EventOf(line).type = "UPDATE" => line.kind \in {"update", "legacy", "empty"}
        BY <1>2, KindsAssumption DEF EventOf, Classify, Lines
      <3>2. EventOf(line).type # "DECRYPTED"
        BY <1>2, KindsAssumption DEF EventOf, Classify, Lines
      <3>3. line.kind \in {"update", "legacy", "empty"} => line.kind \in Kinds
        BY <1>2 DEF Lines
      <3> QED
        BY <1>7, <3>1, <3>2, <3>3 DEF EventOf
    <2>3. \A i \in DOMAIN shown : shown[i] \in R
      <3>1. shown \in Seq(R)
        BY DEF TypeOK
      <3> QED
        BY <3>1
    <2>4. R \subseteq ToSet(received') /\ (line.id # None => line.id \in ToSet(received'))
      BY <1>9
    <2> HIDE DEF R, q
    <2> SUFFICES ASSUME NEW j \in 1..(q + 1), Update(queue'[j])
                 PROVE  /\ queue'[j].id \in ToSet(received')
                        /\ \A i \in DOMAIN shown : shown[i] < queue'[j].id
                        /\ \A k \in 1..(q + 1) :
                              \/ queue'[k].type = queue'[j].type /\ j < k
                              \/ queue'[k].type = "UPDATE" /\ queue'[j].type = "DECRYPTED"
                              => queue'[j].id < queue'[k].id
      BY <1>3, <1>11 DEF QueueInOrder, Update, q
    <2>5. q \in Nat
      BY <1>0 DEF q
    <2>6. /\ \A k \in 1..q : queue'[k] = queue[k]
          /\ queue'[q + 1] = EventOf(line)
      BY <1>11 DEF q
    <2>7. CASE j \in 1..q
      <3>1. Update(queue[j]) /\ queue'[j] = queue[j] /\ queue[j].id \in R
        BY <2>1, <2>6, <2>7
      <3>2. ASSUME NEW k \in 1..(q + 1),
                   \/ queue'[k].type = queue'[j].type /\ j < k
                   \/ queue'[k].type = "UPDATE" /\ queue'[j].type = "DECRYPTED"
            PROVE  queue'[j].id < queue'[k].id
        <4>1. CASE k \in 1..q
          BY <2>1, <2>6, <2>7, <3>1, <3>2, <4>1
        <4>2. CASE k = q + 1
          <5>1. EventOf(line).type = "UPDATE"
            BY <2>2, <2>6, <3>1, <3>2, <4>2 DEF Update
          <5>2. queue[j].id < line.id
            BY <1>7, <2>2, <3>1, <5>1 DEF R
          <5> QED
            BY <2>2, <2>6, <3>1, <4>2, <5>2
        <4> QED
          BY <2>5, <4>1, <4>2
      <3> QED
        BY <2>1, <2>4, <2>7, <3>1, <3>2
    <2>8. CASE j = q + 1
      <3>1. queue'[j].id = line.id /\ queue'[j].type = "UPDATE" /\ line.id # None
        BY <2>2, <2>6, <2>8 DEF Update
      <3>2. \A i \in DOMAIN shown : shown[i] < line.id
        BY <1>7, <2>3, <3>1 DEF R
      <3>3. \A k \in 1..(q + 1) : ~(j < k)
        BY <2>5, <2>8
      <3> QED
        BY <2>4, <3>1, <3>2, <3>3
    <2> QED
      BY <2>5, <2>7, <2>8
  <1>17. ASSUME NEW i \in 1..l, NEW n \in 0..(m - 1), Seen(i, n + 1)
         PROVE  Seen(i, n)'
    <2>0. ASSUME NEW j \in 1..(n + 1), j # 1
          PROVE  j - 1 \in 1..n /\ stream'[j - 1] = stream[j]
      <3>1. j - 1 \in 1..n /\ j - 1 \in 1..(m - 1) /\ (j - 1) + 1 = j
        BY <1>2, <2>0
      <3> QED
        BY <1>2, <3>1
    <2>1. CASE log[i].time \in stamps
      BY <1>3, <2>1 DEF Seen
    <2>2. ASSUME NEW j \in 1..(n + 1), stream[j].kind = "stats", stream[j].time = log[i].time
          PROVE  Seen(i, n)'
      <3>1. CASE j = 1
        BY <1>1, <1>3, <2>2, <3>1 DEF Seen
      <3>2. CASE j # 1
        BY <1>3, <2>0, <2>2, <3>2 DEF Seen
      <3> QED
        BY <3>1, <3>2
    <2>3. ASSUME NEW r \in 1..i, log[r].time = log[i].time, r \in ToSet(received)
          PROVE  Seen(i, n)'
      BY <1>3, <1>9, <2>3 DEF Seen
    <2>4. ASSUME NEW r \in 1..i, log[r].time = log[i].time,
                 NEW j \in 1..(n + 1), stream[j].id = r
          PROVE  Seen(i, n)'
      <3>1. CASE j = 1
        <4>1. r # None
          BY DEF None
        <4>2. r \in ToSet(received')
          BY <1>1, <1>9, <2>4, <3>1, <4>1
        <4> QED
          BY <1>3, <2>4, <4>2 DEF Seen
      <3>2. CASE j # 1
        BY <1>3, <2>0, <2>4, <3>2 DEF Seen
      <3> QED
        BY <3>1, <3>2
    <2> QED
      BY <1>17, <2>1, <2>2, <2>3, <2>4 DEF Seen
  <1>18. ASSUME NEW i \in 1..l, Seen(i, 0)
         PROVE  Seen(i, 0)'
    <2>1. Seen(i, 1)
      BY <1>18, MoreIsSeen
    <2>2. 0 \in 0..(m - 1) /\ 0 + 1 = 1
      BY <1>2
    <2> QED
      BY <1>17, <2>1, <2>2
  <1>19. \A i \in 1..l :
            /\ log[i].time <= last_received_time => Seen(i, 0)
            /\ session \in {"served", "eof"} => \A j \in 1..m :
                  Timed(stream[j]) /\ log[i].time <= stream[j].time => Seen(i, j)
    BY <1>2, <1>4 DEF FeedInStep, TimesTell
  <1>20. TimesTell'
    <2>1. ASSUME NEW i \in 1..l, log[i].time <= last_received_time'
          PROVE  Seen(i, 0)'
      <3>1. CASE Timed(line)
        <4>1. session \in {"served", "eof"}
          <5>1. session \in {"down", "served", "unserved", "eof"} /\ 1 \in 1..m
            BY <1>2 DEF TypeOK
          <5>2. session # "unserved"
            BY <1>1, <1>6, <3>1, <5>1 DEF Timed
          <5> QED
            BY <1>6, <5>1, <5>2
        <4>2. log[i].time <= stream[1].time /\ 1 \in 1..m
          BY <1>1, <1>2, <1>3, <2>1, <3>1
        <4>3. Seen(i, 0 + 1) /\ 0 \in 0..(m - 1)
          BY <1>1, <1>2, <1>19, <3>1, <4>1, <4>2
        <4> QED
          BY <1>17, <4>3
      <3>2. CASE ~Timed(line)
        BY <1>3, <1>18, <1>19, <2>1, <3>2
      <3> QED
        BY <3>1, <3>2
    <2>2. ASSUME session \in {"served", "eof"}, NEW i \in 1..l, NEW j \in 1..(m - 1),
                 Timed(stream'[j]), log[i].time <= stream'[j].time
          PROVE  Seen(i, j)'
      <3>1. Timed(stream[j + 1]) /\ log[i].time <= stream[j + 1].time /\ j + 1 \in 1..m /\ j \in 0..(m - 1)
        BY <1>2, <2>2
      <3>2. Seen(i, j + 1)
        BY <1>19, <2>2, <3>1
      <3> QED
        BY <1>17, <3>1, <3>2
    <2> QED
      BY <1>2, <1>3, <1>4, <2>1, <2>2 DEF TimesTell, Timed
  <1>21. NoneIsLost'
    <2>1. CASE session = "served"
      <3> SUFFICES ASSUME NEW i \in 1..l
                   PROVE  Passed(i)' \/ \E j \in 1..(m - 1) : stream'[j].id = i
        BY <1>2, <1>3, <1>4 DEF NoneIsLost
      <3>1. Passed(i) \/ \E j \in 1..m : stream[j].id = i
        BY <1>2, <1>4, <2>1 DEF NoneIsLost
      <3>2. CASE Passed(i)
        BY <1>3, <1>9, <3>2 DEF Passed
      <3>3. CASE stream[1].id = i
        <4>1. i # None
          BY DEF None
        <4>2. i \in ToSet(received') /\ i <= i
          BY <1>1, <1>9, <3>3, <4>1
        <4> QED
          BY <4>2 DEF Passed
      <3>4. ASSUME NEW j \in 1..m, stream[j].id = i, j # 1
            PROVE  \E k \in 1..(m - 1) : stream'[k].id = i
        <4>1. j - 1 \in 1..(m - 1) /\ (j - 1) + 1 = j
          BY <1>2, <3>4
        <4> QED
          BY <1>2, <3>4, <4>1
      <3> QED
        BY <3>1, <3>2, <3>3, <3>4
    <2>2. CASE session # "served"
      BY <1>3, <1>12, <1>20, <2>2, NextClientWillAsk DEF Unserved
    <2> QED
      BY <2>1, <2>2
  <1>22. ASSUME line.id # None, NEW missed \in 1..(line.id - 1)
         PROVE  \/ \E r \in ToSet(received) : r <= missed /\ log[r].time = log[missed].time
                \/ log[missed].time \in stamps
    <2>1. missed \in 1..l /\ missed <= line.id /\ missed < line.id /\ line.id \in 1..l
      BY <1>7, <1>22
    <2>2. log[missed].time <= stream[1].time /\ 1 \in 1..m
      BY <1>1, <1>2, <1>5, <1>7, <1>22, <2>1
    <2>3. session \in {"served", "eof"}
      <3>1. session \in {"down", "served", "unserved", "eof"}
        BY DEF TypeOK
      <3>2. session # "unserved"
        BY <1>1, <1>6, <1>7, <1>22, <2>2, KindsAssumption
      <3> QED
        BY <1>6, <3>1, <3>2
    <2>4. Seen(missed, 1)
      BY <1>1, <1>7, <1>19, <1>22, <2>1, <2>2, <2>3
    <2>5. ASSUME log[missed].time \notin stamps
          PROVE  \E r \in 1..missed :
                    /\ log[r].time = log[missed].time
                    /\ r \in ToSet(received) \/ stream[1].id = r
      <3>1. \A j \in 1..1 : j = 1
        OBVIOUS
      <3> QED
        BY <1>1, <1>7, <1>22, <2>4, <2>5, <3>1 DEF Seen
    <2>6. \A r \in 1..missed : r <= missed /\ r # line.id
      BY <2>1
    <2> QED
      BY <1>1, <2>5, <2>6
  <1>23. ReceivesOne \/ HearsOne \/ UNCHANGED <<received, stamps>>
    <2>1. CASE line.id # None
      <3>1. /\ line.id \in DOMAIN log /\ received' = Append(received, line.id)
            /\ stamps' = stamps /\ \A r \in ToSet(received) : r < line.id
        BY <1>3, <1>4, <1>7, <2>1
      <3> QED
        BY <1>22, <2>1, <3>1 DEF ReceivesOne
    <2>2. CASE line.id = None /\ line.kind = "stats"
      <3>1. ASSUME NEW r \in ToSet(received)
            PROVE  log[r].time <= line.time
        <4>1. r \in 1..l /\ log[r].time <= last_received_time
          BY <1>4, <1>5
        <4> QED
          BY <1>4, <1>7, <4>1
      <3> QED
        BY <1>3, <2>2, <3>1 DEF HearsOne
    <2>3. CASE line.id = None /\ line.kind # "stats"
      BY <1>3, <2>3
    <2> QED
      BY <2>1, <2>2, <2>3
  <1> QED
    BY <1>3, <1>12, <1>13, <1>14, <1>15, <1>16, <1>20, <1>21, <1>23 DEF FeedInStep

-----------------------------------------------------------------------------
(* The invariant, and what follows from it. *)

LEMMA FeedInitial ==
    ASSUME Init
    PROVE  TypeOK /\ FeedInStep /\ NoneIsLost
  <1>1. TypeOK
    BY BoundAssumption DEF Init, TypeOK, Times, LogEntry, Lines, Events, ToSet
  <1>2. log = <<>> /\ clock = 0 /\ noise = 0 /\ DOMAIN log = {} /\ Len(log) = 0
    BY DEF Init
  <1>3. LogInOrder
    <2>1. 0 \in 0..0
      OBVIOUS
    <2> QED
      BY <1>2, <2>1 DEF LogInOrder
  <1>4. ReceivedInOrder /\ StreamInOrder /\ QueueInOrder
    <2>1. DOMAIN received = {} /\ DOMAIN stream = {} /\ DOMAIN queue = {}
      BY DEF Init
    <2> QED
      BY <2>1 DEF Init, ReceivedInOrder, StreamInOrder, QueueInOrder
  <1>5. TimesTell /\ NoneIsLost
    BY <1>2 DEF TimesTell, NoneIsLost
  <1> QED
    BY <1>1, <1>3, <1>4, <1>5 DEF FeedInStep

LEMMA FeedInductive ==
    ASSUME TypeOK, FeedInStep, NoneIsLost, [Next]_vars
    PROVE  TypeOK' /\ FeedInStep' /\ NoneIsLost'
  <1>1. CASE Arrives
    BY <1>1, ArrivesInStep
  <1>2. CASE Chatter
    BY <1>2, ChatterInStep
  <1>3. CASE Lost \/ HeartbeatRestarts
    BY <1>3, LossesInStep
  <1>4. CASE Closed
    BY <1>4, ClosedInStep
  <1>5. CASE NewClient
    BY <1>5, NewClientInStep
  <1>6. CASE ReadLine
    BY <1>6, ReadInStep
  <1>7. CASE Handle \/ ReadEof
    <2>1. TypeOK' /\ QueueInOrder'
      BY <1>7, HandledInOrder
    <2>2. UNCHANGED <<server, reader>>
      BY <1>7 DEF Handle, HandleUpdate, HandleUpdateHangs, HandleEmptyUpdate,
                  HandleLegacyUpdate, HandleDecrypted, HandleOther, ReadEof
    <2>3. LogInOrder' /\ ReceivedInOrder' /\ StreamInOrder'
      BY <2>2 DEF FeedInStep, LogInOrder, ReceivedInOrder, StreamInOrder, server, reader,
                  history
    <2>4. TimesTell' /\ NoneIsLost'
      BY <2>2 DEF FeedInStep, TimesTell, Seen, Timed, NoneIsLost, Passed, server, reader,
                  history
    <2> QED
      BY <2>1, <2>3, <2>4 DEF FeedInStep
  <1>8. CASE UNCHANGED vars
    <2>1. UNCHANGED <<server, reader, queue, consumer>>
      BY <1>8 DEF vars
    <2>2. TypeOK' /\ QueueInOrder'
      BY <2>1 DEF FeedInStep, QueueInOrder, TypeOK, server, reader, history, consumer
    <2>3. LogInOrder' /\ ReceivedInOrder' /\ StreamInOrder'
      BY <2>1 DEF FeedInStep, LogInOrder, ReceivedInOrder, StreamInOrder, server, reader,
                  history
    <2>4. TimesTell' /\ NoneIsLost'
      BY <2>1 DEF FeedInStep, TimesTell, Seen, Timed, NoneIsLost, Passed, server, reader,
                  history
    <2> QED
      BY <2>2, <2>3, <2>4 DEF FeedInStep
  <1> QED
    BY <1>1, <1>2, <1>3, <1>4, <1>5, <1>6, <1>7, <1>8 DEF Next

\* TypeOK: the reader and the event loop put in the log's, stream's and queue's place only
\* what they may (_run, handle_event).
THEOREM FeedTypeCorrect == Spec => []TypeOK
  <1>1. Init => TypeOK /\ FeedInStep /\ NoneIsLost
    BY FeedInitial
  <1>2. TypeOK /\ FeedInStep /\ NoneIsLost /\ [Next]_vars => (TypeOK /\ FeedInStep /\ NoneIsLost)'
    BY FeedInductive
  <1> QED
    BY <1>1, <1>2, PTL DEF Spec

\* NoneIsLost: however often the connection is lost, each notification was received, or is
\* on its way, or will be sent again to the next client (_run sets last_received_time;
\* start_monitor sends it); unless a line of the same millisecond was received, an earlier
\* notification or one of statistics (lines 181-182 take the time of both).
THEOREM NothingIsLost == Spec => []NoneIsLost
  <1>1. Init => TypeOK /\ FeedInStep /\ NoneIsLost
    BY FeedInitial
  <1>2. TypeOK /\ FeedInStep /\ NoneIsLost /\ [Next]_vars => (TypeOK /\ FeedInStep /\ NoneIsLost)'
    BY FeedInductive
  <1> QED
    BY <1>1, <1>2, PTL DEF Spec

\* A step of the reader receives a notification, and leaves out none but of the time of a
\* line it received, or hears statistics, or nothing is seen of it; a step of the event loop shows a later update than
\* before or none; and nothing else is seen from outside.
LEMMA FeedStep ==
    ASSUME TypeOK, FeedInStep, NoneIsLost, [Next]_vars
    PROVE  [Promised!Next]_Promised!vars
  <1> USE DEF Promised!vars
  <1>0. \A s : Promised!ToSet(s) = ToSet(s)
    BY DEF ToSet, Promised!ToSet
  <1>1. CASE Arrives
    <2>1. /\ Len(log') = Len(log) + 1
          /\ \A i \in DOMAIN log : log'[i] = log[i] /\ log[i].time <= log'[Len(log) + 1].time
      BY <1>1, ArrivesInStep
    <2>2. UNCHANGED <<received, stamps, shown>>
      BY <1>1 DEF Arrives, history, consumer
    <2> QED
      BY <2>1, <2>2 DEF Promised!Next, Promised!Arrive
  <1>2. CASE ReadLine
    <2>1. /\ UNCHANGED <<log, shown>>
          /\ ReceivesOne \/ HearsOne \/ UNCHANGED <<received, stamps>>
      BY <1>2, ReadInStep
    <2>2. CASE ReceivesOne
      BY <1>0, <2>1, <2>2 DEF ReceivesOne, Promised!Next, Promised!Receive
    <2>3. CASE HearsOne
      BY <1>0, <2>1, <2>3 DEF HearsOne, Promised!Next, Promised!Hear
    <2> QED
      BY <2>1, <2>2, <2>3
  <1>3. CASE HandleDecrypted
    <2>1. /\ queue # <<>> /\ Head(queue).type = "DECRYPTED"
          /\ shown' = Append(shown, Head(queue).id) /\ UNCHANGED <<log, received, stamps>>
      BY <1>3 DEF HandleDecrypted, Take, server, reader, history
    <2>2. 1 \in DOMAIN queue /\ Head(queue) = queue[1]
      BY <2>1, RestOfQueue
    <2>3. /\ queue[1].id \in ToSet(received)
          /\ \A i \in DOMAIN shown : shown[i] < queue[1].id
      BY <2>1, <2>2 DEF FeedInStep, QueueInOrder
    <2>4. \A earlier \in ToSet(shown) : earlier < queue[1].id
      BY <2>3 DEF ToSet
    <2>5. Promised!Show(queue[1].id)
      BY <1>0, <2>1, <2>2, <2>4 DEF Promised!Show
    <2> QED
      BY <1>0, <2>3, <2>5 DEF Promised!Next
  <1>4. CASE \/ Chatter \/ Lost \/ Closed \/ NewClient \/ HeartbeatRestarts \/ ReadEof
             \/ HandleUpdate \/ HandleUpdateHangs \/ HandleEmptyUpdate \/ HandleLegacyUpdate
             \/ HandleOther \/ UNCHANGED vars
    <2>1. UNCHANGED <<log, received, stamps, shown>>
      BY <1>4 DEF Chatter, Lost, Closed, NewClient, HeartbeatRestarts, ReadEof, HandleUpdate,
                  HandleUpdateHangs, HandleEmptyUpdate, HandleLegacyUpdate, HandleOther, vars,
                  server, reader, history, consumer
    <2> QED
      BY <2>1
  <1> QED
    BY <1>1, <1>2, <1>3, <1>4 DEF Next, Handle

\* ImplementsFeed: seen from outside, losses, replays and restarts of the connection, other
\* lines, the end of file and the second turn of an update through the queue do not show.
THEOREM FeedKeepsPromise == Spec => ImplementsFeed
  <1> SUFFICES Spec => Promised!Spec
    BY DEF ImplementsFeed
  <1>1. Init => TypeOK /\ FeedInStep /\ NoneIsLost
    BY FeedInitial
  <1>2. TypeOK /\ FeedInStep /\ NoneIsLost /\ [Next]_vars => (TypeOK /\ FeedInStep /\ NoneIsLost)'
    BY FeedInductive
  <1>3. Init => Promised!Init
    BY DEF Init, Promised!Init
  <1>4. TypeOK /\ FeedInStep /\ NoneIsLost /\ [Next]_vars => [Promised!Next]_Promised!vars
    BY FeedStep
  <1> QED
    BY <1>1, <1>2, <1>3, <1>4, PTL DEF Spec, Promised!Spec
=============================================================================
