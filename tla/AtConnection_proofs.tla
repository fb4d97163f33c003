------------------------ MODULE AtConnection_proofs -------------------------
(***************************************************************************)
(* Proofs about AtConnection, for every value of its constants.            *)
(*                                                                         *)
(* TypeOK needs nothing but the assumptions of the module.  The rest holds *)
(* of a connection whose callers take turns and whose reads return whole   *)
(* records: MCAtConnectionThreads.cfg and MCAtConnectionShortReads.cfg     *)
(* show that neither hypothesis can be dropped.                            *)
(***************************************************************************)
EXTENDS AtConnection, SequenceTheorems, TLAPS

-----------------------------------------------------------------------------
(* Facts about units and records. *)

\* Reply lines and the two pieces of a prompt are units.
LEMMA UnitsAreTyped ==
    /\ \A kind \in LineKinds, k \in Commands : Line(kind, k) \in Unit
    /\ At \in Unit
    /\ Name \in Unit
  BY DEF Line, At, Name, Unit, LineKinds, Commands, NoCommand

\* What the server greets with is a sequence of units.
LEMMA GreetingIsTyped == Greeting \in Seq(Unit)
  BY UnitsAreTyped DEF Greeting

\* What the server answers to a command is a sequence of units.
LEMMA ReplyRecordsAreTyped ==
    ASSUME NEW k \in Commands
    PROVE  ReplyRecords(k) \subseteq Seq(Unit)
  <1>1. SUFFICES ASSUME NEW kind \in LineKinds
                 PROVE  /\ <<Line(kind, k), At>> \in Seq(Unit)
                        /\ <<Line(kind, k), Name, At>> \in Seq(Unit)
    BY DEF ReplyRecords
  <1> DEFINE line == Line(kind, k)
  <1>2. line \in Unit /\ At \in Unit /\ Name \in Unit
    BY UnitsAreTyped
  <1> HIDE DEF line
  <1>3. <<line, At>> \in Seq(Unit) /\ <<line, Name, At>> \in Seq(Unit)
    BY <1>2
  <1> QED
    BY <1>3 DEF line

\* A reply line answers a command.
LEMMA LinesAreTyped ==
    ASSUME NEW units \in Seq(Unit), NEW line \in Lines(units)
    PROVE  line.kind \in LineKinds /\ line.of \in Commands /\ line.of # NoCommand
  <1>1. PICK i \in DOMAIN units : line = units[i] /\ units[i].kind \in LineKinds
    BY DEF Lines
  <1>2. line \in Unit
    BY <1>1
  <1>3. line \in [kind : LineKinds, of : Commands]
    BY <1>1, <1>2 DEF Unit, LineKinds
  <1> QED
    BY <1>3 DEF Commands, NoCommand

\* A reply record holds one line, the reply to the command it was made for.
LEMMA LinesOfReply ==
    ASSUME NEW k \in Commands, NEW record \in ReplyRecords(k)
    PROVE  /\ \E kind \in LineKinds : Lines(record) = {Line(kind, k)}
           /\ record # <<At>>
  <1>1. PICK kind \in LineKinds :
           record = <<Line(kind, k), At>> \/ record = <<Line(kind, k), Name, At>>
    BY DEF ReplyRecords
  <1>2. /\ Line(kind, k).kind \in LineKinds
        /\ At.kind \notin LineKinds
        /\ Name.kind \notin LineKinds
    BY DEF Line, At, Name, LineKinds
  <1>3. CASE record = <<Line(kind, k), At>>
    <2>1. /\ DOMAIN record = 1..2
          /\ record[1] = Line(kind, k)
          /\ record[2] = At
          /\ Len(record) = 2
      BY <1>3
    <2>2. {j \in DOMAIN record : record[j].kind \in LineKinds} = {1}
      BY <1>2, <2>1
    <2>3. Lines(record) = {Line(kind, k)}
      BY <2>1, <2>2 DEF Lines
    <2> QED
      BY <2>1, <2>3
  <1>4. CASE record = <<Line(kind, k), Name, At>>
    <2>1. /\ DOMAIN record = 1..3
          /\ record[1] = Line(kind, k)
          /\ record[2] = Name
          /\ record[3] = At
          /\ Len(record) = 3
      BY <1>4
    <2>2. {j \in DOMAIN record : record[j].kind \in LineKinds} = {1}
      BY <1>2, <2>1
    <2>3. Lines(record) = {Line(kind, k)}
      BY <2>1, <2>2 DEF Lines
    <2> QED
      BY <2>1, <2>3
  <1> QED
    BY <1>1, <1>3, <1>4

\* Cutting a record in two yields two sequences of units.
LEMMA CutIsTyped ==
    ASSUME NEW record \in Seq(Unit), NEW n \in 1..Len(record)
    PROVE  /\ SubSeq(record, 1, n) \in Seq(Unit)
           /\ SubSeq(record, n + 1, Len(record)) \in Seq(Unit)
  <1>1. \A i \in 1..Len(record) : record[i] \in Unit
    BY ElementOfSeq
  <1>2. n \in Nat /\ Len(record) \in Nat /\ n <= Len(record)
    BY LenProperties
  <1>3. SubSeq(record, 1, n) \in Seq(Unit)
    BY <1>1, <1>2, SubSeqProperties
  <1>4. SubSeq(record, n + 1, Len(record)) \in Seq(Unit)
    BY <1>1, <1>2, SubSeqProperties
  <1> QED
    BY <1>3, <1>4

-----------------------------------------------------------------------------
(* Every variable keeps its type; a call that is on its way has a command, and
   a call that ended with a reply ended with the reply to some command. *)

\* The variables have their types when the connection object has just been made.
LEMMA TypeInitial == Init => TypeOK
  <1> USE DEF Commands, NoCommand
  <1>1. <<>> \in Seq(Seq(Unit)) /\ <<>> \in Seq(Commands) /\ <<>> \in Seq(Unit)
    BY EmptySeq
  <1> SUFFICES ASSUME Init
             PROVE  TypeOK
    OBVIOUS
  <1>2. stream \in Seq(Seq(Unit)) /\ requests \in Seq(Commands)
    BY <1>1 DEF Init
  <1>3. buf \in [Callers -> Seq(Unit)]
    BY <1>1 DEF Init
  <1>4. issued \in 0..MaxCommands /\ cmd \in [Callers -> 0..issued]
    BY BoundAssumption DEF Init
  <1> QED
    BY <1>2, <1>3, <1>4 DEF Init, TypeOK

\* Every variable keeps its type in every step of every thread, the server and the
\* network, for any number of threads and however reads return: among others, a call of
\* execute_command that ended with data or an error has some command's reply.
THEOREM TypeCorrect == Spec => []TypeOK
  <1> USE DEF Commands, NoCommand
  <1>1. Init => TypeOK
    BY TypeInitial
  <1>2. TypeOK /\ [Next]_vars => TypeOK'
    <2> SUFFICES ASSUME TypeOK, [Next]_vars
                 PROVE  TypeOK'
      OBVIOUS
    <2> USE DEF TypeOK
    <2>1. ASSUME NEW c \in Callers, Call(c)
          PROVE  TypeOK'
      BY <2>1, BoundAssumption, OptionAssumption DEF Call, Goto, link
    <2>2. ASSUME NEW c \in Callers, AlreadyConnected(c)
          PROVE  TypeOK'
      BY <2>2 DEF AlreadyConnected, Goto, link, call, result
    <2>3. ASSUME NEW c \in Callers, OpenSocket(c)
          PROVE  TypeOK'
      <3>1. stream' \in Seq(Seq(Unit)) /\ requests' \in Seq(Commands)
        BY <2>3, GreetingIsTyped, EmptySeq DEF OpenSocket
      <3> QED
        BY <2>3, <3>1 DEF OpenSocket, Goto, call, result
    <2>4. ASSUME NEW c \in Callers, OpenFails(c)
          PROVE  TypeOK'
      BY <2>4 DEF OpenFails, Raise, Return, Goto, link, call
    <2>5. ASSUME NEW c \in Callers, Write(c)
          PROVE  TypeOK'
      <3>1. cmd[c] \in Commands
        BY <2>5, BoundAssumption DEF Write
      <3>2. Append(requests, cmd[c]) \in Seq(Commands)
        BY <3>1
      <3>3. requests' \in Seq(Commands)
        BY <2>5, <3>2 DEF Write
      <3> QED
        BY <2>5, <3>3 DEF Write, Goto, call, result
    <2>6. ASSUME NEW c \in Callers, WriteFails(c)
          PROVE  TypeOK'
      BY <2>6 DEF WriteFails, Raise, Return, Goto, link, call
    <2>7. ASSUME NEW c \in Callers, ReadChunk(c)
          PROVE  TypeOK'
      <3> DEFINE record == Head(stream)
      <3>1. /\ record \in Seq(Unit)
            /\ Tail(stream) \in Seq(Seq(Unit))
        BY <2>7, HeadTailProperties DEF ReadChunk
      <3>2. PICK n \in 1..Len(record) :
              LET chunk == SubSeq(record, 1, n)
                  rest == SubSeq(record, n + 1, Len(record))
              IN /\ stream' = IF rest = <<>> THEN Tail(stream) ELSE <<rest>> \o Tail(stream)
                 /\ buf' = [buf EXCEPT ![c] =
                       IF EndsRead(chunk) /\ pc[c] = "greet" THEN <<>> ELSE @ \o chunk]
                 /\ pc' = [pc EXCEPT ![c] =
                       IF EndsRead(chunk) THEN AfterRead[pc[c]] ELSE pc[c]]
        BY <2>7, Zenon DEF ReadChunk, Goto
      <3> DEFINE chunk == SubSeq(record, 1, n)
                 rest == SubSeq(record, n + 1, Len(record))
                 label == IF EndsRead(chunk) THEN AfterRead[pc[c]] ELSE pc[c]
                 got == IF EndsRead(chunk) /\ pc[c] = "greet" THEN <<>> ELSE buf[c] \o chunk
      <3>3. chunk \in Seq(Unit) /\ rest \in Seq(Unit)
        BY <3>1, CutIsTyped
      <3>4. <<rest>> \o Tail(stream) \in Seq(Seq(Unit))
        <4>1. <<rest>> \in Seq(Seq(Unit))
          BY <3>3
        <4> QED
          BY <4>1, <3>1, ConcatProperties
      <3>5. stream' \in Seq(Seq(Unit))
        BY <3>1, <3>2, <3>4
      <3>6. buf[c] \o chunk \in Seq(Unit)
        BY <3>3, ConcatProperties
      <3>7. got \in Seq(Unit)
        BY <3>6, EmptySeq
      <3>8. label \in {"greet", "write", "read", "parse"}
        BY <2>7 DEF ReadChunk, AfterRead
      <3>9. pc' = [pc EXCEPT ![c] = label] /\ buf' = [buf EXCEPT ![c] = got]
        BY <3>2
      <3>10. pc[c] # "idle" /\ UNCHANGED <<connected, sock, requests, issued, call, result>>
        BY <2>7 DEF ReadChunk
      <3> HIDE DEF label, got
      <3> QED
        BY <3>5, <3>7, <3>8, <3>9, <3>10 DEF call, result
    <2>8. ASSUME NEW c \in Callers, ReadFails(c)
          PROVE  TypeOK'
      <3>1. <<>> \in Seq(Seq(Unit)) /\ <<>> \in Seq(Commands) /\ <<>> \in Seq(Unit)
        BY EmptySeq
      <3> QED
        BY <2>8, <3>1 DEF ReadFails, Disconnect, Raise, Return, Goto, call
    <2>9. ASSUME NEW c \in Callers, GreetFails(c)
          PROVE  TypeOK'
      BY <2>9, EmptySeq DEF GreetFails, Raise, Return, Goto, link, call
    <2>10. ASSUME NEW c \in Callers, ParseReply(c)
           PROVE  TypeOK'
      <3>1. PICK line \in Lines(buf[c]), how \in {"data", "error"} : Return(c, how, line.of)
        BY <2>10 DEF ParseReply
      <3>2. line.of \in Commands /\ line.of # NoCommand
        BY LinesAreTyped
      <3> QED
        BY <2>10, <3>1, <3>2, EmptySeq DEF ParseReply, Return, Goto, link, call
    <2>11. ASSUME NEW c \in Callers, ParseRefused(c)
           PROVE  TypeOK'
      <3>1. PICK line \in Lines(buf[c]) : Return(c, "error", line.of)
        BY <2>11 DEF ParseRefused
      <3>2. line.of \in Commands /\ line.of # NoCommand
        BY LinesAreTyped
      <3> QED
        BY <2>11, <3>1, <3>2, EmptySeq DEF ParseRefused, Return, Goto, call
    <2>12. ASSUME NEW c \in Callers, ParseRetry(c)
           PROVE  TypeOK'
      BY <2>12, EmptySeq DEF ParseRetry, Goto, link, result
    <2>13. ASSUME NEW c \in Callers, ParseInvalid(c)
           PROVE  TypeOK'
      BY <2>13, EmptySeq DEF ParseInvalid, Raise, Return, Goto, link, call
    <2>14. CASE ServerReplies
      <3>1. PICK record \in ReplyRecords(Head(requests)) : stream' = Append(stream, record)
        BY <2>14 DEF ServerReplies
      <3>2. Head(requests) \in Commands /\ Tail(requests) \in Seq(Commands)
        BY <2>14, HeadTailProperties DEF ServerReplies
      <3>3. record \in Seq(Unit)
        BY <3>2, ReplyRecordsAreTyped
      <3>4. stream' \in Seq(Seq(Unit))
        BY <3>1, <3>3
      <3> QED
        BY <2>14, <3>2, <3>4 DEF ServerReplies, call, result
    <2>15. CASE PeerCloses
      BY <2>15, EmptySeq DEF PeerCloses, call, result
    <2>16. CASE PeerResets
      <3>1. <<>> \in Seq(Seq(Unit)) /\ <<>> \in Seq(Commands)
        BY EmptySeq
      <3> QED
        BY <2>16, <3>1 DEF PeerResets, call, result
    <2>17. CASE UNCHANGED vars
      BY <2>17 DEF vars, link, call, result
    <2> QED
      BY <2>1, <2>2, <2>3, <2>4, <2>5, <2>6, <2>7, <2>8, <2>9, <2>10, <2>11, <2>12, <2>13,
         <2>14, <2>15, <2>16, <2>17
      DEF Next, Step, Connect, Read, Parse
  <1> QED
    BY <1>1, <1>2, PTL DEF Spec

-----------------------------------------------------------------------------
(* Threads that take turns, whole records: the stream and the threads stay in
   step.  Every action of a thread is one of its own turn, so the invariant says,
   for each program point, all that can be on the stream there. *)

InStepInv == TypeOK /\ Serial /\ InStep /\ ReplyMatchesCommand

\* What one read() does when it returns the only record of the stream.
LEMMA WholeRead ==
    ASSUME NEW c \in Callers, TypeOK, ReadChunk(c), ~ShortReads,
           NEW record \in Seq(Unit), record # <<>>, stream = <<record>>
    PROVE  /\ stream' = <<>>
           /\ pc' = [pc EXCEPT ![c] = IF EndsRead(record) THEN AfterRead[pc[c]] ELSE pc[c]]
           /\ buf' = [buf EXCEPT ![c] =
                 IF EndsRead(record) /\ pc[c] = "greet" THEN <<>> ELSE buf[c] \o record]
  <1>1. Head(stream) = record /\ Tail(stream) = <<>> /\ Len(record) \in Nat
    BY LenProperties
  <1>2. SubSeq(record, 1, Len(record)) = record
    BY SubSeqFull
  <1>3. SubSeq(record, Len(record) + 1, Len(record)) = <<>>
    BY <1>1, SubSeqEmpty
  <1> QED
    BY <1>1, <1>2, <1>3, Zenon DEF ReadChunk, Goto

\* The same from where one thread stands, when the others are outside execute_command.
InStepWith(c) ==
    /\ pc[c] \in {"greet", "read"} \/ (stream = <<>> /\ requests = <<>>)
    /\ sock \in {"none", "reset", "closed"} => stream = <<>>
    /\ OnItsWay(c)
    /\ pc[c] = "idle" /\ status[c] \in {"data", "error"} => reply[c] = cmd[c]

\* What a thread has of its own, other threads leave alone.
OthersKept(me) ==
    \A c \in Callers \ {me} :
        /\ pc'[c] = pc[c]
        /\ cmd'[c] = cmd[c]
        /\ buf'[c] = buf[c]
        /\ status'[c] = status[c]
        /\ reply'[c] = reply[c]

LEMMA StepsKeepOthers ==
    ASSUME NEW me \in Callers, TypeOK, Call(me) \/ Step(me)
    PROVE  OthersKept(me)
  <1> USE DEF OthersKept, TypeOK
  <1>1. CASE Call(me)
    BY <1>1 DEF Call, Goto
  <1>2. CASE Connect(me)
    BY <1>2 DEF Connect, AlreadyConnected, OpenSocket, OpenFails, Raise, Return, Goto,
                call, result
  <1>3. CASE Write(me) \/ WriteFails(me)
    BY <1>3 DEF Write, WriteFails, Raise, Return, Goto, call, result
  <1>4. CASE ReadChunk(me)
    <2>1. UNCHANGED <<cmd, status, reply>>
      BY <1>4 DEF ReadChunk, call, result
    <2>2. \A c \in Callers \ {me} : pc'[c] = pc[c] /\ buf'[c] = buf[c]
      BY <1>4 DEF ReadChunk, Goto
    <2> QED
      BY <2>1, <2>2
  <1>5. CASE ReadFails(me) \/ GreetFails(me)
    BY <1>5 DEF ReadFails, GreetFails, Raise, Return, Goto, call
  <1>6. CASE ParseReply(me)
    <2>1. PICK how, k : Return(me, how, k)
      BY <1>6 DEF ParseReply
    <2> QED
      BY <1>6, <2>1 DEF ParseReply, Return, Goto, call
  <1>7. CASE ParseRefused(me)
    <2>1. PICK k : Return(me, "error", k)
      BY <1>7 DEF ParseRefused
    <2> QED
      BY <1>7, <2>1 DEF ParseRefused, Return, Goto, call
  <1>8. CASE ParseRetry(me) \/ ParseInvalid(me)
    BY <1>8 DEF ParseRetry, ParseInvalid, Raise, Return, Goto, call, result
  <1> QED
    BY <1>1, <1>2, <1>3, <1>4, <1>5, <1>6, <1>7, <1>8 DEF Step, Read, Parse

\* A thread takes a step only inside a call, and begins one only from outside.
LEMMA StepIsBusy ==
    ASSUME NEW me \in Callers, TypeOK
    PROVE  /\ Step(me) => pc[me] # "idle"
           /\ Call(me) => pc'[me] # "idle"
  BY DEF Step, Connect, AlreadyConnected, OpenSocket, OpenFails, Write, WriteFails,
         Read, ReadChunk, ReadFails, GreetFails,
         Parse, ParseReply, ParseRefused, ParseRetry, ParseInvalid, Call, Goto, TypeOK

\* A step of one thread, with reads that return whole records, leaves the stream and
\* the thread in step.
LEMMA TurnInStep ==
    ASSUME NEW me \in Callers, ~ShortReads, TypeOK, TypeOK', InStepWith(me),
           Call(me) \/ Step(me)
    PROVE  InStepWith(me)'
  <1> USE DEF InStepWith, OnItsWay, TypeOK
  <1>1. CASE Call(me)
    BY <1>1 DEF Call, Goto, link
  <1>2. CASE AlreadyConnected(me)
    BY <1>2 DEF AlreadyConnected, Goto, link, call, result
  <1>3. CASE OpenSocket(me)
    BY <1>3 DEF OpenSocket, Goto, call, result
  <1>4. CASE OpenFails(me)
    BY <1>4 DEF OpenFails, Raise, Return, Goto, link, call
  <1>5. CASE Write(me)
    <2>1. requests' \in {<<>>, <<cmd[me]>>}
      BY <1>5 DEF Write
    <2> QED
      BY <1>5, <2>1 DEF Write, Goto, call, result
  <1>6. CASE WriteFails(me)
    BY <1>6 DEF WriteFails, Raise, Return, Goto, link, call
  <1>7. CASE ReadChunk(me) /\ pc[me] = "greet"
    <2>1. stream = <<Greeting>> /\ requests = <<>> /\ buf[me] = <<>>
      BY <1>7 DEF ReadChunk
    <2>2. EndsRead(Greeting) /\ Greeting # <<>>
      BY DEF EndsRead, Greeting
    <2>3. /\ stream' = <<>>
          /\ pc' = [pc EXCEPT ![me] = "write"]
          /\ buf' = [buf EXCEPT ![me] = <<>>]
      <3>1. AfterRead[pc[me]] = "write"
        BY <1>7 DEF AfterRead
      <3> HIDE DEF TypeOK
      <3> QED
        BY <1>7, <2>1, <2>2, <3>1, WholeRead, GreetingIsTyped
    <2> QED
      BY <1>7, <2>1, <2>3 DEF ReadChunk, call, result
  <1>8. CASE ReadChunk(me) /\ pc[me] = "read"
    <2>1. PICK record \in ReplyRecords(cmd[me]) : stream = <<record>>
      BY <1>8 DEF ReadChunk
    <2>2. requests = <<>> /\ buf[me] = <<>>
      BY <1>8, <2>1
    <2>3. cmd[me] \in Commands
      BY <1>8, BoundAssumption DEF Commands, NoCommand
    <2>4. record \in Seq(Unit)
      BY <2>3, ReplyRecordsAreTyped
    <2>5. EndsRead(record) /\ record # <<>>
      <3>1. PICK kind \in LineKinds : Lines(record) = {Line(kind, cmd[me])}
        BY <2>3, LinesOfReply
      <3>2. Lines(<<>>) = {}
        BY DEF Lines
      <3> QED
        BY <3>1, <3>2 DEF EndsRead
    <2>6. buf[me] \o record = record
      BY <2>2, <2>4, ConcatEmptySeq
    <2>7. /\ stream' = <<>>
          /\ pc' = [pc EXCEPT ![me] = "parse"]
          /\ buf' = [buf EXCEPT ![me] = record]
      <3>1. /\ stream' = <<>>
            /\ pc' = [pc EXCEPT ![me] =
                  IF EndsRead(record) THEN AfterRead[pc[me]] ELSE pc[me]]
            /\ buf' = [buf EXCEPT ![me] =
                  IF EndsRead(record) /\ pc[me] = "greet" THEN <<>> ELSE buf[me] \o record]
        BY <1>8, <2>1, <2>4, <2>5, WholeRead, Zenon
      <3>2. AfterRead[pc[me]] = "parse" /\ pc[me] # "greet"
        BY <1>8 DEF AfterRead
      <3> QED
        BY <2>5, <2>6, <3>1, <3>2, Zenon
    <2> QED
      BY <1>8, <2>2, <2>7 DEF ReadChunk, call, result
  <1>9. CASE ReadFails(me)
    BY <1>9 DEF ReadFails, Disconnect, Raise, Return, Goto, call
  <1>10. CASE GreetFails(me)
    <2>1. stream = <<>> /\ requests = <<>>
      BY <1>10 DEF GreetFails
    <2> QED
      BY <1>10, <2>1 DEF GreetFails, Raise, Return, Goto, link, call
  <1>11. ASSUME pc[me] = "parse", NEW line \in Lines(buf[me])
         PROVE  line.of = cmd[me]
    <2>1. cmd[me] \in Commands
      BY <1>11, BoundAssumption DEF Commands, NoCommand
    <2>2. buf[me] \in ReplyRecords(cmd[me])
      BY <1>11
    <2> QED
      BY <1>11, <2>1, <2>2, LinesOfReply DEF Line
  <1>12. CASE ParseReply(me)
    <2>1. PICK line \in Lines(buf[me]), how \in {"data", "error"} : Return(me, how, line.of)
      BY <1>12 DEF ParseReply
    <2>2. line.of = cmd[me]
      BY <1>11, <1>12 DEF ParseReply
    <2> QED
      BY <1>12, <2>1, <2>2 DEF ParseReply, Return, Goto, link, call
  <1>13. CASE ParseRefused(me)
    <2>1. PICK line \in Lines(buf[me]) : Return(me, "error", line.of)
      BY <1>13 DEF ParseRefused
    <2>2. line.of = cmd[me]
      BY <1>11, <1>13 DEF ParseRefused
    <2> QED
      BY <1>13, <2>1, <2>2 DEF ParseRefused, Return, Goto, call
  <1>14. CASE ParseRetry(me)
    BY <1>14 DEF ParseRetry, Goto, link, result
  <1>15. CASE ParseInvalid(me)
    BY <1>15 DEF ParseInvalid, Raise, Return, Goto, link, call
  <1>16. ReadChunk(me) => pc[me] = "greet" \/ pc[me] = "read"
    BY DEF ReadChunk
  <1> QED
    BY <1>1, <1>2, <1>3, <1>4, <1>5, <1>6, <1>7, <1>8, <1>9, <1>10, <1>12, <1>13, <1>14,
       <1>15, <1>16
    DEF Step, Connect, Read, Parse

\* When threads take turns, and the others are outside execute_command, that is the
\* whole invariant.
LEMMA TurnLeavesInStep ==
    ASSUME NEW me \in Callers, ~ShortReads, InStepInv, TypeOK', Serial',
           Call(me) \/ Step(me)
    PROVE  InStep' /\ ReplyMatchesCommand'
  <1> USE DEF InStepInv
  <1>1. OthersKept(me)
    BY StepsKeepOthers
  <1>2. \A c \in Callers \ {me} : pc[c] = "idle" /\ pc'[c] = "idle"
    BY <1>1, StepIsBusy DEF Serial, OthersKept
  <1>3. InStepWith(me)
    BY <1>2 DEF InStepWith, InStep, ReplyMatchesCommand
  <1>4. InStepWith(me)'
    BY <1>3, TurnInStep
  <1>5. \A c \in Callers \ {me} : OnItsWay(c)'
    BY <1>1, <1>2 DEF InStep, OnItsWay, OthersKept
  <1>6. InStep'
    BY <1>4, <1>5 DEF InStepWith, InStep
  <1>7. ReplyMatchesCommand'
    BY <1>1, <1>2, <1>4 DEF ReplyMatchesCommand, InStepWith, OthersKept
  <1> QED
    BY <1>6, <1>7

\* A step of the server or the network leaves to the threads what is theirs.
LEMMA PeerKeepsCalls ==
    ASSUME ServerReplies \/ PeerCloses \/ PeerResets
    PROVE  UNCHANGED <<pc, cmd, buf, status, reply>>
  BY DEF ServerReplies, PeerCloses, PeerResets, call, result

\* The server answers the command of the thread that reads, and no other.
LEMMA ServerInStep ==
    ASSUME TypeOK, Serial, InStep, ServerReplies
    PROVE  InStep'
  <1>1. UNCHANGED <<pc, cmd, buf>>
    BY PeerKeepsCalls
  <1>2. PICK me \in Callers : pc[me] \in {"greet", "read"}
    BY DEF ServerReplies, InStep
  <1>3. pc[me] = "read" /\ stream = <<>> /\ requests = <<cmd[me]>>
    BY <1>2 DEF ServerReplies, InStep, OnItsWay
  <1>4. Head(requests) = cmd[me] /\ Tail(requests) = <<>>
    BY <1>3
  <1>5. PICK record \in ReplyRecords(cmd[me]) : stream' = Append(stream, record)
    BY <1>4 DEF ServerReplies
  <1>6. stream' = <<record>> /\ requests' = <<>> /\ sock' = "open"
    BY <1>3, <1>4, <1>5 DEF ServerReplies
  <1>7. OnItsWay(me)'
    BY <1>1, <1>3, <1>6 DEF InStep, OnItsWay
  <1>8. ASSUME NEW c \in Callers, c # me
        PROVE  OnItsWay(c)'
    <2>1. pc[c] = "idle"
      BY <1>3, <1>8 DEF Serial
    <2> QED
      BY <1>1, <2>1 DEF InStep, OnItsWay
  <1>9. \A c \in Callers : OnItsWay(c)'
    BY <1>7, <1>8
  <1>10. pc'[me] = "read"
    BY <1>1, <1>3
  <1> QED
    BY <1>6, <1>9, <1>10 DEF InStep

\* What the peer takes away leaves the rest in step.
LEMMA FaultsInStep ==
    ASSUME InStep, PeerCloses \/ PeerResets
    PROVE  InStep'
  <1>1. UNCHANGED <<pc, cmd, buf>>
    BY PeerKeepsCalls
  <1>2. /\ requests' = <<>>
        /\ stream' \in {stream, <<>>}
        /\ sock' \in {"none", "reset", "closed"} => stream' = <<>>
    BY DEF PeerCloses, PeerResets
  <1>3. ASSUME NEW c \in Callers
        PROVE  OnItsWay(c)'
    BY <1>1, <1>2 DEF InStep, OnItsWay
  <1> QED
    BY <1>1, <1>2, <1>3 DEF InStep

\* Every step of the system leaves the stream and the threads in step.
LEMMA InStepInductive ==
    ASSUME ~ShortReads, InStepInv, TypeOK', [Next /\ Serial']_vars
    PROVE  InStepInv'
  <1> USE DEF InStepInv
  <1>1. Serial'
    BY DEF Serial, vars
  <1>2. ASSUME NEW me \in Callers, Call(me) \/ Step(me)
        PROVE  InStep' /\ ReplyMatchesCommand'
    BY <1>1, <1>2, TurnLeavesInStep
  <1>3. CASE ServerReplies \/ PeerCloses \/ PeerResets
    <2>1. InStep'
      BY <1>3, ServerInStep, FaultsInStep
    <2>2. UNCHANGED <<pc, cmd, buf, status, reply>>
      BY <1>3, PeerKeepsCalls
    <2>3. ReplyMatchesCommand'
      BY <2>2 DEF ReplyMatchesCommand
    <2> QED
      BY <1>1, <2>1, <2>3
  <1>4. CASE UNCHANGED vars
    <2>1. UNCHANGED <<stream, requests, sock, pc, cmd, buf, status, reply>>
      BY <1>4 DEF vars, link, call, result
    <2>2. ASSUME NEW c \in Callers
          PROVE  OnItsWay(c)'
      BY <2>1 DEF InStep, OnItsWay
    <2>3. InStep'
      BY <2>1, <2>2 DEF InStep
    <2>4. ReplyMatchesCommand'
      BY <2>1 DEF ReplyMatchesCommand
    <2> QED
      BY <1>1, <2>3, <2>4
  <1> QED
    BY <1>1, <1>2, <1>3, <1>4 DEF Next

\* Threads that take turns are threads.
LEMMA SerialIsSpec == SerialSpec => Spec
  <1>1. [Next /\ Serial']_vars => [Next]_vars
    OBVIOUS
  <1> QED
    BY <1>1, PTL DEF SerialSpec, Spec

\* An application with one thread takes turns: everything proved of SerialSpec is true
\* of its connection.
THEOREM OneCallerTakesTurns ==
    ASSUME NEW me, Callers = {me}
    PROVE  Spec => SerialSpec
  <1>1. [Next]_vars => [Next /\ Serial']_vars
    BY DEF Serial
  <1> QED
    BY <1>1, PTL DEF SerialSpec, Spec

\* So the strengthened invariant holds at every moment.
LEMMA InStepAlways ==
    ASSUME ~ShortReads
    PROVE  SerialSpec => []InStepInv
  <1>1. Init => InStepInv
    <2>1. Init => TypeOK
      BY TypeInitial
    <2> QED
      BY <2>1 DEF Init, InStepInv, Serial, InStep, OnItsWay, ReplyMatchesCommand
  <1>2. InStepInv /\ TypeOK' /\ [Next /\ Serial']_vars => InStepInv'
    BY InStepInductive
  <1>3. SerialSpec => Spec
    BY SerialIsSpec
  <1> QED
    BY <1>1, <1>2, <1>3, TypeCorrect, PTL DEF SerialSpec

\* The threads and the stream are in step at every moment: outside a read nothing is on
\* its way, and in a read what is on its way is the command of execute_command or the
\* whole reply to it.
THEOREM StaysInStep ==
    ASSUME ~ShortReads
    PROVE  SerialSpec => []InStep
  <1>1. InStepInv => InStep
    BY DEF InStepInv
  <1> QED
    BY <1>1, InStepAlways, PTL

\* What execute_command promises: a call that ends with a reply ends with the reply
\* to its own command.
THEOREM RepliesMatch ==
    ASSUME ~ShortReads
    PROVE  SerialSpec => []ReplyMatchesCommand
  <1>1. InStepInv => ReplyMatchesCommand
    BY DEF InStepInv
  <1> QED
    BY <1>1, InStepAlways, PTL

\* Between commands the connection owes nothing.
THEOREM StreamIsClean ==
    ASSUME ~ShortReads
    PROVE  SerialSpec => []CleanStream
  <1>1. InStepInv => CleanStream
    BY DEF InStepInv, InStep, CleanStream
  <1> QED
    BY <1>1, InStepAlways, PTL

-----------------------------------------------------------------------------
(* disconnect() clears _connected, whoever calls it and however reads return. *)

\* disconnect() always clears _connected: a connection that counts as up never has a
\* socket that this client closed.
THEOREM ClosedIsDisconnected == Spec => []ClosedMeansDisconnected
  <1>1. Init => ClosedMeansDisconnected
    BY DEF Init, ClosedMeansDisconnected
  <1>2. ClosedMeansDisconnected /\ [Next]_vars => ClosedMeansDisconnected'
    <2> SUFFICES ASSUME ClosedMeansDisconnected, [Next]_vars
                 PROVE  ClosedMeansDisconnected'
      OBVIOUS
    <2> USE DEF ClosedMeansDisconnected
    <2>1. ASSUME NEW c \in Callers, Call(c) \/ Connect(c) \/ Write(c) \/ WriteFails(c)
          PROVE  ClosedMeansDisconnected'
      BY <2>1 DEF Call, Connect, AlreadyConnected, OpenSocket, OpenFails, Write, WriteFails, link
    <2>2. ASSUME NEW c \in Callers, Read(c) \/ Parse(c)
          PROVE  ClosedMeansDisconnected'
      BY <2>2 DEF Read, ReadChunk, ReadFails, Disconnect, GreetFails,
                  Parse, ParseReply, ParseRefused, ParseRetry, ParseInvalid, link
    <2>3. CASE ServerReplies \/ PeerCloses \/ PeerResets
      BY <2>3 DEF ServerReplies, PeerCloses, PeerResets
    <2>4. CASE UNCHANGED vars
      BY <2>4 DEF vars, link
    <2> QED
      BY <2>1, <2>2, <2>3, <2>4 DEF Next, Step
  <1> QED
    BY <1>1, <1>2, PTL DEF Spec

-----------------------------------------------------------------------------
(* The connection implements RequestReply: Call is Begin; the steps that end a
   call are Answer or Fail; every other step changes nothing a caller sees. *)

Pending == {c \in Callers : pc[c] # "idle"}

\* A step inside a call leaves what the caller sees alone.
LEMMA InnerStep ==
    ASSUME NEW c \in Callers, NEW label \in {"connect", "greet", "write", "read", "parse"},
           TypeOK, pc[c] # "idle", pc' = [pc EXCEPT ![c] = label],
           UNCHANGED <<cmd, reply, issued>>
    PROVE  UNCHANGED Promise!vars
  <1>1. Pending' = Pending
    BY DEF Pending, TypeOK
  <1> QED
    BY <1>1 DEF Promise!vars, Pending

\* The end of a call with a reply is an answer when the reply is the caller's own.
LEMMA EndsWithAnswer ==
    ASSUME NEW c \in Callers, NEW how, TypeOK, pc[c] # "idle",
           Return(c, how, cmd[c]), UNCHANGED <<cmd, issued>>
    PROVE  Promise!Answer(c)
  <1>1. c \in Pending /\ Pending' = Pending \ {c}
    BY DEF Pending, Return, Goto, TypeOK
  <1> QED
    BY <1>1 DEF Promise!Answer, Pending, Return

\* The end of a call with an exception of the client's is a failure: nothing was
\* answered since the call began.
LEMMA EndsWithFailure ==
    ASSUME NEW c \in Callers, TypeOK, pc[c] # "idle",
           Raise(c), UNCHANGED <<cmd, issued>>
    PROVE  Promise!Fail(c)
  <1>1. c \in Pending /\ Pending' = Pending \ {c}
    BY DEF Pending, Raise, Return, Goto, TypeOK
  <1>2. reply' = reply
    BY DEF Raise, Return, TypeOK
  <1> QED
    BY <1>1, <1>2 DEF Promise!Fail, Pending

\* Every step of a thread is a step of RequestReply, or one RequestReply does not see.
LEMMA StepRefines ==
    ASSUME NEW me \in Callers, InStepInv, Call(me) \/ Step(me)
    PROVE  [Promise!Next]_(Promise!vars)
  <1> USE DEF InStepInv
  <1>1. CASE Call(me)
    <2>1. me \notin Pending /\ Pending' = Pending \cup {me}
      BY <1>1 DEF Call, Goto, Pending, TypeOK
    <2>2. Promise!Begin(me)
      BY <1>1, <2>1 DEF Call, Promise!Begin, Pending, Promise!NoAnswer, NoCommand
    <2> QED
      BY <2>2 DEF Promise!Next
  <1>2. ASSUME Raise(me), pc[me] # "idle", UNCHANGED <<cmd, issued>>
        PROVE  Promise!Next
    BY <1>2, EndsWithFailure DEF Promise!Next
  <1>3. ASSUME NEW line \in Lines(buf[me]), NEW how, Return(me, how, line.of),
               pc[me] = "parse", UNCHANGED <<cmd, issued>>
        PROVE  Promise!Next
    <2>1. cmd[me] \in Commands
      BY <1>3, BoundAssumption DEF TypeOK, Commands, NoCommand
    <2>2. buf[me] \in ReplyRecords(cmd[me])
      BY <1>3 DEF InStep, OnItsWay
    <2>3. line.of = cmd[me]
      BY <2>1, <2>2, LinesOfReply DEF Line
    <2>4. Promise!Answer(me)
      BY <1>3, <2>3, EndsWithAnswer
    <2> QED
      BY <2>4 DEF Promise!Next
  <1>4. ASSUME NEW label \in {"connect", "greet", "write", "read", "parse"},
               pc[me] # "idle", pc' = [pc EXCEPT ![me] = label],
               UNCHANGED <<cmd, reply, issued>>
        PROVE  UNCHANGED Promise!vars
    BY <1>4, InnerStep
  <1>5. CASE AlreadyConnected(me)
    BY <1>4, <1>5 DEF AlreadyConnected, Goto, call, result
  <1>6. CASE OpenSocket(me)
    BY <1>4, <1>6 DEF OpenSocket, Goto, call, result
  <1>7. CASE OpenFails(me)
    BY <1>2, <1>7 DEF OpenFails, call
  <1>8. CASE Write(me)
    BY <1>4, <1>8 DEF Write, Goto, call, result
  <1>9. CASE WriteFails(me)
    BY <1>2, <1>9 DEF WriteFails, call
  <1>10. CASE ReadChunk(me)
    <2>1. PICK label \in {"greet", "read", "write", "parse"} : pc' = [pc EXCEPT ![me] = label]
      <3>1. /\ AfterRead["greet"] = "write" /\ AfterRead["read"] = "parse"
            /\ pc[me] \in {"greet", "read"}
        BY <1>10 DEF ReadChunk, AfterRead
      <3>2. PICK chunk : pc' = [pc EXCEPT ![me] =
                                 IF EndsRead(chunk) THEN AfterRead[pc[me]] ELSE pc[me]]
        BY <1>10, Zenon DEF ReadChunk, Goto
      <3> QED
        BY <3>1, <3>2
    <2> QED
      BY <1>4, <1>10, <2>1 DEF ReadChunk, call, result
  <1>11. CASE ReadFails(me)
    BY <1>2, <1>11 DEF ReadFails, Disconnect, call
  <1>12. CASE GreetFails(me)
    BY <1>2, <1>12 DEF GreetFails, call
  <1>13. CASE ParseReply(me)
    <2>1. PICK line \in Lines(buf[me]), how \in {"data", "error"} : Return(me, how, line.of)
      BY <1>13 DEF ParseReply
    <2> QED
      BY <1>3, <1>13, <2>1 DEF ParseReply, call
  <1>14. CASE ParseRefused(me)
    <2>1. PICK line \in Lines(buf[me]) : Return(me, "error", line.of)
      BY <1>14 DEF ParseRefused
    <2> QED
      BY <1>3, <1>14, <2>1 DEF ParseRefused, call
  <1>15. CASE ParseRetry(me)
    BY <1>4, <1>15 DEF ParseRetry, Goto, result
  <1>16. CASE ParseInvalid(me)
    BY <1>2, <1>16 DEF ParseInvalid, call
  <1> QED
    BY <1>1, <1>5, <1>6, <1>7, <1>8, <1>9, <1>10, <1>11, <1>12, <1>13, <1>14, <1>15, <1>16
    DEF Step, Connect, Read, Parse

\* Every behaviour of the connection is one of RequestReply: own reply or failure,
\* once per call, and nothing else.
THEOREM ConnectionKeepsPromise ==
    ASSUME ~ShortReads
    PROVE  SerialSpec => ImplementsRequestReply
  <1>1. Init => Promise!Init
    BY DEF Init, Promise!Init, Promise!NoAnswer, NoCommand
  <1>2. InStepInv /\ [Next /\ Serial']_vars => [Promise!Next]_(Promise!vars)
    <2>1. ASSUME ServerReplies \/ PeerCloses \/ PeerResets \/ UNCHANGED vars
          PROVE  UNCHANGED Promise!vars
      BY <2>1 DEF ServerReplies, PeerCloses, PeerResets, vars, call, result, Promise!vars
    <2> QED
      BY <2>1, StepRefines DEF Next
  <1> QED
    BY <1>1, <1>2, InStepAlways, PTL DEF SerialSpec, ImplementsRequestReply, Promise!Spec

=============================================================================
