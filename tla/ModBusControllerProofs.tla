----------------------- MODULE ModBusControllerProofs -----------------------
(***************************************************************************)
(* Proofs about ModBusController, for any set of connections and any       *)
(* values of the bounds.                                                   *)
(***************************************************************************)
EXTENDS ModBusController, SequenceTheorems, TLAPS

USE ControllerAssumption DEF ControllerAssumption

(***************************************************************************)
(* Type correctness.                                                       *)
(***************************************************************************)
\* The type of the arguments of a message.
LEMMA NoMessageType == NoMessage \in Messages
BY DEF NoMessage, Messages

\* The variables start within their ranges (the constructor).
LEMMA TypeInit == Init => TypeOK
<1> SUFFICES ASSUME Init PROVE TypeOK
  OBVIOUS
<1> USE DEF Init
<1>1. loop_queue \in Seq(Nat)
  OBVIOUS
<1>2. /\ link \in [Conns -> {"new", "open", "dropped", "closed"}]
      /\ lastBroadcast \in [Conns -> Nat]
      /\ shown \in [Conns -> Nat]
  OBVIOUS
<1>3. io_msg \in Messages /\ io_conn \in Conns
  BY NoMessageType
<1> QED BY <1>1, <1>2, <1>3 DEF TypeOK, DataSteps, IoSteps

\* The steps of the data thread keep the types.
LEMMA TypeData == TypeOK /\ DataNext => TypeOK'
<1> SUFFICES ASSUME TypeOK, DataNext PROVE TypeOK'
  OBVIOUS
<1> USE DEF TypeOK, DataSteps, DataThread, DataLocal, mainVars, ioVars, outVars
<1>1. CASE DataCheck      BY <1>1 DEF DataCheck
<1>2. CASE DataReadSensor BY <1>2 DEF DataReadSensor, DataSees
<1>3. CASE DataReadRpm    BY <1>3 DEF DataReadRpm
<1>4. CASE DataReadFails  BY <1>4 DEF DataReadFails
<1>5. CASE DataPost
  <2>1. loop_queue' \in Seq(Nat)
    BY <1>5 DEF DataPost, DataPosts
  <2> QED BY <1>5, <2>1 DEF DataPost, DataPosts
<1>6. CASE DataSleep      BY <1>6 DEF DataSleep
<1> QED BY <1>1, <1>2, <1>3, <1>4, <1>5, <1>6 DEF DataNext, ReadsSucceed

\* The steps of the main loop keep the types.
LEMMA TypeMain == TypeOK /\ MainNext => TypeOK'
<1> SUFFICES ASSUME TypeOK, MainNext PROVE TypeOK'
  OBVIOUS
<1> USE DEF TypeOK, dataVars, ioVars, outVars
<1>1. CASE BroadcastLock
  <2>1. Head(loop_queue) \in Nat /\ Tail(loop_queue) \in Seq(Nat)
    BY <1>1 DEF BroadcastLock, BroadcastLeaving
  <2> QED BY <1>1, <2>1 DEF BroadcastLock, BroadcastLeaving
<1>2. ASSUME NEW c \in Conns, BroadcastSend(c) PROVE TypeOK'
  BY <1>2 DEF BroadcastSend, Send
<1>3. CASE BroadcastUnlock BY <1>3 DEF BroadcastUnlock
<1> QED BY <1>1, <1>2, <1>3 DEF MainNext

\* The steps of a handler keep the types.
LEMMA TypeHandler == TypeOK /\ HandlerNext => TypeOK'
<1> SUFFICES ASSUME TypeOK, HandlerNext PROVE TypeOK'
  OBVIOUS
<1> USE DEF TypeOK, dataVars, mainVars, outVars, IoSteps
<1>1. CASE SnapshotReadSensor BY <1>1 DEF SnapshotReadSensor, SnapshotStep,
                                          IoStep
<1>2. CASE SnapshotReadRpm    BY <1>2 DEF SnapshotReadRpm, SnapshotStep, IoStep
<1>3. CASE SnapshotSend       BY <1>3 DEF SnapshotSend, SnapshotStep, IoStep,
                                          Send
<1>4. CASE SnapshotFails      BY <1>4 DEF SnapshotFails, SnapshotStep, IoStep
<1>5. CASE StartDataStream    BY <1>5 DEF StartDataStream, IoStep, DataSteps
<1>6. CASE StopDataStream     BY <1>6 DEF StopDataStream, IoStep
<1>7. CASE StopJoin           BY <1>7 DEF StopJoin, IoStep, DataSteps
<1>8. CASE MotorCommand       BY <1>8, NoMessageType DEF MotorCommand, IoStep
<1> QED BY <1>1, <1>2, <1>3, <1>4, <1>5, <1>6, <1>7, <1>8 DEF HandlerNext

\* The events of the connections keep the types.
LEMMA TypeClient == TypeOK /\ (CloseNext \/ ClientNext) => TypeOK'
<1> SUFFICES ASSUME TypeOK, CloseNext \/ ClientNext PROVE TypeOK'
  OBVIOUS
<1> USE DEF TypeOK, dataVars, mainVars, ioVars, outVars, IoSteps
<1>1. ASSUME NEW c \in Conns, HandleConnectionClosed(c) PROVE TypeOK'
  BY <1>1 DEF HandleConnectionClosed, Close
<1>2. ASSUME NEW c \in Conns, HandleNewConnection(c) PROVE TypeOK'
  BY <1>2 DEF HandleNewConnection
<1>3. ASSUME NEW c \in Conns, NEW m \in Messages, HandleNewMessage(c, m)
      PROVE TypeOK'
  BY <1>3 DEF HandleNewMessage, Messages
<1>4. ASSUME NEW c \in Conns, Drop(c) PROVE TypeOK'
  BY <1>4 DEF Drop
<1> QED BY <1>1, <1>2, <1>3, <1>4 DEF CloseNext, ClientNext

\* A step that changes nothing keeps the types.
LEMMA TypeStutter == TypeOK /\ UNCHANGED vars => TypeOK'
BY DEF TypeOK, vars, dataVars, mainVars, ioVars, outVars

\* A change of the sensors keeps the types.
LEMMA TypeSensor == TypeOK /\ SensorChange => TypeOK'
BY DEF TypeOK, SensorChange, dataVars, mainVars, ioVars, outVars

\* Every variable of the controller stays within its range.
THEOREM TypeCorrect == Spec => []TypeOK
<1>1. TypeOK /\ [Next]_vars => TypeOK'
  BY TypeData, TypeMain, TypeHandler, TypeClient, TypeStutter, TypeSensor
     DEF Next
<1> QED BY TypeInit, <1>1, PTL DEF Spec

-----------------------------------------------------------------------------
(***************************************************************************)
(* The iteration of broadcastData.                                         *)
(***************************************************************************)
\* A step that changes none of the variables of the iteration keeps it intact.
LEMMA IterationUnchanged ==
  /\ IterationIntact
  /\ UNCHANGED <<mutex, main_todo, main_sample, connections, lastBroadcast>>
  => IterationIntact'
BY DEF IterationIntact

\* Every step keeps the iteration of broadcastData intact.
LEMMA IterationStep == TypeOK /\ IterationIntact /\ [Next]_vars => IterationIntact'
<1> SUFFICES ASSUME TypeOK, IterationIntact, [Next]_vars
             PROVE  IterationIntact'
  OBVIOUS
<1>1. CASE DataNext \/ SensorChange
  BY <1>1, IterationUnchanged
     DEF DataNext, ReadsSucceed, DataCheck, DataReadSensor, DataSees,
         DataReadRpm, DataReadFails, DataPost, DataPosts, DataSleep,
         DataThread, DataLocal, SensorChange, mainVars, outVars
<1>2. CASE HandlerNext
  BY <1>2, IterationUnchanged
     DEF HandlerNext, SnapshotReadSensor, SnapshotReadRpm, SnapshotSend,
         SnapshotFails, SnapshotStep, IoStep, StartDataStream, StopDataStream,
         StopJoin, MotorCommand, mainVars, outVars
<1>3. CASE BroadcastLock
  BY <1>3 DEF BroadcastLock, BroadcastLeaving, IterationIntact, outVars
<1>4. ASSUME NEW c \in Conns, BroadcastSend(c) PROVE IterationIntact'
  <2>1. /\ mutex = "main"
        /\ main_todo \subseteq connections
        /\ main_todo' = main_todo \ {c}
        /\ connections' = connections
        /\ main_sample' = main_sample
        /\ lastBroadcast' = [lastBroadcast EXCEPT ![c] = main_sample]
    BY <1>4 DEF BroadcastSend, IterationIntact
  <2>2. ASSUME NEW d \in connections \ main_todo'
        PROVE  lastBroadcast'[d] = main_sample
    <3>1. d \in Conns /\ lastBroadcast \in [Conns -> Nat]
      BY <2>1 DEF TypeOK
    <3>2. CASE d = c
      BY <2>1, <3>1, <3>2
    <3>3. CASE d # c
      BY <2>1, <3>1, <3>3 DEF IterationIntact
    <3> QED BY <3>2, <3>3
  <2> QED BY <2>1, <2>2 DEF IterationIntact
<1>5. CASE BroadcastUnlock
  BY <1>5 DEF BroadcastUnlock, IterationIntact
<1>6. ASSUME NEW c \in Conns,
             HandleConnectionClosed(c) \/ HandleNewConnection(c)
      PROVE  IterationIntact'
  BY <1>6 DEF HandleConnectionClosed, Close, HandleNewConnection,
              IterationIntact, mainVars
<1>7. ASSUME NEW c \in Conns,
             Drop(c) \/ \E m \in Messages : HandleNewMessage(c, m)
      PROVE  IterationIntact'
  BY <1>7, IterationUnchanged DEF HandleNewMessage, Drop, mainVars, outVars
<1>8. CASE UNCHANGED vars
  BY <1>8, IterationUnchanged DEF vars, mainVars, outVars
<1> QED
  BY <1>1, <1>2, <1>3, <1>4, <1>5, <1>6, <1>7, <1>8
     DEF Next, MainNext, CloseNext, ClientNext

\* broadcastData never iterates over a set that changes under it, and passes
\* no registered connection by, for any number of connections.
THEOREM IterationSafe == Spec => []IterationIntact
<1>1. Init => IterationIntact
  BY DEF Init, IterationIntact
<1> QED BY <1>1, IterationStep, TypeCorrect, PTL DEF Spec

-----------------------------------------------------------------------------
(***************************************************************************)
(* The thread behind the stream.                                           *)
(***************************************************************************)
\* Every step keeps a polling thread behind the stream.
LEMMA ThreadStep ==
  TypeOK /\ StreamingHasThread /\ [Next]_vars => StreamingHasThread'
<1> SUFFICES ASSUME TypeOK, StreamingHasThread, [Next]_vars
             PROVE  StreamingHasThread'
  OBVIOUS
<1> USE DEF StreamingHasThread, dataVars
<1>1. CASE DataNext
  BY <1>1 DEF DataNext, ReadsSucceed, DataCheck, DataReadSensor, DataSees,
              DataReadRpm, DataReadFails, DataPost, DataPosts, DataSleep,
              DataThread, DataLocal
<1>2. CASE MainNext
  BY <1>2 DEF MainNext, BroadcastLock, BroadcastLeaving, BroadcastSend,
              BroadcastUnlock
<1>3. CASE StartDataStream
  BY <1>3 DEF StartDataStream, IoStep
<1>4. CASE StopDataStream \/ StopJoin
  BY <1>4 DEF StopDataStream, IoStep, StopJoin
<1>5. CASE SnapshotReadSensor \/ SnapshotReadRpm \/ SnapshotSend \/ SnapshotFails
  BY <1>5 DEF SnapshotReadSensor, SnapshotReadRpm, SnapshotSend, SnapshotFails,
              SnapshotStep, IoStep
<1>6. CASE MotorCommand \/ SensorChange \/ CloseNext \/ ClientNext
  BY <1>6 DEF MotorCommand, IoStep, SensorChange, CloseNext, ClientNext,
              HandleConnectionClosed, Close, HandleNewConnection,
              HandleNewMessage, Drop
<1>7. CASE UNCHANGED vars
  BY <1>7 DEF vars
<1> QED
  BY <1>1, <1>2, <1>3, <1>4, <1>5, <1>6, <1>7 DEF Next, HandlerNext

\* While the stream is on, a thread polls the sensors.
THEOREM StreamAlive == Spec => []StreamingHasThread
<1>1. Init => StreamingHasThread
  BY DEF Init, StreamingHasThread
<1> QED BY <1>1, ThreadStep, TypeCorrect, PTL DEF Spec

-----------------------------------------------------------------------------
(***************************************************************************)
(* The order of the readings.  PipelineOrdered is inductive: each stage    *)
(* only ever takes over what the stage behind it holds.                    *)
(***************************************************************************)
\* A step that leaves every stage as it is keeps the order.
LEMMA PipelineUnchanged ==
  /\ PipelineOrdered
  /\ UNCHANGED <<loop_queue, lastBroadcast, main_sample, data_sample, sample>>
  => PipelineOrdered'
BY DEF PipelineOrdered

\* The steps of the data thread keep the order.
LEMMA PipelineData == TypeOK /\ PipelineOrdered /\ DataNext => PipelineOrdered'
<1> SUFFICES ASSUME TypeOK, PipelineOrdered, DataNext PROVE PipelineOrdered'
  OBVIOUS
<1>1. CASE DataCheck \/ DataReadRpm \/ DataReadFails \/ DataSleep
  BY <1>1, PipelineUnchanged
     DEF DataCheck, DataReadRpm, DataReadFails, DataSleep, DataThread,
         DataLocal, mainVars, outVars
<1>2. CASE DataReadSensor
  <2>1. /\ data_sample' = sample
        /\ UNCHANGED <<loop_queue, lastBroadcast, main_sample, sample>>
    BY <1>2 DEF DataReadSensor, DataSees, DataThread, mainVars, outVars
  <2> QED BY <2>1 DEF PipelineOrdered, TypeOK
<1>3. CASE DataPost
  <2>1. /\ loop_queue' = Append(loop_queue, data_sample)
        /\ UNCHANGED <<data_sample, lastBroadcast, main_sample, sample>>
    BY <1>3 DEF DataPost, DataPosts, DataThread, mainVars, outVars
  <2>2. /\ Len(loop_queue') = Len(loop_queue) + 1
        /\ \A i \in 1..Len(loop_queue) : loop_queue'[i] = loop_queue[i]
        /\ loop_queue'[Len(loop_queue) + 1] = data_sample
    BY <2>1 DEF TypeOK
  <2>3. ASSUME NEW i \in 1..Len(loop_queue')
        PROVE  /\ main_sample <= loop_queue'[i] /\ loop_queue'[i] <= data_sample
               /\ \A j \in i..Len(loop_queue') : loop_queue'[i] <= loop_queue'[j]
    <3>1. CASE i = Len(loop_queue) + 1
      BY <2>1, <2>2, <3>1 DEF PipelineOrdered, TypeOK
    <3>2. CASE i \in 1..Len(loop_queue)
      <4>1. /\ loop_queue'[i] = loop_queue[i]
            /\ main_sample <= loop_queue[i] /\ loop_queue[i] <= data_sample
        BY <2>2, <3>2 DEF PipelineOrdered
      <4>2. ASSUME NEW j \in i..Len(loop_queue')
            PROVE  loop_queue'[i] <= loop_queue'[j]
        <5>1. CASE j = Len(loop_queue) + 1
          BY <2>2, <4>1, <5>1
        <5>2. CASE j \in i..Len(loop_queue)
          BY <2>2, <3>2, <4>1, <5>2 DEF PipelineOrdered
        <5>3. Len(loop_queue) \in Nat
          BY DEF TypeOK
        <5>4. j = Len(loop_queue) + 1 \/ j \in i..Len(loop_queue)
          BY <2>2, <3>2, <5>3
        <5> QED BY <5>1, <5>2, <5>4
      <4> QED BY <4>1, <4>2
    <3> QED BY <2>2, <3>1, <3>2 DEF TypeOK
  <2> QED BY <2>1, <2>3 DEF PipelineOrdered
<1> QED BY <1>1, <1>2, <1>3 DEF DataNext, ReadsSucceed

\* The steps of the main loop keep the order.
LEMMA PipelineMain == TypeOK /\ PipelineOrdered /\ MainNext => PipelineOrdered'
<1> SUFFICES ASSUME TypeOK, PipelineOrdered, MainNext PROVE PipelineOrdered'
  OBVIOUS
<1>1. CASE BroadcastLock
  <2>1. /\ loop_queue # <<>> /\ loop_queue \in Seq(Nat)
        /\ main_sample' = Head(loop_queue)
        /\ loop_queue' = Tail(loop_queue)
        /\ UNCHANGED <<data_sample, lastBroadcast, sample>>
    BY <1>1 DEF BroadcastLock, BroadcastLeaving, TypeOK, dataVars, outVars
  <2>2. /\ Len(loop_queue) >= 1 /\ main_sample' = loop_queue[1]
        /\ Len(loop_queue') = Len(loop_queue) - 1
        /\ \A i \in 1..Len(loop_queue') : loop_queue'[i] = loop_queue[i + 1]
    BY <2>1
  <2>3. \A c \in Conns : lastBroadcast[c] <= main_sample'
    BY <2>2 DEF PipelineOrdered, TypeOK
  <2>4. main_sample' <= data_sample
    BY <2>2 DEF PipelineOrdered
  <2>5. ASSUME NEW i \in 1..Len(loop_queue')
        PROVE  /\ main_sample' <= loop_queue'[i] /\ loop_queue'[i] <= data_sample
               /\ \A j \in i..Len(loop_queue') : loop_queue'[i] <= loop_queue'[j]
    <3>1. i + 1 \in 1..Len(loop_queue) /\ 1 \in 1..Len(loop_queue)
      BY <2>1, <2>2
    <3>2. loop_queue[1] <= loop_queue[i + 1] /\ loop_queue[i + 1] <= data_sample
      BY <3>1 DEF PipelineOrdered
    <3>3. ASSUME NEW j \in i..Len(loop_queue')
          PROVE  loop_queue[i + 1] <= loop_queue[j + 1]
      <4>1. j + 1 \in (i + 1)..Len(loop_queue)
        BY <2>1, <2>2
      <4> QED BY <3>1, <4>1 DEF PipelineOrdered
    <3> QED BY <2>1, <2>2, <3>2, <3>3
  <2> QED BY <2>1, <2>3, <2>4, <2>5 DEF PipelineOrdered
<1>2. ASSUME NEW c \in Conns, BroadcastSend(c) PROVE PipelineOrdered'
  <2>1. /\ lastBroadcast' = [lastBroadcast EXCEPT ![c] = main_sample]
        /\ UNCHANGED <<loop_queue, main_sample, data_sample, sample>>
    BY <1>2 DEF BroadcastSend, dataVars
  <2>2. \A d \in Conns : lastBroadcast'[d] <= main_sample
    BY <2>1 DEF PipelineOrdered, TypeOK
  <2> QED BY <2>1, <2>2 DEF PipelineOrdered
<1>3. CASE BroadcastUnlock
  BY <1>3, PipelineUnchanged DEF BroadcastUnlock, dataVars, outVars
<1> QED BY <1>1, <1>2, <1>3 DEF MainNext

\* Every step keeps the order.
LEMMA PipelineStep == TypeOK /\ PipelineOrdered /\ [Next]_vars => PipelineOrdered'
<1> SUFFICES ASSUME TypeOK, PipelineOrdered, [Next]_vars PROVE PipelineOrdered'
  OBVIOUS
<1>1. CASE HandlerNext
  BY <1>1, PipelineUnchanged
     DEF HandlerNext, SnapshotReadSensor, SnapshotReadRpm, SnapshotSend,
         SnapshotFails, SnapshotStep, IoStep, StartDataStream, StopDataStream,
         StopJoin, MotorCommand, dataVars, mainVars, outVars
<1>2. CASE CloseNext \/ ClientNext
  BY <1>2, PipelineUnchanged
     DEF CloseNext, ClientNext, HandleConnectionClosed, Close,
         HandleNewConnection, HandleNewMessage, Drop, dataVars, mainVars,
         outVars
<1>3. CASE SensorChange
  BY <1>3 DEF SensorChange, PipelineOrdered, TypeOK, dataVars, mainVars,
              outVars
<1>4. CASE UNCHANGED vars
  BY <1>4, PipelineUnchanged DEF vars, dataVars, mainVars, outVars
<1> QED BY <1>1, <1>2, <1>3, <1>4, PipelineData, PipelineMain DEF Next

\* The readings on their way are always in the order of their age.
THEOREM PipelineInOrder == Spec => []PipelineOrdered
<1>1. Init => PipelineOrdered
  BY DEF Init, PipelineOrdered
<1> QED BY <1>1, PipelineStep, TypeCorrect, PTL DEF Spec

\* A step that keeps the readings in order never sends a connection an older
\* one than before: only BroadcastSend sends any, and it sends main_sample.
LEMMA BroadcastStep ==
  TypeOK /\ PipelineOrdered /\ [Next]_vars
    => [\A c \in Conns : lastBroadcast[c] <= lastBroadcast'[c]]_vars
<1> SUFFICES ASSUME TypeOK, PipelineOrdered, Next
             PROVE  \A c \in Conns : lastBroadcast[c] <= lastBroadcast'[c]
  OBVIOUS
<1>1. CASE UNCHANGED lastBroadcast
  BY <1>1 DEF TypeOK
<1>2. ASSUME NEW c \in Conns, BroadcastSend(c)
      PROVE  \A d \in Conns : lastBroadcast[d] <= lastBroadcast'[d]
  BY <1>2 DEF BroadcastSend, PipelineOrdered, TypeOK
<1>3. (\E c \in Conns : BroadcastSend(c)) \/ UNCHANGED lastBroadcast
  BY DEF Next, DataNext, ReadsSucceed, DataCheck, DataReadSensor, DataSees,
         DataReadRpm, DataReadFails, DataPost, DataPosts, DataSleep,
         DataThread, DataLocal, MainNext, BroadcastLock, BroadcastLeaving,
         BroadcastUnlock, HandlerNext, SnapshotReadSensor, SnapshotReadRpm,
         SnapshotSend, SnapshotFails, SnapshotStep, IoStep, StartDataStream,
         StopDataStream, StopJoin, MotorCommand, CloseNext, ClientNext,
         HandleConnectionClosed, Close, HandleNewConnection,
         HandleNewMessage, Drop, SensorChange, outVars
<1> QED BY <1>1, <1>2, <1>3

\* No connection is broadcast a reading older than one it was broadcast
\* before, whatever the number of connections, restarts and queued tasks.
THEOREM BroadcastOrder == Spec => BroadcastsInOrder
BY BroadcastStep, PipelineInOrder, TypeCorrect, PTL DEF Spec, BroadcastsInOrder
=============================================================================
