-------------------------- MODULE ModBusController --------------------------
(***************************************************************************)
(* The WebSocket controller ModBus (Backend/controllers/ModBus.cc): the    *)
(* data thread that polls the sensors, the framework's main loop that      *)
(* broadcasts what the thread posted, and the one IO thread that runs the  *)
(* handlers of every connection (config.yaml sets number_of_threads: 1).   *)
(*                                                                         *)
(* A reading of the sensors is abstracted to the version of the values it  *)
(* saw (sample).  A call on modbus_ succeeds or fails, and one that        *)
(* succeeds is taken to give the register asked for.  What goes on behind  *)
(* it is the subject of module ModbusRTUMaster, which shows that reads     *)
(* that overlap on the port may not.                                       *)
(***************************************************************************)
EXTENDS Naturals, Sequences

CONSTANTS
  Conns,        \* WebSocket connections, each opened at most once
  MaxSample,    \* bound: how often the sensor values change
  MaxMsgs,      \* bound: how many client messages are handled
  MaxQueue      \* bound: tasks waiting in the main loop

ASSUME ControllerAssumption ==
  MaxSample \in Nat /\ MaxMsgs \in Nat /\ MaxQueue \in Nat \ {0}

\* What a text message asks for: its "command" member and its
\* "commands.motor" member ("absent" when there is none).  A message that
\* does not parse, or an unknown command, asks for nothing; one that parses
\* to something other than an object is not modelled (isMember throws).
Messages == [command : {"start", "stop", "none"},
             motor   : {"on", "off", "other", "absent"}]

VARIABLES
  streaming_active, \* the atomic flag streaming_active_
  data_thread,      \* where the thread held by data_thread_ is, or "none"
  data_sample,      \* the reading the data thread holds
  loop_queue,       \* broadcast tasks queued in the main loop, oldest first
  connections,      \* the set connections_
  mutex,            \* connections_mutex_: "free" or held by "main"
  main_sample,      \* the reading the running broadcastData sends
  main_todo,        \* connections the running broadcastData has yet to serve
  io_pc,            \* the step of the handler the IO thread runs, or "idle"
  io_conn,          \* the connection that handler serves
  io_msg,           \* the message that handler serves
  io_sample,        \* the reading handleNewConnection holds
  link,             \* state of each connection's socket
  lastBroadcast,    \* newest reading broadcast to each connection
  shown,            \* reading each client displays: the last one sent to it
  sample,           \* version of the sensor values at the device
  handled,          \* messages handled so far
  crashed           \* std::terminate has ended the worker process

dataVars == <<streaming_active, data_thread, data_sample>>
mainVars == <<mutex, main_sample, main_todo>>
ioVars   == <<io_pc, io_conn, io_msg, io_sample, handled>>
outVars  == <<link, lastBroadcast, shown>>
vars == <<dataVars, loop_queue, connections, mainVars, ioVars, outVars,
          sample, crashed>>

NoMessage == [command |-> "none", motor |-> "absent"]

-----------------------------------------------------------------------------
(***************************************************************************)
(* The constructor connects and starts the stream.                         *)
(***************************************************************************)
Init ==
  /\ streaming_active = TRUE
  /\ data_thread = "check"
  /\ data_sample = 0
  /\ loop_queue = <<>>
  /\ connections = {}
  /\ mutex = "free" /\ main_sample = 0 /\ main_todo = {}
  /\ io_pc = "idle" /\ io_conn \in Conns /\ io_msg = NoMessage
  /\ io_sample = 0 /\ handled = 0
  /\ link = [c \in Conns |-> "new"]
  /\ lastBroadcast = [c \in Conns |-> 0]
  /\ shown = [c \in Conns |-> 0]
  /\ sample = 0
  /\ crashed = FALSE

\* conn->send(...) of a reading: lost when the peer is gone.
Send(c, s) ==
  shown' = [shown EXCEPT ![c] = IF link[c] = "open" THEN s ELSE @]

-----------------------------------------------------------------------------
(***************************************************************************)
(* The data thread: check the flag, read temperature and humidity, read    *)
(* the RPM, post the broadcast, sleep a second.  A read that fails skips   *)
(* the rest of the pass.                                                   *)
(***************************************************************************)
DataThread(from, to) ==
  /\ ~crashed
  /\ data_thread = from
  /\ data_thread' = to
  /\ UNCHANGED <<streaming_active, connections, mainVars, ioVars, outVars,
                 sample, crashed>>

DataLocal(from, to) ==
  DataThread(from, to) /\ UNCHANGED <<data_sample, loop_queue>>

\* Mutant: the loop does not look at the flag.
DataCheckIgnoresFlag == DataLocal("check", "read_sensor")

DataCheck ==
  DataLocal("check", IF streaming_active THEN "read_sensor" ELSE "done")

DataSees(s) ==
  /\ DataThread("read_sensor", "read_rpm")
  /\ data_sample' = s
  /\ UNCHANGED loop_queue

\* Mutant: the reading is one version behind.
DataReadOffByOne == DataSees(sample - 1)

DataReadSensor == DataSees(sample)

DataReadRpm == DataLocal("read_rpm", "post")

\* Mutant: a read that fails ends the loop.
DataReadFailsForGood ==
  DataLocal("read_sensor", "done") \/ DataLocal("read_rpm", "done")

DataReadFails ==
  DataLocal("read_sensor", "sleep") \/ DataLocal("read_rpm", "sleep")

DataPosts(queue) ==
  /\ Len(loop_queue) < MaxQueue
  /\ DataThread("post", "sleep")
  /\ loop_queue' = queue
  /\ UNCHANGED data_sample

\* Mutant: the task is put before those that wait.
DataPostFirst == DataPosts(<<data_sample>> \o loop_queue)

DataPost == DataPosts(Append(loop_queue, data_sample))

DataSleep == DataLocal("sleep", "check")

-----------------------------------------------------------------------------
(***************************************************************************)
(* The main loop: take the oldest task, lock connections_mutex_, send to   *)
(* every connection of the set, unlock.                                    *)
(***************************************************************************)
BroadcastLeaving(rest) ==
  /\ ~crashed
  /\ mutex = "free" /\ loop_queue # <<>>
  /\ mutex' = "main"
  /\ main_sample' = Head(loop_queue)
  /\ main_todo' = connections
  /\ loop_queue' = rest
  /\ UNCHANGED <<dataVars, connections, ioVars, outVars, sample, crashed>>

\* Mutant: the task stays in the queue.
BroadcastKeepsTask == BroadcastLeaving(loop_queue)

BroadcastLock == BroadcastLeaving(Tail(loop_queue))

BroadcastSend(c) ==
  /\ ~crashed
  /\ mutex = "main" /\ c \in main_todo
  /\ main_todo' = main_todo \ {c}
  /\ lastBroadcast' = [lastBroadcast EXCEPT ![c] = main_sample]
  /\ Send(c, main_sample)
  /\ UNCHANGED <<dataVars, loop_queue, connections, mutex, main_sample,
                 ioVars, link, sample, crashed>>

BroadcastUnlock ==
  /\ ~crashed
  /\ mutex = "main" /\ main_todo = {}
  /\ mutex' = "free"
  /\ UNCHANGED <<dataVars, loop_queue, connections, main_sample, main_todo,
                 ioVars, outVars, sample, crashed>>

-----------------------------------------------------------------------------
(***************************************************************************)
(* The IO thread runs one handler at a time, to its end.                   *)
(***************************************************************************)
HandleNewConnection(c) ==
  /\ ~crashed
  /\ io_pc = "idle" /\ link[c] = "new"
  /\ mutex = "free"
  /\ connections' = connections \cup {c}
  /\ link' = [link EXCEPT ![c] = "open"]
  /\ io_pc' = "snap_sensor" /\ io_conn' = c
  /\ UNCHANGED <<dataVars, loop_queue, mainVars, io_msg, io_sample, handled,
                 lastBroadcast, shown, sample, crashed>>

\* A step of the handler that runs.
IoStep(from, to) ==
  /\ ~crashed
  /\ io_pc = from /\ io_pc' = to
  /\ UNCHANGED <<data_sample, loop_queue, connections, mainVars, io_conn,
                 handled, link, lastBroadcast, sample>>

SnapshotStep(from, to) ==
  /\ IoStep(from, to)
  /\ UNCHANGED <<streaming_active, data_thread, io_msg, crashed>>

SnapshotReadSensor ==
  /\ SnapshotStep("snap_sensor", "snap_rpm")
  /\ io_sample' = sample /\ UNCHANGED shown

SnapshotReadRpm ==
  SnapshotStep("snap_rpm", "snap_send") /\ UNCHANGED <<io_sample, shown>>

SnapshotSend ==
  /\ SnapshotStep("snap_send", "idle")
  /\ Send(io_conn, io_sample) /\ UNCHANGED io_sample

SnapshotFails ==
  /\ SnapshotStep("snap_sensor", "idle") \/ SnapshotStep("snap_rpm", "idle")
  /\ UNCHANGED <<io_sample, shown>>

Close(c, rest) ==
  /\ ~crashed
  /\ io_pc = "idle" /\ link[c] = "dropped"
  /\ connections' = rest
  /\ link' = [link EXCEPT ![c] = "closed"]
  /\ UNCHANGED <<dataVars, loop_queue, mainVars, ioVars, lastBroadcast, shown,
                 sample, crashed>>

\* Mutant: the connection is erased without the mutex.
CloseUnlocked(c) == Close(c, connections \ {c})

\* Mutant: the connection is not erased.
CloseForgotten(c) == mutex = "free" /\ Close(c, connections)

HandleConnectionClosed(c) == mutex = "free" /\ Close(c, connections \ {c})

(***************************************************************************)
(* A text message: its command first, then its motor member.  The status   *)
(* replies to the sender change nothing here and are left out.             *)
(***************************************************************************)
HandleNewMessage(c, m) ==
  /\ ~crashed
  /\ io_pc = "idle" /\ link[c] = "open"
  /\ handled < MaxMsgs
  /\ handled' = handled + 1
  /\ io_msg' = m
  /\ io_pc' = IF m.command = "none" THEN "motor" ELSE m.command
  /\ UNCHANGED <<dataVars, loop_queue, connections, mainVars, io_conn,
                 io_sample, outVars, sample, crashed>>

\* Assigning a std::thread to one that is still joinable, running or
\* finished, calls std::terminate.
StartDataStream ==
  /\ IoStep("start", "motor")
  /\ streaming_active' = TRUE
  /\ crashed' = (data_thread # "none")
  /\ data_thread' = IF data_thread = "none" THEN "check" ELSE data_thread
  /\ UNCHANGED <<io_msg, io_sample, shown>>

StopDataStream ==
  /\ IoStep("stop", "join")
  /\ streaming_active' = FALSE
  /\ UNCHANGED <<data_thread, io_msg, io_sample, shown, crashed>>

\* The join waits for the data thread to end its pass, sleep included.
StopJoin ==
  /\ IoStep("join", "motor")
  /\ data_thread \in {"none", "done"}
  /\ data_thread' = "none"
  /\ UNCHANGED <<streaming_active, io_msg, io_sample, shown, crashed>>

\* "on" and "off" write the motor register, any other action only answers;
\* what the write does is modelled in ModbusRTUMaster.
MotorCommand ==
  /\ IoStep("motor", "idle")
  /\ io_msg' = NoMessage
  /\ UNCHANGED <<streaming_active, data_thread, io_sample, shown, crashed>>

-----------------------------------------------------------------------------
(***************************************************************************)
(* The surroundings: the sensors change, a peer goes away.                 *)
(***************************************************************************)
SensorChange ==
  /\ sample < MaxSample
  /\ sample' = sample + 1
  /\ UNCHANGED <<dataVars, loop_queue, connections, mainVars, ioVars, outVars,
                 crashed>>

Drop(c) ==
  /\ link[c] = "open"
  /\ link' = [link EXCEPT ![c] = "dropped"]
  /\ UNCHANGED <<dataVars, loop_queue, connections, mainVars, ioVars,
                 lastBroadcast, shown, sample, crashed>>

-----------------------------------------------------------------------------
ReadsSucceed == DataReadSensor \/ DataReadRpm

DataNext == DataCheck \/ ReadsSucceed \/ DataReadFails \/ DataPost \/ DataSleep

MainNext ==
  \/ BroadcastLock
  \/ \E c \in Conns : BroadcastSend(c)
  \/ BroadcastUnlock

\* The steps of a handler that has begun.
HandlerNext ==
  \/ SnapshotReadSensor \/ SnapshotReadRpm \/ SnapshotSend \/ SnapshotFails
  \/ StartDataStream \/ StopDataStream \/ StopJoin \/ MotorCommand

CloseNext == \E c \in Conns : HandleConnectionClosed(c)

ClientNext ==
  \E c \in Conns :
    \/ HandleNewConnection(c)
    \/ \E m \in Messages : HandleNewMessage(c, m)
    \/ Drop(c)

Next ==
  \/ DataNext \/ MainNext
  \/ HandlerNext \/ CloseNext \/ ClientNext
  \/ SensorChange

Spec == Init /\ [][Next]_vars

(***************************************************************************)
(* Each thread that can run does run; of the clients only the close of a   *)
(* connection whose peer has gone is sure to be delivered.  The close has  *)
(* to wait for the IO thread and for the mutex, which other handlers and   *)
(* broadcasts take again and again: the IO thread serves its events in     *)
(* turn, hence strong fairness.  Nothing is assumed of clients, of the     *)
(* sensors, or of whether a read succeeds.                                 *)
(***************************************************************************)
FairSpec ==
  /\ Spec
  /\ WF_vars(DataNext) /\ WF_vars(MainNext) /\ WF_vars(HandlerNext)
  /\ SF_vars(CloseNext)

-----------------------------------------------------------------------------
DataSteps == {"none", "check", "read_sensor", "read_rpm", "post", "sleep",
              "done"}

IoSteps == {"idle", "snap_sensor", "snap_rpm", "snap_send",
            "start", "stop", "join", "motor"}

\* Every variable stays within its range (the members of ModBus and the
\* locals of its threads and handlers).
TypeOK ==
  /\ streaming_active \in BOOLEAN
  /\ data_thread \in DataSteps
  /\ data_sample \in Nat
  /\ loop_queue \in Seq(Nat)
  /\ connections \in SUBSET Conns
  /\ mutex \in {"free", "main"}
  /\ main_sample \in Nat
  /\ main_todo \in SUBSET Conns
  /\ io_pc \in IoSteps
  /\ io_conn \in Conns
  /\ io_msg \in Messages
  /\ io_sample \in Nat
  /\ handled \in Nat
  /\ link \in [Conns -> {"new", "open", "dropped", "closed"}]
  /\ lastBroadcast \in [Conns -> Nat]
  /\ shown \in [Conns -> Nat]
  /\ sample \in Nat
  /\ crashed \in BOOLEAN

\* While broadcastData iterates over connections_, the set it iterates over
\* is the one it locked: every connection it has yet to serve is registered,
\* and every registered one it has passed was sent the reading.  A handler
\* that inserted or erased without the mutex would leave the iterator on an
\* erased element, or skip a connection.
IterationIntact ==
  mutex = "main" =>
    /\ main_todo \subseteq connections
    /\ \A c \in connections \ main_todo : lastBroadcast[c] = main_sample

\* While the stream is on, a thread polls the sensors: data_thread_ is neither
\* empty nor finished.  A read that fails, a stop followed by a start or an
\* overlapping broadcast never leaves the flag on with nobody behind it.
StreamingHasThread ==
  streaming_active /\ ~crashed => data_thread \notin {"none", "done"}

\* The readings on their way are in the order of their age: what connections
\* were sent, the broadcast that runs, the tasks queued in the main loop, the
\* reading the data thread holds, the sensors.
PipelineOrdered ==
  /\ \A c \in Conns : lastBroadcast[c] <= main_sample
  /\ \A i \in 1..Len(loop_queue) :
       /\ main_sample <= loop_queue[i] /\ loop_queue[i] <= data_sample
       /\ \A j \in i..Len(loop_queue) : loop_queue[i] <= loop_queue[j]
  /\ main_sample <= data_sample
  /\ data_sample <= sample

\* The readings a connection is broadcast never go back in time: the data
\* thread posts them in the order it read them, over restarts of the thread
\* too, and the main loop runs its tasks in the order they were posted.
BroadcastsInOrder ==
  [][\A c \in Conns : lastBroadcast[c] <= lastBroadcast'[c]]_vars

\* Every handler of the IO thread returns, the join of stopDataStream
\* included, unless the process has been terminated: the data thread never
\* waits for what the IO thread holds.
HandlerReturns == (io_pc # "idle") ~> (io_pc = "idle" \/ crashed)

\* Once stopDataStream has joined the thread, the broadcasts it left behind
\* run out and the stream falls silent, unless it is started again.
StopQuiesces ==
  (data_thread = "none") ~>
    (loop_queue = <<>> /\ mutex = "free") \/ data_thread # "none" \/ crashed

\* A connection whose peer has gone is eventually removed from connections_.
GoneIsForgotten ==
  \A c \in Conns : (link[c] = "dropped") ~> (c \notin connections \/ crashed)

\* A connection that stays open while the stream stays on comes to display
\* the device's last reading and keeps it, if reads do not fail for ever:
\* neither the snapshot of handleNewConnection, sent from another thread, nor
\* a broadcast queued before leaves an older reading on display for good.  It
\* rests on reads that give the right register, and lets the display step back
\* on the way.
Converges ==
  \A c \in Conns :
    ( /\ <>[](link[c] = "open" /\ streaming_active /\ ~crashed)
      /\ SF_vars(DataReadSensor) /\ SF_vars(DataReadRpm) )
    => <>[](shown[c] = sample)

\* ModBus.cc:16 starts the stream on construction and :80 answers a "start"
\* with "streaming started": a start never ends the process.
StartNeverTerminates == ~crashed
=============================================================================
