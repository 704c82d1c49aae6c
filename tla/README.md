# SIMOP in TLA+

A formal model of SIMOP: a backend that polls an industrial controller over
Modbus, streams the readings to browsers, lets a chat agent read sensors and
drive a motor, and is run by a small supervisor; and of the microcontroller's
firmware at the other end of the wire. Paths below are relative to `src/`.

## 1. The system

| Component | Source | State it keeps | Operations |
|---|---|---|---|
| WebSocket controller `ModBus` | `Backend/controllers/ModBus.{h,cc}` | `streaming_active_`, `data_thread_`, `connections_` and its mutex; tasks queued in the main loop | constructor, data thread, `broadcastData`, `startDataStream`, `stopDataStream`, the three handlers |
| Modbus client `ModbusRTUMaster` | `Backend/plugins/ModbusRTUMaster.{h,cc}` | `m_ctx` (a descriptor of the serial port, or none) | `connect`, `read_registers`, `read_sensor_data`, `read_rpm`, `write_single_register` |
| AI tools | `Backend/AI/AITools/*.h` | a shared client, never connected | `run` of the temperature, humidity and motor tool |
| Master process | `Backend/main.cc` | `workerPid`, the pid file, installed handlers | `start`, plain run, `stop`, `restart`, the signal handlers |
| Firmware | `Arduino/SIMOP` | holding registers, last readings, pulse counter, two interval clocks, motor pins | `task`, `cbWriteMotor`, `getRPM`, `isr` |
| Chat agent | `Backend/AI`, `Backend/controllers/AiChat.cc` | conversation history, tool registry, requests at the HTTP client | `handleNewMessage`, `run`, `step`, `runTool`, `chatCompletion` |
| Event loop's queue | `Backend/Depends/include/trantor/utils/LockFreeQueue.h` | a lock-free list of tasks | `enqueue`, `dequeue`, `empty` |
| Application paths, string helpers | `Backend/plugins/AppPaths.cc`, `Utils.cc` | resolved paths | lookups |
| Page, voice scripts, vendored headers | `Frontend`, `Tests`, `Backend/*.py`, `Backend/Depends` | | built, independent or third-party |

How they interact. The master forks the worker, which is the Drogon
application. In the worker three threads matter: the **data thread** of
`ModBus`; the **main loop** of the framework (`getLoop()`), which runs the
broadcasts the data thread posts and the chat agent's response callbacks, hence
the tools; and the **one IO thread** (`config.yaml`, `number_of_threads: 1`),
which runs every connection's handlers one after the other. The data thread and
the IO thread share one `ModbusRTUMaster`; the tools have another one on the
same `/dev/ttyAMA0`. Nothing locks either. A question to the agent begins in the
IO thread, whose first request goes to the main loop's queue like the data
thread's broadcasts; the agent object dies with the handler, and every later step
of the conversation is a callback in the main loop. The slave is the firmware, which
prints its log lines on the UART that carries its Modbus frames.

What is hard: three threads on one serial port whose replies do not say what
they answer; replies later than the timeout; handlers that block on a join;
signal handlers that interrupt each other between `fork` and an assignment; a
child that inherits its parent's handlers; an interrupt routine against the loop
that reads its counter; two interval clocks over a wrapping `millis()`; a lock-free
list with a gap between exchange and link; a conversation that outlives the
object that leads it, and whose tools block the loop that everything goes through. The full
list is under `hazards` in `PROJECT.json`, each at its line.

What makes each component correct:

- *ModBus*: a broadcast reaches exactly the registered connections; readings
  are not delivered out of order; a stream that is on has a thread behind it;
  handlers return; a stopped stream falls silent; displays converge.
- *ModbusRTUMaster*: calls return; a value belongs to the register asked for; a
  write happens at most once, in order, and is reported as what became of it; reconnecting
  leaks nothing.
- *Master*: one master, and one worker at a time; a stop leaves none and does
  stop; the pid file names the master that runs.
- *Chat agent*: every question is answered once, whatever fails; what the model was
  told of a motor command stands, and nothing happens to the motor without its being
  told; broadcasts go on.
- *Event loop's queue*: tasks run once and in order; no thread touches freed
  memory; no task is slept over.
- *Firmware*: no pulse is lost; every interval publishes a real RPM; the motor
  does what its register says.

## 2. Modules

| Module | Models | Status |
|---|---|---|
| `ModBusController` | the controller `ModBus` | done |
| `ModBusControllerProofs` | theorems about it | done |
| `ModbusRTUMaster` | the client, its callers, the line and the slave | done |
| `ModbusRTUMasterProofs` | theorems about it | done |
| `CommandChannel` | what `write_single_register` promises its callers, abstract | done |
| `ChatAgent` | the chat agent and its tools, over `CommandChannel` | done |
| `ChatAgentProofs` | theorems about it | done |
| `TaskQueue` | what the event loop promises of queued tasks, abstract | done |
| `MpscQueue` | the lock-free queue, an implementation of `TaskQueue` | done |
| `MpscQueueProofs` | theorems about it | done |
| `Supervisor` | `main.cc` | done |
| `SupervisorProofs` | theorems about it | done |
| `Firmware` | `Arduino/SIMOP` | done |
| `FirmwareProofs` | theorems about it | done |
| `MC...` | model values, symmetry and the configurations for TLC | with each |

How they compose. `ModbusRTUMaster` implements `CommandChannel`
(`ImplementsChannel`: `requests` and the writes about to be sent map to
`pending`), and `ChatAgent` is built on an instance of that channel instead of on
the port, so that what it shows of tools holds of any client that keeps the
promise. `MpscQueue` implements `TaskQueue`, the first-in, first-out queue that
`ModBusController` (`loop_queue`) and `ChatAgent` (`posted`) take the main loop to
be.

### ModBusController

One action per step of a thread that another thread can see. The data thread
(`data_thread` is the step it is at) goes `DataCheck`, `DataReadSensor`,
`DataReadRpm`, `DataPost`, `DataSleep`; either read may fail, which skips to the
sleep. The main loop takes a task, takes the mutex, sends to one connection at a
time and releases the mutex (`BroadcastLock`, `BroadcastSend`,
`BroadcastUnlock`). The IO thread (`io_pc`) begins a handler only when idle.
`handleNewConnection` registers the connection (in one step: the critical section
only inserts), then reads, then sends; `handleNewMessage` runs its command and
then its motor member. `StartDataStream` on a joinable `data_thread_` sets
`crashed`, because assigning to a joinable `std::thread` calls `std::terminate`;
`StopJoin` waits until the thread has left its loop.

A reading is abstracted to the version of the sensor values it saw, which is what
the properties about order and convergence tell apart. The readings of one pass
are three requests in the code; here they succeed or fail, and the version is
that of the first. A read that succeeds is taken to give the register asked for:
`ModbusRTUMaster` shows that this holds of reads that are alone on the port
(`LoneReadIsSound`) and fails when two overlap (`ReadsOwnRegister`), and what
`Converges` says of displays rests on it. The status replies and the outcome of the motor's write
change only what a client is told and are left out. `lastBroadcast` and `shown` are
observations: what was last broadcast to a connection, and what it displays.

### ModbusRTUMaster

`open` and `fds` are the descriptor each object knows of and all it ever opened
without closing. The receive buffer `input` is the port's, whichever descriptor
reads it. A call goes through `flush`, `send`, `receive` and, when it fails,
`close`, `reconnect`, as `read_registers` does; `write_single_register` only
sends and receives. `ReadReceive` accepts any reply to a read, since such a reply
carries no register address. Receiving may fail at any time (the timeout, which
the untimed model lets fire whenever it waits) and then takes nothing, the wrong
frame, or text and whatever follows it. Outside `src/`: libmodbus, the
port and the library of the slave. The slave serves requests in order; requests
and replies may be lost, lines of text may appear, and two threads that receive
at once may split a frame. Whether libmodbus compares the echo of a write with the
request depends on its version and is the constant `CheckEcho`.

### CommandChannel

A call of `write_single_register` is a command that is `pending` from the call on,
takes effect at most once and in the order of its caller's calls, or is lost. The
caller is told `ok`, only if a write of that value has reached the motor (when
echoes are compared: `Honest`); `refused`, when nothing was sent and nothing ever
will be; or `failed`, which promises nothing: the command may still be pending.
The code returns `false` for both of the last; the distinction is an observation.

### ChatAgent

`HandleNewMessage`, `FirstStep` and `HandlerReturns` are the IO thread's part of a
question: the agent is on its stack, the first request is put into the main
loop's queue (`posted`), the handler returns. `RunTask` hands it to the HTTP client
(`requests`), which sends one at a time in their order and has no timeout. The
callback of `ReActAgent::step` is `ReplyIsAnswered` (no JSON, no choices, a final
answer), `UnknownTool` (the model's text is answered as it is), `RunTool`, or
`ReplyIsOdd` (Json throws in the loop and the worker ends). A tool holds the main
loop (`main`) until `ToolReturns` puts the observation into the history and sends the
next request. The callback uses `this` of an agent that is gone once its handler has
returned: `ReplyIsWild` and `ToolReturnIsWild` let that end the worker, and the other
actions let it work. The motor commands of a browser (`BrowserWrites`) go
through the same channel. What a tool reads, and the text of everything, is left
out; a conversation is named by its question, and `answers` counts what is sent to
the client, also to one that has gone.

### TaskQueue and MpscQueue

`TaskQueue` is a sequence. `MpscQueue` has one action per access to shared memory:
a producer makes a node (`New`), exchanges it with `head_` (`Exchange`), links the
node found there to it (`Link`) and wakes the loop (`Wake`); the loop tests `empty`,
then `dequeue` reads the link (`Load`), moves the task out (`Take`), and sets
`tail_` and deletes the old node (`Advance`). A node is an address, and an address
that was freed may be allocated again, which is what makes reclamation delicate.
The accesses have acquire and release order where they depend on one another, so
interleaving is all there is. `chain` is an observation, the nodes exchanged and not
yet dequeued, on which the refinement is built: a task counts as put at the
exchange, although it can be taken only once the nodes before it are linked.
`Wake` and `Poll` stand for trantor's wake-up descriptor, whose code is not in the
repository. The destructor of the queue is not modelled: the worker leaves by
`_exit(0)`.

### Supervisor

Every master is a stack of frames: its main program, then the handlers that
interrupted it. `HandleSignal` pushes a frame unless one of the same signal is
running; the steps of `stopWorker` and `startWorker` are separate actions because
another handler may run between any two of them. `workerPid` is read by `StopWorkerKill`
(the test and the `kill`, one step) and again by `StopWorkerCall`, when `waitpid` is
called: a handler that interrupts the wait does not change its argument, and the
call is restarted with it, or returns at once when that worker has been reaped
meanwhile. A handler between the test and the `kill`
is not modelled apart: a restart there whose `fork` failed would have the code signal pid -1. A worker is `boot` until Drogon installs its own
handlers; SIGINT runs the inherited handler until then, which removes the pid
file. An empty pid file leaves the pid uninitialized: the model lets it be
any master, none, or a process that has nothing to do with the program. The file
may also fail to open, and the master goes on. `calm` and `lapses` are observations
that let the properties say when they claim something: `calm` are the masters
whose handlers interrupted nothing but `pause()`, `lapses` says whether a pid file was
not written, a booting worker was interrupted, or a master was started unseen.

### Firmware

`pc` walks through one pass of `loop()`. `HandleInterrupt` may happen whenever
`interruptsOn`; `Tick` lets time pass between any two steps. Differences of
`millis()` are taken modulo `Wrap`. A cast of an out-of-range float to `uint16_t` is
undefined and modelled as either result builds give. The Modbus library is
external: an `ON_SET` callback gets the new value as its second argument, while
`reg->value` is still the old one.

## 3. Runs

| Run | Checks | Bounds |
|---|---|---|
| `controller_safety` | `IterationIntact`, `StreamingHasThread`, `PipelineOrdered`, `BroadcastsInOrder` | 2 connections, 2 sensor changes, 2 messages, queue of 2 |
| `controller_liveness` | `HandlerReturns`, `StopQuiesces`, `GoneIsForgotten`, `Converges` | 1 connection, 1 sensor change, 2 messages |
| `controller_start` | `StartNeverTerminates` is violated | as above |
| `master_safety` | `WritesOnceInOrder`, `LoneReadIsSound`, `SuccessWasWritten`, `NoDescriptorLeak`, `ImplementsChannel` | 3 calls, 2 frames in the buffer, echo compared |
| `master_liveness` | `CallReturns` | 2 calls |
| `master_own_register` | `ReadsOwnRegister` is violated | 3 calls |
| `agent` | `QuestionsAccounted`, `OutcomesHold`, `EffectsAreTold`, `AskedIsAnswered`, `BroadcastsGoOn` | 2 questions, 2 calls of tools or motor commands |
| `queue` | `NoUseAfterFree`, `ListIntact`, `ImplementsTaskQueue`, `EveryTaskRuns` | 2 producers, 4 tasks, 4 addresses |
| `supervisor_safety` | `FewWorkers`, `CleanExit`, `PidFileNamesMaster`, `OneMaster` | 2 masters, 3 forks, 2 commands or interrupts |
| `supervisor_liveness` | `StopStops`, `RestartReturns` | 1 master, 3 forks, 2 commands |
| `firmware_safety` | `GetRpmNeverEarly`, `PulsesConserved`, `RegistersTellReadings` | interval 3, wrap 8, 12 ms, 2 pulses, a resolution that makes two pulses one RPM, a temperature below zero and one above |
| `firmware_motor` | `MotorFollowsRegister` is violated | as above |

Every safety run also checks its module's `TypeOK`. Deadlock is not checked: the
bounds stop every run, the worker process may really be terminated, and the
supervisor's processes really end.

Why the bounds are enough. Two connections let one be registered or erased while
the other is being served; two messages are a stop followed by a start; a queue
of two holds readings of two ages. Three calls are a late reply, the call it
confuses and one that overlaps; two frames are what a write leaves behind (text
and echo). Two commands are the deepest useful nesting (a signal within a
handler), three forks are the worker, the one that replaces it, and one that is
lost. The firmware's clock wraps between two takings of the pulses. Four
addresses are fewer than the nodes two producers use for four tasks, so that
addresses are allocated again while a producer still holds one in `prevhead`.
Two questions wait behind each other in the queue, at the client and behind a
tool; two calls are a tool's command that fails and a later one, of the other
conversation, which must not overtake it, or of a browser, which may.

What the passing properties excuse. `CleanExit`, `StopStops`, `RestartReturns` and the
bound of one worker in `FewWorkers` claim something only of a master whose handlers
interrupted nothing but `pause()` (`calm`); `PidFileNamesMaster` claims nothing
once a booting worker was interrupted or the file was not written, and `OneMaster` nothing then,
nor once two starts looked at once or one did not look (`lapses`), nor of nested handlers.
`AskedIsAnswered` assumes a service that replies, and the liveness properties of the agent and the
controller end with a crash of the worker.
`SuccessWasWritten` and `OutcomesHold` do not say that "ok" is about this command, nor
that "failed" means no effect. What happens in the excused cases is told below.

The violated properties state what the code's comments or messages say:

- `controller_start`: the constructor has started the stream, so the first
  `start` from a client assigns over a joinable thread and ends the worker.
- `master_own_register`: two overlapping reads take each other's replies.
- `firmware_motor`: the callback acts on the previous value of the register.

Further behaviours the models show and no run claims otherwise: a broadcast
queued before a stop is sent after the answer "streaming stopped"; a client's display
may step back, to a snapshot read before the last broadcast, until the next one; a write
that has timed out may still reach the motor, after the model was told "Failed to start motor."
(`MotorTool.h:52`), and one whose request is lost may take the late echo of the one before, so
that the model is told "Motor started." (`MotorTool.h:54`) of a command that never arrives; the
firmware's line precedes the echo, so a lone first write is always reported failed;
the data thread and the IO thread reconnect the same object when a read of each fails, and
when both have closed it before either connects, the second overwrites the descriptor of the
first, which stays open (`NoDescriptorLeak` is about the tools' object only); the tools'
client is never connected (`AiChat.cc:27`), so that `motor(run)` fails before anything is sent, until a read on it has failed and
reconnected; a restart soon after a start interrupts a booting worker, which
removes the pid file of the master that runs on; two starts at once leave two
masters; a master whose `exit` handler is interrupted by another signal may remove
the pid file of its successor; a signal
between `fork` and the assignment of `workerPid` leaves a worker the master does not know of,
which `FewWorkers` counts and `CleanExit` excuses; a restart that
interrupts a stop between `kill` and the call of `waitpid` makes the stop wait for the new
worker, which nobody has signalled; one that interrupts the `waitpid` itself reaps the old worker,
so that the stop's `waitpid` fails, the stop says "Worker stopped." (`main.cc:63`), sets `workerPid`
to 0 and leaves the new worker behind. Of the chat agent: a service that never
replies blocks every later question, since requests go one at a time and have no
timeout; the text that reports a failed request is itself answered as a JSON
parse error; an unknown tool ends the conversation with the model's raw text, where
the comment at `ReActAgent.cc:103` says "let model see the error".

## 4. Fairness

- `ModBusController`: each thread that can take a step does (weak fairness per
  thread: the operating system schedules them, and no step waits for a client).
  Closing a connection gets strong fairness, because the IO thread and the mutex
  it needs are free only now and then and the IO loop serves its events in turn.
  Clients, sensors and the success of reads get none; `Converges` assumes in its
  statement that reads succeed again and again, and the model that a read that
  succeeds gives the right register.
- `ModbusRTUMaster`: each thread goes on with its call. `receive` always has an
  enabled step because of the timeout. Nothing is assumed of the slave.
- `MpscQueue`: a producer that has begun and the loop go on. No task need be put.
- `ChatAgent`: the IO thread and the main loop go on, a tool returns (`CallReturns` of
  `ModbusRTUMaster`), and the service replies to the oldest request, by whatever
  reply. That last is an assumption the code does not enforce, for want of a timeout;
  without it nothing could be said of answers. That the service does not ask for
  actions for ever is the bound `MaxCalls`; the code has none.
- `Supervisor`: each process goes on; a pending signal is delivered; a serving
  worker that is interrupted quits. No command need be given and no worker die.
- `Firmware`: safety only.

## 5. Proofs

All safety invariants the passing runs check, both refinements and `BroadcastsInOrder`
are theorems. Only `RegistersAreReadings` has hypotheses beyond its module's assumption;
the others hold for every value of the constants that it admits. No proof mentions a
bound of section 3: the constants `Max...` are any naturals. TLC checked each inductive
invariant on the run's instance before it was proved.

**`ModBusControllerProofs`**, for any set of connections. Assumes `ControllerAssumption`,
the types of the bounds.

| Theorem | Statement |
|---|---|
| `TypeCorrect` | `Spec => []TypeOK` |
| `IterationSafe` | `Spec => []IterationIntact` |
| `StreamAlive` | `Spec => []StreamingHasThread` |
| `PipelineInOrder` | `Spec => []PipelineOrdered` |
| `BroadcastOrder` | `Spec => BroadcastsInOrder` |

Types are inductive by themselves, and each of the next three invariants is inductive
together with them. `BroadcastsInOrder` is a property of steps that no
state invariant of the connections alone gives: it needs that what the running
broadcast sends is no older than what was sent, which needs that the queue is
sorted and newer than that, which needs that the data thread's reading is newer
than the queue. `PipelineOrdered` says exactly this chain, stage by stage, and the
theorem reads off the one step that sends.

**`MpscQueueProofs`**, for any number of producers, addresses and tasks. Assumes
`QueueAssumption`: there is a node, and the null pointer is neither a node nor a task.

| Theorem | Statement |
|---|---|
| `TypeCorrect` | `Spec => []TypeOK` |
| `ListStaysIntact` | `Spec => []ListIntact` |
| `NoFreedNodeIsUsed` | `Spec => []NoUseAfterFree` |
| `ListIsAQueue` | `Spec => ImplementsTaskQueue` |

`QueueInv` has one part per way in which the list could break: the nodes of the list are
different ones (`Apart`), each link is there or a producer is about to set it
(`Linked`), each producer that is about to has a place of its own in the list
(`Linking`) or a node nobody else has (`Fresh`), the loop knows where it is (`Loop`), and
exactly the nodes of the list, those of producers and the old dummy are allocated
(`Allocated`). The last is what makes the reuse of addresses harmless: an address that
is handed out again is none of these. `ListIntact` without it is not inductive. For the
refinement a task counts as put at the exchange; `Take` is the one step that
gets, and `Linked` says that it gets the oldest.

**`ModbusRTUMasterProofs`**, for any number of calls and any size of the receive buffer,
whether or not the echo is compared. Assumes `MasterAssumption`, the types of the bounds.

| Theorem | Statement |
|---|---|
| `TypeCorrect` | `Spec => []TypeOK` |
| `DescriptorIsClosed` | `Spec => []NoDescriptorLeak` |
| `WritesInOrder` | `Spec => []WritesOnceInOrder` |
| `SuccessIsTrue` | `Spec => []SuccessWasWritten` |
| `LoneReads` | `Spec => []LoneReadIsSound` |
| `ClientIsAChannel` | `Spec => ImplementsChannel` |

`ClientInv` adds to the types what a call in progress holds and that the tools' object,
which one thread uses, reconnects only after it has closed. `InOrder` extends the order
of what was applied to what is on the line and to the calls that may yet send, by the
numbers of the calls. `EchoesWritten` says that every echo in the buffer, whoever it was
for, is of a value the motor has been given: the line may delay it, but not make it up.
`LoneInv` says what a lone read finds: from its flush until it reads, the requests and
values on the line are of its register. The refinement goes action by action; a return of `write_single_register` is
one of the channel in each of its outcomes, and the slave's write is
the oldest of its caller's by `InOrder`.

**`SupervisorProofs`**, for any masters, workers, commands and ways of launching. Assumes
`SupervisorAssumption`: the marks "empty", "failed", "other" and `NoPid` are no pids.

| Theorem | Statement |
|---|---|
| `TypeCorrect` | `Spec => []TypeOK` |
| `ExitIsClean` | `Spec => []CleanExit` |
| `WorkersAreFew` | `Spec => []FewWorkers` |
| `PidFileIsTrue` | `Spec => []PidFileNamesMaster` |
| `OneMasterAtATime` | `Spec => []OneMaster` |

`FramesInv` is the shape of a master's stack: the main program, above it at most one
handler of each signal, each at a step its signal can be at. `CalmInv` says which worker
a calm master may have, by the step of its topmost frame; a clean exit follows, since at
`exit` it may have none. `LostInv` bounds the workers of any master: a worker it does not
know of was lost when a frame assigned `workerPid` over that of a restart that had
interrupted it, and every frame assigns once. A restart itself loses none, because what it
waits for is what `workerPid` holds (`Renewing`): nothing that changes `workerPid` returns
to it. A plain bound of two workers would hold on the
run's three forks and be false beyond them (four forks give three workers: a restart at the
main program's assignment, then a stop with a restart within it); the attempt to prove it
showed that, and `FewWorkers` counts the frames that are no restarts. `PidFileInv` has `AloneInv`, that a master without company wrote its own
pid, and `FileInv`, that while nothing lapsed and no handlers nested at most one master
is starting, the file names the one that has written it, and a master that looks at the
file sees that one. `OneMaster` follows; these facts are inductive only together.

**`ChatAgentProofs`**, for any questions and any number of calls, over a channel whose "ok"
is to be believed or not. Assumes `AgentAssumption`: a broadcast and nobody are no
questions, and the types of the bounds.

| Theorem | Statement |
|---|---|
| `TypeCorrect` | `Spec => []TypeOK` |
| `NoQuestionIsLost` | `Spec => []QuestionsAccounted` |
| `OutcomesStand` | `Spec => []OutcomesHold` |
| `EffectsAreInHistory` | `Spec => []EffectsAreTold` |

The types need `ToolNumbered`: a tool that runs has a number, for its observation to
carry. `QuestionsAccounted` is inductive with them; its proof rests on how often a
question occurs in a queue to which something is appended or from which the head is taken
(`TimesAppend`, `TimesTail`), counted by a bijection. `OutcomesHold` needs `Numbered`
(a command has a number of its own, no later than its caller's last, and no later one of its
caller has been applied before it) and `Observations`
(what stands in the histories has the numbers of the main loop's calls that have returned, each in one
history): a command of either thread that comes later has a later number, so it
cannot make a refusal untrue, and of the commands that a refusal takes back there is
only one. What `OutcomesHold` does not say is as much to the point: "failed" does not mean
that the motor stands still, and "ok" not that this command moved it (section 3); a success says no more than `SuccessWasWritten`. `EffectsAreTold` needs `Telling`, which relates a command to the tool that runs
or to an observation of its number and value; `Observations` makes the history unique.

**`FirmwareProofs`**, for any interval, any wrap longer than it, any resolution
of the encoder and, but for the last, any sensor. Assumes `FirmwareAssumption`.

| Theorem | Statement |
|---|---|
| `TypeCorrect` | `Spec => []TypeOK` |
| `PulsesAreConserved` | `Spec => []PulsesConserved` |
| `RpmNeverEarly` | `Spec => []GetRpmNeverEarly` |
| `RegistersAreReadings` | `SensorInRange` gives `Spec /\ []RpmInRange => []RegistersTellReadings` |

The pulses need `PulsesInv`: the conservation,
and that interrupts are off exactly in the section that reads and resets the
counter, so that what was read is still there when it is reset. The clocks need
`ClocksInv`: `lastRPMTime` is at most `lastRPMUpdate` except while the pulses are being
taken, both are at most `now`, and `now - lastRPMTime` is less than `Wrap`. The
subtraction modulo `Wrap` then is the real one (`SmallDifference`), and an interval
since the later stamp is one since the earlier. `Tick` grants the bound on
`now - lastRPMTime`: it says that no pass outlasts the 49 days after which
`millis()` wraps.

`RegistersTellReadings` is false of readings far out of range: -40000 wraps to 25536, a
register that looks like a warmth. Its two hypotheses are where that begins. `SensorInRange` is
the format of the DHT22 (`SIMOP.ino:13`), 15 bits of tenths and a sign. `RpmInRange`, at every
moment `-32768 <= rpm <= 65535`, is about the shaft and not about the code, which does not check it.

What stays with TLC: liveness (`HandlerReturns`, `StopQuiesces`, `GoneIsForgotten`,
`Converges`, `CallReturns`, `StopStops`, `RestartReturns`, `EveryTaskRuns`, `AskedIsAnswered`,
`BroadcastsGoOn`), since fairness and `ENABLED` are out of the prover's reach, and the
three violated properties.

## 6. Plan

1. Theorems about the abstract specifications themselves: of `CommandChannel`, that no
   command is applied twice nor out of its caller's order, nor after it was refused; of `TaskQueue`, that what was
   taken and what waits are all that was put. With the refinements they hold of `ModbusRTUMaster` and `MpscQueue`.
2. That `ChatAgent` uses the channel as `CommandChannel` allows, so that the two
   refinements compose.
3. Step properties behind the liveness runs: which steps of `ModBusController` may undo a stop, and
   that each read of `ModbusRTUMaster` that fails comes closer to its return.

## 7. Not modelled

The page is built JavaScript. The voice scripts and the demo server are
straight-line programs around audio and remote services that share no state with
this one. The vendored headers (drogon, trantor, llama, ggml: most of the
lines under `Backend`) declare third-party code whose source is not in the
repository; only the queue, which is all in its header and carries everything the
components tell each other, is modelled. `AppPaths` and `Utils` are compiled in, but
nothing calls them. The destructors of `ModBus` and `ModbusRTUMaster`, and
`disconnect`, never run: the worker ends with `_exit(0)`. A message that is JSON but no
object is not among the inputs of `ModBusController`. The `log` command runs `tail`. Calls that are unsafe
in signal handlers (streams, `exit`) are modelled by their effect; that they may
also deadlock on a lock of the C library is not. Humidity is treated as
temperature is and left out of `Firmware`.
