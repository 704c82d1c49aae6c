-------------------------- MODULE ModbusRTUMaster --------------------------
(***************************************************************************)
(* The Modbus client ModbusRTUMaster (Backend/plugins/ModbusRTUMaster.cc)  *)
(* as the backend uses it: two objects on one serial port, "stream" owned  *)
(* by the controller ModBus and shared by its data thread and the IO       *)
(* thread, and "ai" owned by AiChat and used by the tools, which run in    *)
(* the main loop.  No lock protects either.                                *)
(*                                                                         *)
(* The port (one receive buffer whatever descriptor reads it), libmodbus   *)
(* and the slave are external.  A frame is its kind and what it is about;  *)
(* a reply to a read does not say which register it holds, and the text    *)
(* the firmware prints goes out on the same wire.                          *)
(***************************************************************************)
EXTENDS Naturals, Sequences, FiniteSets

CONSTANTS
  CheckEcho,  \* whether libmodbus compares the echo of a write with the
              \* request, which depends on its version
  MaxCalls,   \* bound: calls made by all threads together
  MaxInput    \* bound: frames waiting in the receive buffer

ASSUME MasterAssumption ==
  /\ CheckEcho \in BOOLEAN
  /\ MaxCalls \in Nat
  /\ MaxInput \in Nat \ {0}

Threads   == {"data", "io", "main"}
Contexts  == {"stream", "ai"}
Registers == {"temp", "hum", "rpm"}
Values    == {"on", "off"}

\* The object a thread calls.
Ctx(t) == IF t = "main" THEN "ai" ELSE "stream"

Frames == [kind : {"value"}, of : Registers]
          \cup [kind : {"echo"}, of : Values]
Text   == [kind |-> "text", of |-> "none"]
Requests == [kind : {"read"}, of : Registers, id : 1..MaxCalls, by : Threads]
            \cup [kind : {"write"}, of : Values, id : 1..MaxCalls, by : Threads]

VARIABLES
  open,      \* whether m_ctx of each object holds an open descriptor
  fds,       \* descriptors of the port each object opened and never closed
  pc,        \* where each thread is in its call, or "idle"
  target,    \* the register a thread reads, or the value it writes
  id,        \* the number of the call a thread makes or made last
  result,    \* how the last call of each thread ended
  reading,   \* the last value each thread read: the register asked for, the
             \* one the value came from, and whether the read was alone
  alone,     \* the line was quiet at the flush, and nobody else called since
  requests,  \* frames on their way to the slave, oldest first
  input,     \* frames and text in the port's receive buffer, oldest first
  applied,   \* the writes the slave has carried out, oldest first
  calls      \* calls made so far

callVars == <<pc, target, id, result, reading, alone, calls>>
portVars == <<open, fds>>
vars == <<callVars, portVars, requests, input, applied>>

-----------------------------------------------------------------------------
(***************************************************************************)
(* ModBus connects the object it makes, if the port can be opened; AiChat  *)
(* does not.                                                               *)
(***************************************************************************)
Init ==
  /\ \E connected \in BOOLEAN :
       /\ open = [c \in Contexts |-> c = "stream" /\ connected]
       /\ fds = [c \in Contexts |-> IF open[c] THEN 1 ELSE 0]
  /\ pc = [t \in Threads |-> "idle"]
  /\ target = [t \in Threads |-> "none"]
  /\ id = [t \in Threads |-> 0]
  /\ result = [t \in Threads |-> "none"]
  /\ reading = [t \in Threads |->
                  [asked |-> "none", got |-> "none", alone |-> FALSE]]
  /\ alone = [t \in Threads |-> FALSE]
  /\ requests = <<>> /\ input = <<>> /\ applied = <<>>
  /\ calls = 0

-----------------------------------------------------------------------------
(***************************************************************************)
(* A thread calls read_sensor_data, read_rpm or write_single_register.     *)
(* The data thread only reads.                                             *)
(***************************************************************************)
BeginAs(t, step, x, n) ==
  /\ pc[t] = "idle" /\ calls < MaxCalls
  /\ calls' = calls + 1
  /\ id' = [id EXCEPT ![t] = n]
  /\ pc' = [pc EXCEPT ![t] = step]
  /\ target' = [target EXCEPT ![t] = x]
  /\ alone' = [u \in Threads |-> FALSE]
  /\ UNCHANGED <<result, reading, portVars, requests, input, applied>>

\* Mutant: calls are numbered from two.
BeginMisnumbered(t, step, x) == BeginAs(t, step, x, calls + 2)

Begin(t, step, x) == BeginAs(t, step, x, calls + 1)

ReadSensorData(t) == Begin(t, "flush", "temp")

ReadRpm(t) == Begin(t, "flush", "rpm")

WriteSingleRegister(t, v) == t # "data" /\ Begin(t, "write_send", v)

\* A step of thread t within its call.
Step(t, from, to) ==
  /\ pc[t] = from
  /\ pc' = [pc EXCEPT ![t] = to]
  /\ UNCHANGED <<id, calls, applied>>

\* A step that leaves what the thread holds as it is.
Local(t, from, to) ==
  /\ Step(t, from, to)
  /\ UNCHANGED <<target, result, reading, alone>>

\* The call of thread t ends.
End(t, from, res) ==
  /\ Step(t, from, "idle")
  /\ result' = [result EXCEPT ![t] = res]
  /\ UNCHANGED <<target, alone>>

Send(t, kind) ==
  requests' = Append(requests,
                [kind |-> kind, of |-> target[t], id |-> id[t], by |-> t])

(***************************************************************************)
(* read_registers: flush, wait a millisecond, send, receive.  A flush of a *)
(* closed descriptor does nothing; a send to one fails.                    *)
(***************************************************************************)
FlushTo(t, rest) ==
  /\ Step(t, "flush", "send")
  /\ input' = rest
  /\ alone' = [alone EXCEPT ![t] =
                 /\ open[Ctx(t)] /\ requests = <<>>
                 /\ \A u \in Threads \ {t} : pc[u] = "idle"]
  /\ UNCHANGED <<target, result, reading, portVars, requests>>

\* Mutant: no flush before the request.
ReadNoFlush(t) == FlushTo(t, input)

ReadFlush(t) == FlushTo(t, IF open[Ctx(t)] THEN <<>> ELSE input)

ReadSend(t) ==
  \/ /\ open[Ctx(t)]
     /\ Local(t, "send", "receive") /\ Send(t, "read")
     /\ UNCHANGED <<portVars, input>>
  \/ /\ ~open[Ctx(t)]
     /\ Local(t, "send", "close")
     /\ UNCHANGED <<portVars, requests, input>>

\* Any reply to a read of one register will do.  read_sensor_data goes on
\* from the temperature to the humidity.
ReadReceive(t) ==
  /\ open[Ctx(t)] /\ input # <<>> /\ Head(input).kind = "value"
  /\ input' = Tail(input)
  /\ reading' = [reading EXCEPT ![t] = [asked |-> target[t],
                                         got   |-> Head(input).of,
                                         alone |-> alone[t]]]
  /\ IF target[t] = "temp"
     THEN /\ Step(t, "receive", "flush")
          /\ target' = [target EXCEPT ![t] = "hum"]
          /\ UNCHANGED <<result, alone>>
     ELSE End(t, "receive", "ok")
  /\ UNCHANGED <<portVars, requests>>

\* What a receive of thread t takes from the buffer when it fails: nothing
\* (the timeout), a frame it does not accept, or text, with whatever followed.
Lost(t, accepted) ==
  /\ \/ UNCHANGED input
     \/ /\ open[Ctx(t)] /\ input # <<>> /\ Head(input) \notin accepted
        /\ \E n \in 1..(IF Head(input) = Text THEN Len(input) ELSE 1) :
             input' = SubSeq(input, n + 1, Len(input))
  /\ UNCHANGED <<portVars, requests>>

ReadGivesUp(t, to) ==
  /\ Local(t, "receive", to)
  /\ Lost(t, {frame \in Frames : frame.kind = "value"})

\* Mutant: the descriptor is not closed before the reconnection.
ReadFailsUnclosed(t) == ReadGivesUp(t, "reconnect")

ReadFails(t) == ReadGivesUp(t, "close")

\* modbus_close forgets the descriptor; closing the port's last descriptor
\* discards its receive buffer.
ReadClose(t) ==
  LET c == Ctx(t) IN
  /\ Local(t, "close", "reconnect")
  /\ open' = [open EXCEPT ![c] = FALSE]
  /\ fds' = IF open[c] THEN [fds EXCEPT ![c] = @ - 1] ELSE fds
  /\ input' = IF \A d \in Contexts : fds'[d] = 0 THEN <<>> ELSE input
  /\ UNCHANGED requests

\* Mutant: the read is made again after the reconnection.
ReadReconnectRetries(t) ==
  Local(t, "reconnect", "flush") /\ UNCHANGED <<portVars, requests, input>>

\* modbus_connect opens a descriptor whether or not the object has one.
ReadReconnect(t) ==
  /\ End(t, "reconnect", "failed")
  /\ \E opened \in BOOLEAN :
       /\ open' = [open EXCEPT ![Ctx(t)] = opened]
       /\ fds' = IF opened THEN [fds EXCEPT ![Ctx(t)] = @ + 1] ELSE fds
  /\ UNCHANGED <<reading, requests, input>>

(***************************************************************************)
(* write_single_register: send and receive, with no flush before and no    *)
(* reconnection after.                                                     *)
(***************************************************************************)
WriteSend(t) ==
  \/ /\ open[Ctx(t)]
     /\ Local(t, "write_send", "write_receive") /\ Send(t, "write")
     /\ UNCHANGED <<portVars, input>>
  \/ /\ ~open[Ctx(t)]
     /\ End(t, "write_send", "refused")
     /\ UNCHANGED <<reading, portVars, requests, input>>

IsEcho(t, frame) == frame.kind = "echo" /\ (CheckEcho => frame.of = target[t])

WriteReceive(t) ==
  /\ open[Ctx(t)] /\ input # <<>> /\ IsEcho(t, Head(input))
  /\ End(t, "write_receive", "ok")
  /\ input' = Tail(input)
  /\ UNCHANGED <<reading, portVars, requests>>

WriteGivesUp(t, res) ==
  /\ End(t, "write_receive", res)
  /\ Lost(t, {frame \in Frames : IsEcho(t, frame)})
  /\ UNCHANGED reading

\* Mutant: a write that is not answered is taken for done.
WriteFailsSilently(t) == WriteGivesUp(t, "ok")

\* Mutant: a write that is not answered is sent again.
WriteRetries(t) ==
  /\ Local(t, "write_receive", "write_send")
  /\ UNCHANGED <<portVars, requests, input>>

WriteFails(t) == WriteGivesUp(t, "failed")

-----------------------------------------------------------------------------
(***************************************************************************)
(* The slave serves requests in their order; any request or reply may be   *)
(* lost.  A write prints a line before it is echoed.                       *)
(***************************************************************************)
Arrives(frames) == input' = input \/ input' = input \o frames

SlaveAnswersRead ==
  /\ requests # <<>> /\ Head(requests).kind = "read"
  /\ Len(input) < MaxInput
  /\ requests' = Tail(requests)
  /\ Arrives(<<[kind |-> "value", of |-> Head(requests).of]>>)
  /\ UNCHANGED <<callVars, portVars, applied>>

SlaveWrites ==
  /\ requests # <<>> /\ Head(requests).kind = "write"
  /\ Len(input) + 1 < MaxInput
  /\ requests' = Tail(requests)
  /\ applied' = Append(applied, Head(requests))
  /\ Arrives(<<Text, [kind |-> "echo", of |-> Head(requests).of]>>)
  /\ UNCHANGED <<callVars, portVars>>

SlaveMisses ==
  /\ requests # <<>>
  /\ requests' = Tail(requests)
  /\ UNCHANGED <<callVars, portVars, input, applied>>

SlavePrints ==
  /\ Len(input) < MaxInput
  /\ input' = Append(input, Text)
  /\ UNCHANGED <<callVars, portVars, requests, applied>>

\* Two threads that receive at once split a frame: neither can parse it.
SplitFrame ==
  /\ Cardinality({t \in Threads : pc[t] \in {"receive", "write_receive"}}) > 1
  /\ input # <<>> /\ Head(input) # Text
  /\ input' = <<Text>> \o Tail(input)
  /\ UNCHANGED <<callVars, portVars, requests, applied>>

-----------------------------------------------------------------------------
CallNext(t) ==
  \/ ReadSensorData(t) \/ ReadRpm(t)
  \/ \E v \in Values : WriteSingleRegister(t, v)

StepNext(t) ==
  \/ ReadFlush(t) \/ ReadSend(t) \/ ReadReceive(t) \/ ReadFails(t)
  \/ ReadClose(t) \/ ReadReconnect(t)
  \/ WriteSend(t) \/ WriteReceive(t) \/ WriteFails(t)

LineNext ==
  SlaveAnswersRead \/ SlaveWrites \/ SlaveMisses \/ SlavePrints \/ SplitFrame

Next == (\E t \in Threads : CallNext(t) \/ StepNext(t)) \/ LineNext

Spec == Init /\ [][Next]_vars

\* Each thread goes on with its call; nothing is assumed of the slave, of the
\* line, or of threads making further calls.
FairSpec == Spec /\ \A t \in Threads : WF_vars(StepNext(t))

-----------------------------------------------------------------------------
CallSteps == {"idle", "flush", "send", "receive", "close", "reconnect",
              "write_send", "write_receive"}

Results == {"none", "ok", "failed", "refused"}

\* Every variable stays within its range (m_ctx, the locals of the calls, and
\* the port they share).
TypeOK ==
  /\ open \in [Contexts -> BOOLEAN]
  /\ fds \in [Contexts -> Nat]
  /\ pc \in [Threads -> CallSteps]
  /\ target \in [Threads -> Registers \cup Values \cup {"none"}]
  /\ id \in [Threads -> 0..MaxCalls]
  /\ result \in [Threads -> Results]
  /\ reading \in [Threads -> [asked : Registers \cup {"none"},
                              got   : Registers \cup {"none"},
                              alone : BOOLEAN]]
  /\ alone \in [Threads -> BOOLEAN]
  /\ requests \in Seq(Requests)
  /\ input \in Seq(Frames \cup {Text})
  /\ applied \in Seq(Requests)
  /\ calls \in 0..MaxCalls

\* A call of write_single_register reaches the motor at most once, and the
\* calls of one thread reach it in the order they were made, however many of
\* them were reported failed: nothing is sent twice.
WritesOnceInOrder ==
  \A i, j \in 1..Len(applied) :
    i < j /\ applied[i].by = applied[j].by => applied[i].id < applied[j].id

\* A value read with the line quiet at the flush and no other call since
\* belongs to the register that was asked for: late replies of earlier calls
\* do not survive the flush of read_registers.
LoneReadIsSound ==
  \A t \in Threads : reading[t].alone => reading[t].asked = reading[t].got

\* With the echo compared, a write is never reported done when no write of
\* that value has reached the motor.
SuccessWasWritten ==
  CheckEcho =>
    \A t \in Threads \ {"data"} :
      result[t] = "ok" /\ target[t] \in Values /\ pc[t] = "idle" =>
        \E i \in 1..Len(applied) : applied[i].of = target[t]

\* The tools' object, used by one thread, holds at most the one descriptor it
\* knows of, over all its reconnections.  The stream's, which two threads may
\* reconnect at once, does not.
NoDescriptorLeak == fds["ai"] = (IF open["ai"] THEN 1 ELSE 0)

\* Every call returns, whatever the slave and the line do.
CallReturns == \A t \in Threads : (pc[t] # "idle") ~> (pc[t] = "idle")

\* TempTool.h:15, "Read temperature from sensor.": the value a thread gets is
\* that of the register it asked for.
ReadsOwnRegister == \A t \in Threads : reading[t].asked = reading[t].got

-----------------------------------------------------------------------------
(***************************************************************************)
(* The promise of module CommandChannel, kept.  A command may take effect  *)
(* from the call on until the slave has served or missed its request.      *)
(***************************************************************************)
Writing(t) == pc[t] \in {"write_send", "write_receive"}

Command(r) == [by |-> r.by, of |-> r.of, id |-> r.id]

Channel == INSTANCE CommandChannel WITH
  Callers <- Threads, Ids <- 1..MaxCalls, Honest <- CheckEcho,
  last    <- id,
  busy    <- [t \in Threads |-> IF Writing(t) THEN target[t] ELSE "none"],
  outcome <- [t \in Threads |-> IF pc[t] = "idle" /\ target[t] \in Values
                                THEN result[t] ELSE "none"],
  pending <- {Command(requests[i]) :
                i \in {j \in 1..Len(requests) : requests[j].kind = "write"}}
             \cup {[by |-> t, of |-> target[t], id |-> id[t]] :
                     t \in {u \in Threads : pc[u] = "write_send"}},
  applied <- [i \in 1..Len(applied) |-> Command(applied[i])]

\* The client implements the channel: whatever the threads, the line and the
\* slave do, a write takes effect at most once and in its turn, one reported
\* done has reached the motor, and one refused never will.
ImplementsChannel == Channel!Spec
=============================================================================
