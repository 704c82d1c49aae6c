------------------------------ MODULE Firmware ------------------------------
(***************************************************************************)
(* The microcontroller (Arduino/SIMOP): loop() calls ModbusHandler::task   *)
(* over and over.  A pass serves a Modbus request, reads the DHT sensor    *)
(* and, once per interval, takes the encoder's pulses; the encoder's       *)
(* interrupt routine counts them meanwhile.  Time passes between any two   *)
(* steps; millis() is now modulo Wrap.                                     *)
(*                                                                         *)
(* The Modbus library is external: for a register with an ON_SET callback  *)
(* it calls the callback with the new value and stores what it returns, so *)
(* that reg->value is the old value in the callback.                       *)
(***************************************************************************)
EXTENDS Integers

CONSTANTS
  Interval,  \* milliseconds between two takings, 1000 in both classes
  Wrap,      \* what unsigned long arithmetic on millis() wraps at, 2^32
  PulsesPerRev, \* the encoder's pulses per revolution, 100
  Temps,     \* readings of the temperature
  NaN,       \* what a failed reading returns
  MaxTime,   \* bound: milliseconds modelled
  MaxPulses  \* bound: interrupts modelled

ASSUME FirmwareAssumption ==
  /\ Interval \in Nat \ {0}
  /\ Wrap \in Nat /\ Wrap > Interval
  /\ PulsesPerRev \in Nat \ {0}
  /\ Temps \subseteq Int /\ NaN \notin Temps
  /\ MaxTime \in Nat /\ MaxPulses \in Nat

VARIABLES
  pc,            \* the step of the pass
  now,           \* milliseconds since the start
  hreg,          \* the holding registers
  lastTemp,      \* the last temperature published
  lastRPMUpdate, \* when task() last published the RPM
  lastRPMTime,   \* when Encoder::getRPM last took the pulses
  pulseCount,    \* pulses counted since
  count,         \* the pulses getRPM has read
  rpm,           \* what getRPM returns, without its fraction
  interruptsOn,  \* noInterrupts() and interrupts()
  pins,          \* the motor's pins: running, and forward
  turned,        \* all the pulses there have been, backward ones negative
  taken,         \* all the pulses getRPM has taken
  edges          \* how many interrupts there have been

encoderVars == <<lastRPMTime, pulseCount, count, rpm, interruptsOn, taken>>
handlerVars == <<hreg, lastTemp, lastRPMUpdate, pins>>
vars == <<pc, now, encoderVars, handlerVars, turned, edges>>

Uint16 == 0..65535

\* (uint16_t) of a float: out of range, the result is undefined; builds
\* saturate or wrap.
Cast(x) == IF x \in Uint16 THEN {x} ELSE {0, x % 65536}

\* The RPM of n pulses, truncated towards zero as the cast does; the factor 2
\* is the default of quadratureFactor.
RpmOf(n) ==
  LET magnitude(k) == (k * 60000) \div (PulsesPerRev * 2 * Interval)
  IN  IF n < 0 THEN -magnitude(-n) ELSE magnitude(n)

\* The unsigned difference millis() - t.
Since(t) == (now - t) % Wrap

-----------------------------------------------------------------------------
(***************************************************************************)
(* setup(): both motor pins are HIGH, which is off and reverse.            *)
(***************************************************************************)
Init ==
  /\ pc = "serve" /\ now = 0
  /\ hreg = [temp |-> 0, motor |-> 0, rpm |-> 0]
  /\ lastTemp = NaN /\ lastRPMUpdate = 0
  /\ lastRPMTime = 0 /\ pulseCount = 0 /\ count = 0 /\ rpm = 0
  /\ interruptsOn = TRUE
  /\ pins = [running |-> FALSE, forward |-> FALSE]
  /\ turned = 0 /\ taken = 0 /\ edges = 0

Step(from, to) ==
  /\ pc = from /\ pc' = to
  /\ UNCHANGED <<now, turned, edges>>

(***************************************************************************)
(* mb->task(): nothing to serve (or a read), or a write of the motor's     *)
(* register.                                                               *)
(***************************************************************************)
ServeNothing ==
  /\ Step("serve", "sensor")
  /\ UNCHANGED <<encoderVars, handlerVars>>

\* cbWriteMotor looks at reg->value and returns its second argument.
ServeWriteMotor(v) ==
  /\ Step("serve", "sensor")
  /\ hreg' = [hreg EXCEPT !.motor = v]
  /\ pins' = CASE hreg.motor \in {0, 1} ->
                   [pins EXCEPT !.running = (hreg.motor = 1)]
               [] hreg.motor \in {2, 3} ->
                   [pins EXCEPT !.forward = (hreg.motor = 3)]
               [] OTHER -> pins
  /\ UNCHANGED <<encoderVars, lastTemp, lastRPMUpdate>>

\* The humidity is treated as the temperature is, and left out.
PublishTemperature ==
  /\ Step("sensor", "due")
  /\ \/ UNCHANGED <<lastTemp, hreg>>
     \/ \E t \in Temps : \E r \in Cast(10 * t) :
          /\ t # lastTemp
          /\ lastTemp' = t
          /\ hreg' = [hreg EXCEPT !.temp = r]
  /\ UNCHANGED <<encoderVars, lastRPMUpdate, pins>>

RpmDue ==
  /\ Step("due", IF Since(lastRPMUpdate) >= Interval THEN "time" ELSE "serve")
  /\ UNCHANGED <<encoderVars, handlerVars>>

-----------------------------------------------------------------------------
(***************************************************************************)
(* Encoder::getRPM, then the end of task().                                *)
(***************************************************************************)
GetRpmTime ==
  /\ IF Since(lastRPMTime) >= Interval
     THEN /\ Step("time", "mask")
          /\ lastRPMTime' = now
          /\ UNCHANGED rpm
     ELSE /\ Step("time", "publish")
          /\ rpm' = -1
          /\ UNCHANGED lastRPMTime
  /\ UNCHANGED <<pulseCount, count, interruptsOn, taken, handlerVars>>

\* Mutant: the pulses are read with interrupts on.
GetRpmUnmasked ==
  /\ Step("mask", "read")
  /\ UNCHANGED <<encoderVars, handlerVars>>

GetRpmMask ==
  /\ Step("mask", "read")
  /\ interruptsOn' = FALSE
  /\ UNCHANGED <<lastRPMTime, pulseCount, count, rpm, taken, handlerVars>>

GetRpmRead ==
  /\ Step("read", "reset")
  /\ count' = pulseCount
  /\ UNCHANGED <<lastRPMTime, pulseCount, rpm, interruptsOn, taken,
                 handlerVars>>

GetRpmReset ==
  /\ Step("reset", "unmask")
  /\ pulseCount' = 0
  /\ taken' = taken + count
  /\ UNCHANGED <<lastRPMTime, count, rpm, interruptsOn, handlerVars>>

GetRpmUnmask ==
  /\ Step("unmask", "publish")
  /\ interruptsOn' = TRUE
  /\ rpm' = RpmOf(count)
  /\ UNCHANGED <<lastRPMTime, pulseCount, count, taken, handlerVars>>

\* Mutant: the value is stored as it is.
PublishRpmUncast ==
  /\ Step("publish", "stamp")
  /\ hreg' = [hreg EXCEPT !.rpm = rpm]
  /\ UNCHANGED <<encoderVars, lastTemp, lastRPMUpdate, pins>>

\* Mutant: the sign is dropped before the cast.
PublishRpmMagnitude ==
  /\ Step("publish", "stamp")
  /\ hreg' = [hreg EXCEPT !.rpm = IF rpm < 0 THEN -rpm ELSE rpm]
  /\ UNCHANGED <<encoderVars, lastTemp, lastRPMUpdate, pins>>

PublishRpm ==
  /\ Step("publish", "stamp")
  /\ \E r \in Cast(rpm) : hreg' = [hreg EXCEPT !.rpm = r]
  /\ UNCHANGED <<encoderVars, lastTemp, lastRPMUpdate, pins>>

\* Mutant: the next taking is due an interval after the last one was.
StampUpdateDue ==
  /\ Step("stamp", "serve")
  /\ lastRPMUpdate' = lastRPMUpdate + Interval
  /\ UNCHANGED <<encoderVars, hreg, lastTemp, pins>>

StampUpdate ==
  /\ Step("stamp", "serve")
  /\ lastRPMUpdate' = now
  /\ UNCHANGED <<encoderVars, hreg, lastTemp, pins>>

-----------------------------------------------------------------------------
\* Encoder::isr, when interrupts are on: one pulse, forward or backward.
HandleInterrupt ==
  /\ interruptsOn /\ edges < MaxPulses
  /\ edges' = edges + 1
  /\ \E d \in {-1, 1} : pulseCount' = pulseCount + d /\ turned' = turned + d
  /\ UNCHANGED <<pc, now, lastRPMTime, count, rpm, interruptsOn, taken,
                 handlerVars>>

\* A pass does not last so long that millis() catches up with lastRPMTime.
Tick ==
  /\ now < MaxTime
  /\ now + 1 - lastRPMTime < Wrap
  /\ now' = now + 1
  /\ UNCHANGED <<pc, encoderVars, handlerVars, turned, edges>>

Next ==
  \/ ServeNothing
  \/ \E v \in 0..4 : ServeWriteMotor(v)
  \/ PublishTemperature \/ RpmDue
  \/ GetRpmTime \/ GetRpmMask \/ GetRpmRead \/ GetRpmReset \/ GetRpmUnmask
  \/ PublishRpm \/ StampUpdate
  \/ HandleInterrupt \/ Tick

Spec == Init /\ [][Next]_vars

-----------------------------------------------------------------------------
Steps == {"serve", "sensor", "due", "time", "mask", "read", "reset", "unmask",
          "publish", "stamp"}

\* Every variable stays within its range; the registers are 16 bits wide.
TypeOK ==
  /\ pc \in Steps
  /\ now \in Nat
  /\ hreg \in [temp : Uint16, motor : Uint16, rpm : Uint16]
  /\ lastTemp \in Temps \cup {NaN}
  /\ lastRPMUpdate \in Nat /\ lastRPMTime \in Nat
  /\ pulseCount \in Int /\ count \in Int /\ rpm \in Int
  /\ interruptsOn \in BOOLEAN
  /\ pins \in [running : BOOLEAN, forward : BOOLEAN]
  /\ turned \in Int /\ taken \in Int /\ edges \in Nat

\* getRPM is never called too early, so its -1 is never published: task() and
\* getRPM each keep a clock of their own, and the one task() looks at is set
\* after the one getRPM looks at, also when millis() has wrapped between them.
GetRpmNeverEarly ==
  /\ pc = "time" => Since(lastRPMTime) >= Interval
  /\ pc = "publish" => rpm = RpmOf(count)

\* No pulse is lost or counted twice, whenever it comes: what getRPM has
\* taken and what pulseCount holds are all the pulses there have been.
PulsesConserved ==
  /\ pc # "reset" => turned = taken + pulseCount
  /\ pc = "reset" => turned = taken + pulseCount /\ count = pulseCount

\* ModbusHandler.cc:36,50, the cast of a reading below zero: a register whose
\* value is neither zero nor in the upper half of its range tells the last
\* reading exactly, so that a motor turning backward or a frost is never taken
\* for a forward speed or a warmth, whatever the build makes of the cast.
RegistersTellReadings ==
  /\ 0 < hreg.temp /\ hreg.temp < 32768
       => lastTemp # NaN /\ hreg.temp = 10 * lastTemp
  /\ 0 < hreg.rpm /\ hreg.rpm < 32768 /\ pc \in {"serve", "sensor", "due", "stamp"}
       => hreg.rpm = rpm

\* ModbusHandler.cc:66-68, "Motor set to: ON": the motor runs when its register
\* says 1 and stands when it says 0.
MotorFollowsRegister ==
  /\ hreg.motor = 1 => pins.running
  /\ hreg.motor = 0 => ~pins.running
=============================================================================
