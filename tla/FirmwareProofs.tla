--------------------------- MODULE FirmwareProofs ---------------------------
(***************************************************************************)
(* Proofs about Firmware, for any interval, any wrap of millis() longer    *)
(* than it, and any sensor.                                                *)
(***************************************************************************)
EXTENDS Firmware, TLAPS

\* What the proofs need of the types: the clocks and the counters are numbers
\* and the two flags have their values.
EncoderType ==
  /\ pc \in Steps
  /\ now \in Nat /\ lastRPMUpdate \in Nat /\ lastRPMTime \in Nat
  /\ pulseCount \in Int /\ count \in Int /\ taken \in Int /\ turned \in Int
  /\ interruptsOn \in BOOLEAN

(***************************************************************************)
(* Pulses.  They are safe because the section that reads and resets the    *)
(* counter is masked.                                                      *)
(***************************************************************************)
PulsesInv ==
  /\ EncoderType
  /\ interruptsOn <=> pc \notin {"read", "reset", "unmask"}
  /\ turned = taken + pulseCount
  /\ pc = "reset" => count = pulseCount

\* Every step keeps the pulses' invariant.
LEMMA PulsesStep == PulsesInv /\ [Next]_vars => PulsesInv'
<1> SUFFICES ASSUME PulsesInv, [Next]_vars PROVE PulsesInv'
  OBVIOUS
<1> USE FirmwareAssumption
    DEF FirmwareAssumption, PulsesInv, EncoderType, Steps, Step
<1>1. CASE ServeNothing
  BY <1>1 DEF ServeNothing, encoderVars, handlerVars
<1>2. ASSUME NEW v \in 0..4, ServeWriteMotor(v) PROVE PulsesInv'
  BY <1>2 DEF ServeWriteMotor, encoderVars
<1>3. CASE PublishTemperature
  BY <1>3 DEF PublishTemperature, encoderVars
<1>4. CASE RpmDue
  BY <1>4 DEF RpmDue, encoderVars, handlerVars
<1>5. CASE GetRpmTime
  BY <1>5 DEF GetRpmTime, handlerVars
<1>6. CASE GetRpmMask
  BY <1>6 DEF GetRpmMask, handlerVars
<1>7. CASE GetRpmRead
  BY <1>7 DEF GetRpmRead, handlerVars
<1>8. CASE GetRpmReset
  BY <1>8 DEF GetRpmReset, handlerVars
<1>9. CASE GetRpmUnmask
  BY <1>9 DEF GetRpmUnmask, handlerVars
<1>10. CASE PublishRpm
  BY <1>10 DEF PublishRpm, encoderVars
<1>11. CASE StampUpdate
  BY <1>11 DEF StampUpdate, encoderVars
<1>12. CASE HandleInterrupt
  BY <1>12 DEF HandleInterrupt, handlerVars
<1>13. CASE Tick
  BY <1>13 DEF Tick, encoderVars, handlerVars
<1>14. CASE UNCHANGED vars
  BY <1>14 DEF vars, encoderVars, handlerVars
<1> QED
  BY <1>1, <1>2, <1>3, <1>4, <1>5, <1>6, <1>7, <1>8, <1>9, <1>10, <1>11,
     <1>12, <1>13, <1>14 DEF Next

\* The invariant holds always.
LEMMA PulsesInvariant == Spec => []PulsesInv
<1>1. Init => PulsesInv
  BY DEF Init, PulsesInv, EncoderType, Steps
<1> QED BY <1>1, PulsesStep, PTL DEF Spec

\* No pulse is lost or counted twice, whenever the interrupt comes.
THEOREM PulsesAreConserved == Spec => []PulsesConserved
<1>1. PulsesInv => PulsesConserved
  BY DEF PulsesInv, PulsesConserved
<1> QED BY <1>1, PulsesInvariant, PTL

(***************************************************************************)
(* The clocks.                                                             *)
(***************************************************************************)
\* A difference that is less than the wrap is not changed by it.
LEMMA SmallDifference ==
  ASSUME NEW d \in Nat, NEW w \in Nat \ {0}
  PROVE  /\ d < w => d % w = d
         /\ d % w \in Nat
OBVIOUS

\* The clock of getRPM is never ahead of the time nor a whole wrap behind it,
\* and the clock of task() is not behind it, except from the moment getRPM
\* takes the pulses until task() sets its own.
ClocksInv ==
  /\ lastRPMTime <= now /\ now - lastRPMTime < Wrap
  /\ lastRPMUpdate <= now
  /\ pc \in {"serve", "sensor", "due", "time"} => lastRPMTime <= lastRPMUpdate
  /\ pc = "time" => now - lastRPMUpdate >= Interval
  /\ pc = "publish" => rpm = RpmOf(count)

\* Every step keeps the clocks' invariant.
LEMMA ClocksStep == PulsesInv /\ ClocksInv /\ [Next]_vars => ClocksInv'
<1> SUFFICES ASSUME PulsesInv, ClocksInv, [Next]_vars PROVE ClocksInv'
  OBVIOUS
<1> USE FirmwareAssumption
    DEF FirmwareAssumption, PulsesInv, EncoderType, ClocksInv, Steps, Step
<1>1. CASE ServeNothing
  BY <1>1 DEF ServeNothing, encoderVars, handlerVars
<1>2. ASSUME NEW v \in 0..4, ServeWriteMotor(v) PROVE ClocksInv'
  BY <1>2 DEF ServeWriteMotor, encoderVars
<1>3. CASE PublishTemperature
  BY <1>3 DEF PublishTemperature, encoderVars
<1>4. CASE RpmDue
  <2>1. pc = "due" /\ Since(lastRPMUpdate) = now - lastRPMUpdate
    <3>1. pc = "due"
      BY <1>4 DEF RpmDue
    <3>2. now - lastRPMUpdate \in Nat /\ now - lastRPMUpdate < Wrap
      BY <3>1
    <3> QED BY <3>1, <3>2, SmallDifference DEF Since
  <2> QED BY <1>4, <2>1 DEF RpmDue, encoderVars, handlerVars
<1>5. CASE GetRpmTime
  <2>1. pc = "time" /\ Since(lastRPMTime) >= Interval
    <3>1. pc = "time"
      BY <1>5 DEF GetRpmTime
    <3>2. /\ now - lastRPMTime \in Nat /\ now - lastRPMTime < Wrap
          /\ now - lastRPMTime >= Interval
      BY <3>1
    <3> QED BY <3>1, <3>2, SmallDifference DEF Since
  <2> QED BY <1>5, <2>1 DEF GetRpmTime, handlerVars
<1>6. CASE GetRpmMask
  BY <1>6 DEF GetRpmMask, handlerVars
<1>7. CASE GetRpmRead
  BY <1>7 DEF GetRpmRead, handlerVars
<1>8. CASE GetRpmReset
  BY <1>8 DEF GetRpmReset, handlerVars
<1>9. CASE GetRpmUnmask
  <2>1. RpmOf(count)' = RpmOf(count)
    BY <1>9 DEF GetRpmUnmask, RpmOf
  <2> QED BY <1>9, <2>1 DEF GetRpmUnmask, handlerVars
<1>10. CASE PublishRpm
  BY <1>10 DEF PublishRpm, encoderVars
<1>11. CASE StampUpdate
  BY <1>11 DEF StampUpdate, encoderVars
<1>12. CASE HandleInterrupt
  <2>1. RpmOf(count)' = RpmOf(count)
    BY <1>12 DEF HandleInterrupt, RpmOf
  <2> QED BY <1>12, <2>1 DEF HandleInterrupt, handlerVars
<1>13. CASE Tick
  <2>1. RpmOf(count)' = RpmOf(count)
    BY <1>13 DEF Tick, encoderVars, RpmOf
  <2> QED BY <1>13, <2>1 DEF Tick, encoderVars, handlerVars
<1>14. CASE UNCHANGED vars
  <2>1. RpmOf(count)' = RpmOf(count)
    BY <1>14 DEF vars, encoderVars, RpmOf
  <2> QED BY <1>14, <2>1 DEF vars, encoderVars, handlerVars
<1> QED
  BY <1>1, <1>2, <1>3, <1>4, <1>5, <1>6, <1>7, <1>8, <1>9, <1>10, <1>11,
     <1>12, <1>13, <1>14 DEF Next

\* getRPM is never called before its interval is over, and -1 is never
\* published, wherever millis() wraps.
THEOREM RpmNeverEarly == Spec => []GetRpmNeverEarly
<1>1. Init => ClocksInv
  BY FirmwareAssumption DEF FirmwareAssumption, Init, ClocksInv
<1>2. PulsesInv /\ ClocksInv => GetRpmNeverEarly
  <2> SUFFICES ASSUME PulsesInv, ClocksInv, pc = "time"
               PROVE  Since(lastRPMTime) >= Interval
    BY DEF GetRpmNeverEarly, ClocksInv
  <2>1. /\ now - lastRPMTime \in Nat /\ now - lastRPMTime < Wrap
        /\ now - lastRPMTime >= Interval
    BY FirmwareAssumption
       DEF FirmwareAssumption, PulsesInv, EncoderType, ClocksInv
  <2> QED BY <2>1, SmallDifference, FirmwareAssumption
             DEF FirmwareAssumption, Since
<1> QED BY <1>1, <1>2, ClocksStep, PulsesInvariant, PTL DEF Spec
(***************************************************************************)
(* Types.                                                                  *)
(***************************************************************************)
\* The values written to the motor's register fit in it.
LEMMA WrittenType == ASSUME NEW v \in 0..4 PROVE v \in Uint16
BY DEF Uint16

\* What the cast to uint16_t yields is a register's value.
LEMMA CastType == ASSUME NEW x \in Int PROVE Cast(x) \subseteq Uint16
<1>1. x % 65536 \in Uint16
  <2>1. x % 65536 \in 0..65535
    OBVIOUS
  <2> QED BY <2>1 DEF Uint16
<1>2. 0 \in Uint16
  BY DEF Uint16
<1> QED BY <1>1, <1>2 DEF Cast

\* The RPM is an integer.
LEMMA RpmType == ASSUME NEW n \in Int PROVE RpmOf(n) \in Int
<1> DEFINE d == PulsesPerRev * 2 * Interval
<1>1. d \in Nat \ {0}
  BY FirmwareAssumption DEF FirmwareAssumption
<1>2. ASSUME NEW m \in Int PROVE m \div d \in Int
  BY <1>1, SMT
<1>3. n * 60000 \in Int /\ (-n) * 60000 \in Int
  OBVIOUS
<1>4. (n * 60000) \div d \in Int /\ -(((-n) * 60000) \div d) \in Int
  <2> HIDE DEF d
  <2>1. (n * 60000) \div d \in Int /\ ((-n) * 60000) \div d \in Int
    BY <1>2, <1>3
  <2> QED BY <2>1
<1>5. RpmOf(n) = IF n < 0 THEN -(((-n) * 60000) \div d) ELSE (n * 60000) \div d
  BY DEF RpmOf
<1> HIDE DEF d
<1> QED BY <1>4, <1>5

\* Every step keeps the types.
LEMMA TypeStep == TypeOK /\ [Next]_vars => TypeOK'
<1> SUFFICES ASSUME TypeOK, [Next]_vars PROVE TypeOK'
  OBVIOUS
<1> USE DEF TypeOK, Steps, Step
<1>1. CASE ServeNothing
  BY <1>1 DEF ServeNothing, encoderVars, handlerVars
<1>2. ASSUME NEW v \in 0..4, ServeWriteMotor(v) PROVE TypeOK'
  <2>1. v \in Uint16
    BY WrittenType
  <2>2. hreg' \in [temp : Uint16, motor : Uint16, rpm : Uint16]
    BY <1>2, <2>1 DEF ServeWriteMotor
  <2>3. pins' \in [running : BOOLEAN, forward : BOOLEAN]
    <3>1. CASE hreg.motor \in {0, 1}
      BY <1>2, <3>1 DEF ServeWriteMotor
    <3>2. CASE hreg.motor \in {2, 3}
      BY <1>2, <3>2 DEF ServeWriteMotor
    <3>3. CASE hreg.motor \notin {0, 1, 2, 3}
      BY <1>2, <3>3 DEF ServeWriteMotor
    <3> QED BY <3>1, <3>2, <3>3
  <2> QED BY <1>2, <2>2, <2>3 DEF ServeWriteMotor, encoderVars
<1>3. CASE PublishTemperature
  <2>1. CASE UNCHANGED <<lastTemp, hreg>>
    BY <1>3, <2>1 DEF PublishTemperature, encoderVars
  <2>2. ASSUME NEW t \in Temps, NEW r \in Cast(10 * t),
               lastTemp' = t, hreg' = [hreg EXCEPT !.temp = r]
        PROVE  TypeOK'
    <3>1. r \in Uint16
      BY FirmwareAssumption, CastType DEF FirmwareAssumption
    <3> QED BY <1>3, <2>2, <3>1 DEF PublishTemperature, encoderVars
  <2> QED BY <1>3, <2>1, <2>2 DEF PublishTemperature
<1>4. CASE RpmDue
  BY <1>4 DEF RpmDue, encoderVars, handlerVars
<1>5. CASE GetRpmTime
  BY <1>5 DEF GetRpmTime, handlerVars
<1>6. CASE GetRpmMask
  BY <1>6 DEF GetRpmMask, handlerVars
<1>7. CASE GetRpmRead
  BY <1>7 DEF GetRpmRead, handlerVars
<1>8. CASE GetRpmReset
  BY <1>8 DEF GetRpmReset, handlerVars
<1>9. CASE GetRpmUnmask
  BY <1>9, RpmType DEF GetRpmUnmask, handlerVars
<1>10. CASE PublishRpm
  <2>1. PICK r \in Cast(rpm) : hreg' = [hreg EXCEPT !.rpm = r]
    BY <1>10 DEF PublishRpm
  <2>2. r \in Uint16
    BY CastType
  <2> QED BY <1>10, <2>1, <2>2 DEF PublishRpm, encoderVars
<1>11. CASE StampUpdate
  BY <1>11 DEF StampUpdate, encoderVars
<1>12. CASE HandleInterrupt
  BY <1>12 DEF HandleInterrupt, handlerVars
<1>13. CASE Tick
  BY <1>13 DEF Tick, encoderVars, handlerVars
<1>14. CASE UNCHANGED vars
  BY <1>14 DEF vars, encoderVars, handlerVars
<1> QED
  BY <1>1, <1>2, <1>3, <1>4, <1>5, <1>6, <1>7, <1>8, <1>9, <1>10, <1>11,
     <1>12, <1>13, <1>14 DEF Next

\* Every variable keeps to its range; no register leaves its 16 bits, whatever
\* the sensor and the encoder yield.
THEOREM TypeCorrect == Spec => []TypeOK
<1>1. Init => TypeOK
  BY DEF Init, TypeOK, Steps, Uint16
<1> QED BY <1>1, TypeStep, PTL DEF Spec

(***************************************************************************)
(* Readings.  The casts are exact, or land in the upper half of a          *)
(* register, while a reading is no lower than -32768 and no higher than    *)
(* 65535; further out a frost could wrap to a warmth.                      *)
(***************************************************************************)
\* What a DHT22 can say: 15 bits of tenths, and a sign.
SensorInRange == \A t \in Temps : -3276 <= t /\ t <= 3276

\* The shaft turns no faster than the cast can tell.
RpmInRange == -32768 <= rpm /\ rpm <= 65535

LEMMA ModOfNegative ==
  ASSUME NEW w \in Nat \ {0}, NEW x \in Int, -w <= x, x < 0
  PROVE  x % w = x + w
OBVIOUS

LEMMA CastIsExact ==
  ASSUME NEW x \in Int, -32768 <= x, x <= 65535, NEW r \in Cast(x)
  PROVE  r = x \/ ~(0 < r /\ r < 32768)
<1>1. CASE x \in Uint16
  BY <1>1 DEF Cast
<1>2. CASE x \notin Uint16
  <2>1. x < 0
    BY <1>2 DEF Uint16
  <2>2. x % 65536 = x + 65536
    BY <2>1, ModOfNegative
  <2> QED BY <1>2, <2>1, <2>2 DEF Cast
<1> QED BY <1>1, <1>2

\* The two readings, each with the register that tells it.
TempTold ==
  0 < hreg.temp /\ hreg.temp < 32768
    => lastTemp # NaN /\ hreg.temp = 10 * lastTemp

RpmTold ==
  0 < hreg.rpm /\ hreg.rpm < 32768 /\ pc \in {"serve", "sensor", "due", "stamp"}
    => hreg.rpm = rpm

LEMMA ReadingsAre == RegistersTellReadings <=> TempTold /\ RpmTold
BY DEF RegistersTellReadings, TempTold, RpmTold

\* Who writes a register and the reading behind it.
LEMMA ReadingsMove ==
  ASSUME TypeOK, [Next]_vars
  PROVE  /\ \/ PublishTemperature
            \/ hreg'.temp = hreg.temp /\ lastTemp' = lastTemp
         /\ \/ PublishRpm
            \/ pc' \in {"mask", "read", "reset", "unmask", "publish", "time"}
            \/ /\ hreg'.rpm = hreg.rpm /\ rpm' = rpm
               /\ pc' \in {"serve", "sensor", "due", "stamp"}
                    => pc \in {"serve", "sensor", "due", "stamp"}
<1> DEFINE Registers == [temp : Uint16, motor : Uint16, rpm : Uint16]
<1>1. hreg \in Registers
  BY DEF TypeOK
<1>2. ASSUME NEW v \in 0..4, ServeWriteMotor(v)
      PROVE  /\ hreg'.temp = hreg.temp /\ hreg'.rpm = hreg.rpm
             /\ lastTemp' = lastTemp /\ rpm' = rpm
             /\ pc = "serve" /\ pc' = "sensor"
  <2>1. hreg' = [hreg EXCEPT !.motor = v]
    BY <1>2 DEF ServeWriteMotor
  <2>2. hreg'.temp = hreg.temp /\ hreg'.rpm = hreg.rpm
    BY <1>1, <2>1
  <2>3. lastTemp' = lastTemp /\ rpm' = rpm /\ pc = "serve" /\ pc' = "sensor"
    BY <1>2 DEF ServeWriteMotor, Step, encoderVars
  <2> QED BY <2>2, <2>3
<1>3. CASE PublishTemperature
  <2>1. /\ \/ hreg' = hreg
           \/ \E r \in Uint16 : hreg' = [hreg EXCEPT !.temp = r]
        /\ rpm' = rpm /\ pc = "sensor"
    <3>1. ASSUME NEW t \in Temps, NEW r \in Cast(10 * t) PROVE r \in Uint16
      BY <3>1, FirmwareAssumption, CastType DEF FirmwareAssumption
    <3> QED BY <1>3, <3>1 DEF PublishTemperature, Step, encoderVars
  <2>2. hreg'.rpm = hreg.rpm
    BY <1>1, <2>1
  <2> QED BY <1>3, <2>1, <2>2
<1>4. CASE ServeNothing \/ RpmDue \/ StampUpdate
  BY <1>4 DEF ServeNothing, RpmDue, StampUpdate, Step, encoderVars, handlerVars
<1>5. CASE GetRpmTime \/ GetRpmMask \/ GetRpmRead \/ GetRpmReset \/ GetRpmUnmask
  <2>1. UNCHANGED handlerVars
        /\ pc' \in {"mask", "read", "reset", "unmask", "publish"}
    BY <1>5 DEF GetRpmTime, GetRpmMask, GetRpmRead, GetRpmReset, GetRpmUnmask,
                Step
  <2> QED BY <2>1 DEF handlerVars
<1>6. CASE PublishRpm
  <2>1. PICK r \in Cast(rpm) : hreg' = [hreg EXCEPT !.rpm = r]
    BY <1>6 DEF PublishRpm
  <2>2. hreg'.temp = hreg.temp
    BY <1>1, <2>1
  <2> QED BY <1>6, <2>2 DEF PublishRpm
<1>7. CASE HandleInterrupt \/ Tick \/ UNCHANGED vars
  BY <1>7 DEF HandleInterrupt, Tick, vars, encoderVars, handlerVars
<1> QED BY <1>2, <1>3, <1>4, <1>5, <1>6, <1>7 DEF Next

LEMMA ReadingsStep ==
  ASSUME SensorInRange, RpmInRange, TypeOK, RegistersTellReadings, [Next]_vars
  PROVE  RegistersTellReadings'
<1>1. hreg \in [temp : Uint16, motor : Uint16, rpm : Uint16] /\ rpm \in Int
  BY DEF TypeOK
<1>2. TempTold'
  <2>1. CASE hreg'.temp = hreg.temp /\ lastTemp' = lastTemp
    BY <2>1, ReadingsAre DEF TempTold
  <2>2. CASE PublishTemperature
    <3>1. CASE UNCHANGED <<lastTemp, hreg>>
      BY <2>1, <3>1
    <3>2. ASSUME NEW t \in Temps, NEW r \in Cast(10 * t),
                 lastTemp' = t, hreg' = [hreg EXCEPT !.temp = r]
          PROVE  TempTold'
      <4>1. t \in Int /\ -3276 <= t /\ t <= 3276 /\ t # NaN
        BY FirmwareAssumption DEF FirmwareAssumption, SensorInRange
      <4>2. 10 * t \in Int /\ -32768 <= 10 * t /\ 10 * t <= 65535
        BY <4>1
      <4>3. r = 10 * t \/ ~(0 < r /\ r < 32768)
        BY <4>2, CastIsExact
      <4>4. hreg'.temp = r
        BY <1>1, <3>2
      <4> QED BY <3>2, <4>1, <4>3, <4>4 DEF TempTold
    <3> QED BY <2>2, <3>1, <3>2 DEF PublishTemperature
  <2> QED BY <2>1, <2>2, ReadingsMove
<1>3. RpmTold'
  <2>1. CASE PublishRpm
    <3>1. PICK r \in Cast(rpm) : hreg' = [hreg EXCEPT !.rpm = r]
      BY <2>1 DEF PublishRpm
    <3>2. r = rpm \/ ~(0 < r /\ r < 32768)
      BY <1>1, CastIsExact DEF RpmInRange
    <3>3. hreg'.rpm = r /\ rpm' = rpm
      BY <1>1, <2>1, <3>1 DEF PublishRpm, encoderVars
    <3> QED BY <3>2, <3>3 DEF RpmTold
  <2>2. CASE pc' \in {"mask", "read", "reset", "unmask", "publish", "time"}
    BY <2>2 DEF RpmTold
  <2>3. CASE /\ hreg'.rpm = hreg.rpm /\ rpm' = rpm
             /\ pc' \in {"serve", "sensor", "due", "stamp"}
                  => pc \in {"serve", "sensor", "due", "stamp"}
    BY <2>3, ReadingsAre DEF RpmTold
  <2> QED BY <2>1, <2>2, <2>3, ReadingsMove
<1> QED BY <1>2, <1>3 DEF RegistersTellReadings, TempTold, RpmTold

\* With a DHT22, and as long as the speed fits in the cast, a register that is
\* neither zero nor in the upper half of its range tells the last reading.
THEOREM RegistersAreReadings ==
  ASSUME SensorInRange
  PROVE  Spec /\ []RpmInRange => []RegistersTellReadings
<1>1. Init => RegistersTellReadings
  BY DEF Init, RegistersTellReadings
<1>2. TypeOK /\ RpmInRange /\ RegistersTellReadings /\ [Next]_vars
        => RegistersTellReadings'
  BY ReadingsStep
<1> QED BY <1>1, <1>2, TypeCorrect, PTL DEF Spec
=============================================================================
