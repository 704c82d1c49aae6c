------------------------ MODULE ModbusRTUMasterProofs ------------------------
(***************************************************************************)
(* Proofs about ModbusRTUMaster, for any number of calls and any size of   *)
(* the receive buffer, whether or not libmodbus compares the echo.         *)
(***************************************************************************)
EXTENDS ModbusRTUMaster, SequenceTheorems, TLAPS

(***************************************************************************)
(* Types, and the descriptors of the port.                                 *)
(***************************************************************************)
ReadSteps  == {"flush", "send", "receive", "close", "reconnect"}
WriteSteps == {"write_send", "write_receive"}

\* What a thread holds while it is in a call: the call's number, and a target
\* of the call's kind.
CallShape ==
  \A t \in Threads :
    /\ pc[t] # "idle" => id[t] \in 1..MaxCalls
    /\ pc[t] \in ReadSteps => target[t] \in Registers
    /\ pc[t] \in WriteSteps => target[t] \in Values

\* An object's descriptor is one it opened.  The object of the tools, which
\* has one thread, has no other.
Descriptors ==
  /\ \A c \in Contexts : open[c] => fds[c] >= 1
  /\ NoDescriptorLeak
  /\ pc["main"] = "reconnect" => ~open["ai"]

ClientInv ==
  /\ TypeOK
  /\ CallShape
  /\ Descriptors

Wire == Frames \cup {Text}

\* What is left of a sequence from which the oldest elements are taken.
LEMMA Remains ==
  ASSUME NEW S, NEW s \in Seq(S), NEW r,
         \/ r = s \/ r = <<>>
         \/ s # <<>> /\ r = Tail(s)
         \/ \E n \in 1..Len(s) : r = SubSeq(s, n + 1, Len(s))
  PROVE  /\ r \in Seq(S)
         /\ \A i \in 1..Len(r) : \E j \in 1..Len(s) : r[i] = s[j]
<1>0. CASE r = <<>>
  <2>1. r \in Seq(S) /\ Len(r) = 0
    BY <1>0, EmptySeq
  <2> QED BY <2>1
<1>1. CASE r = s
  BY <1>1
<1>2. CASE s # <<>> /\ r = Tail(s)
  <2>1. /\ r \in Seq(S) /\ Len(r) = Len(s) - 1 /\ Len(s) \in Nat
        /\ \A i \in 1..Len(r) : r[i] = s[i + 1]
    BY <1>2, HeadTailProperties
  <2> QED BY <2>1
<1>3. ASSUME NEW n \in 1..Len(s), r = SubSeq(s, n + 1, Len(s))
      PROVE  /\ r \in Seq(S)
             /\ \A i \in 1..Len(r) : \E j \in 1..Len(s) : r[i] = s[j]
  <2>1. Len(s) \in Nat /\ n + 1 \in Int /\ Len(s) \in Int
    OBVIOUS
  <2>2. \A i \in (n + 1)..Len(s) : s[i] \in S
    BY <2>1
  <2>3. /\ r \in Seq(S)
        /\ Len(r) = IF n + 1 <= Len(s) THEN Len(s) - (n + 1) + 1 ELSE 0
        /\ \A i \in 1..(Len(s) - (n + 1) + 1) : r[i] = s[(n + 1) + i - 1]
    BY <1>3, <2>1, <2>2, SubSeqProperties
  <2>4. \A i \in 1..Len(r) : /\ i \in 1..(Len(s) - (n + 1) + 1)
                             /\ (n + 1) + i - 1 \in 1..Len(s)
    BY <2>1, <2>3
  <2> QED BY <2>3, <2>4
<1> QED BY <1>0, <1>1, <1>2, <1>3

\* A thread only takes from the buffer.
LEMMA StepInput ==
  ASSUME input \in Seq(Wire), NEW t \in Threads, StepNext(t)
  PROVE  /\ input' \in Seq(Wire)
         /\ \A i \in 1..Len(input') : \E j \in 1..Len(input) :
              input'[i] = input[j]
<1>1. ASSUME NEW accepted, Lost(t, accepted)
      PROVE  \/ input' = input
             \/ \E n \in 1..Len(input) : input' = SubSeq(input, n + 1, Len(input))
  <2>1. CASE input' = input
    BY <2>1
  <2>2. CASE input # <<>> /\ \E n \in 1..(IF Head(input) = Text THEN Len(input) ELSE 1) :
                               input' = SubSeq(input, n + 1, Len(input))
    <3>1. Len(input) \in Nat /\ Len(input) >= 1
      BY <2>2
    <3> QED BY <2>2, <3>1
  <2> QED BY <1>1, <2>1, <2>2 DEF Lost
<1>2. \/ input' = input \/ input' = <<>>
      \/ input # <<>> /\ input' = Tail(input)
      \/ \E n \in 1..Len(input) : input' = SubSeq(input, n + 1, Len(input))
  BY <1>1 DEF StepNext, ReadFlush, FlushTo, ReadSend, ReadReceive, ReadFails,
    ReadGivesUp, ReadClose, ReadReconnect, WriteSend, WriteReceive, WriteFails,
    WriteGivesUp
<1> HIDE DEF Wire
<1> QED BY <1>2, Remains

\* What the line itself does to the buffer: frames of S come after the others,
\* or take the place of the oldest.
LEMMA ArrivesAtEnd ==
  ASSUME input \in Seq(Wire), NEW f \in Seq(Wire), Arrives(f)
  PROVE  /\ input' \in Seq(Wire)
         /\ \A i \in 1..Len(input') :
              \/ \E j \in 1..Len(input) : input'[i] = input[j]
              \/ \E j \in 1..Len(f) : input'[i] = f[j]
<1> HIDE DEF Wire
<1>1. CASE input' = input
  BY <1>1
<1>2. CASE input' = input \o f
  <2>1. /\ input' \in Seq(Wire) /\ Len(input') = Len(input) + Len(f)
        /\ Len(input) \in Nat /\ Len(f) \in Nat
        /\ \A i \in 1..Len(input') : input'[i] =
             IF i <= Len(input) THEN input[i] ELSE f[i - Len(input)]
    BY <1>2, ConcatProperties
  <2> QED BY <2>1
<1> QED BY <1>1, <1>2 DEF Arrives

LEMMA SplitInput ==
  ASSUME input \in Seq(Wire), SplitFrame
  PROVE  /\ input' \in Seq(Wire)
         /\ \A i \in 1..Len(input') :
              \/ \E j \in 1..Len(input) : input'[i] = input[j]
              \/ input'[i] = Text
<1>1. Text \in Wire
  BY DEF Wire
<1> HIDE DEF Wire
<1>2. input # <<>> /\ input' = <<Text>> \o Tail(input)
  BY DEF SplitFrame
<1>3. /\ Tail(input) \in Seq(Wire) /\ Len(Tail(input)) = Len(input) - 1
      /\ \A i \in 1..Len(Tail(input)) : Tail(input)[i] = input[i + 1]
      /\ Len(input) \in Nat /\ Len(input) >= 1
  BY <1>2, HeadTailProperties
<1>4. <<Text>> \in Seq(Wire) /\ Len(<<Text>>) = 1 /\ <<Text>>[1] = Text
  BY <1>1
<1>5. /\ input' \in Seq(Wire) /\ Len(input') = 1 + Len(Tail(input))
      /\ \A i \in 1..(1 + Len(Tail(input))) : input'[i] =
           IF i <= 1 THEN <<Text>>[i] ELSE Tail(input)[i - 1]
  BY <1>2, <1>3, <1>4, ConcatProperties
<1> QED BY <1>3, <1>4, <1>5

\* A request sent is one, and comes after the others.
LEMMA SendRequest ==
  ASSUME ClientInv, NEW t \in Threads,
         NEW kind \in {"read", "write"}, Send(t, kind),
         kind = "read" => pc[t] \in ReadSteps,
         kind = "write" => pc[t] \in WriteSteps
  PROVE  /\ requests' \in Seq(Requests)
         /\ Len(requests) \in Nat
         /\ Len(requests') = Len(requests) + 1
         /\ \A i \in 1..Len(requests) : requests'[i] = requests[i]
         /\ requests'[Len(requests) + 1] =
              [kind |-> kind, of |-> target[t], id |-> id[t], by |-> t]
<1> DEFINE r == [kind |-> kind, of |-> target[t], id |-> id[t], by |-> t]
<1>1. r \in Requests
  <2>1. id[t] \in 1..MaxCalls
    BY DEF ClientInv, CallShape, ReadSteps, WriteSteps
  <2>2. kind = "read" => target[t] \in Registers
    BY DEF ClientInv, CallShape
  <2>3. kind = "write" => target[t] \in Values
    BY DEF ClientInv, CallShape
  <2> QED BY <2>1, <2>2, <2>3 DEF Requests
<1>2. requests \in Seq(Requests) /\ requests' = Append(requests, r)
  BY DEF Send, ClientInv, TypeOK
<1> HIDE DEF r
<1>3. /\ requests' \in Seq(Requests) /\ Len(requests') = Len(requests) + 1
      /\ Len(requests) \in Nat
      /\ \A i \in 1..Len(requests) : requests'[i] = requests[i]
      /\ requests'[Len(requests) + 1] = r
  BY <1>1, <1>2
<1> QED BY <1>3 DEF r

\* The slave takes the oldest request.
LEMMA ServeRequest ==
  ASSUME TypeOK, requests # <<>>, requests' = Tail(requests)
  PROVE  /\ Head(requests) \in Requests
         /\ Head(requests) = requests[1]
         /\ requests' \in Seq(Requests)
         /\ Len(requests) \in Nat /\ Len(requests) >= 1
         /\ Len(requests') = Len(requests) - 1
         /\ \A i \in 1..Len(requests') : /\ requests'[i] = requests[i + 1]
                                         /\ i + 1 \in 1..Len(requests)
<1>1. requests \in Seq(Requests)
  BY DEF TypeOK
<1> HIDE DEF Requests
<1>2. /\ Head(requests) \in Requests /\ Tail(requests) \in Seq(Requests)
      /\ Len(Tail(requests)) = Len(requests) - 1
      /\ \A i \in 1..Len(Tail(requests)) : Tail(requests)[i] = requests[i + 1]
  BY <1>1, HeadTailProperties
<1> QED BY <1>1, <1>2

\* Every step keeps the types and the descriptors.
LEMMA ClientStep == ClientInv /\ [Next]_vars => ClientInv'
<1> SUFFICES ASSUME ClientInv, [Next]_vars PROVE ClientInv'
  OBVIOUS
<1> USE MasterAssumption DEF MasterAssumption
<1> DEFINE
      Objects == /\ open \in [Contexts -> BOOLEAN] /\ fds \in [Contexts -> Nat]
                 /\ Descriptors
      Calls   == /\ pc \in [Threads -> CallSteps]
                 /\ target \in [Threads -> Registers \cup Values \cup {"none"}]
                 /\ id \in [Threads -> 0..MaxCalls]
                 /\ result \in [Threads -> Results]
                 /\ alone \in [Threads -> BOOLEAN]
                 /\ calls \in 0..MaxCalls
                 /\ CallShape
      Read    == reading \in [Threads -> [asked : Registers \cup {"none"},
                                          got   : Registers \cup {"none"},
                                          alone : BOOLEAN]]
      Line    == /\ requests \in Seq(Requests)
                 /\ input \in Seq(Wire)
                 /\ applied \in Seq(Requests)
<1>1. Objects /\ Calls /\ Read /\ Line
  BY DEF ClientInv, TypeOK, Wire
<1>2. SUFFICES Objects' /\ Calls' /\ Read' /\ Line'
  BY DEF ClientInv, TypeOK, Wire
<1>3. ASSUME NEW t \in Threads, NEW step \in {"flush", "write_send"},
             NEW x \in Registers \cup Values, Begin(t, step, x),
             step = "flush" => x \in Registers,
             step = "write_send" => x \in Values
      PROVE  Objects' /\ Calls' /\ Read' /\ Line'
  <2>1. /\ calls' = calls + 1 /\ calls < MaxCalls
        /\ id' = [id EXCEPT ![t] = calls + 1]
        /\ pc' = [pc EXCEPT ![t] = step] /\ target' = [target EXCEPT ![t] = x]
        /\ alone' = [u \in Threads |-> FALSE]
        /\ UNCHANGED <<result, reading, open, fds, requests, input, applied>>
    BY <1>3 DEF Begin, BeginAs, portVars
  <2>2. Calls'
    BY <1>1, <1>3, <2>1 DEF CallShape, ReadSteps, WriteSteps, CallSteps
  <2>3. Objects'
    BY <1>1, <1>3, <2>1 DEF Descriptors, NoDescriptorLeak, CallSteps
  <2> QED BY <1>1, <2>1, <2>2, <2>3
<1>4. ASSUME NEW t \in Threads, CallNext(t)
      PROVE  Objects' /\ Calls' /\ Read' /\ Line'
  BY <1>3, <1>4 DEF CallNext, ReadSensorData, ReadRpm, WriteSingleRegister,
    Registers
<1>5. ASSUME NEW t \in Threads, StepNext(t)
      PROVE  Calls'
  <2> USE <1>1, <1>5
      DEF Step, Local, End, CallShape, ReadSteps, WriteSteps, CallSteps, Results
  <2>1. CASE ReadFlush(t)
    BY <2>1 DEF ReadFlush, FlushTo
  <2>2. CASE ReadSend(t)
    BY <2>2 DEF ReadSend
  <2>3. CASE ReadReceive(t)
    BY <2>3 DEF ReadReceive, Registers
  <2>4. CASE ReadFails(t)
    BY <2>4 DEF ReadFails, ReadGivesUp
  <2>5. CASE ReadClose(t)
    BY <2>5 DEF ReadClose
  <2>6. CASE ReadReconnect(t)
    BY <2>6 DEF ReadReconnect
  <2>7. CASE WriteSend(t)
    BY <2>7 DEF WriteSend
  <2>8. CASE WriteReceive(t)
    BY <2>8 DEF WriteReceive
  <2>9. CASE WriteFails(t)
    BY <2>9 DEF WriteFails, WriteGivesUp
  <2> QED BY <2>1, <2>2, <2>3, <2>4, <2>5, <2>6, <2>7, <2>8, <2>9 DEF StepNext
<1>6. ASSUME NEW t \in Threads, StepNext(t)
      PROVE  Objects'
  <2> USE DEF Step, Local, End, Descriptors, NoDescriptorLeak, CallSteps,
      Threads, Contexts, Ctx
  <2>1. CASE ReadClose(t)
    BY <1>1, <2>1 DEF ReadClose
  <2>2. CASE ReadReconnect(t)
    BY <1>1, <2>2 DEF ReadReconnect
  <2>3. CASE ~ReadClose(t) /\ ~ReadReconnect(t)
    <3>1. UNCHANGED portVars
      BY <1>6, <2>3 DEF StepNext, ReadFlush, FlushTo, ReadSend, ReadReceive,
        ReadFails, ReadGivesUp, WriteSend, WriteReceive, WriteFails,
        WriteGivesUp, Lost
    <3>2. \E to \in CallSteps \ {"reconnect"} : pc' = [pc EXCEPT ![t] = to]
      BY <1>6, <2>3 DEF StepNext, ReadFlush, FlushTo, ReadSend, ReadReceive,
        ReadFails, ReadGivesUp, WriteSend, WriteReceive, WriteFails,
        WriteGivesUp
    <3> QED BY <1>1, <3>1, <3>2 DEF portVars
  <2> QED BY <2>1, <2>2, <2>3
<1>7. ASSUME NEW t \in Threads, StepNext(t)
      PROVE  Read'
  <2>1. CASE ReadReceive(t)
    <3>1. /\ input # <<>> /\ Head(input).kind = "value"
          /\ reading' = [reading EXCEPT ![t] = [asked |-> target[t],
                                                got   |-> Head(input).of,
                                                alone |-> alone[t]]]
          /\ pc[t] = "receive"
      BY <2>1 DEF ReadReceive, Step, End
    <3>2. Head(input) \in Wire
      BY <1>1, <3>1
    <3>3. Head(input).of \in Registers
      BY <3>1, <3>2 DEF Wire, Frames, Text
    <3>4. target[t] \in Registers /\ alone[t] \in BOOLEAN
      BY <1>1, <3>1 DEF CallShape, ReadSteps
    <3> QED BY <1>1, <3>1, <3>3, <3>4
  <2>2. CASE ~ReadReceive(t)
    <3>1. UNCHANGED reading
      BY <1>7, <2>2 DEF StepNext, ReadFlush, FlushTo, ReadSend, ReadFails,
        ReadGivesUp, ReadClose, ReadReconnect, WriteSend, WriteReceive,
        WriteFails, WriteGivesUp, Local
    <3> QED BY <1>1, <3>1
  <2> QED BY <2>1, <2>2
<1>8. ASSUME NEW t \in Threads, StepNext(t)
      PROVE  Line'
  <2>1. UNCHANGED applied
    BY <1>8 DEF StepNext, ReadFlush, FlushTo, ReadSend, ReadReceive,
      ReadFails, ReadGivesUp, ReadClose, ReadReconnect, WriteSend,
      WriteReceive, WriteFails, WriteGivesUp, Local, End, Step
  <2>2. input' \in Seq(Wire)
    BY <1>1, <1>8, StepInput
  <2>3. \/ UNCHANGED requests
        \/ Send(t, "read") /\ pc[t] \in ReadSteps
        \/ Send(t, "write") /\ pc[t] \in WriteSteps
    BY <1>8 DEF StepNext, ReadFlush, FlushTo, ReadSend, ReadReceive,
      ReadFails, ReadGivesUp, ReadClose, ReadReconnect, WriteSend,
      WriteReceive, WriteFails, WriteGivesUp, Lost, Local, End, Step,
      ReadSteps, WriteSteps
  <2>4. requests' \in Seq(Requests)
    <3>1. CASE UNCHANGED requests
      BY <1>1, <3>1
    <3>2. CASE Send(t, "read") /\ pc[t] \in ReadSteps
      BY <3>2, SendRequest
    <3>3. CASE Send(t, "write") /\ pc[t] \in WriteSteps
      BY <3>3, SendRequest
    <3> QED BY <2>3, <3>1, <3>2, <3>3
  <2> QED BY <1>1, <2>1, <2>2, <2>4
<1>9. CASE LineNext
  <2>1. UNCHANGED <<callVars, portVars>>
    BY <1>9 DEF LineNext, SlaveAnswersRead, SlaveWrites, SlaveMisses,
      SlavePrints, SplitFrame
  <2>2. Objects' /\ Calls' /\ Read'
    BY <1>1, <2>1 DEF callVars, portVars, Descriptors, NoDescriptorLeak,
      CallShape
  <2>3. requests' \in Seq(Requests) /\ applied' \in Seq(Requests)
    <3>1. CASE SlaveWrites
      <4>1. requests # <<>> /\ requests' = Tail(requests)
            /\ applied' = Append(applied, Head(requests))
        BY <3>1 DEF SlaveWrites
      <4>2. Head(requests) \in Requests /\ requests' \in Seq(Requests)
        BY <4>1, ServeRequest DEF ClientInv
      <4> HIDE DEF Requests
      <4> QED BY <1>1, <4>1, <4>2
    <3>2. CASE SlaveAnswersRead \/ SlaveMisses
      BY <1>1, <3>2, ServeRequest DEF ClientInv, SlaveAnswersRead, SlaveMisses
    <3>3. CASE SlavePrints \/ SplitFrame
      BY <1>1, <3>3 DEF SlavePrints, SplitFrame
    <3> QED BY <1>9, <3>1, <3>2, <3>3 DEF LineNext
  <2>4. input' \in Seq(Wire)
    <3>1. CASE SlaveAnswersRead
      <4>1. Head(requests).kind = "read" /\ Head(requests) \in Requests
        BY <3>1, ServeRequest DEF SlaveAnswersRead, ClientInv
      <4>2. [kind |-> "value", of |-> Head(requests).of] \in Wire
        BY <4>1 DEF Requests, Wire, Frames
      <4>3. <<[kind |-> "value", of |-> Head(requests).of]>> \in Seq(Wire)
        BY <4>2
      <4> QED BY <1>1, <3>1, <4>3, ArrivesAtEnd DEF SlaveAnswersRead
    <3>2. CASE SlaveWrites
      <4>1. Head(requests).kind = "write" /\ Head(requests) \in Requests
        BY <3>2, ServeRequest DEF SlaveWrites, ClientInv
      <4>2. [kind |-> "echo", of |-> Head(requests).of] \in Wire /\ Text \in Wire
        BY <4>1 DEF Requests, Wire, Frames
      <4>3. <<Text, [kind |-> "echo", of |-> Head(requests).of]>> \in Seq(Wire)
        BY <4>2
      <4> QED BY <1>1, <3>2, <4>3, ArrivesAtEnd DEF SlaveWrites
    <3>3. CASE SlaveMisses
      BY <1>1, <3>3 DEF SlaveMisses
    <3>4. CASE SlavePrints
      <4>1. Text \in Wire /\ input' = Append(input, Text)
        BY <3>4 DEF SlavePrints, Wire
      <4> HIDE DEF Wire
      <4> QED BY <1>1, <4>1
    <3>5. CASE SplitFrame
      BY <1>1, <3>5, SplitInput
    <3> QED BY <1>9, <3>1, <3>2, <3>3, <3>4, <3>5 DEF LineNext
  <2> QED BY <2>2, <2>3, <2>4
<1>10. CASE UNCHANGED vars
  BY <1>1, <1>10 DEF vars, callVars, portVars, Descriptors, NoDescriptorLeak,
    CallShape
<1> QED BY <1>4, <1>5, <1>6, <1>7, <1>8, <1>9, <1>10 DEF Next

LEMMA ClientInvariant == Spec => []ClientInv
<1>1. Init => ClientInv
  <2> SUFFICES ASSUME Init PROVE ClientInv
    OBVIOUS
  <2> USE MasterAssumption DEF MasterAssumption, Init
  <2>1. /\ open \in [Contexts -> BOOLEAN] /\ fds \in [Contexts -> Nat]
        /\ Descriptors
    BY DEF Contexts, Descriptors, NoDescriptorLeak, Threads
  <2>2. /\ pc \in [Threads -> CallSteps]
        /\ target \in [Threads -> Registers \cup Values \cup {"none"}]
        /\ id \in [Threads -> 0..MaxCalls]
        /\ result \in [Threads -> Results]
        /\ alone \in [Threads -> BOOLEAN]
        /\ calls \in 0..MaxCalls
        /\ CallShape
    BY DEF CallSteps, Results, CallShape, ReadSteps, WriteSteps
  <2>3. reading \in [Threads -> [asked : Registers \cup {"none"},
                                 got   : Registers \cup {"none"},
                                 alone : BOOLEAN]]
    OBVIOUS
  <2>4. /\ requests \in Seq(Requests) /\ applied \in Seq(Requests)
        /\ input \in Seq(Frames \cup {Text})
    BY EmptySeq
  <2> QED BY <2>1, <2>2, <2>3, <2>4 DEF ClientInv, TypeOK
<1> QED BY <1>1, ClientStep, PTL DEF Spec

\* Every variable stays within its range.
THEOREM TypeCorrect == Spec => []TypeOK
<1>1. ClientInv => TypeOK
  BY DEF ClientInv
<1> QED BY <1>1, ClientInvariant, PTL

\* The tools' object holds the one descriptor it knows of, or none, however
\* often a read of it fails and reconnects.
THEOREM DescriptorIsClosed == Spec => []NoDescriptorLeak
<1>1. ClientInv => NoDescriptorLeak
  BY DEF ClientInv, Descriptors
<1> QED BY <1>1, ClientInvariant, PTL

\* What a step of a thread within its call does to the rest: no call is made,
\* nothing is carried out, and at most its own request is sent.
LEMMA StepEffect ==
  ASSUME ClientInv, NEW t \in Threads, StepNext(t)
  PROVE  /\ UNCHANGED <<id, calls, applied>>
         /\ pc[t] # "idle"
         /\ \E to \in CallSteps \ {"write_send"} : pc' = [pc EXCEPT ![t] = to]
         /\ \/ UNCHANGED requests
            \/ Send(t, "read") /\ pc[t] = "send"
            \/ Send(t, "write") /\ pc[t] = "write_send"
<1> USE DEF Step, Local, End, CallSteps
<1>1. CASE ReadSend(t)
  BY <1>1 DEF ReadSend
<1>2. CASE WriteSend(t)
  BY <1>2 DEF WriteSend
<1>3. CASE ReadFlush(t) \/ ReadReceive(t) \/ ReadFails(t) \/ ReadClose(t)
           \/ ReadReconnect(t) \/ WriteReceive(t) \/ WriteFails(t)
  BY <1>3 DEF ReadFlush, FlushTo, ReadReceive, ReadFails, ReadGivesUp,
    ReadClose, ReadReconnect, WriteReceive, WriteFails, WriteGivesUp, Lost
<1> QED BY <1>1, <1>2, <1>3 DEF StepNext

\* What the beginning of a call does.
LEMMA CallEffect ==
  ASSUME ClientInv, NEW t \in Threads, CallNext(t)
  PROVE  /\ pc[t] = "idle" /\ calls < MaxCalls /\ calls' = calls + 1
         /\ id' = [id EXCEPT ![t] = calls + 1]
         /\ alone' = [u \in Threads |-> FALSE]
         /\ \/ \E x \in Registers : /\ pc' = [pc EXCEPT ![t] = "flush"]
                                    /\ target' = [target EXCEPT ![t] = x]
            \/ \E v \in Values : /\ pc' = [pc EXCEPT ![t] = "write_send"]
                                 /\ target' = [target EXCEPT ![t] = v]
                                 /\ t # "data"
         /\ UNCHANGED <<result, reading, requests, input, applied>>
BY DEF CallNext, ReadSensorData, ReadRpm, WriteSingleRegister, Begin, BeginAs,
  Registers

(***************************************************************************)
(* The order of writes.                                                    *)
(***************************************************************************)
\* A request belongs to a call its thread has made, and not to one that has
\* sent nothing yet.
Past(r) ==
  /\ r.id <= id[r.by]
  /\ pc[r.by] = "write_send" => r.id < id[r.by]

\* The writes of a thread carried out, those on their way and the one it is
\* about to send are numbered in this order.
InOrder ==
  /\ \A t \in Threads : id[t] <= calls
  /\ \A i \in 1..Len(applied) : Past(applied[i])
  /\ \A i \in 1..Len(requests) : Past(requests[i])
  /\ \A i, j \in 1..Len(requests) :
       /\ i < j /\ requests[i].by = requests[j].by
       /\ requests[i].kind = "write" /\ requests[j].kind = "write"
       => requests[i].id < requests[j].id
  /\ \A i \in 1..Len(applied), j \in 1..Len(requests) :
       applied[i].by = requests[j].by /\ requests[j].kind = "write"
         => applied[i].id < requests[j].id
  /\ WritesOnceInOrder

\* The threads' steps keep what is past in the past.
LEMMA PastKept ==
  ASSUME ClientInv, InOrder, NEW t \in Threads, CallNext(t) \/ StepNext(t),
         NEW r \in Requests, Past(r)
  PROVE  Past(r)'
<1>1. r.by \in Threads /\ r.id \in Nat
  BY MasterAssumption DEF Requests, MasterAssumption
<1>2. CASE CallNext(t)
  <2>1. /\ calls' = calls + 1 /\ id' = [id EXCEPT ![t] = calls + 1]
        /\ \E step \in {"flush", "write_send"} : pc' = [pc EXCEPT ![t] = step]
    BY <1>2, CallEffect
  <2>2. id[t] <= calls /\ id[t] \in Nat /\ calls \in Nat
    BY MasterAssumption DEF InOrder, ClientInv, TypeOK, MasterAssumption
  <2> QED BY <1>1, <2>1, <2>2 DEF Past, ClientInv, TypeOK
<1>3. CASE StepNext(t)
  BY <1>1, <1>3, StepEffect DEF Past, ClientInv, TypeOK
<1> QED BY <1>2, <1>3

\* Every step keeps the order.
LEMMA OrderStep == ClientInv /\ InOrder /\ [Next]_vars => InOrder'
<1> SUFFICES ASSUME ClientInv, InOrder, [Next]_vars PROVE InOrder'
  OBVIOUS
<1> USE MasterAssumption DEF MasterAssumption
<1>1. /\ Len(applied) \in Nat /\ Len(requests) \in Nat
      /\ \A i \in 1..Len(applied) : applied[i] \in Requests
      /\ \A i \in 1..Len(requests) : requests[i] \in Requests
  <2> HIDE DEF Requests
  <2> QED BY DEF ClientInv, TypeOK
<1>2. \A r \in Requests : r.by \in Threads /\ r.id \in Nat
  BY DEF Requests
<1>3. /\ id \in [Threads -> Nat] /\ calls \in Nat /\ pc \in [Threads -> CallSteps]
  BY DEF ClientInv, TypeOK
<1>4. ASSUME NEW t \in Threads, CallNext(t) PROVE InOrder'
  <2>1. calls' = calls + 1 /\ id' = [id EXCEPT ![t] = calls + 1]
        /\ UNCHANGED <<requests, applied>>
    BY <1>4, CallEffect
  <2>2. \A u \in Threads : id'[u] <= calls'
    BY <1>3, <2>1 DEF InOrder
  <2>3. /\ \A i \in 1..Len(applied) : Past(applied[i])'
        /\ \A i \in 1..Len(requests) : Past(requests[i])'
    BY <1>1, <1>4, <2>1, PastKept DEF InOrder
  <2> QED BY <2>1, <2>2, <2>3 DEF InOrder, WritesOnceInOrder
<1>5. ASSUME NEW t \in Threads, StepNext(t) PROVE InOrder'
  <2>1. UNCHANGED <<id, calls, applied>>
    BY <1>5, StepEffect
  <2>0. \A r \in Requests : Past(r) => Past(r)'
    BY <1>5, PastKept
  <2>2. \A i \in 1..Len(applied) : Past(applied[i])'
    BY <1>1, <2>0, <2>1 DEF InOrder, Past
  <2>3. CASE UNCHANGED requests
    <3>1. \A i \in 1..Len(requests) : Past(requests[i])'
      BY <1>1, <2>0, <2>3 DEF InOrder, Past
    <3> QED BY <2>1, <2>2, <2>3, <3>1 DEF InOrder, WritesOnceInOrder
  <2>4. ASSUME NEW kind \in {"read", "write"}, Send(t, kind),
               kind = "read" => pc[t] = "send",
               kind = "write" => pc[t] = "write_send"
        PROVE  InOrder'
    <3> PICK L : L = Len(requests)
      OBVIOUS
    <3>1. /\ L \in Nat /\ Len(requests') = L + 1
          /\ \A i \in 1..L : requests'[i] = requests[i]
          /\ requests'[L + 1] =
               [kind |-> kind, of |-> target[t], id |-> id[t], by |-> t]
      BY <2>4, SendRequest DEF ReadSteps, WriteSteps
    <3>2. pc'[t] # "write_send"
      BY <1>3, <1>5, StepEffect
    <3>3. Past(requests[L + 1])'
      BY <1>3, <2>1, <3>1, <3>2 DEF Past
    <3>4. kind = "write" =>
            /\ \A i \in 1..Len(applied) :
                 applied[i].by = t => applied[i].id < id[t]
            /\ \A i \in 1..L : requests[i].by = t => requests[i].id < id[t]
      BY <2>4 DEF InOrder, Past
    <3>5. \A i \in 1..(L + 1) : i \in 1..L \/ i = L + 1
      BY <3>1
    <3>6. \A i \in 1..(L + 1) : Past(requests[i])'
      BY <1>1, <2>0, <3>1, <3>3, <3>5 DEF InOrder, Past
    <3>7. \A i, j \in 1..(L + 1) :
            /\ i < j /\ requests'[i].by = requests'[j].by
            /\ requests'[i].kind = "write" /\ requests'[j].kind = "write"
            => requests'[i].id < requests'[j].id
      <4> TAKE i, j \in 1..(L + 1)
      <4>1. CASE j \in 1..L
        BY <3>1, <4>1 DEF InOrder
      <4>2. CASE j = L + 1
        BY <3>1, <3>4, <4>2
      <4> QED BY <3>5, <4>1, <4>2
    <3>8. \A i \in 1..Len(applied), j \in 1..(L + 1) :
            applied[i].by = requests'[j].by /\ requests'[j].kind = "write"
              => applied[i].id < requests'[j].id
      BY <3>1, <3>4, <3>5 DEF InOrder
    <3> QED BY <2>1, <2>2, <3>1, <3>6, <3>7, <3>8 DEF InOrder, WritesOnceInOrder
  <2> QED BY <1>5, <2>3, <2>4, StepEffect
<1>6. ASSUME requests # <<>>, requests' = Tail(requests),
             UNCHANGED <<id, pc, calls, applied>>
      PROVE  InOrder'
  <2>1. /\ Len(requests') = Len(requests) - 1
        /\ \A i \in 1..Len(requests') : /\ requests'[i] = requests[i + 1]
                                        /\ i + 1 \in 1..Len(requests)
    BY <1>6, ServeRequest DEF ClientInv
  <2>2. \A i, j \in 1..Len(requests') : i < j => i + 1 < j + 1
    BY <1>1, <2>1
  <2> QED BY <1>6, <2>1, <2>2 DEF InOrder, Past, WritesOnceInOrder
<1>7. CASE SlaveWrites
  <2> PICK L : L = Len(applied)
    OBVIOUS
  <2>1. /\ requests # <<>> /\ requests' = Tail(requests)
        /\ requests[1].kind = "write" /\ requests[1] \in Requests
        /\ applied' = Append(applied, requests[1])
        /\ UNCHANGED <<id, pc, calls>>
    BY <1>7, ServeRequest DEF SlaveWrites, callVars, ClientInv
  <2>2. /\ Len(requests') = Len(requests) - 1 /\ 1 \in 1..Len(requests)
        /\ \A i \in 1..Len(requests') : /\ requests'[i] = requests[i + 1]
                                        /\ i + 1 \in 1..Len(requests)
                                        /\ 1 < i + 1
    BY <2>1, ServeRequest DEF ClientInv
  <2>3. /\ L \in Nat /\ Len(applied') = L + 1
        /\ \A i \in 1..L : applied'[i] = applied[i]
        /\ applied'[L + 1] = requests[1]
    <3> HIDE DEF Requests
    <3> QED BY <2>1 DEF ClientInv, TypeOK
  <2>4. \A i \in 1..(L + 1) : i \in 1..L \/ i = L + 1
    BY <2>3
  <2>5. \A i \in 1..Len(applied') : Past(applied[i])'
    BY <2>1, <2>2, <2>3, <2>4 DEF InOrder, Past
  <2>6. \A i \in 1..Len(requests') : Past(requests[i])'
    BY <2>1, <2>2 DEF InOrder, Past
  <2>7. \A i, j \in 1..Len(requests') :
          /\ i < j /\ requests'[i].by = requests'[j].by
          /\ requests'[i].kind = "write" /\ requests'[j].kind = "write"
          => requests'[i].id < requests'[j].id
    <3>1. \A i, j \in 1..Len(requests') : i < j => i + 1 < j + 1
      BY <1>1, <2>2
    <3> QED BY <2>2, <3>1 DEF InOrder
  <2>8. \A i \in 1..(L + 1), j \in 1..Len(requests') :
          applied'[i].by = requests'[j].by /\ requests'[j].kind = "write"
            => applied'[i].id < requests'[j].id
    BY <2>1, <2>2, <2>3, <2>4 DEF InOrder
  <2>9. WritesOnceInOrder'
    <3> SUFFICES ASSUME NEW i \in 1..(L + 1), NEW j \in 1..(L + 1),
                        i < j, applied'[i].by = applied'[j].by
                 PROVE  applied'[i].id < applied'[j].id
      BY <2>3 DEF WritesOnceInOrder
    <3>1. i \in 1..L
      BY <2>3
    <3>2. CASE j \in 1..L
      BY <2>3, <3>1, <3>2 DEF InOrder, WritesOnceInOrder
    <3>3. CASE j = L + 1
      BY <2>1, <2>2, <2>3, <3>1, <3>3 DEF InOrder
    <3> QED BY <2>4, <3>2, <3>3
  <2> QED BY <2>1, <2>3, <2>5, <2>6, <2>7, <2>8, <2>9 DEF InOrder
<1>8. CASE LineNext
  BY <1>6, <1>7, <1>8 DEF LineNext, SlaveAnswersRead, SlaveMisses, SlavePrints,
    SplitFrame, callVars, InOrder, Past, WritesOnceInOrder
<1>9. CASE UNCHANGED vars
  BY <1>9 DEF vars, callVars, InOrder, Past, WritesOnceInOrder
<1> QED BY <1>4, <1>5, <1>8, <1>9 DEF Next

LEMMA OrderInvariant == Spec => []InOrder
<1>1. Init => InOrder
  BY DEF Init, InOrder, WritesOnceInOrder
<1> QED BY <1>1, OrderStep, ClientInvariant, PTL DEF Spec

\* Nothing is sent twice, and nothing overtakes: the motor is given the
\* writes of each thread at most once and in the order of their calls.
THEOREM WritesInOrder == Spec => []WritesOnceInOrder
<1>1. InOrder => WritesOnceInOrder
  BY DEF InOrder
<1> QED BY <1>1, OrderInvariant, PTL

(***************************************************************************)
(* Echoes.                                                                 *)
(***************************************************************************)
\* The motor has been given every value that an echo in the buffer names.
EchoesWritten ==
  \A i \in 1..Len(input) : input[i].kind = "echo" =>
    \E k \in 1..Len(applied) : applied[k].of = input[i].of

\* The motor has been given the value v.
Reached(v) == \E k \in 1..Len(applied) : applied[k].of = v

\* It is never taken back.
LEMMA ReachedStays ==
  ASSUME ClientInv, [Next]_vars, NEW v, Reached(v)
  PROVE  Reached(v)'
<1>1. CASE SlaveWrites
  <2>1. applied' = Append(applied, Head(requests)) /\ Head(requests) \in Requests
    BY <1>1, ServeRequest DEF SlaveWrites, ClientInv
  <2> HIDE DEF Requests
  <2>2. /\ Len(applied) \in Nat /\ Len(applied') = Len(applied) + 1
        /\ \A k \in 1..Len(applied) : applied'[k] = applied[k]
    BY <2>1 DEF ClientInv, TypeOK
  <2> QED BY <2>2 DEF Reached
<1>2. CASE \E t \in Threads : CallNext(t) \/ StepNext(t)
  BY <1>2, CallEffect, StepEffect DEF Reached
<1>3. CASE SlaveAnswersRead \/ SlaveMisses \/ SlavePrints \/ SplitFrame
           \/ UNCHANGED vars
  BY <1>3 DEF SlaveAnswersRead, SlaveMisses, SlavePrints, SplitFrame, vars,
    Reached
<1> QED BY <1>1, <1>2, <1>3 DEF Next, LineNext

\* What comes into the buffer: text, or the reply to the oldest request.
LEMMA LineInput ==
  ASSUME ClientInv, LineNext, NEW k \in 1..Len(input')
  PROVE  \/ \E j \in 1..Len(input) : input'[k] = input[j]
         \/ input'[k] = Text
         \/ /\ SlaveAnswersRead
            /\ input'[k] = [kind |-> "value", of |-> Head(requests).of]
         \/ /\ SlaveWrites
            /\ input'[k] = [kind |-> "echo", of |-> Head(requests).of]
<1>1. input \in Seq(Wire)
  BY DEF ClientInv, TypeOK, Wire
<1>2. requests # <<>> /\ requests' = Tail(requests) => Head(requests) \in Requests
  BY ServeRequest DEF ClientInv
<1>3. CASE SlaveWrites
  <2> PICK f : f = <<Text, [kind |-> "echo", of |-> Head(requests).of]>>
    OBVIOUS
  <2>1. Arrives(f) /\ Head(requests).kind = "write" /\ Head(requests) \in Requests
    BY <1>2, <1>3 DEF SlaveWrites
  <2>2. [kind |-> "echo", of |-> Head(requests).of] \in Wire /\ Text \in Wire
    BY <2>1 DEF Requests, Wire, Frames
  <2>3. /\ f \in Seq(Wire) /\ Len(f) = 2
        /\ f[1] = Text /\ f[2] = [kind |-> "echo", of |-> Head(requests).of]
    BY <2>2
  <2>4. \/ \E j \in 1..Len(input) : input'[k] = input[j]
        \/ \E j \in 1..Len(f) : input'[k] = f[j]
    BY <1>1, <2>1, <2>3, ArrivesAtEnd
  <2> QED BY <1>3, <2>3, <2>4
<1>4. CASE SlaveAnswersRead
  <2> PICK f : f = <<[kind |-> "value", of |-> Head(requests).of]>>
    OBVIOUS
  <2>1. Arrives(f) /\ Head(requests).kind = "read" /\ Head(requests) \in Requests
    BY <1>2, <1>4 DEF SlaveAnswersRead
  <2>2. [kind |-> "value", of |-> Head(requests).of] \in Wire
    BY <2>1 DEF Requests, Wire, Frames
  <2>3. /\ f \in Seq(Wire) /\ Len(f) = 1
        /\ f[1] = [kind |-> "value", of |-> Head(requests).of]
    BY <2>2
  <2>4. \/ \E j \in 1..Len(input) : input'[k] = input[j]
        \/ \E j \in 1..Len(f) : input'[k] = f[j]
    BY <1>1, <2>1, <2>3, ArrivesAtEnd
  <2> QED BY <1>4, <2>3, <2>4
<1>5. CASE SlavePrints
  <2>1. Text \in Wire /\ input' = Append(input, Text)
    BY <1>5 DEF SlavePrints, Wire
  <2> HIDE DEF Wire
  <2> QED BY <1>1, <2>1
<1>6. CASE SplitFrame
  BY <1>1, <1>6, SplitInput
<1>7. CASE SlaveMisses
  BY <1>7 DEF SlaveMisses
<1> QED BY <1>3, <1>4, <1>5, <1>6, <1>7 DEF LineNext

\* Only a write that was carried out is echoed.
LEMMA EchoStep == ClientInv /\ EchoesWritten /\ [Next]_vars => EchoesWritten'
<1> SUFFICES ASSUME ClientInv, EchoesWritten, [Next]_vars,
                    NEW k \in 1..Len(input'), input'[k].kind = "echo"
             PROVE  Reached(input[k].of)'
  BY DEF EchoesWritten, Reached
<1>1. CASE \E j \in 1..Len(input) : input'[k] = input[j]
  <2>1. PICK j \in 1..Len(input) : input'[k] = input[j]
    BY <1>1
  <2> PICK v : v = input[j].of
    OBVIOUS
  <2>2. Reached(v)
    BY <2>1 DEF EchoesWritten, Reached
  <2>3. Reached(v)'
    BY <2>2, ReachedStays
  <2> QED BY <2>1, <2>3 DEF Reached
<1>2. CASE /\ SlaveWrites
           /\ input'[k] = [kind |-> "echo", of |-> Head(requests).of]
  <2>1. applied' = Append(applied, Head(requests)) /\ Head(requests) \in Requests
    BY <1>2, ServeRequest DEF SlaveWrites, ClientInv
  <2>2. Len(applied) \in Nat /\ applied'[Len(applied) + 1] = Head(requests)
        /\ Len(applied') = Len(applied) + 1
    <3> HIDE DEF Requests
    <3> QED BY <2>1 DEF ClientInv, TypeOK
  <2> QED BY <1>2, <2>2 DEF Reached
<1>3. CASE LineNext
  BY <1>1, <1>2, <1>3, LineInput DEF Text
<1>4. ASSUME NEW t \in Threads, StepNext(t) PROVE Reached(input[k].of)'
  <2>1. input \in Seq(Wire)
    BY DEF ClientInv, TypeOK, Wire
  <2> QED BY <1>1, <1>4, <2>1, StepInput
<1>5. CASE UNCHANGED vars \/ \E t \in Threads : CallNext(t)
  <2>1. input' = input
    BY <1>5, CallEffect DEF vars
  <2> QED BY <1>1, <2>1
<1> QED BY <1>3, <1>4, <1>5 DEF Next

\* A call that ends well ends with an echo of what it wrote.
LEMMA SuccessStep ==
  ClientInv /\ EchoesWritten /\ SuccessWasWritten /\ [Next]_vars
    => SuccessWasWritten'
<1> SUFFICES ASSUME ClientInv, EchoesWritten, SuccessWasWritten, [Next]_vars,
                    CheckEcho, NEW t \in Threads \ {"data"},
                    result'[t] = "ok", target'[t] \in Values, pc'[t] = "idle"
             PROVE  Reached(target[t])'
  BY DEF SuccessWasWritten, Reached
<1> PICK v \in Values : v = target'[t]
  OBVIOUS
<1> SUFFICES Reached(v)
  BY ReachedStays DEF Reached
<1>1. ASSUME pc[t] = "idle", UNCHANGED <<pc[t], target[t], result[t]>>
      PROVE  Reached(v)
  BY <1>1 DEF SuccessWasWritten, Reached
<1>2. /\ pc \in [Threads -> CallSteps] /\ target[t] \in Registers \cup Values \cup {"none"}
      /\ target \in [Threads -> Registers \cup Values \cup {"none"}]
      /\ result \in [Threads -> Results]
  BY DEF ClientInv, TypeOK
<1>3. pc[t] \in ReadSteps => target[t] \notin Values
  BY DEF ClientInv, CallShape, Registers, Values
<1>4. ASSUME NEW u \in Threads, CallNext(u) PROVE Reached(v)
  BY <1>1, <1>2, <1>4, CallEffect
<1>5. ASSUME NEW u \in Threads, StepNext(u) PROVE Reached(v)
  <2> USE <1>2, <1>5 DEF Step, Local, End
  <2>1. CASE u # t
    <3>1. UNCHANGED <<pc[t], target[t], result[t]>>
      BY <2>1 DEF StepNext, ReadFlush, FlushTo, ReadSend, ReadReceive,
        ReadFails, ReadGivesUp, ReadClose, ReadReconnect, WriteSend,
        WriteReceive, WriteFails, WriteGivesUp
    <3> QED BY <1>1, <3>1
  <2>2. CASE u = t /\ WriteReceive(t)
    <3>1. /\ input # <<>> /\ Head(input).kind = "echo"
          /\ Head(input).of = target[t] /\ target' = target
      BY <2>2 DEF WriteReceive, IsEcho
    <3>2. 1 \in 1..Len(input) /\ Head(input) = input[1]
      <4>1. input \in Seq(Wire)
        BY DEF ClientInv, TypeOK, Wire
      <4> HIDE DEF Wire
      <4> QED BY <3>1, <4>1
    <3> QED BY <3>1, <3>2 DEF EchoesWritten, Reached
  <2>3. CASE u = t /\ (WriteSend(t) \/ WriteFails(t))
    BY <2>3 DEF WriteSend, WriteFails, WriteGivesUp, Results
  <2>4. CASE u = t /\ (ReadReceive(t) \/ ReadReconnect(t))
    BY <1>3, <2>4 DEF ReadReceive, ReadReconnect, ReadSteps, Values
  <2>5. CASE u = t /\ (ReadFlush(t) \/ ReadSend(t) \/ ReadFails(t) \/ ReadClose(t))
    BY <2>5 DEF ReadFlush, FlushTo, ReadSend, ReadFails, ReadGivesUp, ReadClose
  <2> QED BY <2>1, <2>2, <2>3, <2>4, <2>5 DEF StepNext
<1>6. CASE LineNext \/ UNCHANGED vars
  BY <1>1, <1>6 DEF LineNext, SlaveAnswersRead, SlaveWrites, SlaveMisses,
    SlavePrints, SplitFrame, vars, callVars
<1> QED BY <1>4, <1>5, <1>6 DEF Next

LEMMA EchoInvariant == Spec => []EchoesWritten
<1>1. Init => EchoesWritten
  BY DEF Init, EchoesWritten
<1> QED BY <1>1, EchoStep, ClientInvariant, PTL DEF Spec

\* With the echo compared, no call reports a value written that the motor was
\* never given.
THEOREM SuccessIsTrue == Spec => []SuccessWasWritten
<1>1. Init => SuccessWasWritten
  BY DEF Init, SuccessWasWritten
<1> QED BY <1>1, SuccessStep, EchoInvariant, ClientInvariant, PTL DEF Spec

(***************************************************************************)
(* A lone read.                                                            *)
(***************************************************************************)
\* From a flush on a quiet line until the reply is read, what is on the line
\* is this thread's request or the reply to it.
LineIsMine(t) ==
  /\ pc[t] \in {"send", "receive"} =>
       \A u \in Threads \ {t} : pc[u] = "idle"
  /\ pc[t] = "send" =>
       /\ requests = <<>>
       /\ \A i \in 1..Len(input) : input[i].kind # "value"
  /\ pc[t] = "receive" =>
       /\ \A i \in 1..Len(requests) : requests[i].of = target[t]
       /\ \A i \in 1..Len(input) :
            input[i].kind = "value" => input[i].of = target[t]

LoneInv ==
  /\ \A t \in Threads : alone[t] => LineIsMine(t)
  /\ LoneReadIsSound

\* Every step keeps the line one's own.
LEMMA LoneStep == ClientInv /\ LoneInv /\ [Next]_vars => LoneInv'
<1> SUFFICES ASSUME ClientInv, LoneInv, [Next]_vars PROVE LoneInv'
  OBVIOUS
<1>1. /\ pc \in [Threads -> CallSteps] /\ alone \in [Threads -> BOOLEAN]
      /\ target \in [Threads -> Registers \cup Values \cup {"none"}]
      /\ reading \in [Threads -> [asked : Registers \cup {"none"},
                                  got   : Registers \cup {"none"},
                                  alone : BOOLEAN]]
      /\ input \in Seq(Wire)
  BY DEF ClientInv, TypeOK, Wire
<1>2. ASSUME NEW t \in Threads, CallNext(t) PROVE LoneInv'
  BY <1>2, CallEffect DEF LoneInv, LoneReadIsSound
<1>3. ASSUME NEW t \in Threads, StepNext(t) PROVE LoneInv'
  <2>1. /\ pc[t] # "idle"
        /\ \E to \in CallSteps : pc' = [pc EXCEPT ![t] = to]
    BY <1>3, StepEffect
  <2>2. \A u \in Threads \ {t} : alone[u] => pc[u] \notin {"send", "receive"}
    BY <2>1 DEF LoneInv, LineIsMine
  <2>3. \A u \in Threads \ {t} : pc'[u] = pc[u]
    BY <1>1, <2>1
  <2>4. \A u \in Threads \ {t} : alone'[u] = alone[u] /\ reading'[u] = reading[u]
    BY <1>1, <1>3 DEF StepNext, ReadFlush, FlushTo, ReadSend, ReadReceive,
      ReadFails, ReadGivesUp, ReadClose, ReadReconnect, WriteSend,
      WriteReceive, WriteFails, WriteGivesUp, Local, End, Step
  <2>5. \A u \in Threads \ {t} :
          /\ alone'[u] => LineIsMine(u)'
          /\ reading'[u].alone => reading'[u].asked = reading'[u].got
    BY <2>2, <2>3, <2>4 DEF LoneInv, LoneReadIsSound, LineIsMine
  <2>6. CASE ReadFlush(t)
    <3>1. /\ pc'[t] = "send" /\ reading' = reading /\ requests' = requests
          /\ alone'[t] => /\ requests = <<>> /\ input' = <<>>
                          /\ \A u \in Threads \ {t} : pc[u] = "idle"
      BY <1>1, <2>6 DEF ReadFlush, FlushTo, Step
    <3>2. alone'[t] => LineIsMine(t)'
      BY <2>3, <3>1 DEF LineIsMine
    <3> QED BY <2>5, <3>1, <3>2 DEF LoneInv, LoneReadIsSound
  <2>7. CASE ReadSend(t) /\ pc'[t] = "receive"
    <3>1. /\ pc[t] = "send" /\ Send(t, "read")
          /\ UNCHANGED <<alone, reading, target, input>>
      BY <1>1, <2>7 DEF ReadSend, Local, Step, CallSteps
    <3>2. alone[t] => LineIsMine(t)'
      <4> SUFFICES ASSUME alone[t] PROVE LineIsMine(t)'
        OBVIOUS
      <4>1. /\ requests = <<>> /\ \A i \in 1..Len(input) : input[i].kind # "value"
            /\ \A u \in Threads \ {t} : pc[u] = "idle"
        BY <3>1 DEF LoneInv, LineIsMine
      <4>2. /\ Len(requests') = Len(requests) + 1 /\ Len(requests) = 0
            /\ requests'[Len(requests) + 1].of = target[t]
        <5>1. pc[t] \in ReadSteps
          BY <3>1 DEF ReadSteps
        <5>2. /\ Len(requests') = Len(requests) + 1
              /\ requests'[Len(requests) + 1] =
                   [kind |-> "read", of |-> target[t], id |-> id[t], by |-> t]
          BY <3>1, <5>1, SendRequest
        <5> QED BY <4>1, <5>2
      <4> QED BY <2>3, <2>7, <3>1, <4>1, <4>2 DEF LineIsMine
    <3> QED BY <2>5, <3>1, <3>2 DEF LoneInv, LoneReadIsSound
  <2>8. CASE ReadReceive(t)
    <3>1. /\ pc[t] = "receive" /\ input # <<>> /\ Head(input).kind = "value"
          /\ reading' = [reading EXCEPT ![t] = [asked |-> target[t],
                                                got   |-> Head(input).of,
                                                alone |-> alone[t]]]
          /\ pc'[t] \notin {"send", "receive"}
      BY <1>1, <2>8 DEF ReadReceive, End, Step
    <3>2. 1 \in 1..Len(input) /\ Head(input) = input[1]
      <4> HIDE DEF Wire
      <4> QED BY <1>1, <3>1
    <3>3. alone[t] => Head(input).of = target[t]
      BY <3>1, <3>2 DEF LoneInv, LineIsMine
    <3>4. alone'[t] => LineIsMine(t)'
      BY <3>1 DEF LineIsMine
    <3>5. reading'[t].alone => reading'[t].asked = reading'[t].got
      BY <1>1, <3>1, <3>3
    <3> QED BY <2>5, <3>4, <3>5 DEF LoneInv, LoneReadIsSound
  <2>9. CASE reading' = reading /\ pc'[t] \notin {"send", "receive"}
    <3>1. LineIsMine(t)'
      BY <2>9 DEF LineIsMine
    <3> QED BY <2>5, <2>9, <3>1 DEF LoneInv, LoneReadIsSound
  <2>10. CASE ReadSend(t) /\ pc'[t] # "receive"
    BY <1>1, <2>9, <2>10 DEF ReadSend, Local, Step
  <2>11. CASE ReadFails(t) \/ ReadClose(t) \/ ReadReconnect(t) \/ WriteSend(t)
              \/ WriteReceive(t) \/ WriteFails(t)
    BY <1>1, <2>9, <2>11 DEF ReadFails, ReadGivesUp, ReadClose, ReadReconnect,
      WriteSend, WriteReceive, WriteFails, WriteGivesUp, Local, End, Step
  <2> QED BY <1>3, <2>6, <2>7, <2>8, <2>10, <2>11 DEF StepNext
<1>4. CASE LineNext
  <2>1. UNCHANGED <<pc, target, reading, alone>>
    BY <1>4 DEF LineNext, SlaveAnswersRead, SlaveWrites, SlaveMisses,
      SlavePrints, SplitFrame, callVars
  <2>2. \/ requests # <<>> /\ requests' = Tail(requests)
        \/ /\ UNCHANGED requests
           /\ ~SlaveAnswersRead
    BY <1>4 DEF LineNext, SlaveAnswersRead, SlaveWrites, SlaveMisses,
      SlavePrints, SplitFrame
  <2>3. ASSUME NEW t \in Threads, alone[t] PROVE LineIsMine(t)'
    <3>1. LineIsMine(t)
      BY <2>3 DEF LoneInv
    <3>2. \A i \in 1..Len(requests') :
            \E j \in 1..Len(requests) : requests'[i] = requests[j]
      BY <2>2, ServeRequest DEF ClientInv
    <3>3. SlaveAnswersRead => requests # <<>> /\ Head(requests) = requests[1]
                              /\ 1 \in 1..Len(requests)
      BY ServeRequest DEF SlaveAnswersRead, ClientInv
    <3>4. pc[t] = "send" => ~SlaveAnswersRead /\ requests' = <<>>
      BY <2>2, <3>1, <3>3 DEF LineIsMine
    <3>5. pc[t] = "send" => \A k \in 1..Len(input') : input'[k].kind # "value"
      BY <1>4, <3>1, <3>4, LineInput DEF LineIsMine, Text
    <3>6. pc[t] = "receive" => \A k \in 1..Len(input') :
            input'[k].kind = "value" => input'[k].of = target[t]
      BY <1>4, <3>1, <3>3, LineInput DEF LineIsMine, Text
    <3>7. pc[t] = "receive" =>
            \A i \in 1..Len(requests') : requests'[i].of = target[t]
      BY <3>1, <3>2 DEF LineIsMine
    <3> QED BY <2>1, <3>1, <3>4, <3>5, <3>6, <3>7 DEF LineIsMine
  <2> QED BY <2>1, <2>3 DEF LoneInv, LoneReadIsSound
<1>5. CASE UNCHANGED vars
  BY <1>5 DEF vars, callVars, LoneInv, LineIsMine, LoneReadIsSound
<1> QED BY <1>2, <1>3, <1>4, <1>5 DEF Next

\* A value read on a line that was quiet at the flush, with no other call
\* since, is the one asked for: what was late for earlier calls is gone.
THEOREM LoneReads == Spec => []LoneReadIsSound
<1>1. Init => LoneInv
  BY DEF Init, LoneInv, LoneReadIsSound
<1>2. LoneInv => LoneReadIsSound
  BY DEF LoneInv
<1> QED BY <1>1, <1>2, LoneStep, ClientInvariant, PTL DEF Spec

(***************************************************************************)
(* The client implements CommandChannel.  The variables of the channel, as *)
(* the client has them:                                                    *)
(***************************************************************************)
Busy    == [t \in Threads |-> IF Writing(t) THEN target[t] ELSE "none"]
Outcome == [t \in Threads |-> IF pc[t] = "idle" /\ target[t] \in Values
                              THEN result[t] ELSE "none"]
Pending == {Command(requests[i]) :
              i \in {j \in 1..Len(requests) : requests[j].kind = "write"}}
           \cup {[by |-> t, of |-> target[t], id |-> id[t]] :
                   t \in {u \in Threads : pc[u] = "write_send"}}
Applied == [i \in 1..Len(applied) |-> Command(applied[i])]

channelVars == <<id, Busy, Outcome, Pending, Applied>>

\* The command that thread t is about to send.
Unsent(t) == [by |-> t, of |-> target[t], id |-> id[t]]

OnTheWay(c) ==
  \/ \E i \in 1..Len(requests) :
       requests[i].kind = "write" /\ c = Command(requests[i])
  \/ \E t \in Threads : pc[t] = "write_send" /\ c = Unsent(t)

LEMMA PendingIsOnTheWay ==
  /\ \A c : c \in Pending <=> OnTheWay(c)
  /\ \A c : c \in Pending' <=> OnTheWay(c)'
<1>1. \A c : c \in Pending <=> OnTheWay(c)
  BY DEF Pending, OnTheWay, Unsent
<1>2. \A c : c \in Pending' <=> OnTheWay(c)'
  BY DEF Pending, OnTheWay, Unsent
<1> QED BY <1>1, <1>2

\* A call that begins starts a write, or something else.
LEMMA CallStarts ==
  ASSUME ClientInv, InOrder, NEW t \in Threads, CallNext(t)
  PROVE  Channel!Next
<1>1. /\ pc[t] = "idle" /\ calls < MaxCalls
      /\ id' = [id EXCEPT ![t] = calls + 1]
      /\ UNCHANGED <<result, requests, applied>>
  BY CallEffect
<1>2. /\ pc \in [Threads -> CallSteps] /\ id \in [Threads -> 0..MaxCalls]
      /\ target \in [Threads -> Registers \cup Values \cup {"none"}]
      /\ result \in [Threads -> Results] /\ calls \in Nat /\ MaxCalls \in Nat
  BY MasterAssumption DEF ClientInv, TypeOK, MasterAssumption
<1>3. calls + 1 \in 1..MaxCalls /\ \A u \in Threads : id[u] < calls + 1
  BY <1>1, <1>2 DEF InOrder
<1>4. Applied' = Applied
  BY <1>1 DEF Applied
<1>5. CASE \E x \in Registers : /\ pc' = [pc EXCEPT ![t] = "flush"]
                                /\ target' = [target EXCEPT ![t] = x]
  <2>1. PICK x \in Registers : /\ pc' = [pc EXCEPT ![t] = "flush"]
                               /\ target' = [target EXCEPT ![t] = x]
    BY <1>5
  <2>2. Busy[t] = "none" /\ Busy' = [Busy EXCEPT ![t] = "none"]
    BY <1>1, <1>2, <2>1 DEF Busy, Writing
  <2>3. Outcome' = [Outcome EXCEPT ![t] = "none"]
    BY <1>1, <1>2, <2>1 DEF Outcome
  <2>4. \A c : OnTheWay(c) <=> OnTheWay(c)'
    BY <1>1, <1>2, <2>1 DEF OnTheWay, Unsent
  <2>5. Pending' = Pending
    BY <2>4, PendingIsOnTheWay
  <2>6. "none" \notin Values
    BY DEF Values
  <2>7. Channel!Start(t, "none")
    BY <1>1, <1>3, <1>4, <2>2, <2>3, <2>5, <2>6
      DEF Channel!Start, Busy, Outcome, Pending, Applied
  <2> QED BY <2>7 DEF Channel!Next, Channel!Other
<1>6. CASE \E v \in Values : /\ pc' = [pc EXCEPT ![t] = "write_send"]
                             /\ target' = [target EXCEPT ![t] = v]
  <2>1. PICK v \in Values : /\ pc' = [pc EXCEPT ![t] = "write_send"]
                            /\ target' = [target EXCEPT ![t] = v]
    BY <1>6
  <2>2. Busy[t] = "none" /\ Busy' = [Busy EXCEPT ![t] = v]
    BY <1>1, <1>2, <2>1 DEF Busy, Writing
  <2>3. Outcome' = [Outcome EXCEPT ![t] = "none"]
    BY <1>1, <1>2, <2>1 DEF Outcome
  <2>4. \A c : OnTheWay(c)' <=>
                 OnTheWay(c) \/ c = [by |-> t, of |-> v, id |-> calls + 1]
    <3>1. Unsent(t)' = [by |-> t, of |-> v, id |-> calls + 1]
      BY <1>1, <1>2, <2>1 DEF Unsent
    <3>2. \A u \in Threads \ {t} : pc'[u] = pc[u] /\ Unsent(u)' = Unsent(u)
      BY <1>1, <1>2, <2>1 DEF Unsent
    <3>3. pc'[t] = "write_send" /\ pc[t] # "write_send"
      BY <1>1, <1>2, <2>1
    <3> QED BY <1>1, <3>1, <3>2, <3>3 DEF OnTheWay
  <2>5. Pending' = Pending \cup {[by |-> t, of |-> v, id |-> calls + 1]}
    BY <2>4, PendingIsOnTheWay
  <2>6. Channel!Start(t, v)
    BY <1>1, <1>3, <1>4, <2>2, <2>3, <2>5
      DEF Channel!Start, Busy, Outcome, Pending, Applied
  <2> QED BY <2>6 DEF Channel!Next, Channel!Write
<1> QED BY <1>5, <1>6, CallEffect

\* No step of a read is seen: its requests are not commands.
LEMMA ReadIsUnseen ==
  ASSUME ClientInv, NEW t \in Threads,
         \/ ReadFlush(t) \/ ReadSend(t) \/ ReadReceive(t) \/ ReadFails(t)
         \/ ReadClose(t) \/ ReadReconnect(t)
  PROVE  UNCHANGED channelVars
<1>1. /\ pc \in [Threads -> CallSteps]
      /\ target \in [Threads -> Registers \cup Values \cup {"none"}]
      /\ result \in [Threads -> Results]
  BY DEF ClientInv, TypeOK
<1>2. /\ pc[t] \in ReadSteps
      /\ \E to \in ReadSteps \cup {"idle"} : pc' = [pc EXCEPT ![t] = to]
      /\ UNCHANGED <<id, applied>>
      /\ target' = target \/ target' = [target EXCEPT ![t] = "hum"]
      /\ result' = result \/ \E x : result' = [result EXCEPT ![t] = x]
      /\ requests' = requests \/ Send(t, "read")
  BY DEF ReadFlush, FlushTo, ReadSend, ReadReceive, ReadFails, ReadGivesUp,
    ReadClose, ReadReconnect, Lost, Local, End, Step, ReadSteps
<1>3. /\ target[t] \notin Values /\ target'[t] \notin Values
      /\ ~Writing(t) /\ ~Writing(t)'
  BY <1>1, <1>2
  DEF ClientInv, CallShape, Registers, Values, Writing, ReadSteps, CallSteps
<1>4. \A u \in Threads \ {t} :
        pc'[u] = pc[u] /\ target'[u] = target[u] /\ result'[u] = result[u]
  BY <1>1, <1>2
<1>5. Busy' = Busy
  BY <1>3, <1>4 DEF Busy, Writing
<1>6. Outcome' = Outcome
  BY <1>3, <1>4 DEF Outcome
<1>7. Applied' = Applied
  BY <1>2 DEF Applied
<1>8. \A c : OnTheWay(c)' <=> OnTheWay(c)
  <2>1. pc[t] # "write_send" /\ pc'[t] # "write_send"
    BY <1>3 DEF Writing
  <2>2. \A u \in Threads \ {t} : Unsent(u)' = Unsent(u)
    BY <1>2, <1>4 DEF Unsent
  <2>3. \A c : (\E i \in 1..Len(requests) :
                   requests[i].kind = "write" /\ c = Command(requests[i]))
                <=> (\E i \in 1..Len(requests') :
                       requests'[i].kind = "write" /\ c = Command(requests'[i]))
    <3>1. CASE requests' = requests
      BY <3>1
    <3>2. CASE Send(t, "read")
      <4> PICK L : L = Len(requests)
        OBVIOUS
      <4>1. /\ L \in Nat /\ Len(requests') = L + 1
            /\ \A i \in 1..L : requests'[i] = requests[i]
            /\ requests'[L + 1] =
                 [kind |-> "read", of |-> target[t], id |-> id[t], by |-> t]
        BY <1>2, <3>2, SendRequest
      <4>2. requests'[L + 1].kind # "write"
        BY <4>1
      <4>3. \A i \in 1..(L + 1) : i \in 1..L \/ i = L + 1
        BY <4>1
      <4>4. \A i \in 1..L : i \in 1..(L + 1)
        BY <4>1
      <4> QED BY <4>1, <4>2, <4>3, <4>4
    <3> QED BY <1>2, <3>1, <3>2
  <2> QED BY <1>4, <2>1, <2>2, <2>3 DEF OnTheWay
<1>9. Pending' = Pending
  BY <1>8, PendingIsOnTheWay
<1> QED BY <1>2, <1>5, <1>6, <1>7, <1>9 DEF channelVars

\* A write sent is as far on its way as one about to be sent.
LEMMA SendIsUnseen ==
  ASSUME ClientInv, NEW t \in Threads, WriteSend(t), open[Ctx(t)]
  PROVE  UNCHANGED channelVars
<1>1. /\ pc \in [Threads -> CallSteps]
      /\ target \in [Threads -> Registers \cup Values \cup {"none"}]
  BY DEF ClientInv, TypeOK
<1>2. /\ pc[t] = "write_send" /\ pc' = [pc EXCEPT ![t] = "write_receive"]
      /\ UNCHANGED <<id, applied, target, result>>
      /\ Send(t, "write")
  BY DEF WriteSend, Local, Step
<1>3. Busy' = Busy
  BY <1>1, <1>2 DEF Busy, Writing
<1>4. Outcome' = Outcome
  BY <1>1, <1>2 DEF Outcome
<1>5. Applied' = Applied
  BY <1>2 DEF Applied
<1> PICK L : L = Len(requests)
  OBVIOUS
<1>6. /\ L \in Nat /\ Len(requests') = L + 1
      /\ \A i \in 1..L : requests'[i] = requests[i]
      /\ requests'[L + 1] =
           [kind |-> "write", of |-> target[t], id |-> id[t], by |-> t]
  BY <1>2, SendRequest DEF WriteSteps
<1>7. Command(requests'[L + 1]) = Unsent(t)
  BY <1>6 DEF Command, Unsent
<1>8. \A i \in 1..(L + 1) : i \in 1..L \/ i = L + 1
  BY <1>6
<1>9. (\A i \in 1..L : i \in 1..(L + 1)) /\ L + 1 \in 1..(L + 1)
  BY <1>6
<1>10. /\ \A u \in Threads \ {t} : pc'[u] = pc[u]
       /\ \A u \in Threads : Unsent(u)' = Unsent(u)
       /\ pc'[t] # "write_send" /\ requests'[L + 1].kind = "write"
  BY <1>1, <1>2, <1>6 DEF Unsent
<1>11. \A c : OnTheWay(c)' => OnTheWay(c)
  BY <1>2, <1>6, <1>7, <1>8, <1>10 DEF OnTheWay
<1>12. \A c : OnTheWay(c) => OnTheWay(c)'
  BY <1>2, <1>6, <1>7, <1>9, <1>10 DEF OnTheWay
<1>13. Pending' = Pending
  BY <1>11, <1>12, PendingIsOnTheWay
<1> QED BY <1>2, <1>3, <1>4, <1>5, <1>13 DEF channelVars

\* A write that ends returns what it promised.
LEMMA WriteReturns ==
  ASSUME ClientInv, InOrder, EchoesWritten, NEW t \in Threads,
         NEW res \in {"ok", "failed", "refused"},
         End(t, IF res = "refused" THEN "write_send" ELSE "write_receive", res),
         requests' = requests,
         res = "ok" /\ CheckEcho => Reached(target[t])
  PROVE  Channel!Next
<1>1. /\ pc \in [Threads -> CallSteps]
      /\ target \in [Threads -> Registers \cup Values \cup {"none"}]
      /\ result \in [Threads -> Results]
      /\ Len(requests) \in Nat
      /\ \A i \in 1..Len(requests) : requests[i] \in Requests
      /\ \A i \in 1..Len(applied) : applied[i] \in Requests /\ Len(applied) \in Nat
  <2> HIDE DEF Requests
  <2> QED BY DEF ClientInv, TypeOK
<1>2. /\ pc[t] = (IF res = "refused" THEN "write_send" ELSE "write_receive")
      /\ pc' = [pc EXCEPT ![t] = "idle"]
      /\ result' = [result EXCEPT ![t] = res]
      /\ UNCHANGED <<id, applied, target>>
  BY DEF End, Step
<1>3. target[t] \in Values /\ Writing(t)
  BY <1>1, <1>2 DEF ClientInv, CallShape, WriteSteps, Writing
<1>4. Busy[t] = target[t] /\ Busy' = [Busy EXCEPT ![t] = "none"]
  BY <1>1, <1>2, <1>3 DEF Busy, Writing
<1>5. Outcome' = [Outcome EXCEPT ![t] = res]
  BY <1>1, <1>2, <1>3 DEF Outcome
<1>6. Applied' = Applied
  BY <1>2 DEF Applied
<1>7. res = "ok" /\ CheckEcho =>
        \E i \in 1..Len(Applied) : Applied[i].of = Busy[t]
  <2> SUFFICES ASSUME Reached(target[t])
               PROVE  \E i \in 1..Len(Applied) : Applied[i].of = Busy[t]
    OBVIOUS
  <2>1. PICK i \in 1..Len(applied) : applied[i].of = target[t]
    BY DEF Reached
  <2>2. Len(Applied) = Len(applied) /\ Applied[i].of = applied[i].of
    BY <1>1, <2>1 DEF Applied, Command
  <2> QED BY <1>4, <2>1, <2>2
<1>8. CASE res = "refused"
  <2>1. pc[t] = "write_send" /\ pc'[t] # "write_send"
    BY <1>1, <1>2, <1>8
  <2>2. \A i \in 1..Len(requests) : requests[i].by = t => requests[i].id # id[t]
    <3>1. \A i \in 1..Len(requests) : requests[i].by = t => requests[i].id < id[t]
      BY <2>1 DEF InOrder, Past
    <3>2. id[t] \in Nat /\ \A i \in 1..Len(requests) : requests[i].id \in Nat
      BY <1>1, MasterAssumption DEF ClientInv, TypeOK, Requests,
        MasterAssumption
    <3> QED BY <3>1, <3>2
  <2>3. /\ \A u \in Threads \ {t} : pc'[u] = pc[u]
        /\ \A u \in Threads : Unsent(u)' = Unsent(u)
        /\ \A u \in Threads : Unsent(u).by = u
        /\ Unsent(t).id = id[t]
    BY <1>1, <1>2 DEF Unsent
  <2>4. \A c : OnTheWay(c)' <=> OnTheWay(c) /\ ~(c.by = t /\ c.id = id[t])
    <3>1. \A i \in 1..Len(requests) :
            /\ Command(requests[i]).by = requests[i].by
            /\ Command(requests[i]).id = requests[i].id
      BY DEF Command
    <3> QED BY <2>1, <2>2, <2>3, <3>1 DEF OnTheWay
  <2>5. Pending' = {c \in Pending : ~(c.by = t /\ c.id = id[t])}
    BY <2>4, PendingIsOnTheWay
  <2>6. OnTheWay(Unsent(t))
    BY <2>1 DEF OnTheWay
  <2>7. \E c \in Pending : c.by = t /\ c.id = id[t]
    BY <2>3, <2>6, PendingIsOnTheWay
  <2>8. Channel!Return(t, res)
    BY <1>2, <1>3, <1>4, <1>5, <1>6, <1>8, <2>5, <2>7
      DEF Channel!Return, Channel!Reached, Busy, Outcome, Pending, Applied
  <2> QED BY <2>8 DEF Channel!Next
<1>9. CASE res # "refused"
  <2>1. \A c : OnTheWay(c)' <=> OnTheWay(c)
    BY <1>1, <1>2, <1>9 DEF OnTheWay, Unsent
  <2>2. Pending' = Pending
    BY <2>1, PendingIsOnTheWay
  <2>3. Channel!Return(t, res)
    BY <1>2, <1>3, <1>4, <1>5, <1>6, <1>7, <1>9, <2>2
      DEF Channel!Return, Channel!Reached, Busy, Outcome, Pending, Applied
  <2> QED BY <2>3 DEF Channel!Next
<1> QED BY <1>8, <1>9

\* The slave carries out the oldest command of its thread, or loses it, or
\* serves a read.
LEMMA LineIsChannel ==
  ASSUME ClientInv, InOrder, LineNext
  PROVE  Channel!Next \/ UNCHANGED channelVars
<1>1. UNCHANGED <<id, pc, target, result>>
  BY DEF LineNext, SlaveAnswersRead, SlaveWrites, SlaveMisses, SlavePrints,
    SplitFrame, callVars
<1>2. Busy' = Busy /\ Outcome' = Outcome /\ \A u : Unsent(u)' = Unsent(u)
  BY <1>1 DEF Busy, Outcome, Writing, Unsent
<1>3. ASSUME UNCHANGED <<requests, applied>> PROVE UNCHANGED channelVars
  <2>1. \A c : OnTheWay(c)' <=> OnTheWay(c)
    BY <1>1, <1>2, <1>3 DEF OnTheWay
  <2>2. Pending' = Pending
    BY <2>1, PendingIsOnTheWay
  <2> QED BY <1>1, <1>2, <1>3, <2>2 DEF Applied, channelVars
<1>4. ASSUME requests # <<>>, requests' = Tail(requests)
      PROVE  /\ requests[1] = Head(requests) /\ requests[1] \in Requests
             /\ requests[1].kind = "read" => Pending' = Pending
             /\ requests[1].kind = "write" =>
                  /\ Pending' = Pending \ {Command(requests[1])}
                  /\ Command(requests[1]) \in Pending
                  /\ \A d \in Pending : d.by = requests[1].by =>
                       requests[1].id <= d.id
  <2> PICK L : L = Len(requests)
    OBVIOUS
  <2>1. /\ L \in Nat /\ L >= 1 /\ Len(requests') = L - 1
        /\ \A i \in 1..(L - 1) : requests'[i] = requests[i + 1]
        /\ requests[1] = Head(requests) /\ requests[1] \in Requests
    BY <1>4, ServeRequest DEF ClientInv
  <2>2. \A i \in 1..L : requests[i] \in Requests
    <3> HIDE DEF Requests
    <3> QED BY <2>1 DEF ClientInv, TypeOK
  <2>3. \A r \in Requests : r.id \in Nat /\ r.by \in Threads
                            /\ Command(r).by = r.by /\ Command(r).id = r.id
    BY MasterAssumption DEF MasterAssumption, Requests, Command
  <2>4. \A i \in 1..L : i = 1 \/ (i - 1 \in 1..(L - 1) /\ (i - 1) + 1 = i)
    BY <2>1
  <2>5. \A i \in 1..(L - 1) : i + 1 \in 1..L /\ 1 < i + 1 /\ 1 \in 1..L
    BY <2>1
  <2>6. \A c : OnTheWay(c)' => OnTheWay(c)
    BY <1>1, <1>2, <2>1, <2>5 DEF OnTheWay
  <2>7. \A c : OnTheWay(c) =>
                 \/ OnTheWay(c)'
                 \/ requests[1].kind = "write" /\ c = Command(requests[1])
    <3> SUFFICES ASSUME NEW c, NEW i \in 1..L, requests[i].kind = "write",
                        c = Command(requests[i]), i # 1
                 PROVE  OnTheWay(c)'
      BY <1>1, <1>2 DEF OnTheWay
    <3> PICK j : j = i - 1
      OBVIOUS
    <3>1. j \in 1..(L - 1) /\ requests'[j] = requests[i]
      BY <2>1, <2>4
    <3> QED BY <2>1, <3>1 DEF OnTheWay
  <2>8. CASE requests[1].kind = "read"
    <3>1. Pending' = Pending
      BY <2>6, <2>7, <2>8, PendingIsOnTheWay
    <3> QED BY <2>1, <2>8, <3>1
  <2>9. CASE requests[1].kind = "write"
    <3>1. \A i \in 2..L :
            requests[i].by = requests[1].by /\ requests[i].kind = "write"
              => requests[1].id < requests[i].id
      BY <2>1, <2>9 DEF InOrder
    <3>2. \A u \in Threads :
            u = requests[1].by /\ pc[u] = "write_send" => requests[1].id < id[u]
      BY <2>1 DEF InOrder, Past
    <3>3. /\ \A u \in Threads : Unsent(u).by = u /\ Unsent(u).id = id[u]
          /\ \A u \in Threads : id[u] \in Nat
      BY MasterAssumption DEF Unsent, ClientInv, TypeOK, MasterAssumption
    <3> PICK first : first = Command(requests[1])
      OBVIOUS
    <3>4. ~OnTheWay(first)'
      <4>1. \A i \in 1..(L - 1) : requests'[i].kind = "write" =>
              Command(requests'[i]) # Command(requests[1])
        <5> SUFFICES ASSUME NEW i \in 1..(L - 1), requests'[i].kind = "write",
                            Command(requests'[i]) = Command(requests[1])
                     PROVE  FALSE
          OBVIOUS
        <5>1. /\ requests'[i] = requests[i + 1] /\ i + 1 \in 2..L
              /\ requests[i + 1] \in Requests
          BY <2>1, <2>2
        <5>2. requests[i + 1].by = requests[1].by
              /\ requests[i + 1].id = requests[1].id
          BY <2>1, <2>3, <5>1
        <5> QED BY <2>1, <2>3, <3>1, <5>1, <5>2
      <4>2. \A u \in Threads : pc[u] = "write_send" =>
              Unsent(u) # Command(requests[1])
        <5> SUFFICES ASSUME NEW u \in Threads, pc[u] = "write_send",
                            Unsent(u) = Command(requests[1])
                     PROVE  FALSE
          OBVIOUS
        <5>1. u = requests[1].by /\ id[u] = requests[1].id
          BY <2>1, <2>3, <3>3
        <5> QED BY <2>1, <2>3, <3>2, <3>3, <5>1
      <4>3. (\A u \in Threads : pc'[u] = pc[u] /\ Unsent(u)' = Unsent(u))
            /\ Len(requests') = L - 1
        BY <1>1, <1>2, <2>1
      <4> QED BY <4>1, <4>2, <4>3 DEF OnTheWay
    <3>5. OnTheWay(first)
      BY <2>1, <2>9 DEF OnTheWay
    <3>6. Pending' = Pending \ {Command(requests[1])}
      <4>1. \A c : OnTheWay(c)' <=> OnTheWay(c) /\ c # first
        BY <2>6, <2>7, <3>4 DEF OnTheWay
      <4> QED BY <4>1, PendingIsOnTheWay
    <3>7. \A d : OnTheWay(d) /\ d.by = requests[1].by => requests[1].id <= d.id
      <4> SUFFICES ASSUME NEW d, OnTheWay(d), d.by = requests[1].by
                   PROVE  requests[1].id <= d.id
        OBVIOUS
      <4>1. CASE \E i \in 1..L : requests[i].kind = "write"
                                 /\ d = Command(requests[i])
        <5>1. PICK i \in 1..L : requests[i].kind = "write"
                                /\ d = Command(requests[i])
          BY <4>1
        <5>2. requests[i].by = requests[1].by /\ d.id = requests[i].id
          BY <2>2, <2>3, <5>1
        <5>3. i = 1 \/ i \in 2..L
          BY <2>1
        <5>4. requests[1].id \in Nat /\ requests[i].id \in Nat
          BY <2>1, <2>2, <2>3
        <5> QED BY <3>1, <5>1, <5>2, <5>3, <5>4
      <4>2. CASE \E u \in Threads : pc[u] = "write_send" /\ d = Unsent(u)
        BY <2>1, <2>3, <3>2, <3>3, <4>2
      <4> QED BY <4>1, <4>2 DEF OnTheWay
    <3> QED BY <2>1, <2>9, <3>5, <3>6, <3>7, PendingIsOnTheWay
  <2> QED BY <2>1, <2>8, <2>9 DEF Requests
<1>5. CASE SlaveWrites
  <2> PICK r : r = requests[1]
    OBVIOUS
  <2>1. /\ r.kind = "write" /\ r \in Requests
        /\ applied' = Append(applied, r)
        /\ Pending' = Pending \ {Command(r)}
        /\ Command(r) \in Pending
        /\ \A d \in Pending : d.by = r.by => r.id <= d.id
    BY <1>4, <1>5 DEF SlaveWrites
  <2> PICK L : L = Len(applied)
    OBVIOUS
  <2>2. /\ L \in Nat /\ Len(applied') = L + 1
        /\ \A i \in 1..L : applied'[i] = applied[i]
        /\ applied'[L + 1] = r
    <3> HIDE DEF Requests
    <3> QED BY <2>1 DEF ClientInv, TypeOK
  <2>3. Applied' = Append(Applied, Command(r))
    <3>1. Applied' = [i \in 1..(L + 1) |-> Command(applied'[i])]
      BY <2>2 DEF Applied
    <3>2. Applied \in Seq({Command(x) : x \in Requests}) /\ Len(Applied) = L
          /\ \A i \in 1..L : Applied[i] = Command(applied[i])
      <4>1. \A i \in 1..L : Command(applied[i]) \in {Command(x) : x \in Requests}
        <5>1. \A i \in 1..L : applied[i] \in Requests
          <6> HIDE DEF Requests
          <6> QED BY DEF ClientInv, TypeOK
        <5> QED BY <5>1
      <4>2. Applied = [i \in 1..L |-> Command(applied[i])]
        BY DEF Applied
      <4> HIDE DEF Requests, Command
      <4> QED BY <2>2, <4>1, <4>2
    <3> PICK s : s = Append(Applied, Command(r))
      OBVIOUS
    <3>3. /\ s \in Seq({Command(x) : x \in Requests}) /\ Len(s) = L + 1
          /\ \A i \in 1..L : s[i] = Applied[i]
          /\ s[L + 1] = Command(r)
      <4>1. Command(r) \in {Command(x) : x \in Requests}
        BY <2>1
      <4> HIDE DEF Requests, Command
      <4> QED BY <2>2, <3>2, <4>1
    <3>4. s = [i \in 1..(L + 1) |-> s[i]]
      BY <3>3, <2>2, LenProperties
    <3>5. \A i \in 1..(L + 1) : s[i] = Command(applied'[i])
      BY <2>2, <3>2, <3>3
    <3> QED BY <3>1, <3>4, <3>5
  <2>4. Command(r).by = r.by /\ Command(r).id = r.id
    BY DEF Command
  <2>5. Channel!TakeEffect
    BY <1>1, <1>2, <2>1, <2>3, <2>4
      DEF Channel!TakeEffect, Channel!Oldest, Busy, Outcome, Pending, Applied
  <2> QED BY <2>5 DEF Channel!Next
<1>6. CASE SlaveAnswersRead \/ SlaveMisses
  <2>1. requests # <<>> /\ requests' = Tail(requests) /\ applied' = applied
    BY <1>6 DEF SlaveAnswersRead, SlaveMisses
  <2>2. Applied' = Applied
    BY <2>1 DEF Applied
  <2>3. CASE requests[1].kind = "read"
    BY <1>1, <1>2, <1>4, <2>1, <2>2, <2>3 DEF channelVars
  <2>4. CASE requests[1].kind = "write"
    <3>1. Channel!Lose
      BY <1>1, <1>2, <1>4, <2>1, <2>2, <2>4
        DEF Channel!Lose, Busy, Outcome, Pending, Applied
    <3> QED BY <3>1 DEF Channel!Next
  <2> QED BY <1>4, <2>1, <2>3, <2>4 DEF Requests
<1>7. CASE SlavePrints \/ SplitFrame
  BY <1>3, <1>7 DEF SlavePrints, SplitFrame
<1> QED BY <1>5, <1>6, <1>7 DEF LineNext

LEMMA ChannelStep ==
  ClientInv /\ InOrder /\ EchoesWritten /\ [Next]_vars
    => [Channel!Next]_channelVars
<1> SUFFICES ASSUME ClientInv, InOrder, EchoesWritten, [Next]_vars
             PROVE  Channel!Next \/ UNCHANGED channelVars
  OBVIOUS
<1>1. ASSUME NEW t \in Threads, CallNext(t) PROVE Channel!Next
  BY <1>1, CallStarts
<1>2. ASSUME NEW t \in Threads, StepNext(t)
      PROVE  Channel!Next \/ UNCHANGED channelVars
  <2>1. CASE \/ ReadFlush(t) \/ ReadSend(t) \/ ReadReceive(t) \/ ReadFails(t)
             \/ ReadClose(t) \/ ReadReconnect(t)
    BY <2>1, ReadIsUnseen
  <2>2. CASE WriteSend(t) /\ open[Ctx(t)]
    BY <2>2, SendIsUnseen
  <2>3. CASE WriteSend(t) /\ ~open[Ctx(t)]
    <3>1. End(t, "write_send", "refused") /\ requests' = requests
      BY <2>3 DEF WriteSend
    <3> QED BY <3>1, WriteReturns
  <2>4. CASE WriteReceive(t)
    <3>1. /\ End(t, "write_receive", "ok") /\ requests' = requests
          /\ input # <<>> /\ IsEcho(t, Head(input))
      BY <2>4 DEF WriteReceive
    <3>2. 1 \in 1..Len(input) /\ Head(input) = input[1]
      <4>1. input \in Seq(Wire)
        BY DEF ClientInv, TypeOK, Wire
      <4> HIDE DEF Wire
      <4> QED BY <3>1, <4>1
    <3>3. CheckEcho => Reached(target[t])
      BY <3>1, <3>2 DEF IsEcho, EchoesWritten, Reached
    <3> QED BY <3>1, <3>3, WriteReturns
  <2>5. CASE WriteFails(t)
    <3>1. End(t, "write_receive", "failed") /\ requests' = requests
      BY <2>5 DEF WriteFails, WriteGivesUp, Lost
    <3> QED BY <3>1, WriteReturns
  <2> QED BY <1>2, <2>1, <2>2, <2>3, <2>4, <2>5 DEF StepNext
<1>3. CASE LineNext
  BY <1>3, LineIsChannel
<1>4. CASE UNCHANGED vars
  BY <1>4 DEF vars, callVars, channelVars, Busy, Outcome, Pending, Applied,
    Writing
<1> QED BY <1>1, <1>2, <1>3, <1>4 DEF Next

\* Whatever the threads, the line and the slave do, a write takes effect at
\* most once and in its turn, one reported done has reached the motor, and
\* one refused never will.
THEOREM ClientIsAChannel == Spec => ImplementsChannel
<1>1. Init => Channel!Init
  BY DEF Init, Channel!Init, Writing, Values
<1>2. ClientInv /\ InOrder /\ EchoesWritten /\ [Next]_vars
        => [Channel!Next]_channelVars
  BY ChannelStep
<1> QED BY <1>1, <1>2, ClientInvariant, OrderInvariant, EchoInvariant, PTL
  DEF Spec, ImplementsChannel, Channel!Spec, Channel!vars, channelVars, Busy,
      Outcome, Pending, Applied
=============================================================================
