--------------------------- MODULE ChatAgentProofs ---------------------------
(***************************************************************************)
(* Proofs about ChatAgent, for any questions, any number of calls, and a   *)
(* channel whose "ok" is to be believed or not.                            *)
(***************************************************************************)
EXTENDS ChatAgent, SequenceTheorems, FiniteSetTheorems, TLAPS

(***************************************************************************)
(* The invariants.                                                         *)
(***************************************************************************)
Commands == [by : Callers, of : Values, id : 1..MaxCalls]

Observed == [id : 1..MaxCalls, of : Values \cup {"none"}, res : Results]

\* Commands that have taken effect or may do so yet.
Effective(c) == c \in pending \/ \E i \in 1..Len(applied) : applied[i] = c

\* The tool that runs has a number, and it is what the caller made last.
ToolNumbered ==
  main # Nobody => last["main"] \in 1..MaxCalls

AgentInv == TypeOK /\ ToolNumbered

\* A command has a number of its own, no later than its caller's last, and has
\* not been overtaken by a later one of its caller.
Numbered ==
  /\ \A c \in Commands : Effective(c) => c.id <= last[c.by]
  /\ \A c, d \in pending : c.id = d.id => c = d
  /\ \A c \in pending : \A i \in 1..Len(applied) :
       applied[i].id # c.id /\ (applied[i].by = c.by => applied[i].id < c.id)

\* The observations have the numbers of the calls of the main loop that have
\* returned, each its own.
Observations ==
  /\ \A q \in Questions : \A i \in 1..Len(history[q]) :
       IF main = Nobody THEN history[q][i].id <= last["main"]
                        ELSE history[q][i].id < last["main"]
  /\ \A q, r \in Questions :
       \A i \in 1..Len(history[q]), j \in 1..Len(history[r]) :
         history[q][i].id = history[r][j].id => q = r

\* An observation of the given command.
Told(c, q) ==
  \E i \in 1..Len(history[q]) :
    history[q][i].id = c.id /\ history[q][i].of = c.of

\* A command of the main loop is that of the tool that runs, or was told.
Telling ==
  \A c \in Commands : Effective(c) /\ c.by = "main" =>
    IF main # Nobody /\ c.id = last["main"]
    THEN c.of = busy["main"]
    ELSE \E q \in Questions : Told(c, q)

ChannelInv == Numbered /\ Observations

(***************************************************************************)
(* How often a question occurs in a queue.                                 *)
(***************************************************************************)
Occurs(q, s) == {i \in 1..Len(s) : s[i] = q}

LEMMA TimesNat ==
  ASSUME NEW S, NEW s \in Seq(S), NEW q
  PROVE  /\ IsFiniteSet(Occurs(q, s)) /\ Times(q, s) = Cardinality(Occurs(q, s))
         /\ Times(q, s) \in Nat
<1>1. IsFiniteSet(1..Len(s))
  BY FS_Interval
<1>2. IsFiniteSet(Occurs(q, s))
  BY <1>1, FS_Subset DEF Occurs
<1> QED BY <1>2, FS_CardinalityType DEF Times, Occurs

LEMMA TimesEmpty ==
  ASSUME NEW q
  PROVE  Times(q, <<>>) = 0
<1>1. {i \in 1..Len(<<>>) : <<>>[i] = q} = {}
  OBVIOUS
<1> QED BY <1>1, FS_EmptySet DEF Times

LEMMA TimesAppend ==
  ASSUME NEW S, NEW s \in Seq(S), NEW x \in S, NEW q
  PROVE  Times(q, Append(s, x)) = Times(q, s) + (IF x = q THEN 1 ELSE 0)
<1> PICK L, t : L = Len(s) /\ t = Append(s, x)
  OBVIOUS
<1>1. /\ L \in Nat /\ t \in Seq(S) /\ Len(t) = L + 1 /\ t[L + 1] = x
      /\ \A i \in 1..L : t[i] = s[i]
  BY AppendProperties
<1>2. \A i \in 1..(L + 1) : i \in 1..L \/ i = L + 1
  BY <1>1
<1>3. \A i \in 1..L : i \in 1..(L + 1) /\ i # L + 1
  BY <1>1
<1>4. L + 1 \in 1..(L + 1)
  BY <1>1
<1>5. Occurs(q, t) = IF x = q THEN Occurs(q, s) \cup {L + 1} ELSE Occurs(q, s)
  BY <1>1, <1>2, <1>3, <1>4 DEF Occurs
<1>6. L + 1 \notin Occurs(q, s)
  BY <1>3 DEF Occurs
<1>7. /\ IsFiniteSet(Occurs(q, s)) /\ Times(q, s) = Cardinality(Occurs(q, s))
      /\ Times(q, s) \in Nat /\ Times(q, t) = Cardinality(Occurs(q, t))
  BY <1>1, TimesNat
<1>8. Cardinality(Occurs(q, s) \cup {L + 1}) = Cardinality(Occurs(q, s)) + 1
  BY <1>6, <1>7, FS_AddElement
<1> QED BY <1>5, <1>7, <1>8

LEMMA TimesTail ==
  ASSUME NEW S, NEW s \in Seq(S), s # <<>>, NEW q
  PROVE  Times(q, s) = Times(q, Tail(s)) + (IF Head(s) = q THEN 1 ELSE 0)
<1> PICK L, t : L = Len(s) /\ t = Tail(s)
  OBVIOUS
<1>1. /\ L \in Nat /\ L >= 1 /\ t \in Seq(S) /\ Len(t) = L - 1
      /\ Head(s) = s[1] /\ \A i \in 1..(L - 1) : t[i] = s[i + 1]
  BY HeadTailProperties
<1> DEFINE Later == {i \in 2..L : s[i] = q}
           next == [i \in Occurs(q, t) |-> i + 1]
<1>2. next \in Bijection(Occurs(q, t), Later)
  <2>1. \A i \in 1..(L - 1) : i + 1 \in 2..L
    BY <1>1
  <2>2. \A i \in 2..L : i - 1 \in 1..(L - 1) /\ (i - 1) + 1 = i
    BY <1>1
  <2>3. next \in [Occurs(q, t) -> Later]
    BY <1>1, <2>1 DEF Occurs
  <2>4. \A i, j \in Occurs(q, t) : next[i] = next[j] => i = j
    <3>1. \A i, j \in 1..(L - 1) : i + 1 = j + 1 => i = j
      BY <1>1
    <3> QED BY <1>1, <3>1 DEF Occurs
  <2>5. \A j \in Later : \E i \in Occurs(q, t) : next[i] = j
    <3> SUFFICES ASSUME NEW j \in Later
                 PROVE  \E i \in Occurs(q, t) : next[i] = j
      OBVIOUS
    <3>1. j - 1 \in Occurs(q, t)
      BY <1>1, <2>2 DEF Occurs
    <3> QED BY <2>2, <3>1
  <2> QED BY <2>3, <2>4, <2>5 DEF Bijection, Injection, Surjection, IsInjective
<1>3. /\ IsFiniteSet(Occurs(q, t)) /\ Times(q, t) = Cardinality(Occurs(q, t))
      /\ Times(q, t) \in Nat /\ Times(q, s) = Cardinality(Occurs(q, s))
  BY <1>1, TimesNat
<1>4. IsFiniteSet(Later) /\ Cardinality(Later) = Cardinality(Occurs(q, t))
  <2>1. ExistsBijection(Occurs(q, t), Later)
    BY <1>2 DEF ExistsBijection
  <2> HIDE DEF Later, next
  <2> QED BY <1>3, <2>1, FS_Bijection
<1>5. Occurs(q, s) = IF Head(s) = q THEN Later \cup {1} ELSE Later
  <2>1. \A i \in 1..L : i = 1 \/ i \in 2..L
    BY <1>1
  <2>2. 1 \in 1..L /\ \A i \in 2..L : i \in 1..L
    BY <1>1
  <2> QED BY <1>1, <2>1, <2>2 DEF Occurs
<1>6. Cardinality(Later \cup {1}) = Cardinality(Later) + 1
  <2>1. 1 \notin Later
    BY <1>1
  <2> QED BY <1>4, <2>1, FS_AddElement
<1> HIDE DEF Later, next
<1> QED BY <1>3, <1>4, <1>5, <1>6

(***************************************************************************)
(* Types.                                                                  *)
(***************************************************************************)
\* What the conversations hold, and what the channel holds.
ChatTyped ==
  /\ io \in Questions \cup {Nobody}
  /\ io_sent \in BOOLEAN
  /\ posted \in Seq(Questions \cup {Broadcast})
  /\ requests \in Seq(Questions)
  /\ main \in Questions \cup {Nobody}
  /\ asked \in SUBSET Questions
  /\ history \in [Questions -> Seq(Observed)]
  /\ answers \in [Questions -> Nat]
  /\ crashed \in BOOLEAN

ChannelTyped ==
  /\ last \in [Callers -> 0..MaxCalls]
  /\ busy \in [Callers -> Values \cup {"none"}]
  /\ outcome \in [Callers -> Results \cup {"none"}]
  /\ pending \subseteq Commands
  /\ applied \in Seq(Commands)

LEMMA TypeSplit == TypeOK <=> ChatTyped /\ ChannelTyped
BY DEF TypeOK, ChatTyped, ChannelTyped, Observed, Commands

\* A call takes a number later than any before, and with it a command if it
\* writes a value.
LEMMA ChannelStart ==
  ASSUME ChannelTyped, NEW t \in Callers, NEW v \in Values \cup {"none"},
         Channel!Start(t, v)
  PROVE  \E n \in 1..MaxCalls :
           /\ \A u \in Callers : last[u] < n
           /\ last' = [last EXCEPT ![t] = n]
           /\ pending' = IF v \in Values
                         THEN pending \cup {[by |-> t, of |-> v, id |-> n]}
                         ELSE pending
           /\ busy' = [busy EXCEPT ![t] = v]
           /\ applied' = applied
           /\ ChannelTyped'
<1>1. PICK n \in 1..MaxCalls :
        /\ \A u \in Callers : last[u] < n
        /\ last' = [last EXCEPT ![t] = n]
        /\ pending' = IF v \in Values
                      THEN pending \cup {[by |-> t, of |-> v, id |-> n]}
                      ELSE pending
  BY DEF Channel!Start
<1>2. /\ busy' = [busy EXCEPT ![t] = v]
      /\ outcome' = [outcome EXCEPT ![t] = "none"] /\ applied' = applied
  BY DEF Channel!Start
<1>3. n \in 0..MaxCalls
  BY AgentAssumption
<1>4. v \in Values => [by |-> t, of |-> v, id |-> n] \in Commands
  BY DEF Commands
<1>5. ChannelTyped'
  BY <1>1, <1>2, <1>3, <1>4 DEF ChannelTyped
<1> QED BY <1>1, <1>2, <1>5

\* A call that is refused takes its command back.
LEMMA ChannelReturn ==
  ASSUME ChannelTyped, NEW t \in Callers, NEW res \in Results,
         Channel!Return(t, res)
  PROVE  /\ busy[t] \in Values /\ busy' = [busy EXCEPT ![t] = "none"]
         /\ pending' = IF res = "refused"
                       THEN {c \in pending : ~(c.by = t /\ c.id = last[t])}
                       ELSE pending
         /\ res = "refused" =>
              \E c \in pending : c.by = t /\ c.id = last[t]
         /\ last' = last /\ applied' = applied
         /\ ChannelTyped'
<1>1. /\ busy[t] \in Values /\ busy' = [busy EXCEPT ![t] = "none"]
      /\ pending' = IF res = "refused"
                    THEN {c \in pending : ~(c.by = t /\ c.id = last[t])}
                    ELSE pending
      /\ res = "refused" =>
           \E c \in pending : c.by = t /\ c.id = last[t]
      /\ outcome' = [outcome EXCEPT ![t] = res]
      /\ last' = last /\ applied' = applied
  BY DEF Channel!Return
<1>2. ChannelTyped'
  BY <1>1 DEF ChannelTyped
<1> QED BY <1>1, <1>2

\* A command reaches the motor, the oldest of its caller's, or is lost.
LEMMA ChannelLine ==
  ASSUME ChannelTyped, Line
  PROVE  /\ UNCHANGED <<chatVars, crashed, last, busy>>
         /\ \E c \in pending :
              /\ pending' = pending \ {c}
              /\ \/ applied' = Append(applied, c) /\ Channel!Oldest(c)
                 \/ applied' = applied
         /\ ChannelTyped'
<1>1. PICK c \in pending :
        /\ pending' = pending \ {c}
        /\ \/ applied' = Append(applied, c) /\ Channel!Oldest(c)
           \/ applied' = applied
  BY DEF Line, Channel!TakeEffect, Channel!Lose
<1>2. UNCHANGED <<chatVars, crashed, last, busy, outcome>>
  BY DEF Line, Channel!TakeEffect, Channel!Lose
<1>3. applied' \in Seq(Commands)
  <2>1. c \in Commands /\ applied \in Seq(Commands)
    BY DEF ChannelTyped
  <2> HIDE DEF Commands
  <2> QED BY <1>1, <2>1
<1>4. ChannelTyped'
  BY <1>1, <1>2, <1>3 DEF ChannelTyped
<1> QED BY <1>1, <1>2, <1>4

\* The steps of the conversations that do not touch the channel.
ChatStep ==
  \/ \E q \in Questions : HandleNewMessage(q)
  \/ FirstStep \/ HandlerReturns \/ PostBroadcast \/ RunTask
  \/ ReplyIsAnswered \/ UnknownTool \/ ConnectionFails

CrashStep == ReplyIsOdd \/ ReplyIsWild \/ ToolReturnIsWild

\* A step is one of these.
LEMMA AgentSteps ==
  ASSUME [Next]_vars
  PROVE  \/ ChatStep \/ CrashStep \/ BrowserWrites \/ RunTool \/ ToolNext
         \/ Line \/ UNCHANGED vars
BY DEF Next, IoNext, ServiceNext, ChatStep, CrashStep

\* A crash leaves everything as it is.
LEMMA CrashKeeps ==
  ASSUME CrashStep \/ UNCHANGED vars
  PROVE  /\ UNCHANGED <<chatVars, channelVars>>
         /\ crashed' = TRUE \/ crashed' = crashed
BY DEF CrashStep, ReplyIsOdd, ReplyIsWild, ToolReturnIsWild, Crash, vars

\* What a step of the conversations leaves alone.
LEMMA ChatKeeps ==
  ASSUME ChatStep
  PROVE  UNCHANGED <<main, history, channelVars>>
BY DEF ChatStep, HandleNewMessage, FirstStep, HandlerReturns, PostBroadcast,
  RunTask, RunTaskAs, ReplyIsAnswered, UnknownTool, ConnectionFails, Io, Loop,
  Reply, Crash, chatVars

\* The browser's commands.
LEMMA BrowserKeeps ==
  ASSUME ChannelTyped, BrowserWrites
  PROVE  /\ UNCHANGED <<chatVars, crashed>> /\ ChannelTyped'
         /\ \/ \E v \in Values : Channel!Start("io", v)
            \/ \E res \in Results : Channel!Return("io", res)
<1>1. /\ UNCHANGED <<chatVars, crashed>>
      /\ \/ \E v \in Values : Channel!Start("io", v)
         \/ \E res \in Results : Channel!Return("io", res)
  BY DEF BrowserWrites, Channel!Write, Results
<1>2. "io" \in Callers /\ Values \subseteq Values \cup {"none"}
  BY DEF Callers
<1> QED BY <1>1, <1>2, ChannelStart, ChannelReturn

\* A tool begins.
LEMMA ToolBegins ==
  ASSUME RunTool
  PROVE  /\ main = Nobody /\ requests # <<>> /\ ~crashed
         /\ main' = Head(requests) /\ requests' = Tail(requests) \o <<>>
         /\ answers' = [answers EXCEPT ![Head(requests)] = @ + 0]
         /\ UNCHANGED <<io, io_sent, posted, asked, history, crashed>>
         /\ \E v \in Values \cup {"none"} : Channel!Start("main", v)
BY DEF RunTool, Reply, Loop, Channel!Write, Channel!Other

\* A tool ends.
LEMMA ToolFinishes ==
  ASSUME ChannelTyped, ToolNext
  PROVE  \E res \in Results :
           /\ ~crashed /\ main # Nobody /\ NextStep(Observation(res))
           /\ ChannelTyped' /\ UNCHANGED <<last, applied>>
           /\ \/ /\ busy["main"] = "none" /\ res # "refused"
                 /\ UNCHANGED <<busy, pending>>
              \/ Channel!Return("main", res)
<1>1. PICK res \in Results : ToolReturns(res)
  BY DEF ToolNext, Results
<1>2. "main" \in Callers
  BY DEF Callers
<1>3. CASE busy["main"] = "none"
  BY <1>1, <1>3 DEF ToolReturns, ToolEnds, channelVars, ChannelTyped
<1>4. CASE busy["main"] # "none"
  BY <1>1, <1>2, <1>4, ChannelReturn DEF ToolReturns, ToolEnds
<1> QED BY <1>3, <1>4

LEMMA HistoryGrows ==
  ASSUME ChatTyped, ChannelTyped, ToolNumbered, NEW res \in Results,
         main # Nobody, NextStep(Observation(res))
  PROVE  LET o == [id |-> last["main"], of |-> busy["main"], res |-> res] IN
         /\ o \in Observed
         /\ history' \in [Questions -> Seq(Observed)]
         /\ \A q \in Questions \ {main} : history'[q] = history[q]
         /\ Len(history[main]) \in Nat
         /\ Len(history'[main]) = Len(history[main]) + 1
         /\ \A i \in 1..Len(history[main]) : history'[main][i] = history[main][i]
         /\ history'[main][Len(history[main]) + 1] = o
<1> DEFINE o == [id |-> last["main"], of |-> busy["main"], res |-> res]
<1>1. o \in Observed
  BY DEF ChannelTyped, ToolNumbered, Observed, Callers
<1>2. main \in Questions /\ history[main] \in Seq(Observed)
  BY DEF ChatTyped
<1>3. history' = [history EXCEPT ![main] = @ \o <<o>>]
  BY DEF NextStep, Observation
<1> HIDE DEF o, Observed
<1> PICK s, t : s = history[main] /\ t = s \o <<o>>
  OBVIOUS
<1>4. s \in Seq(Observed) /\ <<o>> \in Seq(Observed)
  BY <1>1, <1>2
<1>5. /\ t \in Seq(Observed) /\ Len(s) \in Nat /\ Len(t) = Len(s) + 1
      /\ \A i \in 1..Len(s) : t[i] = s[i]
      /\ t[Len(s) + 1] = o
  BY <1>4, ConcatProperties
<1>6. history' \in [Questions -> Seq(Observed)] /\ history'[main] = t
      /\ \A q \in Questions \ {main} : history'[q] = history[q]
  BY <1>2, <1>3, <1>5 DEF ChatTyped
<1> QED BY <1>1, <1>5, <1>6 DEF o

LEMMA AgentStep == AgentInv /\ [Next]_vars => AgentInv'
<1> SUFFICES ASSUME AgentInv, [Next]_vars
             PROVE  ChatTyped' /\ ChannelTyped' /\ ToolNumbered'
  BY DEF AgentInv, TypeOK, ChatTyped, ChannelTyped, Observed, Commands
<1>1. ChatTyped /\ ChannelTyped /\ ToolNumbered
  BY TypeSplit DEF AgentInv
<1>2. CASE CrashStep \/ UNCHANGED vars
  BY <1>1, <1>2, CrashKeeps
     DEF ChatTyped, ChannelTyped, ToolNumbered, chatVars, channelVars
<1>3. CASE ChatStep
  <2>1. ChannelTyped' /\ ToolNumbered'
    BY <1>1, <1>3, ChatKeeps DEF ChannelTyped, ToolNumbered, channelVars
  <2>2. ChatTyped'
    <3> HIDE DEF Observed
    <3> USE <1>1 DEF ChatTyped
    <3>1. CASE \E q \in Questions : HandleNewMessage(q)
      BY <3>1 DEF HandleNewMessage, Io, Crash, chatVars
    <3>2. CASE FirstStep
      BY <3>2 DEF FirstStep, Io
    <3>3. CASE HandlerReturns
      BY <3>3, AgentAssumption DEF HandlerReturns, Io
    <3>4. CASE PostBroadcast
      BY <3>4 DEF PostBroadcast
    <3>5. CASE RunTask
      <4>1. /\ posted # <<>> /\ posted' = Tail(posted)
            /\ requests' = requests \o (IF Head(posted) = Broadcast
                                        THEN <<>> ELSE <<Head(posted)>>)
            /\ UNCHANGED <<io, io_sent, asked, main, history, answers, crashed>>
        BY <3>5 DEF RunTask, RunTaskAs, Loop
      <4>2. /\ Head(posted) \in Questions \cup {Broadcast}
            /\ Tail(posted) \in Seq(Questions \cup {Broadcast})
        BY <4>1
      <4>3. requests' \in Seq(Questions)
        BY <4>1, <4>2
      <4> QED BY <4>1, <4>2, <4>3
    <3>6. CASE ReplyIsAnswered \/ UnknownTool
      <4>1. /\ requests # <<>> /\ requests' = Tail(requests) \o <<>>
            /\ answers' = [answers EXCEPT ![Head(requests)] = @ + 1]
            /\ UNCHANGED <<io, io_sent, asked, main, posted, history, crashed>>
        BY <3>6 DEF ReplyIsAnswered, UnknownTool, Reply, Loop
      <4>2. Head(requests) \in Questions /\ Tail(requests) \in Seq(Questions)
        BY <4>1
      <4>3. requests' \in Seq(Questions) /\ answers' \in [Questions -> Nat]
        BY <4>1, <4>2
      <4> QED BY <4>1, <4>3
    <3>7. CASE ConnectionFails
      <4>1. \A q \in Questions : answers[q] + Times(q, requests) \in Nat
        BY TimesNat
      <4> QED BY <3>7, <4>1 DEF ConnectionFails, Loop, Times
    <3> QED BY <1>3, <3>1, <3>2, <3>3, <3>4, <3>5, <3>6, <3>7 DEF ChatStep
  <2> QED BY <2>1, <2>2
<1>4. CASE BrowserWrites
  <2>1. "main" \in Callers /\ "io" \in Callers /\ "io" # "main"
    BY DEF Callers
  <2>2. last'["main"] = last["main"]
    <3>1. CASE \E v \in Values : Channel!Start("io", v)
      BY <1>1, <2>1, <3>1, ChannelStart DEF ChannelTyped
    <3>2. CASE \E res \in Results : Channel!Return("io", res)
      BY <1>1, <2>1, <3>2, ChannelReturn
    <3> QED BY <1>1, <1>4, <3>1, <3>2, BrowserKeeps
  <2> QED BY <1>1, <1>4, <2>2, BrowserKeeps
         DEF ChatTyped, ToolNumbered, chatVars
<1>5. CASE RunTool
  <2>1. PICK v \in Values \cup {"none"} : Channel!Start("main", v)
    BY <1>5, ToolBegins
  <2>2. "main" \in Callers
    BY DEF Callers
  <2>3. ChannelTyped' /\ last'["main"] \in 1..MaxCalls
    BY <1>1, <2>1, <2>2, ChannelStart DEF ChannelTyped
  <2>4. /\ requests # <<>> /\ requests' = Tail(requests) \o <<>>
        /\ answers' = [answers EXCEPT ![Head(requests)] = @ + 0]
        /\ requests \in Seq(Questions) /\ answers \in [Questions -> Nat]
    BY <1>1, <1>5, ToolBegins DEF ChatTyped
  <2>5. Head(requests) \in Questions /\ Tail(requests) \in Seq(Questions)
    BY <2>4
  <2>6. requests' \in Seq(Questions) /\ answers' \in [Questions -> Nat]
    BY <2>4, <2>5
  <2> QED BY <1>1, <1>5, <2>3, <2>5, <2>6, ToolBegins
         DEF ChatTyped, ToolNumbered
<1>6. CASE ToolNext
  <2>1. PICK res \in Results :
          main # Nobody /\ NextStep(Observation(res)) /\ ChannelTyped'
    BY <1>1, <1>6, ToolFinishes
  <2>2. history' \in [Questions -> Seq(Observed)]
    BY <1>1, <2>1, HistoryGrows
  <2>3. /\ main \in Questions /\ requests' = Append(requests, main)
        /\ main' = Nobody
        /\ UNCHANGED <<io, io_sent, posted, asked, answers, crashed>>
    BY <1>1, <2>1 DEF ChatTyped, NextStep
  <2> QED BY <1>1, <2>1, <2>2, <2>3 DEF ChatTyped, ToolNumbered
<1>7. CASE Line
  BY <1>1, <1>7, ChannelLine DEF ChatTyped, ToolNumbered, chatVars
<1> QED BY <1>2, <1>3, <1>4, <1>5, <1>6, <1>7, AgentSteps

LEMMA AgentInit == Init => AgentInv
<1> SUFFICES ASSUME Init PROVE ChatTyped /\ ChannelTyped /\ ToolNumbered
  BY TypeSplit DEF AgentInv
<1>1. /\ <<>> \in Seq(Questions) /\ <<>> \in Seq(Questions \cup {Broadcast})
      /\ <<>> \in Seq(Observed) /\ <<>> \in Seq(Commands)
  OBVIOUS
<1> HIDE DEF Observed, Commands
<1>2. ChatTyped
  BY <1>1 DEF Init, ChatTyped
<1>3. ChannelTyped
  BY <1>1, AgentAssumption DEF Init, Channel!Init, ChannelTyped
<1> QED BY <1>2, <1>3 DEF Init, ToolNumbered

LEMMA AgentHolds == Spec => []AgentInv
BY AgentInit, AgentStep, PTL DEF Spec

\* Every variable stays in its range.
THEOREM TypeCorrect == Spec => []TypeOK
BY AgentHolds, PTL DEF AgentInv

(***************************************************************************)
(* Questions.                                                              *)
(***************************************************************************)
\* A question is in one of these places once it has been asked.
InHandler(q) == IF io = q /\ ~io_sent THEN 1 ELSE 0
InTool(q)    == IF main = q THEN 1 ELSE 0
WasAsked(q)  == IF q \in asked THEN 1 ELSE 0

Places(q) ==
  InHandler(q) + Times(q, posted) + Times(q, requests) + InTool(q) + answers[q]

Accounted == ~crashed => \A q \in Questions : Places(q) = WasAsked(q)

LEMMA PlacesAre == QuestionsAccounted <=> Accounted
BY DEF QuestionsAccounted, Accounted, Places, InHandler, InTool, WasAsked

\* What a reply takes from the client.
LEMMA RequestTaken ==
  ASSUME ChatTyped, requests # <<>>, NEW q \in Questions,
         requests' = Tail(requests) \o <<>>
  PROVE  /\ Head(requests) \in Questions
         /\ Times(q, requests) =
              Times(q, requests') + (IF Head(requests) = q THEN 1 ELSE 0)
<1>1. requests \in Seq(Questions)
  BY DEF ChatTyped
<1>2. /\ Tail(requests) \in Seq(Questions) /\ Head(requests) \in Questions
      /\ Tail(requests) \o <<>> = Tail(requests)
  BY <1>1, ConcatEmptySeq
<1>3. requests' = Tail(requests)
  BY <1>2
<1> QED BY <1>1, <1>2, <1>3, TimesTail

LEMMA AccountStep == AgentInv /\ Accounted /\ [Next]_vars => Accounted'
<1> SUFFICES ASSUME AgentInv, Accounted, [Next]_vars, ~crashed',
                    NEW q \in Questions
             PROVE  Places(q)' = WasAsked(q)'
  BY DEF Accounted
<1>1. ChatTyped /\ ChannelTyped /\ ToolNumbered /\ ChatTyped'
  <2>1. AgentInv'
    BY AgentStep
  <2> QED BY <2>1 DEF AgentInv, TypeOK, ChatTyped, ChannelTyped, Observed, Commands
<1>2. /\ posted \in Seq(Questions \cup {Broadcast}) /\ requests \in Seq(Questions)
      /\ answers[q] \in Nat /\ q # Nobody /\ q # Broadcast
      /\ posted' \in Seq(Questions \cup {Broadcast})
      /\ requests' \in Seq(Questions) /\ answers'[q] \in Nat
  BY <1>1, AgentAssumption DEF ChatTyped
<1>3. /\ Times(q, posted) \in Nat /\ Times(q, requests) \in Nat
      /\ Times(q, posted') \in Nat /\ Times(q, requests') \in Nat
      /\ InHandler(q) \in Nat /\ InTool(q) \in Nat /\ WasAsked(q) \in Nat
  BY <1>2, TimesNat DEF InHandler, InTool, WasAsked
<1>4. ~crashed => Places(q) = WasAsked(q)
  BY DEF Accounted
<1>5. CASE UNCHANGED <<chatVars, crashed>>
  BY <1>4, <1>5 DEF Places, InHandler, InTool, WasAsked, chatVars
<1>6. CASE CrashStep \/ UNCHANGED vars
  BY <1>5, <1>6, CrashKeeps
<1>7. CASE BrowserWrites \/ Line
  BY <1>1, <1>5, <1>7, BrowserKeeps, ChannelLine
<1>8. CASE ChatStep
  <2> USE DEF Places
  <2>1. CASE \E p \in Questions : HandleNewMessage(p)
    <3>1. PICK p \in Questions : HandleNewMessage(p)
      BY <2>1
    <3>2. /\ ~crashed /\ io = Nobody /\ p \notin asked
          /\ io' = p /\ io_sent' = FALSE /\ asked' = asked \cup {p}
          /\ UNCHANGED <<posted, requests, main, answers>>
      BY <3>1 DEF HandleNewMessage, IoFree, Io, Crash
    <3>3. /\ InHandler(q) = 0 /\ InHandler(q)' = IF p = q THEN 1 ELSE 0
          /\ InTool(q)' = InTool(q)
          /\ WasAsked(q)' = WasAsked(q) + (IF p = q THEN 1 ELSE 0)
      BY <1>2, <3>2 DEF InHandler, InTool, WasAsked
    <3> QED BY <1>2, <1>3, <1>4, <3>2, <3>3
  <2>2. CASE FirstStep
    <3>1. /\ ~crashed /\ io # Nobody /\ ~io_sent /\ io_sent' = TRUE
          /\ posted' = Append(posted, io)
          /\ UNCHANGED <<io, requests, main, answers, asked>>
      BY <2>2 DEF FirstStep, Io
    <3>2. Times(q, posted') = Times(q, posted) + (IF io = q THEN 1 ELSE 0)
      <4>1. io \in Questions \cup {Broadcast}
        BY <1>1, <3>1 DEF ChatTyped
      <4> QED BY <1>2, <3>1, <4>1, TimesAppend
    <3>3. /\ InHandler(q) = IF io = q THEN 1 ELSE 0
          /\ InHandler(q)' = 0 /\ InTool(q)' = InTool(q)
          /\ WasAsked(q)' = WasAsked(q)
      BY <3>1 DEF InHandler, InTool, WasAsked
    <3> QED BY <1>2, <1>3, <1>4, <3>1, <3>2, <3>3
  <2>3. CASE HandlerReturns
    <3>1. /\ ~crashed /\ io_sent /\ io' = Nobody
          /\ UNCHANGED <<posted, requests, main, answers, asked>>
      BY <2>3 DEF HandlerReturns, Io
    <3>2. /\ InHandler(q) = 0 /\ InHandler(q)' = 0 /\ InTool(q)' = InTool(q)
          /\ WasAsked(q)' = WasAsked(q)
      BY <1>2, <3>1 DEF InHandler, InTool, WasAsked
    <3> QED BY <1>4, <3>1, <3>2
  <2>4. CASE PostBroadcast
    <3>1. /\ ~crashed /\ posted' = Append(posted, Broadcast)
          /\ UNCHANGED <<io, io_sent, requests, main, answers, asked>>
      BY <2>4 DEF PostBroadcast
    <3>2. Times(q, posted') = Times(q, posted) + 0
      BY <1>2, <3>1, TimesAppend
    <3>3. /\ InHandler(q)' = InHandler(q) /\ InTool(q)' = InTool(q)
          /\ WasAsked(q)' = WasAsked(q)
      BY <3>1 DEF InHandler, InTool, WasAsked
    <3> QED BY <1>2, <1>3, <1>4, <3>1, <3>2, <3>3
  <2>5. CASE RunTask
    <3>1. /\ ~crashed /\ posted # <<>> /\ posted' = Tail(posted)
          /\ requests' = requests \o (IF Head(posted) = Broadcast
                                      THEN <<>> ELSE <<Head(posted)>>)
          /\ UNCHANGED <<io, io_sent, main, answers, asked>>
      BY <2>5 DEF RunTask, RunTaskAs, Loop
    <3>2. /\ InHandler(q)' = InHandler(q) /\ InTool(q)' = InTool(q)
          /\ WasAsked(q)' = WasAsked(q)
      BY <3>1 DEF InHandler, InTool, WasAsked
    <3>3. Times(q, posted) =
            Times(q, posted') + (IF Head(posted) = q THEN 1 ELSE 0)
      BY <1>2, <3>1, TimesTail
    <3>4. Times(q, requests') =
            Times(q, requests) + (IF Head(posted) = q THEN 1 ELSE 0)
      <4>1. CASE Head(posted) = Broadcast
        <5>1. requests' = requests
          BY <1>2, <3>1, <4>1, ConcatEmptySeq
        <5> QED BY <1>2, <1>3, <4>1, <5>1
      <4>2. CASE Head(posted) # Broadcast
        <5>1. Head(posted) \in Questions
          BY <1>2, <3>1, <4>2
        <5>2. requests' = Append(requests, Head(posted))
          BY <1>2, <3>1, <4>2, <5>1, AppendIsConcat
        <5> QED BY <1>2, <5>1, <5>2, TimesAppend
      <4> QED BY <4>1, <4>2
    <3> QED BY <1>2, <1>3, <1>4, <3>1, <3>2, <3>3, <3>4
  <2>6. CASE ReplyIsAnswered \/ UnknownTool
    <3>1. /\ ~crashed /\ requests # <<>> /\ requests' = Tail(requests) \o <<>>
          /\ answers' = [answers EXCEPT ![Head(requests)] = @ + 1]
          /\ UNCHANGED <<io, io_sent, asked, main, posted>>
      BY <2>6 DEF ReplyIsAnswered, UnknownTool, Reply, Loop
    <3>2. /\ InHandler(q)' = InHandler(q) /\ InTool(q)' = InTool(q)
          /\ WasAsked(q)' = WasAsked(q)
      BY <3>1 DEF InHandler, InTool, WasAsked
    <3>3. /\ Head(requests) \in Questions
          /\ Times(q, requests) =
               Times(q, requests') + (IF Head(requests) = q THEN 1 ELSE 0)
      BY <1>1, <3>1, RequestTaken
    <3>4. answers'[q] = answers[q] + (IF Head(requests) = q THEN 1 ELSE 0)
      BY <1>1, <1>2, <3>1, <3>3 DEF ChatTyped
    <3> PICK h \in {0, 1} : h = IF Head(requests) = q THEN 1 ELSE 0
      OBVIOUS
    <3>5. /\ Times(q, requests) = Times(q, requests') + h
          /\ answers'[q] = answers[q] + h
          /\ Times(q, posted') = Times(q, posted)
      BY <3>1, <3>3, <3>4
    <3>6. Places(q) = WasAsked(q)
      BY <1>4, <3>1
    <3>7. Places(q)' = InHandler(q) + Times(q, posted) + Times(q, requests')
                         + InTool(q) + (answers[q] + h)
      BY <3>2, <3>5
    <3>8. \A a, b, c, d, e \in Nat :
            a + b + c + d + (e + h) = a + b + (c + h) + d + e
      OBVIOUS
    <3>9. Places(q)' = Places(q)
      BY <1>2, <1>3, <3>5, <3>7, <3>8
    <3> QED BY <3>2, <3>6, <3>9
  <2>7. CASE ConnectionFails
    <3>1. /\ ~crashed /\ requests' = <<>>
          /\ answers'[q] = answers[q] + Times(q, requests)
          /\ UNCHANGED <<io, io_sent, asked, main, posted>>
      BY <2>7 DEF ConnectionFails, Loop, Times
    <3>2. /\ InHandler(q)' = InHandler(q) /\ InTool(q)' = InTool(q)
          /\ WasAsked(q)' = WasAsked(q) /\ Times(q, requests') = 0
      BY <3>1, TimesEmpty DEF InHandler, InTool, WasAsked
    <3> QED BY <1>2, <1>3, <1>4, <3>1, <3>2
  <2> QED BY <1>8, <2>1, <2>2, <2>3, <2>4, <2>5, <2>6, <2>7 DEF ChatStep
<1>9. CASE RunTool
  <2>1. /\ ~crashed /\ requests # <<>> /\ requests' = Tail(requests) \o <<>>
        /\ answers' = [answers EXCEPT ![Head(requests)] = @ + 0]
        /\ main = Nobody /\ main' = Head(requests)
        /\ UNCHANGED <<io, io_sent, asked, posted>>
    BY <1>9, ToolBegins
  <2>2. /\ InHandler(q)' = InHandler(q) /\ WasAsked(q)' = WasAsked(q)
        /\ InTool(q) = 0 /\ InTool(q)' = IF Head(requests) = q THEN 1 ELSE 0
    BY <1>2, <2>1 DEF InHandler, InTool, WasAsked
  <2>3. /\ Times(q, requests) =
             Times(q, requests') + (IF Head(requests) = q THEN 1 ELSE 0)
        /\ answers'[q] = answers[q]
    <3>1. /\ Head(requests) \in Questions
          /\ Times(q, requests) =
               Times(q, requests') + (IF Head(requests) = q THEN 1 ELSE 0)
      BY <1>1, <2>1, RequestTaken
    <3>2. answers'[q] = answers[q]
      BY <1>1, <1>2, <2>1, <3>1 DEF ChatTyped
    <3> QED BY <3>1, <3>2
  <2> QED BY <1>2, <1>3, <1>4, <2>1, <2>2, <2>3 DEF Places
<1>10. CASE ToolNext
  <2>1. /\ ~crashed /\ main # Nobody /\ requests' = Append(requests, main)
        /\ main' = Nobody
        /\ UNCHANGED <<io, io_sent, posted, asked, answers>>
    BY <1>1, <1>10, ToolFinishes DEF NextStep
  <2>2. /\ InHandler(q)' = InHandler(q) /\ WasAsked(q)' = WasAsked(q)
        /\ InTool(q) = (IF main = q THEN 1 ELSE 0) /\ InTool(q)' = 0
    BY <1>2, <2>1 DEF InHandler, InTool, WasAsked
  <2>3. Times(q, requests') = Times(q, requests) + (IF main = q THEN 1 ELSE 0)
    BY <1>1, <1>2, <2>1, TimesAppend DEF ChatTyped
  <2> QED BY <1>2, <1>3, <1>4, <2>1, <2>2, <2>3 DEF Places
<1> QED BY <1>6, <1>7, <1>8, <1>9, <1>10, AgentSteps

LEMMA AccountInit == Init => Accounted
<1> SUFFICES ASSUME Init, NEW q \in Questions
             PROVE  Places(q) = WasAsked(q)
  BY DEF Accounted
<1>1. /\ InHandler(q) = 0 /\ InTool(q) = 0 /\ WasAsked(q) = 0
      /\ Times(q, posted) = 0 /\ Times(q, requests) = 0 /\ answers[q] = 0
  BY TimesEmpty, AgentAssumption DEF Init, InHandler, InTool, WasAsked
<1> QED BY <1>1 DEF Places

\* Until the process dies, a question is in exactly one place: in the handler,
\* in the loop's queue, at the HTTP client, in the tool that runs, or answered
\* once.
THEOREM NoQuestionIsLost == Spec => []QuestionsAccounted
<1>1. Init => AgentInv /\ Accounted
  BY AgentInit, AccountInit
<1>2. AgentInv /\ Accounted /\ [Next]_vars => (AgentInv /\ Accounted)'
  BY AgentStep, AccountStep
<1> QED BY <1>1, <1>2, PlacesAre, PTL DEF Spec

(***************************************************************************)
(* Commands and their numbers.                                             *)
(***************************************************************************)
ChannelStep ==
  \/ UNCHANGED <<last, busy, pending, applied>>
  \/ \E t \in Callers, v \in Values \cup {"none"} : Channel!Start(t, v)
  \/ \E t \in Callers, res \in Results : Channel!Return(t, res)
  \/ Line

\* What the agent may do to the channel.
LEMMA ChannelSteps ==
  ASSUME AgentInv, [Next]_vars
  PROVE  ChannelStep
<1>1. ChatTyped /\ ChannelTyped /\ ToolNumbered
  BY TypeSplit DEF AgentInv
<1>2. "io" \in Callers /\ "main" \in Callers
  BY DEF Callers
<1>3. CASE ChatStep \/ CrashStep \/ UNCHANGED vars
  BY <1>3, ChatKeeps, CrashKeeps DEF ChannelStep, channelVars
<1>4. CASE BrowserWrites
  <2>1. \/ \E v \in Values : Channel!Start("io", v)
        \/ \E res \in Results : Channel!Return("io", res)
    BY <1>1, <1>4, BrowserKeeps
  <2> QED BY <1>2, <2>1 DEF ChannelStep
<1>5. CASE RunTool
  <2>1. \E v \in Values \cup {"none"} : Channel!Start("main", v)
    BY <1>5, ToolBegins
  <2> QED BY <1>2, <2>1 DEF ChannelStep
<1>6. CASE ToolNext
  <2>1. PICK res \in Results :
          /\ UNCHANGED <<last, applied>>
          /\ UNCHANGED <<busy, pending>> \/ Channel!Return("main", res)
    BY <1>1, <1>6, ToolFinishes
  <2> QED BY <1>2, <2>1 DEF ChannelStep
<1> QED BY <1>3, <1>4, <1>5, <1>6, AgentSteps DEF ChannelStep

\* What the channel does to its commands, with the numbers that go with it.
LEMMA CommandsAfter ==
  ASSUME ChannelTyped, ChannelStep
  PROVE  \/ /\ last' = last /\ applied' = applied
            /\ pending' \subseteq pending
         \/ /\ last' = last
            /\ \E c \in pending :
                 /\ pending' = pending \ {c} /\ Channel!Oldest(c)
                 /\ applied' = Append(applied, c)
         \/ /\ applied' = applied
            /\ \E t \in Callers, n \in 1..MaxCalls, v \in Values :
                 /\ \A u \in Callers : last[u] < n
                 /\ last' = [last EXCEPT ![t] = n]
                 /\ pending' \subseteq
                      pending \cup {[by |-> t, of |-> v, id |-> n]}
<1>1. CASE UNCHANGED <<last, busy, pending, applied>>
  BY <1>1
<1>2. CASE \E t \in Callers, v \in Values \cup {"none"} : Channel!Start(t, v)
  <2>1. PICK t \in Callers, v \in Values \cup {"none"} : Channel!Start(t, v)
    BY <1>2
  <2>2. PICK n \in 1..MaxCalls :
          /\ \A u \in Callers : last[u] < n
          /\ last' = [last EXCEPT ![t] = n]
          /\ pending' = IF v \in Values
                        THEN pending \cup {[by |-> t, of |-> v, id |-> n]}
                        ELSE pending
          /\ applied' = applied
    BY <2>1, ChannelStart
  <2>3. \E w \in Values :
          pending' \subseteq pending \cup {[by |-> t, of |-> w, id |-> n]}
    BY <2>2 DEF Values
  <2> QED BY <2>2, <2>3
<1>3. CASE \E t \in Callers, res \in Results : Channel!Return(t, res)
  <2>1. PICK t \in Callers, res \in Results : Channel!Return(t, res)
    BY <1>3
  <2> QED BY <2>1, ChannelReturn
<1>4. CASE Line
  BY <1>4, ChannelLine
<1> QED BY <1>1, <1>2, <1>3, <1>4 DEF ChannelStep

LEMMA NumberedStep ==
  ASSUME ChannelTyped, ChannelTyped', Numbered, ChannelStep
  PROVE  Numbered'
<1> USE DEF Effective
<1>1. /\ \A u \in Callers : last[u] \in Nat
      /\ pending \subseteq Commands /\ applied \in Seq(Commands)
      /\ \A c \in Commands : c.by \in Callers /\ c.id \in Nat
  BY AgentAssumption DEF ChannelTyped, Commands
<1> HIDE DEF Commands
<1>2. CASE last' = last /\ applied' = applied /\ pending' \subseteq pending
  BY <1>2 DEF Numbered
<1>3. CASE /\ last' = last
           /\ \E c \in pending :
                /\ pending' = pending \ {c} /\ Channel!Oldest(c)
                /\ applied' = Append(applied, c)
  <2>1. PICK c \in pending :
          /\ pending' = pending \ {c} /\ Channel!Oldest(c)
          /\ applied' = Append(applied, c)
    BY <1>3
  <2>2. \A i \in 1..Len(applied') :
          applied'[i] = c \/ \E j \in 1..Len(applied) : applied'[i] = applied[j]
    BY <1>1, <2>1
  <2>3. \A d \in pending' :
          d \in pending /\ d.id # c.id /\ (d.by = c.by => c.id < d.id)
    <3> SUFFICES ASSUME NEW d \in pending'
                 PROVE  d \in pending /\ d.id # c.id
                        /\ (d.by = c.by => c.id < d.id)
      OBVIOUS
    <3>1. d \in pending /\ d # c /\ c.id \in Nat /\ d.id \in Nat
      BY <1>1, <2>1
    <3>2. d.id # c.id
      BY <3>1 DEF Numbered
    <3>3. d.by = c.by => c.id <= d.id
      BY <2>1, <3>1 DEF Channel!Oldest
    <3> QED BY <3>1, <3>2, <3>3
  <2>4. \A d \in Commands : Effective(d)' => Effective(d)
    BY <1>1, <2>1, <2>2
  <2>5. \A d \in Commands : Effective(d)' => d.id <= last'[d.by]
    BY <1>3, <2>4 DEF Numbered
  <2>6. \A d \in pending' : \A i \in 1..Len(applied') :
          /\ applied'[i].id # d.id
          /\ applied'[i].by = d.by => applied'[i].id < d.id
    BY <2>2, <2>3 DEF Numbered
  <2>7. \A d, e \in pending' : d.id = e.id => d = e
    BY <2>3 DEF Numbered
  <2> QED BY <2>5, <2>6, <2>7 DEF Numbered
<1>4. CASE /\ applied' = applied
           /\ \E t \in Callers, n \in 1..MaxCalls, v \in Values :
                /\ \A u \in Callers : last[u] < n
                /\ last' = [last EXCEPT ![t] = n]
                /\ pending' \subseteq
                     pending \cup {[by |-> t, of |-> v, id |-> n]}
  <2>1. PICK t \in Callers, n \in 1..MaxCalls, v \in Values :
          /\ \A u \in Callers : last[u] < n
          /\ last' = [last EXCEPT ![t] = n]
          /\ pending' \subseteq pending \cup {[by |-> t, of |-> v, id |-> n]}
    BY <1>4
  <2> DEFINE new == [by |-> t, of |-> v, id |-> n]
  <2>2. new.id = n /\ new.by = t /\ n \in Nat
    OBVIOUS
  <2>3. \A u \in Callers : last'[u] \in Nat /\ last[u] <= last'[u]
    BY <1>1, <2>1, <2>2 DEF ChannelTyped
  <2>4. last'[t] = n
    BY <2>1 DEF ChannelTyped
  <2>5. \A c \in Commands : Effective(c) => c.id < n
    <3> SUFFICES ASSUME NEW c \in Commands, Effective(c) PROVE c.id < n
      OBVIOUS
    <3>1. c.id <= last[c.by] /\ last[c.by] < n
      BY <1>1, <2>1 DEF Numbered
    <3> QED BY <1>1, <2>2, <3>1
  <2>6. \A i \in 1..Len(applied) : applied[i] \in Commands /\ applied[i].id < n
    BY <1>1, <2>5
  <2>7. \A c \in pending' : c = new \/ (c \in pending /\ c.id < n)
    BY <1>1, <2>1, <2>5
  <2> HIDE DEF new
  <2>8. \A c \in Commands : Effective(c)' => c.id <= last'[c.by]
    <3> SUFFICES ASSUME NEW c \in Commands, Effective(c)'
                 PROVE  c.id <= last'[c.by]
      OBVIOUS
    <3>1. CASE c = new
      BY <2>2, <2>4, <3>1
    <3>2. CASE c # new
      <4>1. Effective(c)
        BY <1>4, <2>7, <3>2
      <4> QED BY <1>1, <2>3, <4>1 DEF Numbered
    <3> QED BY <3>1, <3>2
  <2>9. \A c, d \in pending' : c.id = d.id => c = d
    BY <1>1, <2>2, <2>7 DEF Numbered
  <2>10. \A c \in pending' : \A i \in 1..Len(applied') :
           /\ applied'[i].id # c.id
           /\ applied'[i].by = c.by => applied'[i].id < c.id
    <3> SUFFICES ASSUME NEW c \in pending', NEW i \in 1..Len(applied')
                 PROVE  /\ applied'[i].id # c.id
                        /\ applied'[i].by = c.by => applied'[i].id < c.id
      OBVIOUS
    <3>1. /\ i \in 1..Len(applied) /\ applied'[i] = applied[i]
          /\ applied[i].id \in Nat /\ applied[i].id < n
      BY <1>1, <1>4, <2>6
    <3>2. CASE c = new
      BY <2>2, <3>1, <3>2
    <3>3. CASE c \in pending
      BY <3>1, <3>3 DEF Numbered
    <3> QED BY <2>7, <3>2, <3>3
  <2> QED BY <2>8, <2>9, <2>10 DEF Numbered
<1> QED BY <1>2, <1>3, <1>4, CommandsAfter

(***************************************************************************)
(* What the model is told.                                                 *)
(***************************************************************************)
\* Every step but the start and the end of a tool leaves the conversations'
\* histories and the tool's number as they are.
LEMMA OthersKeep ==
  ASSUME AgentInv, [Next]_vars, ~RunTool, ~ToolNext
  PROVE  /\ UNCHANGED <<main, history>>
         /\ last'["main"] = last["main"] /\ busy'["main"] = busy["main"]
         /\ \A c \in Commands :
              Effective(c)' /\ c.by = "main" => Effective(c)
<1> USE DEF Effective
<1>1. ChatTyped /\ ChannelTyped /\ ToolNumbered
  BY TypeSplit DEF AgentInv
<1>2. "io" \in Callers /\ "main" \in Callers /\ "io" # "main"
  BY DEF Callers
<1>3. /\ pending \subseteq Commands /\ applied \in Seq(Commands)
      /\ last \in [Callers -> 0..MaxCalls]
      /\ busy \in [Callers -> Values \cup {"none"}]
  BY <1>1 DEF ChannelTyped
<1> HIDE DEF Commands
<1>4. CASE ChatStep \/ CrashStep \/ UNCHANGED vars
  BY <1>4, ChatKeeps, CrashKeeps DEF channelVars, chatVars
<1>5. CASE BrowserWrites
  <2>1. CASE \E v \in Values : Channel!Start("io", v)
    <3>1. PICK v \in Values : Channel!Start("io", v)
      BY <2>1
    <3>2. PICK n \in 1..MaxCalls :
            /\ last' = [last EXCEPT !["io"] = n]
            /\ pending' = pending \cup {[by |-> "io", of |-> v, id |-> n]}
            /\ busy' = [busy EXCEPT !["io"] = v]
            /\ applied' = applied
      BY <1>1, <1>2, <3>1, ChannelStart
    <3> QED BY <1>1, <1>2, <1>3, <1>5, <3>2, BrowserKeeps DEF chatVars
  <2>2. CASE \E res \in Results : Channel!Return("io", res)
    <3>1. PICK res \in Results : Channel!Return("io", res)
      BY <2>2
    <3>2. /\ busy' = [busy EXCEPT !["io"] = "none"]
          /\ last' = last /\ applied' = applied /\ pending' \subseteq pending
      BY <1>1, <1>2, <3>1, ChannelReturn
    <3> QED BY <1>1, <1>2, <1>3, <1>5, <3>2, BrowserKeeps DEF chatVars
  <2> QED BY <1>1, <1>5, <2>1, <2>2, BrowserKeeps
<1>6. CASE Line
  <2>1. PICK c \in pending :
          /\ pending' = pending \ {c}
          /\ applied' = Append(applied, c) \/ applied' = applied
    BY <1>1, <1>6, ChannelLine
  <2>2. \A i \in 1..Len(applied') :
          applied'[i] = c \/ \E j \in 1..Len(applied) : applied'[i] = applied[j]
    BY <1>3, <2>1
  <2> QED BY <1>1, <1>6, <2>1, <2>2, ChannelLine DEF chatVars
<1> QED BY <1>4, <1>5, <1>6, AgentSteps

\* The tool that begins has a number later than any before.
LEMMA ToolIsNew ==
  ASSUME AgentInv, RunTool
  PROVE  /\ main = Nobody /\ main' # Nobody /\ history' = history
         /\ last["main"] \in Nat /\ last'["main"] \in Nat
         /\ last["main"] < last'["main"]
         /\ \A c \in Commands :
              Effective(c)' /\ c.by = "main" =>
                \/ Effective(c)
                \/ c.id = last'["main"] /\ c.of = busy'["main"]
<1>1. ChatTyped /\ ChannelTyped /\ ToolNumbered
  BY TypeSplit DEF AgentInv
<1>2. "main" \in Callers
  BY DEF Callers
<1>3. PICK v \in Values \cup {"none"} : Channel!Start("main", v)
  BY ToolBegins
<1>4. PICK n \in 1..MaxCalls :
        /\ \A u \in Callers : last[u] < n
        /\ last' = [last EXCEPT !["main"] = n]
        /\ pending' = IF v \in Values
                      THEN pending \cup {[by |-> "main", of |-> v, id |-> n]}
                      ELSE pending
        /\ busy' = [busy EXCEPT !["main"] = v]
        /\ applied' = applied
  BY <1>1, <1>2, <1>3, ChannelStart
<1>5. /\ last'["main"] = n /\ busy'["main"] = v /\ last["main"] < n
      /\ last["main"] \in Nat /\ n \in Nat
  BY <1>1, <1>2, <1>4, AgentAssumption DEF ChannelTyped
<1>6. main = Nobody /\ main' # Nobody /\ history' = history
  <2>1. requests \in Seq(Questions) /\ requests # <<>>
    BY <1>1, ToolBegins DEF ChatTyped
  <2>2. Head(requests) \in Questions
    BY <2>1
  <2> QED BY <2>2, ToolBegins, AgentAssumption
<1> HIDE DEF Commands
<1> QED BY <1>4, <1>5, <1>6 DEF Effective

LEMMA ObservationsStep ==
  ASSUME AgentInv, Observations, [Next]_vars
  PROVE  Observations'
<1>1. ChatTyped /\ ChannelTyped /\ ToolNumbered
  BY TypeSplit DEF AgentInv
<1>2. CASE ~RunTool /\ ~ToolNext
  BY <1>2, OthersKeep DEF Observations
<1>3. \A q \in Questions : \A i \in 1..Len(history[q]) : history[q][i].id \in Nat
  <2> SUFFICES ASSUME NEW q \in Questions, NEW i \in 1..Len(history[q])
               PROVE  history[q][i].id \in Nat
    OBVIOUS
  <2>1. history[q] \in Seq(Observed)
    BY <1>1 DEF ChatTyped
  <2> HIDE DEF Observed
  <2>2. history[q][i] \in Observed
    BY <2>1
  <2> QED BY <2>2 DEF Observed
<1>4. CASE RunTool
  <2>1. /\ main = Nobody /\ main' # Nobody /\ history' = history
        /\ last["main"] \in Nat /\ last'["main"] \in Nat
        /\ last["main"] < last'["main"]
    BY <1>4, ToolIsNew
  <2>2. \A n \in Nat : n <= last["main"] => n < last'["main"]
    BY <2>1
  <2> QED BY <1>3, <2>1, <2>2 DEF Observations
<1>5. CASE ToolNext
  <2>1. PICK res \in Results :
          /\ main # Nobody /\ NextStep(Observation(res)) /\ last' = last
    BY <1>1, <1>5, ToolFinishes
  <2> DEFINE o == [id |-> last["main"], of |-> busy["main"], res |-> res]
  <2>2. /\ \A q \in Questions \ {main} : history'[q] = history[q]
        /\ Len(history[main]) \in Nat
        /\ Len(history'[main]) = Len(history[main]) + 1
        /\ \A i \in 1..Len(history[main]) : history'[main][i] = history[main][i]
        /\ history'[main][Len(history[main]) + 1] = o
    BY <1>1, <2>1, HistoryGrows
  <2>3. o.id = last["main"] /\ main' = Nobody /\ main \in Questions
    BY <1>1, <2>1 DEF NextStep, ChatTyped
  <2> HIDE DEF o
  <2>4. \A q \in Questions : \A i \in 1..Len(history'[q]) :
          \/ i \in 1..Len(history[q]) /\ history'[q][i] = history[q][i]
          \/ q = main /\ history'[q][i] = o
    BY <2>2
  <2>5. \A q \in Questions : \A i \in 1..Len(history[q]) :
          history[q][i].id < last["main"]
    BY <2>1 DEF Observations
  <2>6. last["main"] \in Nat
    BY <1>1, <2>1, AgentAssumption DEF ToolNumbered
  <2>7. \A q \in Questions : \A i \in 1..Len(history'[q]) :
          history'[q][i].id <= last'["main"]
    BY <1>3, <2>1, <2>3, <2>4, <2>5, <2>6
  <2>8. \A q, r \in Questions :
          \A i \in 1..Len(history'[q]), j \in 1..Len(history'[r]) :
            history'[q][i].id = history'[r][j].id => q = r
    <3> SUFFICES ASSUME NEW q \in Questions, NEW r \in Questions,
                        NEW i \in 1..Len(history'[q]),
                        NEW j \in 1..Len(history'[r]),
                        history'[q][i].id = history'[r][j].id, q # r
                 PROVE  FALSE
      OBVIOUS
    <3>1. \A p \in Questions : \A k \in 1..Len(history[p]) :
            history[p][k].id # o.id
      BY <1>3, <2>3, <2>5, <2>6
    <3>2. CASE /\ i \in 1..Len(history[q]) /\ history'[q][i] = history[q][i]
               /\ j \in 1..Len(history[r]) /\ history'[r][j] = history[r][j]
      BY <3>2 DEF Observations
    <3> QED BY <2>4, <3>1, <3>2
  <2> QED BY <2>3, <2>7, <2>8 DEF Observations
<1> QED BY <1>2, <1>4, <1>5

LEMMA ChannelInvStep ==
  ASSUME AgentInv, ChannelInv, [Next]_vars
  PROVE  ChannelInv'
<1>1. AgentInv'
  BY AgentStep
<1>2. ChannelTyped /\ ChannelTyped'
  BY <1>1, TypeSplit
     DEF AgentInv, TypeOK, ChatTyped, ChannelTyped, Observed, Commands
<1> QED BY <1>2, ChannelSteps, NumberedStep, ObservationsStep DEF ChannelInv

LEMMA ChannelInvInit ==
  ASSUME Init
  PROVE  ChannelInv
<1>1. /\ pending = {} /\ applied = <<>> /\ Len(applied) = 0
      /\ \A q \in Questions : history[q] = <<>> /\ Len(history[q]) = 0
  BY DEF Init, Channel!Init
<1>2. \A n \in Nat : n \notin 1..0
  OBVIOUS
<1> QED BY <1>1 DEF ChannelInv, Numbered, Observations, Effective

(***************************************************************************)
(* What was refused never happens.                                         *)
(***************************************************************************)
\* What an observation claims, if its command was refused.
RefusalHolds(o) ==
  o.res = "refused" =>
    /\ \A c \in pending : c.id # o.id
    /\ \A j \in 1..Len(applied) : applied[j].id # o.id

Refusals ==
  \A q \in Questions : \A i \in 1..Len(history[q]) : RefusalHolds(history[q][i])

\* The rest of what the property says holds of all the commands of tools.
LEMMA OutcomesAre ==
  ASSUME ChannelTyped, Numbered, Refusals
  PROVE  OutcomesHold
<1> SUFFICES ASSUME NEW q \in Questions, NEW i \in 1..Len(history[q]),
                    NEW c \in pending, NEW j \in 1..Len(applied),
                    c.by = "main", c.id = history[q][i].id,
                    applied[j].by = "main"
             PROVE  applied[j].id < history[q][i].id
  BY DEF OutcomesHold, Refusals, RefusalHolds
<1> QED BY DEF Numbered

\* A claim about a call that has been made stays true.
LEMMA RefusalStays ==
  ASSUME ChannelTyped, Numbered, ChannelStep,
         NEW o \in Observed, o.id <= last["main"],
         RefusalHolds(o)
  PROVE  RefusalHolds(o)'
<1>1. /\ \A u \in Callers : last[u] \in Nat
      /\ pending \subseteq Commands /\ applied \in Seq(Commands)
      /\ "main" \in Callers /\ o.id \in Nat
  BY AgentAssumption DEF ChannelTyped, Callers, Observed
<1> HIDE DEF Commands, Observed
<1> USE DEF RefusalHolds
<1>2. CASE last' = last /\ applied' = applied /\ pending' \subseteq pending
  BY <1>2
<1>3. CASE /\ last' = last
           /\ \E c \in pending :
                /\ pending' = pending \ {c} /\ Channel!Oldest(c)
                /\ applied' = Append(applied, c)
  <2>1. PICK c \in pending :
          pending' = pending \ {c} /\ applied' = Append(applied, c)
    BY <1>3
  <2>2. \A i \in 1..Len(applied') :
          applied'[i] = c \/ \E j \in 1..Len(applied) : applied'[i] = applied[j]
    BY <1>1, <2>1
  <2> QED BY <2>1, <2>2
<1>4. CASE /\ applied' = applied
           /\ \E t \in Callers, n \in 1..MaxCalls, v \in Values :
                /\ \A u \in Callers : last[u] < n
                /\ last' = [last EXCEPT ![t] = n]
                /\ pending' \subseteq
                     pending \cup {[by |-> t, of |-> v, id |-> n]}
  <2>1. PICK t \in Callers, n \in 1..MaxCalls, v \in Values :
          /\ \A u \in Callers : last[u] < n
          /\ pending' \subseteq pending \cup {[by |-> t, of |-> v, id |-> n]}
    BY <1>4
  <2>2. o.id # n
    BY <1>1, <2>1
  <2> QED BY <1>4, <2>1, <2>2
<1> QED BY <1>2, <1>3, <1>4, CommandsAfter

LEMMA RefusalsStep ==
  ASSUME AgentInv, ChannelInv, Refusals, [Next]_vars
  PROVE  Refusals'
<1>1. ChatTyped /\ ChannelTyped /\ ToolNumbered
  BY TypeSplit DEF AgentInv
<1>2. ChannelStep /\ Numbered /\ Observations
  BY ChannelSteps DEF ChannelInv
<1>3. \A q \in Questions : \A i \in 1..Len(history[q]) :
        history[q][i] \in Observed /\ history[q][i].id <= last["main"]
  <2> SUFFICES ASSUME NEW q \in Questions, NEW i \in 1..Len(history[q])
               PROVE  history[q][i] \in Observed
                      /\ history[q][i].id <= last["main"]
    OBVIOUS
  <2>1. history[q] \in Seq(Observed) /\ last["main"] \in Nat
    BY <1>1, AgentAssumption DEF ChatTyped, ChannelTyped, Callers
  <2> HIDE DEF Observed
  <2>2. history[q][i] \in Observed
    BY <2>1
  <2>3. history[q][i].id \in Nat
    BY <2>2 DEF Observed
  <2> QED BY <1>2, <2>1, <2>2, <2>3 DEF Observations
<1>4. \A o \in Observed :
        o.id <= last["main"] /\ RefusalHolds(o) => RefusalHolds(o)'
  BY <1>1, <1>2, RefusalStays
<1>5. \A o \in Observed :
        (\E q \in Questions : \E i \in 1..Len(history[q]) : history[q][i] = o)
          => RefusalHolds(o)'
  BY <1>3, <1>4 DEF Refusals
<1> HIDE DEF Observed
<1> SUFFICES ASSUME NEW q \in Questions, NEW i \in 1..Len(history'[q]),
                    NEW o, o = history'[q][i]
             PROVE  RefusalHolds(o)'
  BY DEF Refusals
<1>6. CASE history' = history
  BY <1>3, <1>5, <1>6
<1>7. CASE ToolNext
  <2>1. PICK res \in Results :
          /\ main # Nobody /\ NextStep(Observation(res))
          /\ UNCHANGED <<last, applied>>
          /\ \/ /\ busy["main"] = "none" /\ res # "refused"
                /\ UNCHANGED <<busy, pending>>
             \/ Channel!Return("main", res)
    BY <1>1, <1>7, ToolFinishes
  <2>2. /\ \A p \in Questions \ {main} : history'[p] = history[p]
        /\ Len(history[main]) \in Nat
        /\ Len(history'[main]) = Len(history[main]) + 1
        /\ \A k \in 1..Len(history[main]) : history'[main][k] = history[main][k]
        /\ history'[main][Len(history[main]) + 1] =
             [id |-> last["main"], of |-> busy["main"], res |-> res]
    BY <1>1, <2>1, HistoryGrows
  <2>3. \/ i \in 1..Len(history[q]) /\ o = history[q][i]
        \/ o = [id |-> last["main"], of |-> busy["main"], res |-> res]
    BY <2>2
  <2>4. CASE i \in 1..Len(history[q]) /\ o = history[q][i]
    BY <1>3, <1>5, <2>4
  <2>5. CASE o = [id |-> last["main"], of |-> busy["main"], res |-> res]
    <3>1. o.id = last["main"] /\ o.of = busy["main"] /\ o.res = res
      BY <2>5
    <3>2. CASE busy["main"] = "none" /\ res # "refused"
      BY <3>1, <3>2 DEF RefusalHolds
    <3>3. CASE Channel!Return("main", res)
      <4>1. /\ pending' =
                 IF res = "refused"
                 THEN {c \in pending : ~(c.by = "main" /\ c.id = last["main"])}
                 ELSE pending
            /\ res = "refused" =>
                 \E c \in pending : c.by = "main" /\ c.id = last["main"]
            /\ applied' = applied
        BY <1>1, <3>3, ChannelReturn DEF Callers
      <4> QED BY <1>2, <3>1, <4>1 DEF Numbered, RefusalHolds
    <3> QED BY <2>1, <3>2, <3>3
  <2> QED BY <2>3, <2>4, <2>5
<1>8. CASE RunTool
  BY <1>6, <1>8, ToolIsNew
<1>9. CASE ~RunTool /\ ~ToolNext
  BY <1>6, <1>9, OthersKeep
<1> QED BY <1>7, <1>8, <1>9

\* What the histories say of commands outlasts later steps: one refused never
\* reaches the motor, and one that may still take effect has not been overtaken
\* by a later command of a tool.
THEOREM OutcomesStand == Spec => []OutcomesHold
<1>1. Init => AgentInv /\ ChannelInv /\ Refusals
  <2> SUFFICES ASSUME Init PROVE AgentInv /\ ChannelInv /\ Refusals
    OBVIOUS
  <2>1. \A q \in Questions : history[q] = <<>>
    BY DEF Init
  <2> QED BY <2>1, AgentInit, ChannelInvInit DEF Refusals
<1>2. AgentInv /\ ChannelInv /\ Refusals /\ [Next]_vars
        => (AgentInv /\ ChannelInv /\ Refusals)'
  BY AgentStep, ChannelInvStep, RefusalsStep
<1>3. AgentInv /\ ChannelInv /\ Refusals => OutcomesHold
  BY TypeSplit, OutcomesAre DEF AgentInv, ChannelInv
<1> QED BY <1>1, <1>2, <1>3, PTL DEF Spec

LEMMA TellingStep ==
  ASSUME AgentInv, ChannelInv, Telling, [Next]_vars
  PROVE  Telling'
<1>1. ChatTyped /\ ChannelTyped /\ ToolNumbered
  BY TypeSplit DEF AgentInv
<1> HIDE DEF Commands
<1>2. CASE ~RunTool /\ ~ToolNext
  BY <1>2, OthersKeep DEF Telling, Told
<1>3. CASE RunTool
  <2>1. /\ main = Nobody /\ main' # Nobody /\ history' = history
        /\ last["main"] \in Nat /\ last'["main"] \in Nat
        /\ last["main"] < last'["main"]
        /\ \A c \in Commands :
             Effective(c)' /\ c.by = "main" =>
               \/ Effective(c)
               \/ c.id = last'["main"] /\ c.of = busy'["main"]
    BY <1>3, ToolIsNew
  <2> SUFFICES ASSUME NEW c \in Commands, Effective(c)', c.by = "main"
               PROVE  IF main' # Nobody /\ c.id = last'["main"]
                      THEN c.of = busy'["main"]
                      ELSE \E q \in Questions : Told(c, q)'
    BY DEF Telling
  <2>2. CASE Effective(c)
    <3>1. c.id \in Nat /\ c.id <= last["main"]
      BY <2>2 DEF ChannelInv, Numbered, Commands
    <3>2. c.id # last'["main"]
      BY <2>1, <3>1
    <3>3. \E q \in Questions : Told(c, q)
      BY <2>1, <2>2 DEF Telling
    <3> QED BY <2>1, <3>2, <3>3 DEF Told
  <2>3. CASE c.id = last'["main"] /\ c.of = busy'["main"]
    BY <2>1, <2>3
  <2> QED BY <2>1, <2>2, <2>3
<1>4. CASE ToolNext
  <2>1. PICK res \in Results :
          /\ main # Nobody /\ NextStep(Observation(res))
          /\ last' = last /\ applied' = applied
          /\ UNCHANGED pending \/ Channel!Return("main", res)
    BY <1>1, <1>4, ToolFinishes
  <2>2. pending' \subseteq pending
    <3>1. CASE Channel!Return("main", res)
      BY <1>1, <3>1, ChannelReturn DEF Callers
    <3> QED BY <2>1, <3>1
  <2>3. /\ \A q \in Questions \ {main} : history'[q] = history[q]
        /\ Len(history[main]) \in Nat
        /\ Len(history'[main]) = Len(history[main]) + 1
        /\ \A i \in 1..Len(history[main]) : history'[main][i] = history[main][i]
        /\ history'[main][Len(history[main]) + 1] =
             [id |-> last["main"], of |-> busy["main"], res |-> res]
    BY <1>1, <2>1, HistoryGrows
  <2>4. main' = Nobody /\ main \in Questions
    BY <1>1, <2>1 DEF NextStep, ChatTyped
  <2> SUFFICES ASSUME NEW c \in Commands, Effective(c)', c.by = "main"
               PROVE  \E q \in Questions : Told(c, q)'
    BY <2>4 DEF Telling
  <2>5. Effective(c)
    BY <2>1, <2>2 DEF Effective
  <2>6. CASE c.id = last["main"]
    <3>1. c.of = busy["main"]
      BY <2>1, <2>5, <2>6 DEF Telling
    <3>2. Len(history[main]) + 1 \in 1..Len(history'[main])
      BY <2>3
    <3> QED BY <2>3, <2>4, <2>6, <3>1, <3>2 DEF Told
  <2>7. CASE c.id # last["main"]
    <3>1. PICK q \in Questions : Told(c, q)
      BY <2>5, <2>7 DEF Telling
    <3>2. PICK i \in 1..Len(history[q]) :
            history[q][i].id = c.id /\ history[q][i].of = c.of
      BY <3>1 DEF Told
    <3>3. i \in 1..Len(history'[q]) /\ history'[q][i] = history[q][i]
      BY <2>3, <2>4
    <3> QED BY <3>2, <3>3 DEF Told
  <2> QED BY <2>6, <2>7
<1> QED BY <1>2, <1>3, <1>4

\* The motor never moves behind the model's back: a command of a tool that
\* took effect, or may yet, is that of the tool that runs, or stands in the
\* history of exactly one conversation.
THEOREM EffectsAreInHistory == Spec => []EffectsAreTold
<1>1. Init => AgentInv /\ ChannelInv /\ Telling
  <2> SUFFICES ASSUME Init PROVE AgentInv /\ ChannelInv /\ Telling
    OBVIOUS
  <2>1. pending = {} /\ applied = <<>> /\ Len(applied) = 0
    BY DEF Init, Channel!Init
  <2>2. Telling
    BY <2>1 DEF Telling, Effective
  <2> QED BY <2>2, AgentInit, ChannelInvInit
<1>2. AgentInv /\ ChannelInv /\ Telling /\ [Next]_vars
        => (AgentInv /\ ChannelInv /\ Telling)'
  BY AgentStep, ChannelInvStep, TellingStep
<1>3. AgentInv /\ ChannelInv /\ Telling => EffectsAreTold
  <2> SUFFICES ASSUME AgentInv, ChannelInv, Telling,
                      NEW c \in pending \cup {applied[i] : i \in 1..Len(applied)},
                      c.by = "main",
                      ~(main # Nobody /\ c.id = last["main"])
               PROVE  Cardinality({q \in Questions :
                        \E i \in 1..Len(history[q]) :
                          history[q][i].id = c.id /\ history[q][i].of = c.of}) = 1
    BY DEF EffectsAreTold
  <2>1. c \in Commands /\ Effective(c)
    <3>1. pending \subseteq Commands /\ applied \in Seq(Commands)
      BY DEF AgentInv, TypeOK, Commands
    <3> HIDE DEF Commands
    <3> QED BY <3>1 DEF Effective
  <2>2. PICK q \in Questions : Told(c, q)
    BY <2>1 DEF Telling
  <2>3. \A r \in Questions : Told(c, r) => r = q
    BY <2>2 DEF Told, ChannelInv, Observations
  <2>4. {r \in Questions :
           \E i \in 1..Len(history[r]) :
             history[r][i].id = c.id /\ history[r][i].of = c.of} = {q}
    BY <2>2, <2>3 DEF Told
  <2> QED BY <2>4, FS_Singleton
<1> QED BY <1>1, <1>2, <1>3, PTL DEF Spec
=============================================================================
