------------------------------ MODULE ChatAgent ------------------------------
(***************************************************************************)
(* The chat agent (Backend/controllers/AiChat.cc, Backend/AI).  The IO     *)
(* thread handles a question: it makes an agent on its stack, which sends  *)
(* the first request to the model's service, and returns.  Everything else *)
(* happens in the main loop, where the agent's callback gets the reply,    *)
(* answers the client, or runs a tool and sends the next request.  A tool  *)
(* blocks the loop while it talks to the device; its writes go through the *)
(* channel of module CommandChannel, beside those of the IO thread.        *)
(*                                                                         *)
(* The HTTP client and the service are external: one request at a time, in *)
(* their order, with no timeout.                                           *)
(***************************************************************************)
EXTENDS Naturals, Sequences, FiniteSets

CONSTANTS
  Questions, \* text messages of clients, each asked once
  Nobody,    \* no question at all
  MaxCalls,  \* bound: calls of tools, and motor commands of the IO thread
  Honest     \* as in CommandChannel

Callers   == {"io", "main"}
Values    == {"on", "off"}
Broadcast == "broadcast"

ASSUME AgentAssumption ==
  /\ {Nobody, Broadcast} \cap Questions = {}
  /\ MaxCalls \in Nat /\ Honest \in BOOLEAN

VARIABLES
  io,       \* the question the IO thread handles, or Nobody
  io_sent,  \* its request has been handed to the main loop
  posted,   \* tasks queued in the main loop: requests to send, broadcasts
  requests, \* conversations with a request at the client, the first sent
  main,     \* the conversation whose tool the main loop runs, or Nobody
  asked,    \* questions asked
  history,  \* the observations in the history of each conversation
  answers,  \* answers sent for each question
  crashed,  \* an exception or a wild access has ended the worker
  last, busy, outcome, pending, applied \* the channel

chatVars == <<io, io_sent, posted, requests, main, asked, history, answers>>
channelVars == <<last, busy, outcome, pending, applied>>
vars == <<chatVars, crashed, channelVars>>

Channel == INSTANCE CommandChannel WITH Ids <- 1..MaxCalls

Init ==
  /\ io = Nobody /\ io_sent = FALSE
  /\ posted = <<>> /\ requests = <<>>
  /\ main = Nobody
  /\ asked = {}
  /\ history = [q \in Questions |-> <<>>]
  /\ answers = [q \in Questions |-> 0]
  /\ crashed = FALSE
  /\ Channel!Init

Crash == crashed' = TRUE /\ UNCHANGED <<chatVars, channelVars>>

-----------------------------------------------------------------------------
(***************************************************************************)
(* The IO thread: AiChat::handleNewMessage and ReActAgent::run.  loadPrompt*)
(* throws when the prompt file is not there, or not a prompt.              *)
(***************************************************************************)
Io == ~crashed /\ UNCHANGED <<requests, main, history, answers>>

IoFree == io = Nobody /\ busy["io"] = "none"

HandleNewMessage(q) ==
  /\ ~crashed /\ IoFree /\ q \notin asked
  /\ \/ /\ Io
        /\ io' = q /\ io_sent' = FALSE
        /\ asked' = asked \cup {q}
        /\ UNCHANGED <<posted, crashed, channelVars>>
     \/ Crash

FirstStep ==
  /\ Io /\ io # Nobody /\ ~io_sent
  /\ io_sent' = TRUE
  /\ posted' = Append(posted, io)
  /\ UNCHANGED <<io, asked, crashed, channelVars>>

\* The handler returns, and the agent on its stack is gone.
HandlerReturns ==
  /\ Io /\ io # Nobody /\ io_sent
  /\ io' = Nobody /\ io_sent' = FALSE
  /\ UNCHANGED <<posted, asked, crashed, channelVars>>

\* The same thread writes the motor's register for a browser.
BrowserWrites ==
  /\ ~crashed /\ io = Nobody
  /\ \/ /\ \E v \in Values : Channel!Write("io", v)
        /\ \E u \in Callers : last'["io"] = last[u] + 1
     \/ \E res \in {"ok", "failed", "refused"} : Channel!Return("io", res)
  /\ UNCHANGED <<chatVars, crashed>>

-----------------------------------------------------------------------------
(***************************************************************************)
(* The main loop, between two tasks.                                       *)
(***************************************************************************)
Loop ==
  /\ ~crashed /\ main = Nobody
  /\ UNCHANGED <<io, io_sent, asked>>

\* The data thread posts a broadcast; one is enough to tell a delay.
PostBroadcast ==
  /\ ~crashed /\ \A i \in 1..Len(posted) : posted[i] # Broadcast
  /\ posted' = Append(posted, Broadcast)
  /\ UNCHANGED <<io, io_sent, requests, main, asked, history, answers, crashed,
                 channelVars>>

RunTaskAs(sent) ==
  /\ Loop /\ posted # <<>>
  /\ posted' = Tail(posted)
  /\ requests' = requests \o sent
  /\ UNCHANGED <<main, history, answers, crashed, channelVars>>

\* Mutant: whatever task runs sends a request.
RunTaskSends == RunTaskAs(<<Head(posted)>>)

RunTask ==
  RunTaskAs(IF Head(posted) = Broadcast THEN <<>> ELSE <<Head(posted)>>)

\* The connection to the service is lost: every request fails, and the text
\* that says so is answered as one that does not parse.
ConnectionFails ==
  /\ Loop /\ requests # <<>>
  /\ requests' = <<>>
  /\ answers' = [q \in Questions |->
       answers[q] + Cardinality({i \in 1..Len(requests) : requests[i] = q})]
  /\ UNCHANGED <<posted, main, history, crashed, channelVars>>

-----------------------------------------------------------------------------
(***************************************************************************)
(* The callback of ReActAgent::step.                                       *)
(***************************************************************************)
\* The reply to the oldest request has come, n answers are sent for it, and
\* the conversations of rest wait behind it.
Reply(n, rest) ==
  /\ Loop /\ requests # <<>>
  /\ requests' = Tail(requests) \o rest
  /\ answers' = [answers EXCEPT ![Head(requests)] = @ + n]
  /\ UNCHANGED <<posted, history>>

\* It does not parse, has no choices, or is the final answer.
ReplyIsAnswered ==
  /\ Reply(1, <<>>)
  /\ UNCHANGED <<main, crashed, channelVars>>

\* It parses but is not shaped as expected: Json throws.
ReplyIsOdd == ~crashed /\ main = Nobody /\ requests # <<>> /\ Crash

\* The callback goes through "this" to the agent, which is gone unless its
\* handler has not returned yet: the access works or ends the process.
UsesThis(q) == ~crashed /\ io # q

ReplyIsWild ==
  main = Nobody /\ requests # <<>> /\ UsesThis(Head(requests)) /\ Crash

\* Mutant: an unknown tool's text is answered and the conversation goes on.
UnknownToolGoesOn ==
  Reply(1, <<Head(requests)>>) /\ UNCHANGED <<main, crashed, channelVars>>

\* Mutant: an unknown tool ends the conversation without an answer.
UnknownToolSilent ==
  Reply(0, <<>>) /\ UNCHANGED <<main, crashed, channelVars>>

\* It asks for a tool the registry does not know: it is the answer.
UnknownTool ==
  Reply(1, <<>>) /\ UNCHANGED <<main, crashed, channelVars>>

\* It asks for a tool: a write of the motor's register, or one that changes
\* nothing (a reading, an unknown motor action).
RunTool ==
  /\ Reply(0, <<>>)
  /\ main' = Head(requests)
  /\ (\E v \in Values : Channel!Write("main", v)) \/ Channel!Other("main")
  /\ \E u \in Callers : last'["main"] = last[u] + 1
  /\ UNCHANGED crashed

-----------------------------------------------------------------------------
(***************************************************************************)
(* The tool returns: what it says goes into the history, and the next      *)
(* request is sent, through "this" again.                                  *)
(***************************************************************************)
ToolEnds(res) ==
  IF busy["main"] = "none" THEN res # "refused" /\ UNCHANGED channelVars
                           ELSE Channel!Return("main", res)

NextStep(seen) ==
  /\ history' = [history EXCEPT ![main] = @ \o seen]
  /\ requests' = Append(requests, main)
  /\ main' = Nobody
  /\ UNCHANGED <<io, io_sent, posted, asked, answers, crashed>>

Observation(res) == <<[id |-> last["main"], of |-> busy["main"], res |-> res]>>

\* Mutant: a tool that gets no answer says that nothing was sent.
ToolReturnsRefused(res) ==
  /\ ~crashed /\ main # Nobody /\ ToolEnds(res)
  /\ NextStep(Observation(IF res = "failed" THEN "refused" ELSE res))

\* Mutant: a failure is not put into the history.
ToolReturnsQuietly(res) ==
  /\ ~crashed /\ main # Nobody
  /\ ToolEnds(res) /\ NextStep(IF res = "ok" THEN Observation(res) ELSE <<>>)

\* Mutant: the tool tries again until it succeeds.
ToolReturnsIfOk(res) ==
  /\ ~crashed /\ main # Nobody /\ res = "ok"
  /\ ToolEnds(res) /\ NextStep(Observation(res))

ToolReturns(res) ==
  ~crashed /\ main # Nobody /\ ToolEnds(res) /\ NextStep(Observation(res))

ToolReturnIsWild == main # Nobody /\ UsesThis(main) /\ Crash

-----------------------------------------------------------------------------
\* Commands on their way reach the motor or are lost, also after a crash.
Line == (Channel!TakeEffect \/ Channel!Lose) /\ UNCHANGED <<chatVars, crashed>>

IoNext == FirstStep \/ HandlerReturns

ServiceNext == ReplyIsAnswered \/ UnknownTool \/ RunTool \/ ReplyIsOdd

ToolNext == \E res \in {"ok", "failed", "refused"} : ToolReturns(res)

Next ==
  \/ \E q \in Questions : HandleNewMessage(q)
  \/ IoNext \/ BrowserWrites \/ PostBroadcast
  \/ RunTask \/ ServiceNext \/ ConnectionFails \/ ReplyIsWild
  \/ ToolNext \/ ToolReturnIsWild
  \/ Line

\* The IO thread and the main loop go on, a tool returns, and the service
\* replies: nothing in the code bounds how long it may take.
Spec ==
  /\ Init /\ [][Next]_vars
  /\ WF_vars(IoNext) /\ WF_vars(RunTask)
  /\ WF_vars(ServiceNext) /\ WF_vars(ToolNext)

-----------------------------------------------------------------------------
Results == {"ok", "failed", "refused"}

\* Every variable stays within its range (the locals of handleNewMessage, the
\* captures of step's callback, the queues they go through).
TypeOK ==
  /\ io \in Questions \cup {Nobody}
  /\ io_sent \in BOOLEAN
  /\ posted \in Seq(Questions \cup {Broadcast})
  /\ requests \in Seq(Questions)
  /\ main \in Questions \cup {Nobody}
  /\ asked \in SUBSET Questions
  /\ history \in [Questions -> Seq([id  : 1..MaxCalls,
                                    of  : Values \cup {"none"},
                                    res : Results])]
  /\ answers \in [Questions -> Nat]
  /\ crashed \in BOOLEAN
  /\ last \in [Callers -> 0..MaxCalls]
  /\ busy \in [Callers -> Values \cup {"none"}]
  /\ outcome \in [Callers -> Results \cup {"none"}]
  /\ pending \subseteq [by : Callers, of : Values, id : 1..MaxCalls]
  /\ applied \in Seq([by : Callers, of : Values, id : 1..MaxCalls])

Times(q, s) == Cardinality({i \in 1..Len(s) : s[i] = q})

\* No question is lost and none is answered twice: until the process dies a
\* question is in exactly one place, in the handler, in the loop's queue, at
\* the HTTP client, in the tool that runs, or answered once.
QuestionsAccounted ==
  ~crashed =>
    \A q \in Questions :
      (IF io = q /\ ~io_sent THEN 1 ELSE 0) + Times(q, posted)
        + Times(q, requests) + (IF main = q THEN 1 ELSE 0) + answers[q]
      = (IF q \in asked THEN 1 ELSE 0)

\* What the histories say of commands outlasts whatever the conversations and
\* a browser do next: a command of a tool that was refused never reaches the
\* motor, and one that was told of, as done or as failed, and may still take
\* effect, has not been overtaken by a later command of a tool, of whichever
\* conversation.  Nothing else is claimed: one told as failed (MotorTool.h:52,
\* "Failed to start motor.") may have taken effect or do so yet, and one told as
\* done may be lost, its echo being that of an earlier one.
OutcomesHold ==
  \A q \in Questions : \A i \in 1..Len(history[q]) :
    LET o == history[q][i] IN
    /\ o.res = "refused" =>
         /\ \A c \in pending : c.id # o.id
         /\ \A j \in 1..Len(applied) : applied[j].id # o.id
    /\ \A c \in pending : \A j \in 1..Len(applied) :
         c.by = "main" /\ c.id = o.id /\ applied[j].by = "main" =>
           applied[j].id < o.id

\* The motor never moves behind the model's back: a command of a tool that has
\* taken effect, or may do so yet, is in the history of exactly one
\* conversation, whatever its outcome was, or its tool still runs.
EffectsAreTold ==
  \A c \in pending \cup {applied[i] : i \in 1..Len(applied)} :
    c.by = "main" =>
      \/ main # Nobody /\ c.id = last["main"]
      \/ Cardinality({q \in Questions :
           \E i \in 1..Len(history[q]) :
             history[q][i].id = c.id /\ history[q][i].of = c.of}) = 1

\* Every question is answered or the process dies, if the service replies and
\* does not ask for actions without end (it asks for at most MaxCalls here):
\* a reply that is an error, no JSON, or names an unknown tool, a lost
\* connection and a tool that fails all lead to an answer.
AskedIsAnswered ==
  \A q \in Questions : (q \in asked) ~> (answers[q] > 0 \/ crashed)

\* A broadcast posted while a tool holds the loop is run once it returns.
BroadcastsGoOn ==
  (\E i \in 1..Len(posted) : posted[i] = Broadcast)
    ~> (crashed \/ \A i \in 1..Len(posted) : posted[i] # Broadcast)
=============================================================================
