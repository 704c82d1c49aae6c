--------------------------- MODULE SupervisorProofs ---------------------------
(***************************************************************************)
(* Proofs about Supervisor, for any masters, workers, commands and ways of *)
(* launching a master.                                                     *)
(***************************************************************************)
EXTENDS Supervisor, SequenceTheorems, FiniteSetTheorems, TLAPS

(***************************************************************************)
(* Types, and the frames of a master.                                      *)
(***************************************************************************)
Pids == Masters \cup Workers \cup {NoPid, "failed", "other"}

FrameSet == [at : Steps, sig : Signals \cup {"none"}, pid : Pids]

CommandSet == [op   : {"none", "stop", "restart", "interrupt"},
               at   : {"new", "check", "sent", "not_running"},
               seen : Masters \cup {NoPid, "other"}]

MainSteps  == {"check", "truncate", "write", "handlers", "fork", "assign",
               "pause"}
StopSteps  == {"kill", "call", "wait", "clear", "unlink", "exit"}
RenewSteps == {"kill", "call", "wait", "clear", "fork", "assign"}

\* A process that fork has made, or what it returns when it makes none.
Forked(p) == p \in Workers => worker[p] # "none"

\* Where a frame can be: the main program on its way to pause(), a handler on
\* the way its signal sends it.
FrameShape(f) ==
  /\ f.sig = "none" => f.at \in MainSteps
  /\ f.sig \in {"INT", "TERM"} => f.at \in StopSteps
  /\ f.sig = "USR1" => f.at \in RenewSteps
  /\ f.at = "assign" => f.pid \in Workers \cup {"failed"} /\ Forked(f.pid)

\* The frames of a master: the main program, then at most one handler of each
\* signal; none before its handlers are installed, and none before it begins.
StackShape(m) ==
  /\ \A i \in 1..Len(stack[m]) :
       /\ FrameShape(stack[m][i])
       /\ stack[m][i].sig = "none" <=> i = 1
       /\ \A j \in 1..Len(stack[m]) :
            stack[m][i].sig = stack[m][j].sig => i = j
  /\ stack[m] = <<>> <=> status[m] = "new"
  /\ stack[m] = <<>> => handlers[m] = {}
  /\ stack[m] # <<>> /\ stack[m][1].at \in {"check", "truncate", "write"} =>
       handlers[m] = {} /\ Len(stack[m]) = 1
  /\ status[m] = "exited" => Top(m).at = "exit"
  /\ Forked(workerPid[m])

FramesInv ==
  /\ TypeOK
  /\ \A m \in Masters : StackShape(m)

(***************************************************************************)
(* A calm master: its handlers have interrupted nothing but pause().       *)
(***************************************************************************)
\* The worker a calm master may have, by where its topmost frame is.
Expected(m) ==
  IF Top(m).at = "assign" THEN {Top(m).pid}
  ELSE IF Top(m).at \in {"pause", "kill", "call", "wait"}
  THEN {workerPid[m]} ELSE {}

\* Its handlers nest in pause() alone, and it has no other worker.
CalmShape(m) ==
  /\ Len(stack[m]) <= 2
  /\ Len(stack[m]) = 2 => stack[m][1].at = "pause"
  /\ stack[m] = <<>> => Children(m) = {}
  /\ stack[m] # <<>> => Children(m) \subseteq Expected(m)
  /\ stack[m] # <<>> /\ Top(m).at \in {"call", "wait"} =>
       workerPid[m] \in Workers
  /\ stack[m] # <<>> /\ Top(m).at = "wait" => Top(m).pid = workerPid[m]

CalmInv == \A m \in calm : CalmShape(m)

(***************************************************************************)
(* Any master.                                                             *)
(***************************************************************************)
\* What the master knows of: its workerPid, and the worker it has forked and
\* not yet assigned to it.
Assigning(m, p) ==
  \E i \in 1..Len(stack[m]) : stack[m][i].at = "assign" /\ stack[m][i].pid = p

Known(m, w) == w = workerPid[m] \/ Assigning(m, w)

\* A frame that has written workerPid, and may have lost a worker by it.
Done(m, sig) ==
  \E i \in 1..Len(stack[m]) :
    stack[m][i].sig = sig /\ stack[m][i].at \in {"pause", "unlink", "exit"}

\* Each such frame has lost at most one worker.
LostOnce(m) ==
  \E lost \in [Signals \cup {"none"} -> Workers \cup {NoPid}] :
    \A w \in Children(m) :
      Known(m, w) \/ \E sig \in {"none", "INT", "TERM"} :
                       Done(m, sig) /\ w = lost[sig]

\* A restart waits for the worker in workerPid, if there is one; while it has
\* stopped that and not yet assigned the new one, workerPid is no worker's, or
\* that of one that is gone.
Renewing(m) ==
  \A i \in 1..Len(stack[m]) : stack[m][i].sig = "USR1" =>
    /\ stack[m][i].at \in {"fork", "assign"} => workerPid[m] \notin Workers
    /\ stack[m][i].at = "clear" => workerPid[m] \notin Children(m)
    /\ stack[m][i].at = "wait" /\ workerPid[m] \in Workers =>
         stack[m][i].pid = workerPid[m]

LostInv == \A m \in Masters : LostOnce(m) /\ Renewing(m)

(***************************************************************************)
(* The pid file.                                                           *)
(***************************************************************************)
\* Master m has written the file, and is not about to exit.
Written(m) ==
  Settled(m) /\ stack[m][1].at \in {"handlers", "fork", "assign", "pause"}

\* A master that was not told to look at the file, or had no company, wrote
\* its own pid there.
AloneInv ==
  \A m \in Masters :
    /\ Written(m)
    /\ \A n \in Masters \ {m} : status[n] = "new"
    /\ lapses \subseteq {"unseen"}
    => pidFile = m

\* No lapse, and no nested handlers.
Strict == lapses = {} /\ calm = Masters

\* At most one master is starting; the file names the master that has written
\* it; a master that has looked has seen that one; and one past its look is
\* alone.
OneStarts   == \A m, n \in Masters : Starting(m) /\ Starting(n) => m = n
FileNames   == \A m \in Masters : Written(m) => pidFile = m
LookSees    == \A m, n \in Masters :
                 At(m, "check") /\ Written(n) => Top(m).pid = n
StartsAlone == \A m, n \in Masters :
                 (At(m, "truncate") \/ At(m, "write")) => ~Written(n)

FileFacts == OneStarts /\ FileNames /\ LookSees /\ StartsAlone

FileInv == Strict => FileFacts

PidFileInv == AloneInv /\ FileInv

(***************************************************************************)
(* What the steps do to the frames.                                        *)
(***************************************************************************)
\* The topmost frame is replaced.
LEMMA TopSet ==
  ASSUME TypeOK, NEW m \in Masters, stack[m] # <<>>,
         NEW f \in FrameSet, SetTop(m, f)
  PROVE  /\ Len(stack[m]) \in Nat /\ Len(stack[m]) >= 1
         /\ Top(m) \in FrameSet
         /\ Len(stack'[m]) = Len(stack[m])
         /\ \A i \in 1..Len(stack[m]) :
              stack'[m][i] = IF i = Len(stack[m]) THEN f ELSE stack[m][i]
         /\ \A n \in Masters \ {m} : stack'[n] = stack[n]
         /\ stack' \in [Masters -> Seq(FrameSet)]
<1>1. stack \in [Masters -> Seq(FrameSet)]
  BY DEF TypeOK, FrameSet, Pids
<1> HIDE DEF FrameSet
<1> PICK s \in Seq(FrameSet) : s = stack[m]
  BY <1>1
<1> PICK L : L = Len(s)
  OBVIOUS
<1>2. L \in Nat /\ L >= 1 /\ L \in 1..L /\ s[L] \in FrameSet
  OBVIOUS
<1> PICK t : t = [s EXCEPT ![L] = f]
  OBVIOUS
<1>3. /\ t \in Seq(FrameSet) /\ Len(t) = L
      /\ \A i \in 1..L : t[i] = IF i = L THEN f ELSE s[i]
  BY <1>2, ExceptSeq
<1>4. stack' = [stack EXCEPT ![m] = t]
  BY DEF SetTop
<1> QED BY <1>1, <1>2, <1>3, <1>4 DEF Top

\* A handler begins.
LEMMA FramePushed ==
  ASSUME TypeOK, NEW m \in Masters, NEW f \in FrameSet,
         stack' = [stack EXCEPT ![m] = Append(@, f)]
  PROVE  /\ Len(stack[m]) \in Nat
         /\ Len(stack'[m]) = Len(stack[m]) + 1
         /\ \A i \in 1..Len(stack[m]) : stack'[m][i] = stack[m][i]
         /\ stack'[m][Len(stack[m]) + 1] = f
         /\ \A n \in Masters \ {m} : stack'[n] = stack[n]
         /\ stack' \in [Masters -> Seq(FrameSet)]
<1>1. stack \in [Masters -> Seq(FrameSet)]
  BY DEF TypeOK, FrameSet, Pids
<1> HIDE DEF FrameSet
<1> QED BY <1>1

\* A handler returns.
LEMMA FramePopped ==
  ASSUME TypeOK, NEW m \in Masters, stack[m] # <<>>,
         stack' = [stack EXCEPT ![m] = SubSeq(@, 1, Len(@) - 1)]
  PROVE  /\ Len(stack[m]) \in Nat /\ Len(stack[m]) >= 1
         /\ Len(stack'[m]) = Len(stack[m]) - 1
         /\ \A i \in 1..(Len(stack[m]) - 1) : stack'[m][i] = stack[m][i]
         /\ \A n \in Masters \ {m} : stack'[n] = stack[n]
         /\ stack' \in [Masters -> Seq(FrameSet)]
<1>1. stack \in [Masters -> Seq(FrameSet)]
  BY DEF TypeOK, FrameSet, Pids
<1> HIDE DEF FrameSet
<1> PICK s \in Seq(FrameSet) : s = stack[m]
  BY <1>1
<1>2. Len(s) \in Nat /\ Len(s) >= 1 /\ Len(s) - 1 \in Int
  OBVIOUS
<1> PICK t : t = SubSeq(s, 1, Len(s) - 1)
  OBVIOUS
<1>3. \A i \in 1..(Len(s) - 1) : s[i] \in FrameSet
  BY <1>2
<1>4. /\ t \in Seq(FrameSet)
      /\ Len(t) = IF 1 <= Len(s) - 1 THEN Len(s) - 1 - 1 + 1 ELSE 0
      /\ \A i \in 1..(Len(s) - 1 - 1 + 1) : t[i] = s[1 + i - 1]
  BY <1>2, <1>3, SubSeqProperties
<1>5. Len(t) = Len(s) - 1 /\ \A i \in 1..(Len(s) - 1) : t[i] = s[i]
  BY <1>2, <1>4
<1> QED BY <1>1, <1>2, <1>4, <1>5

\* The topmost frame is one of the frames.
LEMMA TopIsLast ==
  ASSUME TypeOK, NEW m \in Masters, stack[m] # <<>>
  PROVE  /\ Len(stack[m]) \in Nat /\ Len(stack[m]) >= 1
         /\ Len(stack[m]) \in 1..Len(stack[m]) /\ 1 \in 1..Len(stack[m])
         /\ Top(m) = stack[m][Len(stack[m])]
         /\ Top(m) \in FrameSet
         /\ \A i \in 1..Len(stack[m]) : stack[m][i] \in FrameSet
<1>1. stack \in [Masters -> Seq(FrameSet)]
  BY DEF TypeOK, FrameSet, Pids
<1> HIDE DEF FrameSet
<1> QED BY <1>1 DEF Top

(***************************************************************************)
(* The frames keep their shape.                                            *)
(***************************************************************************)
\* No process is unmade.
LEMMA ForkedStays ==
  ASSUME TypeOK, [Next]_vars, NEW p, Forked(p)
  PROVE  Forked(p)'
<1>1. \A w \in Workers : worker[w] # "none" => worker'[w] # "none"
  <2> USE DEF TypeOK
  <2>1. UNCHANGED worker \/ \E w \in Workers, x \in {"boot", "serve", "zombie", "reaped"} :
          worker' = [worker EXCEPT ![w] = x]
    BY DEF Next, Launch, Begin, MasterNext, StartCheck, WritePidFile,
           WritePidFileFails, InstallHandler, Fork, ForkFails, Assign,
           HandleSignal, DefaultAction, StopWorkerKill, StopWorkerCall,
           StopWorkerWait, StopWorkerClear, UnlinkPidFile, Exit, WorkerNext,
           WorkerServes, WorkerQuits, WorkerDies, CommandNext, CommandRead,
           CommandSignal, Interrupt, vars, workerVars, programVars, Live,
           Awaited
  <2> QED BY <2>1
<1> QED BY <1>1 DEF Forked

\* A step that leaves a master's own state leaves its shape.
LEMMA ShapeKept ==
  ASSUME FramesInv, [Next]_vars, NEW m \in Masters,
         UNCHANGED <<stack[m], status[m], handlers[m], workerPid[m]>>
  PROVE  StackShape(m)'
<1>1. \A p : Forked(p) => Forked(p)'
  BY ForkedStays DEF FramesInv
<1> QED BY <1>1 DEF FramesInv, StackShape, FrameShape, Top

\* The topmost frame goes on, with what it handles.
LEMMA ShapeSet ==
  ASSUME FramesInv, [Next]_vars, NEW m \in Masters, stack[m] # <<>>,
         NEW f \in FrameSet, SetTop(m, f), f.sig = Top(m).sig,
         FrameShape(f)', UNCHANGED status[m], status[m] # "exited",
         Forked(workerPid[m])',
         f.at \in {"check", "truncate", "write"} => handlers'[m] = {} /\ Len(stack[m]) = 1,
         Len(stack[m]) # 1 => UNCHANGED handlers[m]
  PROVE  StackShape(m)'
<1>1. /\ Len(stack[m]) \in Nat /\ Len(stack[m]) >= 1
      /\ Top(m) = stack[m][Len(stack[m])]
      /\ Len(stack'[m]) = Len(stack[m])
      /\ \A i \in 1..Len(stack[m]) :
           stack'[m][i] = IF i = Len(stack[m]) THEN f ELSE stack[m][i]
      /\ stack'[m] # <<>>
  BY TopSet, TopIsLast DEF FramesInv
<1>2. \A p : Forked(p) => Forked(p)'
  BY ForkedStays DEF FramesInv
<1>3. \A i \in 1..Len(stack[m]) : stack'[m][i].sig = stack[m][i].sig
  BY <1>1
<1>4. \A i \in 1..Len(stack[m]) : FrameShape(stack[m][i])'
  BY <1>1, <1>2 DEF FramesInv, StackShape, FrameShape
<1>5. \A i \in 1..Len(stack'[m]) :
        /\ FrameShape(stack[m][i])'
        /\ stack'[m][i].sig = "none" <=> i = 1
        /\ \A j \in 1..Len(stack'[m]) :
             stack'[m][i].sig = stack'[m][j].sig => i = j
  BY <1>1, <1>3, <1>4 DEF FramesInv, StackShape
<1>6. stack'[m][1].at \in {"check", "truncate", "write"} =>
        handlers'[m] = {} /\ Len(stack'[m]) = 1
  BY <1>1 DEF FramesInv, StackShape
<1> QED BY <1>1, <1>5, <1>6 DEF FramesInv, StackShape

\* What the goto of master m does.
LEMMA GotoFrame ==
  ASSUME FramesInv, NEW m \in Masters, NEW from, At(m, from),
         NEW to \in Steps, Goto(m, to)
  PROVE  \E f \in FrameSet :
           /\ SetTop(m, f) /\ f.at = to
           /\ f.sig = Top(m).sig /\ f.pid = Top(m).pid
           /\ Top(m).at = from /\ stack[m] # <<>> /\ status[m] = "running"
<1>1. stack[m] # <<>> /\ Top(m).at = from /\ status[m] = "running"
  BY DEF At, Running
<1>2. Top(m) \in FrameSet
  BY <1>1, TopIsLast DEF FramesInv
<1>3. [Top(m) EXCEPT !.at = to] \in FrameSet
  BY <1>2 DEF FrameSet
<1> QED BY <1>1, <1>2, <1>3 DEF Goto, FrameSet

\* What the call of waitpid does.
LEMMA CallFrame ==
  ASSUME FramesInv, NEW m \in Masters, StopWorkerCall(m)
  PROVE  /\ \E f \in FrameSet :
              /\ SetTop(m, f) /\ f.at = "wait"
              /\ f.sig = Top(m).sig /\ f.pid = workerPid[m]
         /\ Top(m).at = "call" /\ stack[m] # <<>> /\ status[m] = "running"
         /\ UNCHANGED programVars
<1>1. /\ stack[m] # <<>> /\ Top(m).at = "call" /\ status[m] = "running"
      /\ UNCHANGED programVars
      /\ SetTop(m, [Top(m) EXCEPT !.at = "wait", !.pid = workerPid[m]])
  BY DEF StopWorkerCall, At, Running
<1>2. Top(m) \in FrameSet
  BY <1>1, TopIsLast DEF FramesInv
<1>3. workerPid[m] \in Pids
  BY DEF FramesInv, TypeOK, Pids
<1> PICK f : f = [Top(m) EXCEPT !.at = "wait", !.pid = workerPid[m]]
  OBVIOUS
<1>4. /\ f \in FrameSet /\ f.at = "wait"
      /\ f.sig = Top(m).sig /\ f.pid = workerPid[m]
  BY <1>2, <1>3 DEF FrameSet, Steps
<1> QED BY <1>1, <1>4

\* The frame that runs has the shape of its signal.
LEMMA TopShape ==
  ASSUME FramesInv, NEW m \in Masters, stack[m] # <<>>
  PROVE  /\ FrameShape(Top(m))
         /\ Top(m).sig \in Signals \cup {"none"}
         /\ Top(m).sig = "none" <=> Len(stack[m]) = 1
         /\ Len(stack[m]) \in Nat
         /\ Top(m).at \in {"check", "truncate", "write"} => handlers[m] = {}
<1>1. /\ Len(stack[m]) \in Nat /\ Len(stack[m]) >= 1
      /\ Len(stack[m]) \in 1..Len(stack[m])
      /\ Top(m) = stack[m][Len(stack[m])] /\ Top(m) \in FrameSet
  BY TopIsLast DEF FramesInv
<1>2. FrameShape(Top(m)) /\ (Top(m).sig = "none" <=> Len(stack[m]) = 1)
  <2>1. \A i \in 1..Len(stack[m]) :
          FrameShape(stack[m][i]) /\ (stack[m][i].sig = "none" <=> i = 1)
    BY DEF FramesInv, StackShape
  <2> HIDE DEF FrameShape
  <2> QED BY <1>1, <2>1
<1>3. Top(m).sig \in Signals \cup {"none"}
  BY <1>1 DEF FrameSet
<1>4. Top(m).at \in {"check", "truncate", "write"} => Top(m).sig = "none"
  BY <1>2, <1>3 DEF FrameShape, StopSteps, RenewSteps, Signals
<1>5. Top(m).at \in {"check", "truncate", "write"} =>
        stack[m][1].at \in {"check", "truncate", "write"}
  BY <1>1, <1>2, <1>4
<1> QED BY <1>1, <1>2, <1>3, <1>5 DEF FramesInv, StackShape

\* The other masters keep theirs.
LEMMA OthersShape ==
  ASSUME FramesInv, [Next]_vars, NEW m \in Masters, StackShape(m)',
         \A n \in Masters \ {m} :
           UNCHANGED <<stack[n], status[n], handlers[n], workerPid[n]>>
  PROVE  \A n \in Masters : StackShape(n)'
BY ShapeKept

\* A step of the program that only goes on to another place.
LEMMA FramesSet ==
  ASSUME FramesInv, [Next]_vars, NEW m \in Masters,
         NEW from \in Steps, At(m, from), NEW to \in Steps,
         NEW f \in FrameSet, SetTop(m, f), f.at = to, f.sig = Top(m).sig,
         UNCHANGED status, Forked(workerPid[m])',
         \A n \in Masters \ {m} : UNCHANGED <<handlers[n], workerPid[n]>>,
         from # "handlers" => UNCHANGED handlers,
         to # "assign",
         to \in {"check", "truncate", "write"} =>
           from \in {"check", "truncate", "write"},
         Top(m).sig = "none" => to \in MainSteps,
         Top(m).sig \in {"INT", "TERM"} => to \in StopSteps,
         Top(m).sig = "USR1" => to \in RenewSteps
  PROVE  /\ stack' \in [Masters -> Seq(FrameSet)]
         /\ \A n \in Masters : StackShape(n)'
<1>1. Top(m).at = from /\ stack[m] # <<>> /\ status[m] = "running"
  BY DEF At, Running
<1>2. FrameShape(f)'
  BY <1>1 DEF FrameShape
<1>3. /\ stack' \in [Masters -> Seq(FrameSet)]
      /\ \A n \in Masters \ {m} : stack'[n] = stack[n]
  BY <1>1, TopSet DEF FramesInv
<1>4. /\ FrameShape(Top(m)) /\ (Top(m).sig = "none" <=> Len(stack[m]) = 1)
      /\ Top(m).sig \in Signals \cup {"none"}
      /\ from \in {"check", "truncate", "write"} => handlers[m] = {}
  BY <1>1, TopShape
<1>5. from \in {"handlers", "check", "truncate", "write"} => Len(stack[m]) = 1
  BY <1>1, <1>4 DEF FrameShape, StopSteps, RenewSteps, Signals
<1>6. f.at \in {"check", "truncate", "write"} =>
        handlers'[m] = {} /\ Len(stack[m]) = 1
  BY <1>1, <1>4, <1>5
<1>7. StackShape(m)'
  BY <1>1, <1>2, <1>5, <1>6, ShapeSet
<1> QED BY <1>3, <1>7, OthersShape

LEMMA FramesGoto ==
  ASSUME FramesInv, [Next]_vars, NEW m \in Masters,
         NEW from \in Steps, At(m, from), NEW to \in Steps, Goto(m, to),
         UNCHANGED status, Forked(workerPid[m])',
         \A n \in Masters \ {m} : UNCHANGED <<handlers[n], workerPid[n]>>,
         from # "handlers" => UNCHANGED handlers,
         to # "assign",
         to \in {"check", "truncate", "write"} =>
           from \in {"check", "truncate", "write"},
         Top(m).sig = "none" => to \in MainSteps,
         Top(m).sig \in {"INT", "TERM"} => to \in StopSteps,
         Top(m).sig = "USR1" => to \in RenewSteps
  PROVE  /\ stack' \in [Masters -> Seq(FrameSet)]
         /\ \A n \in Masters : StackShape(n)'
<1>1. PICK f \in FrameSet : SetTop(m, f) /\ f.at = to /\ f.sig = Top(m).sig
  BY GotoFrame
<1> QED BY <1>1, FramesSet

\* The frame a master begins with.
LEMMA LaunchFrame ==
  ASSUME FramesInv, NEW m \in Masters, Launch(m)
  PROVE  \E f \in FrameSet, blind \in BOOLEAN :
           /\ Begin(m, f, blind) /\ f.sig = "none"
           /\ \/ f.at = "check" /\ f.pid \in ReadPid
              \/ f.at = "truncate" /\ blind
<1> DEFINE Begun ==
      \E f \in FrameSet, blind \in BOOLEAN :
        /\ Begin(m, f, blind) /\ f.sig = "none"
        /\ \/ f.at = "check" /\ f.pid \in ReadPid
           \/ f.at = "truncate" /\ blind
<1>1. ReadPid \subseteq Pids
  BY DEF FramesInv, TypeOK, ReadPid, Pids
<1>2. ASSUME NEW p \in ReadPid,
             Begin(m, [at |-> "check", sig |-> "none", pid |-> p], FALSE)
      PROVE  Begun
  <2>1. [at |-> "check", sig |-> "none", pid |-> p] \in FrameSet
    BY <1>1 DEF FrameSet, Steps
  <2> QED BY <1>2, <2>1
<1>3. ASSUME Begin(m, Frame("truncate", "none"), TRUE)
      PROVE  Begun
  <2>1. /\ Frame("truncate", "none") \in FrameSet
        /\ Frame("truncate", "none").at = "truncate"
        /\ Frame("truncate", "none").sig = "none"
    BY DEF Frame, FrameSet, Steps, Pids
  <2> QED BY <1>3, <2>1
<1> QED BY <1>2, <1>3 DEF Launch

\* A master begins.
LEMMA FramesLaunch ==
  ASSUME FramesInv, [Next]_vars, NEW m \in Masters, Launch(m)
  PROVE  FramesInv'
<1>1. PICK f \in FrameSet, b \in BOOLEAN :
        /\ Begin(m, f, b)
        /\ f.at \in {"check", "truncate"} /\ f.sig = "none"
  BY LaunchFrame
<1>2. /\ status[m] = "new" /\ stack[m] = <<>> /\ handlers[m] = {}
      /\ handlers' = handlers /\ workerPid' = workerPid
      /\ status' = [status EXCEPT ![m] = "running"]
      /\ stack' = [stack EXCEPT ![m] = <<f>>]
      /\ lapses' \in {lapses, lapses \cup {"unseen"}}
  BY <1>1 DEF Begin, FramesInv, StackShape, signalVars
<1>3. stack \in [Masters -> Seq(FrameSet)] /\ status'[m] = "running"
  BY <1>2 DEF FramesInv, TypeOK, FrameSet, Pids
<1>4. stack' \in [Masters -> Seq(FrameSet)] /\ stack'[m] = <<f>>
  <2> HIDE DEF FrameSet
  <2> QED BY <1>2, <1>3
<1>5. TypeOK'
  BY <1>1, <1>2, <1>4 DEF FramesInv, TypeOK, Begin, signalVars, workerVars,
    FrameSet, Pids, Lapses
<1>6. Forked(workerPid[m])'
  BY <1>2, ForkedStays DEF FramesInv, StackShape
<1>7. FrameShape(f)'
  BY <1>1 DEF FrameShape, MainSteps
<1>8. Len(<<f>>) = 1 /\ <<f>>[1] = f /\ <<f>> # <<>>
  OBVIOUS
<1>9. StackShape(m)'
  BY <1>1, <1>2, <1>3, <1>4, <1>6, <1>7, <1>8 DEF StackShape
<1>10. \A n \in Masters : StackShape(n)'
  BY <1>2, <1>9, OthersShape DEF FramesInv, TypeOK
<1> QED BY <1>5, <1>10 DEF FramesInv

\* The main program, up to its handlers.
LEMMA FramesStarting ==
  ASSUME FramesInv, [Next]_vars, NEW m \in Masters,
         \/ StartCheck(m) \/ WritePidFile(m) \/ WritePidFileFails(m)
         \/ InstallHandler(m)
  PROVE  FramesInv'
<1> USE DEF signalVars, workerVars, outside
<1>1. Forked(workerPid[m])' /\ workerPid' = workerPid
  BY ForkedStays DEF FramesInv, StackShape, StartCheck, WritePidFile,
    WritePidFileFails, InstallHandler
<1>2. \A at : At(m, at) => stack[m] # <<>> /\ Top(m).at = at /\ status[m] = "running"
  BY DEF At, Running
<1>3. ASSUME NEW at, At(m, at), at \in {"check", "truncate", "write", "handlers"}
      PROVE  Top(m).sig = "none"
  BY <1>2, <1>3, TopShape DEF FrameShape, StopSteps, RenewSteps, Signals
<1>4. ASSUME NEW from \in {"check", "truncate", "write", "handlers"},
             NEW to \in {"truncate", "write", "handlers", "fork"},
             At(m, from), Goto(m, to), UNCHANGED status,
             from # "handlers" => UNCHANGED handlers,
             \A n \in Masters \ {m} : handlers'[n] = handlers[n],
             from = "handlers" => to = "fork"
      PROVE  /\ stack' \in [Masters -> Seq(FrameSet)]
             /\ \A n \in Masters : StackShape(n)'
  <2>1. Top(m).sig = "none"
    BY <1>3, <1>4
  <2> QED BY <1>1, <1>4, <2>1, FramesGoto DEF Steps, MainSteps, Signals
<1>5. CASE StartCheck(m)
  <2>1. CASE UNCHANGED status
    <3>1. Goto(m, "truncate") /\ At(m, "check")
      BY <1>2, <1>5, <2>1 DEF StartCheck, FramesInv, TypeOK
    <3>2. /\ stack' \in [Masters -> Seq(FrameSet)]
          /\ \A n \in Masters : StackShape(n)'
      BY <1>4, <1>5, <2>1, <3>1 DEF StartCheck
    <3> QED BY <1>5, <2>1, <3>2 DEF FramesInv, TypeOK, StartCheck, FrameSet,
           Pids
  <2>2. CASE status' = [status EXCEPT ![m] = "refused"] /\ UNCHANGED stack
    <3>1. TypeOK'
      BY <1>5, <2>2 DEF FramesInv, TypeOK, StartCheck, FrameSet, Pids
    <3>2. /\ \A p : Forked(p) => Forked(p)'
          /\ handlers' = handlers /\ stack[m] # <<>> /\ status[m] = "running"
          /\ status'[m] = "refused"
      BY <1>2, <1>5, <2>2, ForkedStays DEF FramesInv, TypeOK, StartCheck
    <3>3. StackShape(m)'
      BY <1>1, <2>2, <3>2 DEF FramesInv, StackShape, FrameShape
    <3>4. \A n \in Masters : StackShape(n)'
      BY <1>1, <2>2, <3>2, <3>3, OthersShape DEF FramesInv, TypeOK
    <3> QED BY <3>1, <3>4 DEF FramesInv
  <2> QED BY <1>5, <2>1, <2>2 DEF StartCheck
<1>6. CASE WritePidFile(m)
  <2>1. /\ stack' \in [Masters -> Seq(FrameSet)]
        /\ \A n \in Masters : StackShape(n)'
    BY <1>4, <1>6 DEF WritePidFile
  <2> QED BY <1>6, <2>1 DEF FramesInv, TypeOK, WritePidFile, FrameSet, Pids
<1>7. CASE WritePidFileFails(m)
  <2>1. /\ stack' \in [Masters -> Seq(FrameSet)]
        /\ \A n \in Masters : StackShape(n)'
    BY <1>4, <1>7 DEF WritePidFileFails
  <2> QED BY <1>7, <2>1 DEF FramesInv, TypeOK, WritePidFileFails, FrameSet,
         Pids, Lapses
<1>8. CASE InstallHandler(m)
  <2>1. PICK s \in Signals :
          /\ handlers' = [handlers EXCEPT ![m] = @ \cup {s}]
          /\ IF s = "USR1" THEN Goto(m, "fork") ELSE UNCHANGED stack
    BY <1>8 DEF InstallHandler
  <2>2. /\ At(m, "handlers") /\ UNCHANGED status /\ handlers' \in [Masters -> SUBSET Signals]
        /\ \A n \in Masters \ {m} : handlers'[n] = handlers[n]
    BY <1>8, <2>1 DEF InstallHandler, FramesInv, TypeOK
  <2>3. /\ stack' \in [Masters -> Seq(FrameSet)]
        /\ \A n \in Masters : StackShape(n)'
    <3>1. CASE s = "USR1"
      BY <1>4, <2>1, <2>2, <3>1
    <3>2. CASE s # "USR1"
      <4>1. /\ \A p : Forked(p) => Forked(p)'
            /\ stack' = stack /\ stack \in [Masters -> Seq(FrameSet)]
        BY <2>1, <3>2, ForkedStays DEF FramesInv, TypeOK, FrameSet, Pids
      <4>2. Len(stack[m]) = 1 /\ stack[m][1].at = "handlers"
        BY <1>2, <1>3, <2>2, TopIsLast, TopShape DEF FramesInv
      <4>3. StackShape(m)'
        BY <1>1, <1>2, <2>2, <4>1, <4>2 DEF FramesInv, StackShape, FrameShape
      <4> QED BY <1>1, <2>2, <4>1, <4>3, OthersShape
    <3> QED BY <3>1, <3>2
  <2> QED BY <1>8, <2>2, <2>3 DEF FramesInv, TypeOK, InstallHandler, FrameSet,
         Pids
<1> QED BY <1>5, <1>6, <1>7, <1>8

\* startWorker.
LEMMA FramesWorker ==
  ASSUME FramesInv, [Next]_vars, NEW m \in Masters,
         Fork(m) \/ ForkFails(m) \/ Assign(m)
  PROVE  FramesInv'
<1> USE DEF signalVars, workerVars, outside, programVars
<1>1. /\ stack[m] # <<>> /\ status[m] = "running"
      /\ Top(m).at \in {"fork", "assign"}
      /\ status' = status /\ handlers' = handlers
      /\ \A p : Forked(p) => Forked(p)'
  BY ForkedStays DEF At, Running, Fork, ForkFails, Assign, FramesInv
<1>2. FrameShape(Top(m)) /\ Top(m) \in FrameSet
  BY <1>1, TopShape, TopIsLast DEF FramesInv
<1>3. ASSUME NEW p \in Workers \cup {"failed"}, SetForked(m, p), Forked(p)',
             UNCHANGED workerPid, Top(m).at = "fork"
      PROVE  /\ stack' \in [Masters -> Seq(FrameSet)]
             /\ \A n \in Masters : StackShape(n)'
  <2>1. PICK f : f = [Top(m) EXCEPT !.at = "assign", !.pid = p]
    OBVIOUS
  <2>2. /\ f \in FrameSet /\ f.at = "assign" /\ f.pid = p
        /\ f.sig = Top(m).sig /\ SetTop(m, f)
    BY <1>2, <1>3, <2>1 DEF FrameSet, Steps, Pids, SetForked
  <2>3. FrameShape(f)'
    BY <1>2, <1>3, <2>2 DEF FrameShape, MainSteps, StopSteps, RenewSteps,
      Signals
  <2>4. /\ stack' \in [Masters -> Seq(FrameSet)]
        /\ \A n \in Masters \ {m} : stack'[n] = stack[n]
    BY <1>1, <2>2, TopSet DEF FramesInv
  <2>5. StackShape(m)'
    BY <1>1, <1>3, <2>2, <2>3, ShapeSet DEF FramesInv, StackShape
  <2> QED BY <1>1, <1>3, <2>4, <2>5, OthersShape
<1>4. CASE Fork(m)
  <2>1. PICK w \in Workers :
          /\ worker[w] = "none"
          /\ worker' = [worker EXCEPT ![w] = "boot"]
          /\ parent' = [parent EXCEPT ![w] = m]
          /\ deaf' \in {deaf, deaf \cup {w}}
          /\ SetForked(m, w)
    BY <1>4 DEF Fork
  <2>2. Top(m).at = "fork" /\ UNCHANGED workerPid /\ Forked(w)'
    BY <1>4, <2>1 DEF Fork, At, FramesInv, TypeOK, Forked
  <2>3. /\ stack' \in [Masters -> Seq(FrameSet)]
        /\ \A n \in Masters : StackShape(n)'
    BY <1>3, <2>1, <2>2
  <2>4. TypeOK'
    BY <1>4, <2>1, <2>3 DEF FramesInv, TypeOK, Fork, FrameSet, Pids
  <2> QED BY <2>3, <2>4 DEF FramesInv
<1>5. CASE ForkFails(m)
  <2>1. Top(m).at = "fork" /\ UNCHANGED workerPid /\ Forked("failed")'
    BY <1>5, SupervisorAssumption DEF ForkFails, At, Forked
  <2>2. /\ stack' \in [Masters -> Seq(FrameSet)]
        /\ \A n \in Masters : StackShape(n)'
    BY <1>3, <1>5, <2>1 DEF ForkFails
  <2>3. TypeOK'
    BY <1>5, <2>2 DEF FramesInv, TypeOK, ForkFails, FrameSet, Pids
  <2> QED BY <2>2, <2>3 DEF FramesInv
<1>6. CASE Assign(m)
  <2> PICK p : p = Top(m).pid
    OBVIOUS
  <2>1. /\ Top(m).at = "assign" /\ workerPid' = [workerPid EXCEPT ![m] = p]
        /\ p \in Workers \cup {"failed"} /\ Forked(p)
    BY <1>1, <1>2, <1>6 DEF Assign, At, FrameShape
  <2>2. workerPid' \in [Masters -> Workers \cup {NoPid, "failed"}]
        /\ workerPid'[m] = p
        /\ \A n \in Masters \ {m} : workerPid'[n] = workerPid[n]
    BY <2>1 DEF FramesInv, TypeOK
  <2>3. Forked(workerPid[m])'
    BY <1>1, <2>1, <2>2 DEF Forked
  <2>4. /\ stack' \in [Masters -> Seq(FrameSet)]
        /\ \A n \in Masters : StackShape(n)'
    <3>1. CASE Len(stack[m]) = 1
      <4>1. Top(m).sig = "none" /\ Goto(m, "pause") /\ At(m, "assign")
        BY <1>1, <1>6, <3>1, TopShape DEF Assign
      <4> QED BY <1>1, <2>2, <2>3, <4>1, FramesGoto DEF Steps, MainSteps,
             Signals
    <3>2. CASE Len(stack[m]) # 1
      <4>1. stack' = [stack EXCEPT ![m] = SubSeq(@, 1, Len(@) - 1)]
        BY <1>6, <3>2 DEF Assign
      <4>2. /\ Len(stack[m]) \in Nat /\ Len(stack[m]) >= 1
            /\ Len(stack'[m]) = Len(stack[m]) - 1
            /\ \A i \in 1..(Len(stack[m]) - 1) : stack'[m][i] = stack[m][i]
            /\ \A n \in Masters \ {m} : stack'[n] = stack[n]
            /\ stack' \in [Masters -> Seq(FrameSet)]
        BY <1>1, <4>1, FramePopped DEF FramesInv
      <4>3. /\ Len(stack'[m]) \in Nat /\ Len(stack'[m]) >= 1
            /\ stack'[m] # <<>> /\ stack'[m][1] = stack[m][1]
        <5>1. 1 \in 1..(Len(stack[m]) - 1)
          <6>1. \A L \in Nat : L >= 1 /\ L # 1 => 1 \in 1..(L - 1)
            OBVIOUS
          <6> QED BY <3>2, <4>2, <6>1
        <5> QED BY <4>2, <5>1
      <4>4. \A i \in 1..Len(stack'[m]) :
              /\ FrameShape(stack[m][i])'
              /\ stack'[m][i].sig = "none" <=> i = 1
              /\ \A j \in 1..Len(stack'[m]) :
                   stack'[m][i].sig = stack'[m][j].sig => i = j
        <5>1. \A i \in 1..Len(stack'[m]) :
                i \in 1..Len(stack[m]) /\ stack'[m][i] = stack[m][i]
          BY <4>2
        <5>2. ASSUME NEW i \in 1..Len(stack'[m])
              PROVE  FrameShape(stack[m][i])'
          <6>1. FrameShape(stack[m][i]) /\ stack'[m][i] = stack[m][i]
            BY <5>1 DEF FramesInv, StackShape
          <6> QED BY <1>1, <6>1 DEF FrameShape
        <5> QED BY <5>1, <5>2 DEF FramesInv, StackShape
      <4>5. stack'[m][1].at \notin {"check", "truncate", "write"}
        BY <1>1, <3>2, <4>3 DEF FramesInv, StackShape
      <4>6. StackShape(m)'
        BY <1>1, <2>3, <4>3, <4>4, <4>5 DEF FramesInv, StackShape
      <4> QED BY <1>1, <2>2, <4>2, <4>6, OthersShape
    <3> QED BY <3>1, <3>2
  <2>5. TypeOK'
    BY <1>6, <2>2, <2>4 DEF FramesInv, TypeOK, Assign, FrameSet, Pids
  <2> QED BY <2>4, <2>5 DEF FramesInv
<1> QED BY <1>4, <1>5, <1>6

\* A handler runs: stopWorker, the pid file, exit.
LEMMA FramesStopping ==
  ASSUME FramesInv, [Next]_vars, NEW m \in Masters,
         \/ StopWorkerKill(m) \/ StopWorkerCall(m) \/ StopWorkerWait(m)
         \/ StopWorkerClear(m)
         \/ UnlinkPidFile(m)
  PROVE  FramesInv'
<1> USE DEF signalVars, workerVars, outside
<1>1. /\ stack[m] # <<>> /\ status[m] = "running"
      /\ Top(m).at \in {"kill", "call", "wait", "clear", "unlink"}
      /\ status' = status /\ handlers' = handlers
      /\ \A p : Forked(p) => Forked(p)'
      /\ \A n \in Masters \ {m} : workerPid'[n] = workerPid[n]
      /\ workerPid' \in {workerPid, [workerPid EXCEPT ![m] = NoPid]}
  BY ForkedStays DEF At, Running, StopWorkerKill, StopWorkerCall,
    StopWorkerWait, StopWorkerClear, UnlinkPidFile, programVars, FramesInv,
    TypeOK
<1>2. /\ workerPid' \in [Masters -> Workers \cup {NoPid, "failed"}]
      /\ Forked(workerPid[m])'
  <2>1. Forked(workerPid[m]) /\ Forked(NoPid)
    BY SupervisorAssumption DEF FramesInv, StackShape, Forked
  <2>2. workerPid'[m] \in {workerPid[m], NoPid}
    BY <1>1 DEF FramesInv, TypeOK
  <2>3. \A p : Forked(p) /\ p = workerPid'[m] => Forked(workerPid[m])'
    BY <1>1 DEF Forked
  <2> QED BY <1>1, <2>1, <2>2, <2>3 DEF FramesInv, TypeOK
<1>3. /\ FrameShape(Top(m)) /\ Top(m).sig \in Signals
      /\ Top(m).at = "unlink" => Top(m).sig # "USR1"
  BY <1>1, TopShape DEF FrameShape, MainSteps, RenewSteps
<1>4. ASSUME NEW from \in {"kill", "call", "wait", "clear", "unlink"},
             NEW to \in {"call", "clear", "exit", AfterStop(m)},
             At(m, from), Goto(m, to), to = "exit" => from = "unlink"
      PROVE  /\ stack' \in [Masters -> Seq(FrameSet)]
             /\ \A n \in Masters : StackShape(n)'
  <2>1. /\ Top(m).sig \in {"INT", "TERM"} => to \in StopSteps
        /\ Top(m).sig = "USR1" => to \in RenewSteps
        /\ Top(m).sig # "none" /\ to \in Steps /\ from \in Steps
        /\ to \notin {"assign", "check", "truncate", "write"} /\ from # "handlers"
    BY <1>1, <1>3, <1>4 DEF At, AfterStop, StopSteps, RenewSteps, Signals,
                            Steps
  <2> QED BY <1>1, <1>2, <1>4, <2>1, FramesGoto
<1>5. /\ stack' \in [Masters -> Seq(FrameSet)]
      /\ \A n \in Masters : StackShape(n)'
  <2>1. CASE StopWorkerKill(m)
    BY <1>4, <2>1 DEF StopWorkerKill, AfterStop
  <2>2. CASE StopWorkerWait(m)
    BY <1>4, <2>2 DEF StopWorkerWait
  <2>3. CASE StopWorkerClear(m)
    BY <1>4, <2>3 DEF StopWorkerClear, AfterStop
  <2>4. CASE UnlinkPidFile(m)
    BY <1>4, <2>4 DEF UnlinkPidFile
  <2>5. CASE StopWorkerCall(m)
    <3>1. PICK f \in FrameSet :
            SetTop(m, f) /\ f.at = "wait" /\ f.sig = Top(m).sig
      BY <2>5, CallFrame
    <3>2. At(m, "call") /\ "call" \in Steps /\ "wait" \in Steps
      BY <2>5 DEF StopWorkerCall, Steps
    <3>3. /\ Top(m).sig \in {"INT", "TERM"} => "wait" \in StopSteps
          /\ Top(m).sig = "USR1" => "wait" \in RenewSteps
          /\ Top(m).sig # "none"
      BY <1>3 DEF StopSteps, RenewSteps, Signals
    <3> QED BY <1>1, <1>2, <3>1, <3>2, <3>3, FramesSet
  <2> QED BY <2>1, <2>2, <2>3, <2>4, <2>5
<1>6. TypeOK'
  <2> USE DEF FramesInv, TypeOK, FrameSet, Pids
  <2>1. CASE StopWorkerKill(m)
    BY <1>2, <1>5, <2>1 DEF StopWorkerKill, Live
  <2>2. CASE StopWorkerWait(m)
    BY <1>2, <1>5, <2>2 DEF StopWorkerWait, Awaited
  <2>3. CASE StopWorkerClear(m)
    BY <1>2, <1>5, <2>3 DEF StopWorkerClear
  <2>4. CASE UnlinkPidFile(m)
    BY <1>2, <1>5, <2>4 DEF UnlinkPidFile
  <2>5. CASE StopWorkerCall(m)
    BY <1>2, <1>5, <2>5 DEF StopWorkerCall, programVars
  <2> QED BY <2>1, <2>2, <2>3, <2>4, <2>5
<1> QED BY <1>5, <1>6 DEF FramesInv

\* A signal is delivered.
LEMMA FramesHandle ==
  ASSUME FramesInv, [Next]_vars, NEW m \in Masters, NEW s \in Signals,
         HandleSignal(m, s)
  PROVE  FramesInv'
<1> USE DEF signalVars, workerVars, outside
<1>1. /\ status[m] = "running" /\ s \in handlers[m]
      /\ \A i \in 1..Len(stack[m]) : stack[m][i].sig # s
      /\ status' = status /\ handlers' = handlers /\ workerPid' = workerPid
      /\ stack[m] # <<>>
      /\ \A p : Forked(p) => Forked(p)'
  BY ForkedStays DEF HandleSignal, Running, FramesInv, StackShape
<1> PICK f : f = Frame("kill", s)
  OBVIOUS
<1>2. f \in FrameSet /\ f.sig = s /\ f.at = "kill" /\ s # "none"
  BY DEF Frame, FrameSet, Steps, Pids, Signals
<1>3. stack' = [stack EXCEPT ![m] = Append(@, f)]
  BY DEF HandleSignal
<1> PICK L : L = Len(stack[m])
  OBVIOUS
<1>4. /\ L \in Nat /\ L >= 1
      /\ Len(stack'[m]) = L + 1
      /\ \A i \in 1..L : stack'[m][i] = stack[m][i]
      /\ stack'[m][L + 1] = f
      /\ \A n \in Masters \ {m} : stack'[n] = stack[n]
      /\ stack' \in [Masters -> Seq(FrameSet)]
  BY <1>1, <1>2, <1>3, FramePushed, TopIsLast DEF FramesInv
<1>5. FrameShape(f)'
  BY <1>2 DEF FrameShape, StopSteps, RenewSteps, Signals
<1>6. \A i \in 1..(L + 1) :
        /\ FrameShape(stack[m][i])'
        /\ stack'[m][i].sig = "none" <=> i = 1
        /\ \A j \in 1..(L + 1) : stack'[m][i].sig = stack'[m][j].sig => i = j
  <2>1. ASSUME NEW i \in 1..L
        PROVE  /\ FrameShape(stack[m][i])'
               /\ stack'[m][i].sig = "none" <=> i = 1
               /\ stack'[m][i].sig # s
               /\ \A j \in 1..L : stack'[m][i].sig = stack'[m][j].sig => i = j
    <3>1. /\ FrameShape(stack[m][i])
          /\ stack[m][i].sig = "none" <=> i = 1
          /\ \A j \in 1..L : stack[m][i].sig = stack[m][j].sig => i = j
      BY DEF FramesInv, StackShape
    <3>2. FrameShape(stack[m][i])'
      BY <1>1, <1>4, <3>1 DEF FrameShape
    <3> QED BY <1>1, <1>4, <3>1, <3>2
  <2>2. \A i \in 1..(L + 1) : i \in 1..L \/ i = L + 1
    BY <1>4
  <2>3. FrameShape(stack[m][L + 1])' /\ stack'[m][L + 1].sig = s /\ L + 1 # 1
    BY <1>2, <1>4, <1>5 DEF FrameShape
  <2> HIDE DEF FrameShape
  <2> QED BY <1>2, <2>1, <2>2, <2>3
<1>7. stack'[m] # <<>> /\ stack'[m][1] = stack[m][1]
  BY <1>4
<1>8. stack[m][1].at \notin {"check", "truncate", "write"}
  BY <1>1 DEF FramesInv, StackShape
<1>9. Forked(workerPid[m])'
  BY <1>1 DEF FramesInv, StackShape, Forked
<1>10. StackShape(m)'
  BY <1>1, <1>4, <1>6, <1>7, <1>8, <1>9 DEF FramesInv, StackShape
<1>11. \A n \in Masters : StackShape(n)'
  BY <1>1, <1>4, <1>10, OthersShape
<1>12. TypeOK'
  BY <1>1, <1>4 DEF FramesInv, TypeOK, HandleSignal, FrameSet, Pids
<1> QED BY <1>11, <1>12 DEF FramesInv

\* A process ends.
LEMMA FramesEnd ==
  ASSUME FramesInv, [Next]_vars, NEW m \in Masters,
         Exit(m) \/ \E s \in Signals : DefaultAction(m, s)
  PROVE  FramesInv'
<1> USE DEF signalVars, workerVars, outside
<1>1. /\ status[m] = "running" /\ stack' = stack /\ handlers' = handlers
      /\ workerPid' = workerPid /\ \A p : Forked(p) => Forked(p)'
      /\ \/ status' = [status EXCEPT ![m] = "exited"] /\ Top(m).at = "exit"
         \/ status' = [status EXCEPT ![m] = "killed"]
      /\ stack[m] # <<>>
  BY ForkedStays DEF Exit, DefaultAction, At, Running, FramesInv, StackShape
<1>2. StackShape(m)'
  <2>1. status'[m] \in {"exited", "killed"} /\ (status'[m] = "exited" => Top(m).at = "exit")
    BY <1>1 DEF FramesInv, TypeOK
  <2> QED BY <1>1, <2>1 DEF FramesInv, StackShape, FrameShape, Top
<1>3. \A n \in Masters : StackShape(n)'
  BY <1>1, <1>2, OthersShape DEF FramesInv, TypeOK
<1>4. TypeOK'
  BY <1>1 DEF FramesInv, TypeOK, Exit, DefaultAction
<1> QED BY <1>3, <1>4 DEF FramesInv

\* The other processes.
LEMMA FramesOutside ==
  ASSUME FramesInv, [Next]_vars,
         \/ \E w \in Workers : WorkerNext(w) \/ WorkerDies(w)
         \/ \E k \in Commands : CommandNext(k)
         \/ UNCHANGED vars
  PROVE  FramesInv'
<1> USE DEF masterVars, signalVars, workerVars
<1>1. /\ stack' = stack /\ status' = status /\ handlers' = handlers
      /\ workerPid' = workerPid
  BY DEF WorkerNext, WorkerServes, WorkerQuits, WorkerDies, CommandNext,
    CommandRead, CommandSignal, Interrupt, vars
<1>2. \A n \in Masters : StackShape(n)'
  BY <1>1, ShapeKept
<1>3. TypeOK'
  <2> USE DEF FramesInv, TypeOK, Lapses
  <2>1. CASE \E w \in Workers : WorkerNext(w) \/ WorkerDies(w)
    BY <2>1 DEF WorkerNext, WorkerServes, WorkerQuits, WorkerDies
  <2>2. CASE UNCHANGED vars
    BY <2>2 DEF vars
  <2>3. ASSUME NEW k \in Commands, CommandNext(k)
        PROVE  TypeOK'
    <3>1. command' \in [Commands -> CommandSet]
      <4>1. command \in [Commands -> CommandSet] /\ command[k] \in CommandSet
        BY DEF CommandSet
      <4>2. PICK c \in CommandSet : command' = [command EXCEPT ![k] = c]
        <5>1. CASE \E op \in {"stop", "restart"} : CommandRead(k, op)
          <6>1. ReadPid \subseteq Masters \cup {NoPid, "other"}
            BY DEF ReadPid
          <6> QED BY <5>1, <6>1 DEF CommandRead, CommandSet
        <5>2. CASE CommandSignal(k)
          <6>1. PICK at \in {"sent", "not_running"} :
                  command' = [command EXCEPT ![k] = [command[k] EXCEPT !.at = at]]
            BY <5>2 DEF CommandSignal
          <6> QED BY <4>1, <6>1 DEF CommandSet
        <5>3. CASE \E m \in Masters : Interrupt(k, m)
          BY <5>3 DEF Interrupt, CommandSet
        <5> QED BY <2>3, <5>1, <5>2, <5>3 DEF CommandNext
      <4> HIDE DEF CommandSet
      <4> QED BY <4>1, <4>2
    <3>2. pending' \in [Masters -> SUBSET Signals]
      <4>1. pending \in [Masters -> SUBSET Signals]
        OBVIOUS
      <4>2. ASSUME NEW ms, NEW s \in Signals, Deliver(ms, s)
            PROVE  pending' \in [Masters -> SUBSET Signals]
        BY <4>1, <4>2 DEF Deliver
      <4>3. pending' = pending \/ \E s \in Signals : \E ms : Deliver(ms, s)
        <5>1. CASE \E op \in {"stop", "restart"} : CommandRead(k, op)
          BY <5>1 DEF CommandRead
        <5>2. CASE CommandSignal(k)
          <6>1. "TERM" \in Signals /\ "USR1" \in Signals
            BY DEF Signals
          <6> QED BY <5>2, <6>1 DEF CommandSignal
        <5>3. CASE \E m \in Masters : Interrupt(k, m)
          <6>1. "INT" \in Signals
            BY DEF Signals
          <6> QED BY <5>3, <6>1 DEF Interrupt
        <5> QED BY <2>3, <5>1, <5>2, <5>3 DEF CommandNext
      <4> QED BY <4>1, <4>2, <4>3
    <3>3. /\ UNCHANGED <<pidFile, status, stack, workerPid, handlers, calm,
                          worker, parent, deaf, lapses>>
          /\ interrupted' \in SUBSET Workers
      BY <2>3 DEF CommandNext, CommandRead, CommandSignal, Interrupt, Live
    <3> QED BY <3>1, <3>2, <3>3 DEF CommandSet
  <2> QED BY <2>1, <2>2, <2>3
<1> QED BY <1>2, <1>3 DEF FramesInv

\* A step of master m is its own.
LEMMA OwnFrames ==
  ASSUME FramesInv, NEW m \in Masters, Launch(m) \/ MasterNext(m),
         NEW n \in Masters, n # m
  PROVE  UNCHANGED <<stack[n], status[n], handlers[n], workerPid[n]>>
<1> USE DEF signalVars, outside, programVars
<1>1. stack' = stack \/ \E f : stack' = [stack EXCEPT ![m] = f]
  BY DEF Launch, Begin, MasterNext, StartCheck, WritePidFile,
    WritePidFileFails, InstallHandler, Fork, ForkFails, Assign, HandleSignal,
    DefaultAction, StopWorkerKill, StopWorkerCall, StopWorkerWait,
    StopWorkerClear, UnlinkPidFile, Exit, SetForked, Goto, SetTop
<1>2. \/ workerPid' = workerPid
      \/ \E p : workerPid' = [workerPid EXCEPT ![m] = p]
  BY DEF Launch, Begin, MasterNext, StartCheck, WritePidFile,
    WritePidFileFails, InstallHandler, Fork, ForkFails, Assign, HandleSignal,
    DefaultAction, StopWorkerKill, StopWorkerCall, StopWorkerWait,
    StopWorkerClear, UnlinkPidFile, Exit
<1>3. \/ handlers' = handlers
      \/ \E p : handlers' = [handlers EXCEPT ![m] = p]
  BY DEF Launch, Begin, MasterNext, StartCheck, WritePidFile,
    WritePidFileFails, InstallHandler, Fork, ForkFails, Assign, HandleSignal,
    DefaultAction, StopWorkerKill, StopWorkerCall, StopWorkerWait,
    StopWorkerClear, UnlinkPidFile, Exit
<1>4. \/ status' = status
      \/ \E p : status' = [status EXCEPT ![m] = p]
  BY DEF Launch, Begin, MasterNext, StartCheck, WritePidFile,
    WritePidFileFails, InstallHandler, Fork, ForkFails, Assign, HandleSignal,
    DefaultAction, StopWorkerKill, StopWorkerCall, StopWorkerWait,
    StopWorkerClear, UnlinkPidFile, Exit
<1> QED BY <1>1, <1>2, <1>3, <1>4 DEF FramesInv, TypeOK

\* A step that is none of master m's leaves its frames.
LEMMA OthersKeep ==
  ASSUME FramesInv, [Next]_vars, NEW m \in Masters,
         ~(Launch(m) \/ MasterNext(m))
  PROVE  UNCHANGED <<stack[m], status[m], handlers[m], workerPid[m]>>
<1>1. CASE \E n \in Masters : Launch(n) \/ MasterNext(n)
  <2>1. PICK n \in Masters : Launch(n) \/ MasterNext(n)
    BY <1>1
  <2>2. n # m
    BY <2>1
  <2> QED BY <2>1, <2>2, OwnFrames
<1>2. CASE ~\E n \in Masters : Launch(n) \/ MasterNext(n)
  BY <1>2 DEF Next, WorkerNext, WorkerServes, WorkerQuits, WorkerDies,
    CommandNext, CommandRead, CommandSignal, Interrupt, vars, masterVars,
    signalVars
<1> QED BY <1>1, <1>2

LEMMA FramesStep == FramesInv /\ [Next]_vars => FramesInv'
BY FramesLaunch, FramesStarting, FramesWorker, FramesStopping, FramesHandle,
  FramesEnd, FramesOutside DEF Next, MasterNext

LEMMA FramesInit == Init => FramesInv
<1> SUFFICES ASSUME Init PROVE FramesInv
  OBVIOUS
<1>1. \A m \in Masters : stack[m] = <<>> /\ Len(stack[m]) = 0
  BY DEF Init
<1>2. <<>> \in Seq(FrameSet)
  OBVIOUS
<1>3. TypeOK
  BY <1>2 DEF Init, TypeOK, FrameSet, Pids
<1>4. \A m \in Masters : StackShape(m)
  BY <1>1, SupervisorAssumption DEF Init, StackShape, Forked
<1> QED BY <1>3, <1>4 DEF FramesInv

\* The frames of a master keep their shape.
LEMMA FramesHold == Spec => []FramesInv
BY FramesInit, FramesStep, PTL DEF Spec

\* Every variable stays in its range.
THEOREM TypeCorrect == Spec => []TypeOK
BY FramesHold, PTL DEF FramesInv

(***************************************************************************)
(* A calm master has the one worker it expects, or none.                   *)
(***************************************************************************)
\* Only its own fork gives a master a worker, and this fork one.
LEMMA ChildrenShrink ==
  ASSUME TypeOK, [Next]_vars, NEW m \in Masters, ~Fork(m)
  PROVE  Children(m)' \subseteq Children(m)
<1> USE DEF TypeOK, Children, Live
<1>1. CASE \E n \in Masters : Fork(n)
  <2>1. PICK n \in Masters : Fork(n)
    BY <1>1
  <2>2. n # m
    BY <2>1
  <2>3. PICK w \in Workers :
          /\ worker' = [worker EXCEPT ![w] = "boot"]
          /\ parent' = [parent EXCEPT ![w] = n]
    BY <2>1 DEF Fork
  <2> QED BY <2>2, <2>3
<1>2. CASE ~\E n \in Masters : Fork(n)
  <2>1. /\ parent' = parent
        /\ \/ worker' = worker
           \/ \E w \in Workers, x \in {"zombie", "reaped"} :
                worker' = [worker EXCEPT ![w] = x]
           \/ \E w \in Workers : WorkerServes(w)
    BY <1>2 DEF Next, Launch, Begin, MasterNext, StartCheck, WritePidFile,
                WritePidFileFails, InstallHandler, ForkFails, Assign,
                HandleSignal, DefaultAction, StopWorkerKill, StopWorkerCall,
                StopWorkerWait, StopWorkerClear, UnlinkPidFile, Exit,
                WorkerNext, WorkerServes, WorkerQuits, WorkerDies,
                CommandNext, CommandRead, CommandSignal, Interrupt, vars,
                workerVars, programVars, Awaited
  <2> QED BY <2>1 DEF WorkerServes
<1> QED BY <1>1, <1>2

LEMMA ForkedChild ==
  ASSUME TypeOK, NEW m \in Masters, NEW w \in Workers, worker[w] = "none",
         worker' = [worker EXCEPT ![w] = "boot"],
         parent' = [parent EXCEPT ![w] = m]
  PROVE  Children(m)' \subseteq Children(m) \cup {w}
BY DEF TypeOK, Children, Live

\* The topmost frame goes on, and expects the workers there are.
LEMMA CalmSet ==
  ASSUME FramesInv, NEW m \in Masters, CalmShape(m), stack[m] # <<>>,
         NEW f \in FrameSet, SetTop(m, f),
         f.at = "assign" => Children(m)' \subseteq {f.pid},
         f.at \in {"pause", "kill", "call", "wait"} =>
           Children(m)' \subseteq {workerPid'[m]},
         f.at \notin {"assign", "pause", "kill", "call", "wait"} =>
           Children(m)' = {},
         f.at \in {"call", "wait"} => workerPid'[m] \in Workers,
         f.at = "wait" => f.pid = workerPid'[m]
  PROVE  CalmShape(m)'
<1>1. /\ Len(stack[m]) \in Nat /\ Len(stack[m]) >= 1
      /\ Len(stack'[m]) = Len(stack[m])
      /\ \A i \in 1..Len(stack[m]) :
           stack'[m][i] = IF i = Len(stack[m]) THEN f ELSE stack[m][i]
  BY TopSet DEF FramesInv
<1>2. Top(m)' = f /\ stack'[m] # <<>>
  <2>1. Len(stack[m]) \in 1..Len(stack[m])
    BY <1>1
  <2> QED BY <1>1, <2>1 DEF Top
<1>3. Len(stack[m]) = 2 => stack'[m][1] = stack[m][1]
  BY <1>1
<1>4. /\ Len(stack'[m]) <= 2
      /\ Len(stack'[m]) = 2 => stack'[m][1].at = "pause"
  BY <1>1, <1>3 DEF CalmShape
<1>5. Children(m)' \subseteq Expected(m)'
  BY <1>2 DEF Expected
<1> QED BY <1>2, <1>4, <1>5 DEF CalmShape

\* A step that leaves a master's own state leaves it calm.
LEMMA CalmKept ==
  ASSUME FramesInv, [Next]_vars, NEW m \in Masters, CalmShape(m), ~Fork(m),
         UNCHANGED <<stack[m], workerPid[m]>>
  PROVE  CalmShape(m)'
<1>1. Children(m)' \subseteq Children(m)
  BY ChildrenShrink DEF FramesInv
<1>2. Top(m)' = Top(m)
  BY DEF Top
<1> QED BY <1>1, <1>2 DEF CalmShape, Expected

\* A calm master moves from one place to the next.
LEMMA CalmGoto ==
  ASSUME FramesInv, [Next]_vars, NEW m \in Masters, CalmShape(m), ~Fork(m),
         NEW from, At(m, from), NEW to \in Steps, Goto(m, to),
         to \notin {"assign", "kill", "call", "wait"},
         to = "pause" => Children(m)' \subseteq {workerPid'[m]},
         to # "pause" /\ from \in {"assign", "pause", "kill", "call", "wait"} =>
           Children(m)' = {}
  PROVE  CalmShape(m)'
<1>1. PICK f \in FrameSet :
        /\ SetTop(m, f) /\ f.at = to
        /\ f.sig = Top(m).sig /\ f.pid = Top(m).pid
        /\ Top(m).at = from /\ stack[m] # <<>>
  BY GotoFrame
<1>2. from \notin {"assign", "pause", "kill", "call", "wait"} =>
        Children(m)' = {}
  BY <1>1, ChildrenShrink DEF CalmShape, Expected, FramesInv
<1> QED BY <1>1, <1>2, CalmSet

LEMMA CalmProgram ==
  ASSUME FramesInv, [Next]_vars, NEW m \in Masters, CalmShape(m),
         \/ Launch(m) \/ StartCheck(m) \/ WritePidFile(m)
         \/ WritePidFileFails(m) \/ InstallHandler(m)
  PROVE  CalmShape(m)'
<1> USE DEF signalVars, workerVars, outside
<1>1. ~Fork(m)
  BY DEF Fork, Launch, Begin, StartCheck, WritePidFile, WritePidFileFails,
    InstallHandler, At, Running, FramesInv, StackShape
<1>2. CASE Launch(m)
  <2>1. Children(m)' = {} /\ stack[m] = <<>>
    BY <1>1, <1>2, ChildrenShrink DEF Launch, Begin, CalmShape, FramesInv,
      StackShape
  <2>2. PICK f : /\ stack' = [stack EXCEPT ![m] = <<f>>]
                 /\ f.at \in {"check", "truncate"}
    BY <1>2, LaunchFrame DEF Begin
  <2>3. stack'[m] = <<f>>
    BY <2>2 DEF FramesInv, TypeOK
  <2>4. Len(stack'[m]) = 1 /\ stack'[m] # <<>> /\ stack'[m][1] = f
    BY <2>3
  <2>5. Top(m)' = f
    BY <2>4 DEF Top
  <2> QED BY <2>1, <2>2, <2>4, <2>5 DEF CalmShape, Expected
<1>3. ASSUME NEW from, NEW to \in {"truncate", "write", "handlers", "fork"},
             At(m, from), Goto(m, to),
             from \in {"check", "truncate", "write", "handlers"}
      PROVE  CalmShape(m)'
  BY <1>1, <1>3, CalmGoto DEF Steps
<1>4. CASE UNCHANGED stack /\ UNCHANGED workerPid
  BY <1>1, <1>4, CalmKept
<1>5. CASE StartCheck(m)
  BY <1>3, <1>4, <1>5 DEF StartCheck
<1>6. CASE WritePidFile(m)
  BY <1>3, <1>6 DEF WritePidFile
<1>7. CASE WritePidFileFails(m)
  BY <1>3, <1>7 DEF WritePidFileFails
<1>8. CASE InstallHandler(m)
  BY <1>3, <1>4, <1>8 DEF InstallHandler
<1> QED BY <1>2, <1>5, <1>6, <1>7, <1>8

LEMMA CalmWorker ==
  ASSUME FramesInv, [Next]_vars, NEW m \in Masters, CalmShape(m),
         Fork(m) \/ ForkFails(m) \/ Assign(m)
  PROVE  CalmShape(m)'
<1> USE DEF signalVars, workerVars, outside, programVars
<1>1. /\ stack[m] # <<>> /\ Top(m).at \in {"fork", "assign"}
      /\ Top(m) \in FrameSet /\ FrameShape(Top(m))
      /\ Children(m) \subseteq Expected(m)
  BY TopIsLast, TopShape DEF At, Running, Fork, ForkFails, Assign, FramesInv,
    CalmShape
<1>2. ASSUME NEW p \in Workers \cup {"failed"}, SetForked(m, p),
             Children(m)' \subseteq {p}
      PROVE  CalmShape(m)'
  <2>1. PICK f : f = [Top(m) EXCEPT !.at = "assign", !.pid = p]
    OBVIOUS
  <2>2. f \in FrameSet /\ f.at = "assign" /\ f.pid = p /\ SetTop(m, f)
    BY <1>1, <1>2, <2>1 DEF FrameSet, Steps, Pids, SetForked
  <2> QED BY <1>1, <1>2, <2>2, CalmSet
<1>3. Top(m).at = "fork" => Children(m) = {}
  BY <1>1 DEF Expected
<1>4. CASE Fork(m)
  <2>1. PICK w \in Workers :
          /\ worker[w] = "none"
          /\ worker' = [worker EXCEPT ![w] = "boot"]
          /\ parent' = [parent EXCEPT ![w] = m]
          /\ SetForked(m, w)
    BY <1>4 DEF Fork
  <2>2. Children(m)' \subseteq {w}
    BY <1>3, <1>4, <2>1, ForkedChild DEF Fork, At, FramesInv
  <2> QED BY <1>2, <2>1, <2>2
<1>5. CASE ForkFails(m)
  <2>1. Children(m)' = {}
    BY <1>3, <1>5 DEF ForkFails, At, Children, Live
  <2> QED BY <1>2, <1>5, <2>1 DEF ForkFails
<1>6. CASE Assign(m)
  <2>1. /\ Children(m)' = Children(m) /\ Top(m).at = "assign"
        /\ workerPid'[m] = Top(m).pid /\ ~Fork(m)
    BY <1>6 DEF Assign, At, Children, Live, FramesInv, TypeOK, Fork
  <2>2. Children(m)' \subseteq {workerPid'[m]}
    BY <1>1, <2>1 DEF Expected
  <2>3. CASE Len(stack[m]) = 1
    <3>1. At(m, "assign") /\ Goto(m, "pause") /\ "pause" \in Steps
      BY <1>6, <2>3 DEF Assign, Steps
    <3> QED BY <2>1, <2>2, <3>1, CalmGoto
  <2>4. CASE Len(stack[m]) # 1
    <3>1. stack' = [stack EXCEPT ![m] = SubSeq(@, 1, Len(@) - 1)]
      BY <1>6, <2>4 DEF Assign
    <3>2. /\ Len(stack[m]) \in Nat /\ Len(stack[m]) >= 1
          /\ Len(stack'[m]) = Len(stack[m]) - 1
          /\ \A i \in 1..(Len(stack[m]) - 1) : stack'[m][i] = stack[m][i]
      BY <1>1, <3>1, FramePopped DEF FramesInv
    <3>3. Len(stack[m]) = 2 /\ stack[m][1].at = "pause"
      <4>1. \A L \in Nat : L >= 1 /\ L # 1 /\ L <= 2 => L = 2
        OBVIOUS
      <4> QED BY <2>4, <3>2, <4>1 DEF CalmShape
    <3>4. Len(stack'[m]) = 1 /\ stack'[m] # <<>> /\ stack'[m][1] = stack[m][1]
      BY <3>2, <3>3
    <3>5. Top(m)'.at = "pause"
      BY <3>3, <3>4 DEF Top
    <3> QED BY <2>2, <3>4, <3>5 DEF CalmShape, Expected
  <2> QED BY <2>3, <2>4
<1> QED BY <1>4, <1>5, <1>6

LEMMA CalmStopping ==
  ASSUME FramesInv, [Next]_vars, NEW m \in Masters, CalmShape(m),
         \/ StopWorkerKill(m) \/ StopWorkerCall(m) \/ StopWorkerWait(m)
         \/ StopWorkerClear(m)
         \/ UnlinkPidFile(m)
  PROVE  CalmShape(m)'
<1> USE DEF signalVars, workerVars, outside
<1>1. /\ stack[m] # <<>> /\ Top(m).at \in {"kill", "call", "wait", "clear", "unlink"}
      /\ ~Fork(m) /\ Children(m) \subseteq Expected(m)
      /\ Top(m).at \in {"call", "wait"} => workerPid[m] \in Workers
      /\ Top(m).at = "wait" => Top(m).pid = workerPid[m]
  BY DEF At, Running, StopWorkerKill, StopWorkerCall, StopWorkerWait,
    StopWorkerClear, UnlinkPidFile, Fork, CalmShape
<1>2. Children(m)' \subseteq Children(m)
  BY <1>1, ChildrenShrink DEF FramesInv
<1>3. AfterStop(m) \in {"fork", "unlink"}
  BY DEF AfterStop
<1>4. ASSUME NEW from, NEW to \in {"clear", "fork", "unlink", "exit"},
             At(m, from), Goto(m, to), Children(m)' = {}
      PROVE  CalmShape(m)'
  BY <1>1, <1>4, CalmGoto DEF Steps
<1>5. CASE StopWorkerKill(m)
  <2>1. At(m, "kill") /\ Children(m)' \subseteq {workerPid[m]}
    BY <1>1, <1>2, <1>5 DEF StopWorkerKill, At, Expected
  <2>2. CASE workerPid[m] \in Workers
    <3>1. PICK f \in FrameSet : SetTop(m, f) /\ f.at = "call"
      BY <1>5, <2>1, <2>2, GotoFrame DEF StopWorkerKill, Steps
    <3>2. workerPid' = workerPid
      BY <1>5 DEF StopWorkerKill
    <3> QED BY <1>1, <2>1, <2>2, <3>1, <3>2, CalmSet
  <2>3. CASE workerPid[m] \notin Workers
    <3>1. Children(m)' = {}
      BY <2>1, <2>3 DEF Children, Live
    <3> QED BY <1>3, <1>4, <1>5, <2>1, <2>3, <3>1 DEF StopWorkerKill
  <2> QED BY <2>2, <2>3
<1>6. CASE StopWorkerWait(m)
  <2>1. /\ At(m, "wait") /\ Goto(m, "clear") /\ Top(m).pid = workerPid[m]
        /\ Children(m)' \subseteq {workerPid[m]} /\ workerPid[m] \in Workers
    BY <1>1, <1>2, <1>6 DEF StopWorkerWait, At, Expected
  <2>2. workerPid[m] \notin Children(m)'
    <3>1. CASE Awaited(m) = {} /\ UNCHANGED <<worker, parent>>
      BY <2>1, <3>1 DEF Awaited, Children, Live
    <3>2. CASE \E w \in Awaited(m) : worker' = [worker EXCEPT ![w] = "reaped"]
      BY <2>1, <3>2 DEF Awaited, Children, Live, FramesInv, TypeOK
    <3> QED BY <1>6, <3>1, <3>2 DEF StopWorkerWait
  <2> QED BY <1>4, <2>1, <2>2
<1>7. CASE StopWorkerClear(m)
  <2>1. Children(m)' = {} /\ At(m, "clear")
    BY <1>1, <1>2, <1>7 DEF StopWorkerClear, At, Expected
  <2> QED BY <1>3, <1>4, <1>7, <2>1 DEF StopWorkerClear
<1>8. CASE UnlinkPidFile(m)
  <2>1. Children(m)' = {} /\ At(m, "unlink")
    BY <1>1, <1>2, <1>8 DEF UnlinkPidFile, At, Expected
  <2> QED BY <1>4, <1>8, <2>1 DEF UnlinkPidFile
<1>9. CASE StopWorkerCall(m)
  <2>1. PICK f \in FrameSet :
          SetTop(m, f) /\ f.at = "wait" /\ f.pid = workerPid[m]
    BY <1>9, CallFrame
  <2>2. /\ workerPid' = workerPid /\ workerPid[m] \in Workers
        /\ Children(m)' \subseteq {workerPid[m]}
    BY <1>1, <1>2, <1>9, CallFrame DEF Expected, programVars
  <2> QED BY <1>1, <2>1, <2>2, CalmSet
<1> QED BY <1>5, <1>6, <1>7, <1>8, <1>9

\* A handler that interrupts pause() finds the main program alone.
LEMMA CalmHandle ==
  ASSUME FramesInv, [Next]_vars, NEW m \in Masters, CalmShape(m),
         NEW s \in Signals, HandleSignal(m, s), m \in calm'
  PROVE  CalmShape(m)'
<1>1. At(m, "pause") /\ workerPid' = workerPid /\ ~Fork(m)
  BY DEF HandleSignal, At, Running, Fork
<1>2. /\ stack[m] # <<>> /\ Top(m).at = "pause"
      /\ Children(m)' \subseteq {workerPid[m]}
  BY <1>1, ChildrenShrink DEF At, CalmShape, Expected, FramesInv
<1>3. Len(stack[m]) = 1 /\ stack[m][1] = Top(m)
  BY <1>2, TopShape, TopIsLast
    DEF FrameShape, StopSteps, RenewSteps, Signals, FramesInv
<1> PICK f : f = Frame("kill", s)
  OBVIOUS
<1>4. f \in FrameSet /\ f.at = "kill"
  BY DEF Frame, FrameSet, Steps, Pids
<1>5. /\ Len(stack'[m]) = Len(stack[m]) + 1
      /\ \A i \in 1..Len(stack[m]) : stack'[m][i] = stack[m][i]
      /\ stack'[m][Len(stack[m]) + 1] = f
  BY <1>4, FramePushed DEF HandleSignal, FramesInv
<1>6. /\ Len(stack'[m]) = 2 /\ stack'[m] # <<>>
      /\ stack'[m][1] = stack[m][1] /\ stack'[m][2] = f
  BY <1>3, <1>5
<1>7. Top(m)' = f
  BY <1>6 DEF Top
<1> QED BY <1>1, <1>2, <1>3, <1>4, <1>6, <1>7 DEF CalmShape, Expected

LEMMA CalmStep == FramesInv /\ CalmInv /\ [Next]_vars => CalmInv'
<1> SUFFICES ASSUME FramesInv, CalmInv, [Next]_vars, NEW m \in calm'
             PROVE  CalmShape(m)'
  BY DEF CalmInv
<1>1. m \in calm /\ m \in Masters /\ CalmShape(m)
  <2>1. calm' = calm \/ \E n \in Masters : calm' = calm \ {n}
    BY DEF Next, Launch, Begin, MasterNext, StartCheck, WritePidFile,
           WritePidFileFails, InstallHandler, Fork, ForkFails, Assign,
           HandleSignal, DefaultAction, StopWorkerKill, StopWorkerCall,
           StopWorkerWait, StopWorkerClear, UnlinkPidFile, Exit, WorkerNext,
           WorkerServes, WorkerQuits, WorkerDies, CommandNext, CommandRead,
           CommandSignal, Interrupt, vars, masterVars, signalVars,
           programVars, outside
  <2> QED BY <2>1 DEF FramesInv, TypeOK, CalmInv
<1>2. CASE Launch(m) \/ MasterNext(m)
  <2>1. CASE Exit(m) \/ \E s \in Signals : DefaultAction(m, s)
    <3>1. ~Fork(m) /\ UNCHANGED <<stack, workerPid>>
      <4>1. /\ UNCHANGED <<stack, workerPid>>
            /\ status' # status
        BY <2>1 DEF Exit, DefaultAction, Running, At, FramesInv, TypeOK
      <4> QED BY <4>1 DEF Fork, outside
    <3> QED BY <1>1, <3>1, CalmKept
  <2>2. CASE \E s \in Signals : HandleSignal(m, s)
    BY <1>1, <2>2, CalmHandle
  <2> QED BY <1>1, <1>2, <2>1, <2>2, CalmProgram, CalmWorker, CalmStopping
         DEF MasterNext
<1>3. CASE ~(Launch(m) \/ MasterNext(m))
  <2>1. ~Fork(m)
    BY <1>3 DEF MasterNext
  <2>2. UNCHANGED <<stack[m], workerPid[m]>>
    BY <1>1, <1>3, OthersKeep
  <2> QED BY <1>1, <2>1, <2>2, CalmKept
<1> QED BY <1>2, <1>3

LEMMA CalmInit == Init => CalmInv
<1> SUFFICES ASSUME Init, NEW m \in Masters PROVE CalmShape(m)
  BY DEF CalmInv, Init
<1>1. stack[m] = <<>> /\ Len(stack[m]) = 0
  BY DEF Init
<1> QED BY <1>1 DEF Init, CalmShape, Children, Live

\* A calm master keeps to one worker.
LEMMA CalmHolds == Spec => [](FramesInv /\ CalmInv)
BY FramesInit, FramesStep, CalmInit, CalmStep, PTL DEF Spec

\* A master that exits having been interrupted only in pause() leaves no
\* worker behind.
THEOREM ExitIsClean == Spec => []CleanExit
<1>1. FramesInv /\ CalmInv => CleanExit
  <2> SUFFICES ASSUME FramesInv, CalmInv, NEW m \in calm, status[m] = "exited"
               PROVE  Children(m) = {}
    BY DEF CleanExit
  <2>1. m \in Masters /\ CalmShape(m) /\ StackShape(m)
    BY DEF FramesInv, TypeOK, CalmInv
  <2> QED BY <2>1 DEF StackShape, CalmShape, Expected
<1> QED BY <1>1, CalmHolds, PTL

(***************************************************************************)
(* Any master loses one worker at most for each frame that writes          *)
(* workerPid without having stopped it.                                    *)
(***************************************************************************)
\* What a step keeps of the workers a master knows of and has lost.
LEMMA LostKept ==
  ASSUME NEW m \in Masters, LostOnce(m),
         \A w \in Children(m)' :
           \/ Known(m, w)'
           \/ w \in Children(m) /\ (Known(m, w) => Known(m, w)'),
         \A sig \in {"none", "INT", "TERM"} : Done(m, sig) => Done(m, sig)'
  PROVE  LostOnce(m)'
<1>1. PICK lost \in [Signals \cup {"none"} -> Workers \cup {NoPid}] :
        \A w \in Children(m) :
          Known(m, w) \/ \E sig \in {"none", "INT", "TERM"} :
                           Done(m, sig) /\ w = lost[sig]
  BY DEF LostOnce
<1>2. ASSUME NEW w \in Children(m)'
      PROVE  Known(m, w)' \/ \E sig \in {"none", "INT", "TERM"} :
                               Done(m, sig)' /\ w = lost[sig]
  BY <1>1, <1>2
<1> QED BY <1>1, <1>2 DEF LostOnce

\* The frame of the given signal writes workerPid over p.
LEMMA LostMore ==
  ASSUME NEW m \in Masters, LostOnce(m), NEW p \in Workers \cup {NoPid},
         NEW own \in {"none", "INT", "TERM"}, ~Done(m, own), Done(m, own)',
         \A w \in Children(m)' :
           /\ w \in Children(m)
           /\ Known(m, w) => Known(m, w)' \/ w = p,
         \A sig \in {"none", "INT", "TERM"} : Done(m, sig) => Done(m, sig)'
  PROVE  LostOnce(m)'
<1>1. PICK lost \in [Signals \cup {"none"} -> Workers \cup {NoPid}] :
        \A w \in Children(m) :
          Known(m, w) \/ \E sig \in {"none", "INT", "TERM"} :
                           Done(m, sig) /\ w = lost[sig]
  BY DEF LostOnce
<1> DEFINE more == [lost EXCEPT ![own] = p]
<1>2. /\ more \in [Signals \cup {"none"} -> Workers \cup {NoPid}]
      /\ more[own] = p
      /\ \A sig \in {"none", "INT", "TERM"} \ {own} : more[sig] = lost[sig]
  BY DEF Signals
<1> HIDE DEF more
<1>3. ASSUME NEW w \in Children(m)'
      PROVE  Known(m, w)' \/ \E sig \in {"none", "INT", "TERM"} :
                               Done(m, sig)' /\ w = more[sig]
  BY <1>1, <1>2, <1>3
<1> QED BY <1>2, <1>3 DEF LostOnce

\* What a step keeps of the restarts that are under way.
LEMMA RenewingKept ==
  ASSUME NEW m \in Masters, Renewing(m),
         workerPid'[m] \in {workerPid[m], NoPid},
         workerPid[m] \in Children(m)' => workerPid[m] \in Children(m),
         \A i \in 1..Len(stack'[m]) : stack'[m][i].sig = "USR1" =>
           \/ i \in 1..Len(stack[m]) /\ stack'[m][i] = stack[m][i]
           \/ /\ stack'[m][i].at \in {"fork", "assign"} =>
                   workerPid'[m] \notin Workers
              /\ stack'[m][i].at = "clear" => workerPid'[m] \notin Children(m)'
              /\ stack'[m][i].at = "wait" => stack'[m][i].pid = workerPid'[m]
  PROVE  Renewing(m)'
<1>1. NoPid \notin Workers /\ Children(m)' \subseteq Workers
  BY SupervisorAssumption DEF Children, Live
<1>2. ASSUME NEW i \in 1..Len(stack'[m]), stack'[m][i].sig = "USR1"
      PROVE  /\ stack'[m][i].at \in {"fork", "assign"} =>
                  workerPid'[m] \notin Workers
             /\ stack'[m][i].at = "clear" => workerPid'[m] \notin Children(m)'
             /\ stack'[m][i].at = "wait" /\ workerPid'[m] \in Workers =>
                  stack'[m][i].pid = workerPid'[m]
  BY <1>1, <1>2 DEF Renewing
<1> QED BY <1>2 DEF Renewing

\* A frame other than the topmost stays, and so does what it stands for.
LEMMA FramesBelow ==
  ASSUME FramesInv, NEW m \in Masters, stack[m] # <<>>, NEW f \in FrameSet,
         SetTop(m, f)
  PROVE  /\ \A p : Assigning(m, p) =>
              \/ Assigning(m, p)'
              \/ Top(m).at = "assign" /\ Top(m).pid = p
         /\ f.at = "assign" => Assigning(m, f.pid)'
         /\ \A sig : Done(m, sig) =>
              \/ Done(m, sig)'
              \/ Top(m).sig = sig /\ Top(m).at \in {"pause", "unlink", "exit"}
         /\ f.at \in {"pause", "unlink", "exit"} => Done(m, f.sig)'
         /\ \A i \in 1..Len(stack'[m]) :
              \/ i \in 1..Len(stack[m]) /\ stack'[m][i] = stack[m][i]
              \/ stack'[m][i] = f
<1>1. /\ Len(stack[m]) \in 1..Len(stack[m])
      /\ Top(m) = stack[m][Len(stack[m])]
      /\ Len(stack'[m]) = Len(stack[m])
      /\ \A i \in 1..Len(stack[m]) :
           stack'[m][i] = IF i = Len(stack[m]) THEN f ELSE stack[m][i]
  BY TopSet, TopIsLast DEF FramesInv
<1> PICK L : L = Len(stack[m])
  OBVIOUS
<1>2. /\ L \in 1..L /\ Len(stack'[m]) = L /\ stack'[m][L] = f
      /\ \A i \in (1..L) \ {L} : stack'[m][i] = stack[m][i]
  BY <1>1
<1>3. ASSUME NEW p, Assigning(m, p)
      PROVE  \/ Assigning(m, p)'
             \/ Top(m).at = "assign" /\ Top(m).pid = p
  <2>1. PICK i \in 1..L : stack[m][i].at = "assign" /\ stack[m][i].pid = p
    BY <1>3 DEF Assigning
  <2>2. CASE i = L
    BY <1>1, <2>1, <2>2
  <2>3. CASE i # L
    <3>1. i \in 1..L /\ stack'[m][i].at = "assign" /\ stack'[m][i].pid = p
      BY <1>2, <2>1, <2>3
    <3>2. i \in 1..Len(stack'[m])
      BY <1>2
    <3>3. Assigning(m, p)'
      BY <3>1, <3>2 DEF Assigning
    <3> QED BY <3>3
  <2> QED BY <2>2, <2>3
<1>4. ASSUME NEW sig, Done(m, sig)
      PROVE  \/ Done(m, sig)'
             \/ Top(m).sig = sig /\ Top(m).at \in {"pause", "unlink", "exit"}
  <2>1. PICK i \in 1..L : /\ stack[m][i].sig = sig
                          /\ stack[m][i].at \in {"pause", "unlink", "exit"}
    BY <1>4 DEF Done
  <2> QED BY <1>1, <1>2, <2>1 DEF Done
<1>5. f.at = "assign" => Assigning(m, f.pid)'
  BY <1>2 DEF Assigning
<1>6. f.at \in {"pause", "unlink", "exit"} => Done(m, f.sig)'
  BY <1>2 DEF Done
<1> QED BY <1>2, <1>3, <1>4, <1>5, <1>6

LostShape(m) == LostOnce(m) /\ Renewing(m)

\* A step that goes on without writing workerPid.
LEMMA LostSet ==
  ASSUME FramesInv, [Next]_vars, NEW m \in Masters, LostShape(m), ~Fork(m),
         NEW from, At(m, from), NEW to,
         NEW f \in FrameSet, SetTop(m, f), f.at = to, f.sig = Top(m).sig,
         UNCHANGED workerPid, from \notin {"assign", "pause", "exit"},
         from = "unlink" => to = "exit",
         Top(m).sig = "USR1" =>
           /\ to \in {"fork", "assign"} => workerPid[m] \notin Workers
           /\ to = "clear" => workerPid[m] \notin Children(m)'
           /\ to = "wait" => f.pid = workerPid[m]
  PROVE  LostShape(m)'
<1>1. Top(m).at = from /\ stack[m] # <<>>
  BY DEF At
<1>2. Children(m)' \subseteq Children(m)
  BY ChildrenShrink DEF FramesInv
<1>3. /\ \A p : Assigning(m, p) => Assigning(m, p)'
      /\ \A sig : Done(m, sig) => Done(m, sig)'
      /\ \A i \in 1..Len(stack'[m]) :
           \/ i \in 1..Len(stack[m]) /\ stack'[m][i] = stack[m][i]
           \/ stack'[m][i] = f
  BY <1>1, FramesBelow
<1>4. LostOnce(m)'
  BY <1>2, <1>3, LostKept DEF LostShape, Known
<1>5. Renewing(m)'
  BY <1>1, <1>2, <1>3, RenewingKept DEF LostShape
<1> QED BY <1>4, <1>5 DEF LostShape

LEMMA LostGoto ==
  ASSUME FramesInv, [Next]_vars, NEW m \in Masters, LostShape(m), ~Fork(m),
         NEW from, At(m, from), NEW to \in Steps, Goto(m, to),
         UNCHANGED workerPid, from \notin {"assign", "pause", "exit"},
         from = "unlink" => to = "exit",
         Top(m).sig = "USR1" =>
           /\ to \in {"fork", "assign"} => workerPid[m] \notin Workers
           /\ to = "clear" => workerPid[m] \notin Children(m)'
           /\ to # "wait"
  PROVE  LostShape(m)'
<1>1. PICK f \in FrameSet : SetTop(m, f) /\ f.at = to /\ f.sig = Top(m).sig
  BY GotoFrame
<1> QED BY <1>1, LostSet

\* A step that leaves a master's own state.
LEMMA LostSame ==
  ASSUME FramesInv, [Next]_vars, NEW m \in Masters, LostShape(m), ~Fork(m),
         UNCHANGED <<stack[m], workerPid[m]>>
  PROVE  LostShape(m)'
<1>1. Children(m)' \subseteq Children(m)
  BY ChildrenShrink DEF FramesInv
<1>2. /\ \A p : Known(m, p) => Known(m, p)'
      /\ \A sig : Done(m, sig) => Done(m, sig)'
  BY DEF Known, Assigning, Done
<1>3. LostOnce(m)'
  BY <1>1, <1>2, LostKept DEF LostShape
<1>4. Renewing(m)'
  BY <1>1, RenewingKept DEF LostShape
<1> QED BY <1>3, <1>4 DEF LostShape

LEMMA LostProgram ==
  ASSUME FramesInv, [Next]_vars, NEW m \in Masters, LostShape(m),
         \/ Launch(m) \/ StartCheck(m) \/ WritePidFile(m)
         \/ WritePidFileFails(m) \/ InstallHandler(m)
  PROVE  LostShape(m)'
<1> USE DEF signalVars, workerVars, outside
<1>1. ~Fork(m) /\ UNCHANGED workerPid
  BY DEF Fork, Launch, Begin, StartCheck, WritePidFile, WritePidFileFails,
    InstallHandler, At, Running, FramesInv, StackShape
<1>2. CASE Launch(m)
  <2>1. PICK f : stack' = [stack EXCEPT ![m] = <<f>>] /\ f.sig = "none"
    BY <1>2, LaunchFrame DEF Begin
  <2>2. stack'[m] = <<f>> /\ stack[m] = <<>>
    BY <1>2, <2>1 DEF FramesInv, TypeOK, StackShape, Launch, Begin
  <2>3. /\ Children(m)' \subseteq Children(m)
        /\ \A p : Known(m, p) => Known(m, p)'
        /\ \A sig : Done(m, sig) => Done(m, sig)'
    <3>1. Len(stack[m]) = 0
      BY <2>2
    <3> QED BY <1>1, <3>1, ChildrenShrink DEF FramesInv, Known, Assigning, Done
  <2>4. LostOnce(m)'
    BY <2>3, LostKept DEF LostShape
  <2>5. Renewing(m)'
    <3>1. Len(stack'[m]) = 1 /\ stack'[m][1] = f
      BY <2>2
    <3> QED BY <2>1, <3>1 DEF Renewing
  <2> QED BY <2>4, <2>5 DEF LostShape
<1>3. ASSUME NEW from, NEW to \in {"truncate", "write", "handlers", "fork"},
             At(m, from), Goto(m, to),
             from \in {"check", "truncate", "write", "handlers"}
      PROVE  LostShape(m)'
  <2>1. Top(m).sig = "none"
    BY <1>3, TopShape DEF At, FrameShape, StopSteps, RenewSteps, Signals
  <2> QED BY <1>1, <1>3, <2>1, LostGoto DEF Steps
<1>4. CASE UNCHANGED stack
  BY <1>1, <1>4, LostSame
<1>5. CASE StartCheck(m)
  BY <1>3, <1>4, <1>5 DEF StartCheck
<1>6. CASE WritePidFile(m)
  BY <1>3, <1>6 DEF WritePidFile
<1>7. CASE WritePidFileFails(m)
  BY <1>3, <1>7 DEF WritePidFileFails
<1>8. CASE InstallHandler(m)
  BY <1>3, <1>4, <1>8 DEF InstallHandler
<1> QED BY <1>2, <1>5, <1>6, <1>7, <1>8

\* A new worker is known by the frame that forked it, until that frame assigns
\* it: the main program then loses the one it finds in workerPid.
LEMMA LostWorker ==
  ASSUME FramesInv, [Next]_vars, NEW m \in Masters, LostShape(m),
         Fork(m) \/ ForkFails(m)
  PROVE  LostShape(m)'
<1> USE DEF signalVars, workerVars, outside, programVars
<1>1. /\ stack[m] # <<>> /\ Top(m).at = "fork" /\ Top(m) \in FrameSet
      /\ UNCHANGED workerPid
  BY TopIsLast DEF At, Running, Fork, ForkFails, FramesInv
<1>2. PICK p \in Workers \cup {"failed"} :
        SetForked(m, p) /\ Children(m)' \subseteq Children(m) \cup {p}
        /\ (p \in Workers => worker[p] = "none")
  <2>1. CASE Fork(m)
    BY <2>1, ForkedChild DEF Fork, FramesInv
  <2>2. CASE ForkFails(m)
    BY <2>2, SupervisorAssumption DEF ForkFails, Children, Live
  <2> QED BY <2>1, <2>2
<1>3. PICK f : f = [Top(m) EXCEPT !.at = "assign", !.pid = p]
  OBVIOUS
<1>4. /\ f \in FrameSet /\ f.at = "assign" /\ f.pid = p
      /\ f.sig = Top(m).sig /\ SetTop(m, f)
  BY <1>1, <1>2, <1>3 DEF FrameSet, Steps, Pids, SetForked
<1>5. /\ \A q : Assigning(m, q) => Assigning(m, q)'
      /\ Assigning(m, p)'
      /\ \A sig : Done(m, sig) => Done(m, sig)'
      /\ \A i \in 1..Len(stack'[m]) :
           \/ i \in 1..Len(stack[m]) /\ stack'[m][i] = stack[m][i]
           \/ stack'[m][i] = f
  BY <1>1, <1>4, FramesBelow
<1>6. LostOnce(m)'
  BY <1>1, <1>2, <1>5, LostKept DEF LostShape, Known
<1>7. Top(m).sig = "USR1" => workerPid[m] \notin Workers
  BY <1>1, TopIsLast DEF LostShape, Renewing, FramesInv
<1>8. workerPid[m] \in Children(m)' => workerPid[m] \in Children(m)
  BY <1>2 DEF FramesInv, StackShape, Forked, Children, Live
<1>9. Renewing(m)'
  BY <1>1, <1>4, <1>5, <1>7, <1>8, RenewingKept DEF LostShape
<1> QED BY <1>6, <1>9 DEF LostShape

\* The frame that runs is the only one of its signal.
LEMMA TopAlone ==
  ASSUME FramesInv, NEW m \in Masters, stack[m] # <<>>,
         NEW i \in 1..Len(stack[m]), stack[m][i].sig = Top(m).sig
  PROVE  i = Len(stack[m])
<1>1. Len(stack[m]) \in 1..Len(stack[m]) /\ Top(m) = stack[m][Len(stack[m])]
  BY TopIsLast DEF FramesInv
<1> QED BY <1>1 DEF FramesInv, StackShape

LEMMA TopNotDone ==
  ASSUME FramesInv, NEW m \in Masters, stack[m] # <<>>,
         Top(m).at \notin {"pause", "unlink", "exit"}
  PROVE  ~Done(m, Top(m).sig)
<1>1. SUFFICES ASSUME NEW i \in 1..Len(stack[m]),
                      stack[m][i].sig = Top(m).sig,
                      stack[m][i].at \in {"pause", "unlink", "exit"}
               PROVE  FALSE
  BY DEF Done
<1>2. i = Len(stack[m])
  BY <1>1, TopAlone
<1> QED BY <1>1, <1>2 DEF Top

\* workerPid is assigned: by the main program, which may lose the worker of a
\* restart nested between its fork and its assignment, or by a restart, which
\* has stopped the worker before.
LEMMA LostAssign ==
  ASSUME FramesInv, [Next]_vars, NEW m \in Masters, LostShape(m), Assign(m)
  PROVE  LostShape(m)'
<1> USE DEF signalVars, workerVars, outside
<1>1. /\ stack[m] # <<>> /\ Top(m).at = "assign" /\ At(m, "assign")
      /\ Top(m) \in FrameSet /\ FrameShape(Top(m))
      /\ Top(m).sig \in {"none", "USR1"}
      /\ Len(stack[m]) = 1 <=> Top(m).sig = "none"
  BY TopIsLast, TopShape DEF At, Running, Assign, FramesInv, FrameShape,
    StopSteps, Signals
<1> PICK q, p : /\ q = Top(m).pid
                /\ p = IF workerPid[m] \in Workers THEN workerPid[m] ELSE NoPid
  OBVIOUS
<1>2. /\ workerPid' = [workerPid EXCEPT ![m] = q] /\ workerPid'[m] = q
      /\ Children(m)' = Children(m)
  BY DEF Assign, Children, Live, FramesInv, TypeOK
<1>3. CASE Len(stack[m]) = 1
  <2>1. PICK f \in FrameSet :
          SetTop(m, f) /\ f.at = "pause" /\ f.sig = Top(m).sig
    BY <1>1, <1>3, GotoFrame DEF Assign, Steps
  <2>2. /\ \A w : Assigning(m, w) => Assigning(m, w)' \/ w = q
        /\ \A sig : Done(m, sig) => Done(m, sig)'
        /\ Done(m, "none")'
        /\ \A i \in 1..Len(stack'[m]) :
             \/ i \in 1..Len(stack[m]) /\ stack'[m][i] = stack[m][i]
             \/ stack'[m][i] = f
    BY <1>1, <1>3, <2>1, FramesBelow
  <2>3. ~Done(m, "none")
    BY <1>1, <1>3, TopNotDone
  <2>4. \A w \in Children(m)' :
          w \in Children(m) /\ (Known(m, w) => Known(m, w)' \/ w = p)
    BY <1>2, <2>2 DEF Known, Children, Live
  <2>5. LostOnce(m)'
    BY <2>2, <2>3, <2>4, LostMore DEF LostShape
  <2>6. Renewing(m)'
    <3>1. \A i \in 1..Len(stack'[m]) : stack'[m][i].sig # "USR1"
      <4>1. Len(stack'[m]) = 1 /\ stack'[m][1] = f
        BY <1>1, <1>3, <2>1, TopSet DEF FramesInv
      <4> QED BY <1>1, <1>3, <2>1, <4>1
    <3> QED BY <3>1 DEF Renewing
  <2> QED BY <2>5, <2>6 DEF LostShape
<1>4. CASE Len(stack[m]) # 1
  <2>1. /\ Top(m).sig = "USR1"
        /\ stack' = [stack EXCEPT ![m] = SubSeq(@, 1, Len(@) - 1)]
    BY <1>1, <1>4 DEF Assign
  <2> PICK L : L = Len(stack[m])
    OBVIOUS
  <2>2. /\ L \in Nat /\ L >= 1 /\ L \in 1..L /\ Top(m) = stack[m][L]
        /\ Len(stack'[m]) = L - 1
        /\ \A i \in 1..(L - 1) : stack'[m][i] = stack[m][i]
    BY <1>1, <2>1, FramePopped, TopIsLast DEF FramesInv
  <2>3. \A i \in 1..L : i = L \/ i \in 1..(L - 1)
    BY <2>2
  <2>4. \A i \in 1..(L - 1) : i \in 1..L /\ i # L
    BY <2>2
  <2>5. workerPid[m] \notin Workers
    BY <1>1, <2>1, <2>2 DEF LostShape, Renewing
  <2>6. ASSUME NEW w, Assigning(m, w)
        PROVE  Assigning(m, w)' \/ w = q
    <3>1. PICK i \in 1..L : stack[m][i].at = "assign" /\ stack[m][i].pid = w
      BY <2>6 DEF Assigning
    <3> QED BY <2>2, <2>3, <3>1 DEF Assigning
  <2>7. ASSUME NEW sig, Done(m, sig)
        PROVE  Done(m, sig)'
    <3>1. PICK i \in 1..L : /\ stack[m][i].sig = sig
                            /\ stack[m][i].at \in {"pause", "unlink", "exit"}
      BY <2>7 DEF Done
    <3>2. i \in 1..(L - 1) /\ stack'[m][i] = stack[m][i]
      BY <1>1, <2>2, <2>3, <3>1
    <3> QED BY <2>2, <3>1, <3>2 DEF Done
  <2>8. LostOnce(m)'
    <3>1. \A w \in Children(m)' :
            w \in Children(m) /\ (Known(m, w) => Known(m, w)')
      BY <1>2, <2>5, <2>6 DEF Known, Children, Live
    <3> QED BY <2>7, <3>1, LostKept DEF LostShape
  <2>9. Renewing(m)'
    <3>1. \A i \in 1..Len(stack'[m]) : stack'[m][i].sig # "USR1"
      BY <1>1, <2>1, <2>2, <2>4, TopAlone
    <3> QED BY <3>1 DEF Renewing
  <2> QED BY <2>8, <2>9 DEF LostShape
<1> QED BY <1>3, <1>4

LEMMA LostHandle ==
  ASSUME FramesInv, [Next]_vars, NEW m \in Masters, LostShape(m),
         NEW s \in Signals, HandleSignal(m, s)
  PROVE  LostShape(m)'
<1> PICK f : f = Frame("kill", s)
  OBVIOUS
<1>1. f \in FrameSet /\ f.at = "kill"
  BY DEF Frame, FrameSet, Steps, Pids
<1> PICK L : L = Len(stack[m])
  OBVIOUS
<1>2. /\ L \in Nat /\ Len(stack'[m]) = L + 1
      /\ \A i \in 1..L : stack'[m][i] = stack[m][i]
      /\ stack'[m][L + 1] = f
  BY <1>1, FramePushed DEF HandleSignal, FramesInv
<1>3. workerPid' = workerPid /\ ~Fork(m)
  BY TopIsLast DEF HandleSignal, Fork, FramesInv, outside, signalVars, TypeOK
<1>4. Children(m)' \subseteq Children(m)
  BY <1>3, ChildrenShrink DEF FramesInv
<1>5. \A i \in 1..L : i \in 1..(L + 1)
  BY <1>2
<1>6. ASSUME NEW w, Assigning(m, w)
      PROVE  Assigning(m, w)'
  <2>1. PICK i \in 1..L : stack[m][i].at = "assign" /\ stack[m][i].pid = w
    BY <1>6 DEF Assigning
  <2> QED BY <1>2, <1>5, <2>1 DEF Assigning
<1>7. ASSUME NEW sig, Done(m, sig)
      PROVE  Done(m, sig)'
  <2>1. PICK i \in 1..L : /\ stack[m][i].sig = sig
                          /\ stack[m][i].at \in {"pause", "unlink", "exit"}
    BY <1>7 DEF Done
  <2> QED BY <1>2, <1>5, <2>1 DEF Done
<1>8. LostOnce(m)'
  <2>1. \A w \in Children(m)' :
          w \in Children(m) /\ (Known(m, w) => Known(m, w)')
    BY <1>3, <1>4, <1>6 DEF Known
  <2> QED BY <1>7, <2>1, LostKept DEF LostShape
<1>9. Renewing(m)'
  <2>1. \A i \in 1..(L + 1) : i \in 1..L \/ i = L + 1
    BY <1>2
  <2> QED BY <1>1, <1>2, <1>3, <1>4, <2>1, RenewingKept DEF LostShape
<1> QED BY <1>8, <1>9 DEF LostShape

LEMMA LostStopping ==
  ASSUME FramesInv, [Next]_vars, NEW m \in Masters, LostShape(m),
         \/ StopWorkerKill(m) \/ StopWorkerCall(m) \/ StopWorkerWait(m)
         \/ StopWorkerClear(m)
         \/ UnlinkPidFile(m)
  PROVE  LostShape(m)'
<1> USE DEF signalVars, workerVars, outside
<1>1. /\ stack[m] # <<>> /\ Top(m).at \in {"kill", "call", "wait", "clear", "unlink"}
      /\ ~Fork(m) /\ Top(m).sig \in Signals
      /\ Top(m).at = "unlink" => Top(m).sig # "USR1"
      /\ workerPid[m] \in Workers \cup {NoPid, "failed"}
  BY TopShape DEF At, Running, StopWorkerKill, StopWorkerCall, StopWorkerWait,
    StopWorkerClear, UnlinkPidFile, Fork, FrameShape, MainSteps, RenewSteps,
    FramesInv, TypeOK
<1>2. Children(m)' \subseteq Children(m)
  BY <1>1, ChildrenShrink DEF FramesInv
<1>3. CASE StopWorkerKill(m)
  <2>1. CASE workerPid[m] \in Workers
    BY <1>1, <1>3, <2>1, LostGoto DEF StopWorkerKill, Steps
  <2>2. CASE workerPid[m] \notin Workers
    BY <1>1, <1>3, <2>2, LostGoto DEF StopWorkerKill, Steps, AfterStop
  <2> QED BY <2>1, <2>2
<1>4. CASE StopWorkerWait(m)
  <2>1. Top(m).sig = "USR1" => workerPid[m] \notin Children(m)'
    <3> SUFFICES ASSUME Top(m).sig = "USR1", workerPid[m] \in Children(m)'
                 PROVE  FALSE
      OBVIOUS
    <3>1. workerPid[m] \in Workers /\ Top(m).at = "wait"
      BY <1>4 DEF Children, Live, StopWorkerWait, At
    <3>2. Top(m).pid = workerPid[m]
      BY <1>1, <3>1, TopIsLast DEF LostShape, Renewing, FramesInv
    <3>3. CASE Awaited(m) = {} /\ UNCHANGED <<worker, parent>>
      BY <3>1, <3>2, <3>3 DEF Awaited, Children, Live
    <3>4. CASE \E w \in Awaited(m) : worker' = [worker EXCEPT ![w] = "reaped"]
      BY <3>1, <3>2, <3>4 DEF Awaited, Children, Live, FramesInv, TypeOK
    <3> QED BY <1>4, <3>3, <3>4 DEF StopWorkerWait
  <2> QED BY <1>1, <1>4, <2>1, LostGoto DEF StopWorkerWait, Steps
<1>5. CASE UnlinkPidFile(m)
  <2>1. At(m, "unlink") /\ Goto(m, "exit") /\ UNCHANGED workerPid
    BY <1>5 DEF UnlinkPidFile
  <2>2. Top(m).sig # "USR1"
    BY <1>1, <2>1 DEF At
  <2> QED BY <1>1, <2>1, <2>2, LostGoto DEF Steps
<1>6. CASE StopWorkerClear(m)
  <2>1. PICK f \in FrameSet :
          /\ SetTop(m, f) /\ f.at = AfterStop(m) /\ f.sig = Top(m).sig
          /\ Top(m).at = "clear"
    BY <1>6, GotoFrame DEF StopWorkerClear, Steps, AfterStop
  <2>2. /\ \A w : Assigning(m, w) => Assigning(m, w)'
        /\ \A sig : Done(m, sig) => Done(m, sig)'
        /\ f.at \in {"pause", "unlink", "exit"} => Done(m, f.sig)'
        /\ \A i \in 1..Len(stack'[m]) :
             \/ i \in 1..Len(stack[m]) /\ stack'[m][i] = stack[m][i]
             \/ stack'[m][i] = f
    BY <1>1, <2>1, FramesBelow
  <2>3. workerPid'[m] = NoPid /\ NoPid \notin Workers
    BY <1>6, SupervisorAssumption DEF StopWorkerClear, FramesInv, TypeOK
  <2>4. LostOnce(m)'
    <3>1. CASE Top(m).sig = "USR1"
      <4>1. workerPid[m] \notin Children(m)
        BY <1>1, <2>1, <3>1, TopIsLast DEF LostShape, Renewing, FramesInv
      <4>2. \A w \in Children(m)' :
              w \in Children(m) /\ (Known(m, w) => Known(m, w)')
        BY <1>2, <2>2, <4>1 DEF Known
      <4> QED BY <2>2, <4>2, LostKept DEF LostShape
    <3>2. CASE Top(m).sig # "USR1"
      <4> PICK p, own : /\ own = Top(m).sig
                        /\ p = IF workerPid[m] \in Workers
                               THEN workerPid[m] ELSE NoPid
        OBVIOUS
      <4>1. /\ own \in {"none", "INT", "TERM"} /\ Done(m, own)'
            /\ ~Done(m, own) /\ p \in Workers \cup {NoPid}
        BY <1>1, <2>1, <2>2, <3>2, TopNotDone DEF Signals, AfterStop
      <4>2. \A w \in Children(m)' :
              w \in Children(m) /\ (Known(m, w) => Known(m, w)' \/ w = p)
        BY <1>2, <2>2 DEF Known, Children, Live
      <4> QED BY <2>2, <4>1, <4>2, LostMore DEF LostShape
    <3> QED BY <3>1, <3>2
  <2>5. Renewing(m)'
    <3>1. f.at \notin {"clear", "wait"}
      BY <2>1 DEF AfterStop
    <3> QED BY <1>2, <2>2, <2>3, <3>1, RenewingKept DEF LostShape
  <2> QED BY <2>4, <2>5 DEF LostShape
<1>7. CASE StopWorkerCall(m)
  <2>1. PICK f \in FrameSet :
          /\ SetTop(m, f) /\ f.at = "wait"
          /\ f.sig = Top(m).sig /\ f.pid = workerPid[m]
    BY <1>7, CallFrame
  <2>2. At(m, "call") /\ UNCHANGED workerPid
    BY <1>7 DEF StopWorkerCall, programVars
  <2> QED BY <1>1, <2>1, <2>2, LostSet
<1> QED BY <1>3, <1>4, <1>5, <1>6, <1>7

LEMMA LostStep == FramesInv /\ LostInv /\ [Next]_vars => LostInv'
<1> SUFFICES ASSUME FramesInv, LostInv, [Next]_vars, NEW m \in Masters
             PROVE  LostShape(m)'
  BY DEF LostInv, LostShape
<1>1. LostShape(m)
  BY DEF LostInv, LostShape
<1>2. CASE Launch(m) \/ MasterNext(m)
  <2>1. CASE Exit(m) \/ \E s \in Signals : DefaultAction(m, s)
    <3>1. ~Fork(m) /\ UNCHANGED <<stack, workerPid>>
      <4>1. UNCHANGED <<stack, workerPid>> /\ status' # status
        BY <2>1 DEF Exit, DefaultAction, Running, At, FramesInv, TypeOK
      <4> QED BY <4>1 DEF Fork, outside
    <3> QED BY <1>1, <3>1, LostSame
  <2>2. CASE \E s \in Signals : HandleSignal(m, s)
    BY <1>1, <2>2, LostHandle
  <2> QED BY <1>1, <1>2, <2>1, <2>2, LostProgram, LostWorker, LostAssign,
             LostStopping DEF MasterNext
<1>3. CASE ~(Launch(m) \/ MasterNext(m))
  <2>1. ~Fork(m)
    BY <1>3 DEF MasterNext
  <2>2. UNCHANGED <<stack[m], workerPid[m]>>
    BY <1>3, OthersKeep
  <2> QED BY <1>1, <2>1, <2>2, LostSame
<1> QED BY <1>2, <1>3

LEMMA LostInit == Init => LostInv
<1> SUFFICES ASSUME Init, NEW m \in Masters PROVE LostOnce(m) /\ Renewing(m)
  BY DEF LostInv
<1>1. stack[m] = <<>> /\ Len(stack[m]) = 0 /\ Children(m) = {}
  BY DEF Init, Children, Live
<1>2. [s \in Signals \cup {"none"} |-> NoPid]
        \in [Signals \cup {"none"} -> Workers \cup {NoPid}]
  OBVIOUS
<1>3. LostOnce(m)
  BY <1>1, <1>2 DEF LostOnce
<1>4. Renewing(m)
  BY <1>1 DEF Renewing
<1> QED BY <1>3, <1>4

LEMMA LostHolds == Spec => [](FramesInv /\ CalmInv /\ LostInv)
BY FramesInit, FramesStep, CalmInit, CalmStep, LostInit, LostStep, PTL DEF Spec

\* A master has one live worker while its handlers interrupt pause() alone;
\* else one more at most for its main program and for each handler that stops
\* it: every such frame assigns to workerPid once, over the worker of a restart.
THEOREM WorkersAreFew == Spec => []FewWorkers
<1>1. FramesInv /\ CalmInv /\ LostInv => FewWorkers
  <2> SUFFICES ASSUME FramesInv, CalmInv, LostInv, NEW m \in Masters
               PROVE  Cardinality(Children(m)) <=
                        IF m \in calm THEN 1
                        ELSE 1 + Cardinality({i \in 1..Len(stack[m]) :
                                                stack[m][i].sig # "USR1"})
    BY DEF FewWorkers
  <2>1. CASE m \in calm
    <3>1. PICK w : Children(m) \subseteq {w}
      BY <2>1 DEF CalmInv, CalmShape, Expected
    <3>2. IsFiniteSet({w}) /\ Cardinality({w}) = 1
      BY FS_Singleton
    <3>3. Cardinality(Children(m)) <= 1
      BY <3>1, <3>2, FS_Subset
    <3> QED BY <2>1, <3>3
  <2>2. CASE m \notin calm
    <3> DEFINE Others == {i \in 1..Len(stack[m]) : stack[m][i].sig # "USR1"}
    <3>1. PICK lost \in [Signals \cup {"none"} -> Workers \cup {NoPid}] :
            \A w \in Children(m) :
              Known(m, w) \/ \E sig \in {"none", "INT", "TERM"} :
                               Done(m, sig) /\ w = lost[sig]
      BY DEF LostInv, LostOnce
    <3>2. IsFiniteSet(Others) /\ Cardinality(Others) \in Nat
      <4>1. Len(stack[m]) \in Nat
        BY DEF FramesInv, TypeOK
      <4>2. IsFiniteSet(1..Len(stack[m]))
        BY <4>1, FS_Interval
      <4> QED BY <4>2, FS_Subset, FS_CardinalityType
    <3> DEFINE own  == [i \in Others |-> IF stack[m][i].at = "assign"
                                         THEN stack[m][i].pid
                                         ELSE lost[stack[m][i].sig]]
               Owned == {own[i] : i \in Others}
    <3>3. IsFiniteSet(Owned) /\ Cardinality(Owned) <= Cardinality(Others)
      <4>1. own \in Surjection(Others, Owned)
        BY DEF Surjection
      <4> QED BY <3>2, <4>1, FS_Surjection
    <3>4. PICK k : Children(m) \subseteq Owned \cup {k}
      <4>1. \A w \in Children(m) :
              \/ w = workerPid[m]
              \/ w \in Owned
              \/ \E i \in 1..Len(stack[m]) :
                   /\ stack[m][i].sig = "USR1" /\ stack[m][i].at = "assign"
                   /\ stack[m][i].pid = w
        <5> SUFFICES ASSUME NEW w \in Children(m), w # workerPid[m]
                     PROVE  \/ w \in Owned
                            \/ \E i \in 1..Len(stack[m]) :
                                 /\ stack[m][i].sig = "USR1"
                                 /\ stack[m][i].at = "assign"
                                 /\ stack[m][i].pid = w
          OBVIOUS
        <5>1. CASE Known(m, w)
          <6>1. PICK i \in 1..Len(stack[m]) :
                  stack[m][i].at = "assign" /\ stack[m][i].pid = w
            BY <5>1 DEF Known, Assigning
          <6>2. stack[m][i].sig # "USR1" => i \in Others /\ own[i] = w
            BY <6>1
          <6> QED BY <6>1, <6>2
        <5>2. ASSUME NEW sig \in {"none", "INT", "TERM"}, Done(m, sig),
                     w = lost[sig]
              PROVE  w \in Owned
          <6>1. PICK i \in 1..Len(stack[m]) :
                  /\ stack[m][i].sig = sig
                  /\ stack[m][i].at \in {"pause", "unlink", "exit"}
            BY <5>2 DEF Done
          <6>2. i \in Others /\ own[i] = w
            BY <5>2, <6>1
          <6> QED BY <6>2
        <5> QED BY <3>1, <5>1, <5>2
      <4>2. CASE \E i \in 1..Len(stack[m]) :
                   stack[m][i].sig = "USR1" /\ stack[m][i].at = "assign"
        <5>1. PICK i \in 1..Len(stack[m]) :
                stack[m][i].sig = "USR1" /\ stack[m][i].at = "assign"
          BY <4>2
        <5>2. workerPid[m] \notin Children(m)
          BY <5>1 DEF LostInv, Renewing, Children, Live
        <5>3. \A j \in 1..Len(stack[m]) : stack[m][j].sig = "USR1" => j = i
          BY <5>1 DEF FramesInv, StackShape
        <5>4. Children(m) \subseteq Owned \cup {stack[m][i].pid}
          BY <4>1, <5>2, <5>3
        <5> QED BY <5>4
      <4>3. CASE ~\E i \in 1..Len(stack[m]) :
                    stack[m][i].sig = "USR1" /\ stack[m][i].at = "assign"
        <5>1. Children(m) \subseteq Owned \cup {workerPid[m]}
          BY <4>1, <4>3
        <5> QED BY <5>1
      <4> QED BY <4>2, <4>3
    <3> HIDE DEF Owned
    <3>5. /\ IsFiniteSet(Owned \cup {k})
          /\ Cardinality(Owned \cup {k}) <= Cardinality(Owned) + 1
          /\ Cardinality(Owned) \in Nat
      <4>1. Cardinality(Owned) \in Nat
        BY <3>3, FS_CardinalityType
      <4>2. /\ IsFiniteSet(Owned \cup {k})
            /\ Cardinality(Owned \cup {k}) =
                 IF k \in Owned THEN Cardinality(Owned)
                 ELSE Cardinality(Owned) + 1
        BY <3>3, FS_AddElement
      <4> QED BY <4>1, <4>2
    <3>6. /\ Cardinality(Children(m)) <= Cardinality(Owned \cup {k})
          /\ Cardinality(Children(m)) \in Nat
          /\ Cardinality(Owned \cup {k}) \in Nat
      BY <3>4, <3>5, FS_Subset, FS_CardinalityType
    <3> HIDE DEF Others
    <3>7. Cardinality(Children(m)) <= 1 + Cardinality(Others)
      BY <3>2, <3>3, <3>5, <3>6
    <3> QED BY <2>2, <3>7 DEF Others
  <2> QED BY <2>1, <2>2
<1> QED BY <1>1, LostHolds, PTL

(***************************************************************************)
(* The pid file.                                                           *)
(***************************************************************************)
StartSteps == {"check", "truncate", "write"}

\* The step neither takes master n back to its start nor makes it write the
\* file.
Keeps(n) ==
  /\ \A at \in StartSteps : At(n, at)' => At(n, at) /\ Top(n)' = Top(n)
  /\ Written(n)' => Written(n)

\* Lapses and nested handlers are not undone, and a process begins once.
LEMMA Lasting ==
  ASSUME FramesInv, [Next]_vars
  PROVE  /\ lapses \subseteq lapses' /\ calm' \subseteq calm
         /\ \A n \in Masters : status'[n] = "new" => status[n] = "new"
<1> USE DEF masterVars, signalVars, workerVars, programVars, outside
<1>1. lapses \subseteq lapses'
  BY DEF Next, Launch, Begin, MasterNext, StartCheck, WritePidFile,
         WritePidFileFails, InstallHandler, Fork, ForkFails, Assign,
         HandleSignal, DefaultAction, StopWorkerKill, StopWorkerCall,
         StopWorkerWait, StopWorkerClear, UnlinkPidFile, Exit, WorkerNext,
         WorkerServes, WorkerQuits, WorkerDies, CommandNext, CommandRead,
         CommandSignal, Interrupt, vars
<1>2. calm' \subseteq calm
  BY DEF Next, Launch, Begin, MasterNext, StartCheck, WritePidFile,
         WritePidFileFails, InstallHandler, Fork, ForkFails, Assign,
         HandleSignal, DefaultAction, StopWorkerKill, StopWorkerCall,
         StopWorkerWait, StopWorkerClear, UnlinkPidFile, Exit, WorkerNext,
         WorkerServes, WorkerQuits, WorkerDies, CommandNext, CommandRead,
         CommandSignal, Interrupt, vars
<1>3. \/ status' = status
      \/ \E m \in Masters, s \in {"running", "refused", "exited", "killed"} :
           status' = [status EXCEPT ![m] = s]
  BY DEF Next, Launch, Begin, MasterNext, StartCheck, WritePidFile,
         WritePidFileFails, InstallHandler, Fork, ForkFails, Assign,
         HandleSignal, DefaultAction, StopWorkerKill, StopWorkerCall,
         StopWorkerWait, StopWorkerClear, UnlinkPidFile, Exit, WorkerNext,
         WorkerServes, WorkerQuits, WorkerDies, CommandNext, CommandRead,
         CommandSignal, Interrupt, vars
<1> QED BY <1>1, <1>2, <1>3 DEF FramesInv, TypeOK

\* A step of this kind that leaves the file keeps the invariant.
LEMMA PidKept ==
  ASSUME FramesInv, PidFileInv, [Next]_vars, UNCHANGED pidFile,
         \A n \in Masters : Keeps(n)
  PROVE  PidFileInv'
<1>1. AloneInv'
  BY Lasting DEF PidFileInv, AloneInv, Keeps
<1>2. FileInv'
  <2> SUFFICES ASSUME Strict'
               PROVE  FileFacts'
    BY DEF FileInv
  <2>1. Strict
    BY Lasting DEF Strict, FramesInv, TypeOK
  <2>2. OneStarts /\ FileNames /\ LookSees /\ StartsAlone
    BY <2>1 DEF PidFileInv, FileInv, FileFacts
  <2>3. \A n \in Masters : Starting(n)' => Starting(n)
    BY DEF Keeps, Starting, StartSteps
  <2>4. \A m, n \in Masters :
          At(m, "check")' /\ Written(n)' => Top(m)'.pid = n
    BY <2>2 DEF Keeps, StartSteps, LookSees
  <2>5. \A m, n \in Masters :
          (At(m, "truncate")' \/ At(m, "write")') => ~Written(n)'
    BY <2>2 DEF Keeps, StartSteps, StartsAlone
  <2> QED BY <2>2, <2>3, <2>4, <2>5
         DEF FileFacts, OneStarts, FileNames, LookSees, StartsAlone, Keeps
<1> QED BY <1>1, <1>2 DEF PidFileInv

\* Another master's step.
LEMMA KeepsSame ==
  ASSUME NEW n, UNCHANGED <<stack[n], status[n]>>
  PROVE  Keeps(n)
BY DEF Keeps, At, Running, Top, Written, Settled

\* The topmost frame goes on, past the start of the main program.
LEMMA KeepsSet ==
  ASSUME FramesInv, NEW m \in Masters, stack[m] # <<>>, UNCHANGED status,
         NEW f \in FrameSet, SetTop(m, f), f.at \notin StartSteps,
         Top(m).at \notin StartSteps \cup {"exit"}
  PROVE  /\ Keeps(m)
         /\ f.at = "exit" => ~Written(m)'
<1> PICK L : L = Len(stack[m])
  OBVIOUS
<1>1. /\ L \in Nat /\ L >= 1 /\ L \in 1..L /\ 1 \in 1..L
      /\ Top(m) = stack[m][L] /\ Len(stack'[m]) = L
      /\ \A i \in 1..L :
           stack'[m][i] = IF i = L THEN f ELSE stack[m][i]
  BY TopSet, TopIsLast DEF FramesInv
<1>2. Top(m)' = f
  BY <1>1 DEF Top
<1>3. \A at \in StartSteps : ~At(m, at)'
  BY <1>2 DEF At
<1>4. ASSUME Written(m)'
      PROVE  Written(m)
  <2>1. /\ status[m] = "running" /\ \A i \in 1..L : stack'[m][i].at # "exit"
        /\ stack'[m][1].at \in {"handlers", "fork", "assign", "pause"}
    BY <1>1, <1>4 DEF Written, Settled, Running
  <2>2. \A i \in 1..L : stack[m][i].at # "exit"
    BY <1>1, <2>1
  <2>3. stack[m][1].at \in {"handlers", "fork", "assign", "pause"}
    <3>1. CASE L = 1
      <4>1. Top(m).at \in MainSteps
        BY <3>1, TopShape DEF FrameShape
      <4> QED BY <1>1, <3>1, <4>1 DEF MainSteps, StartSteps
    <3>2. CASE L # 1
      BY <1>1, <2>1, <3>2
    <3> QED BY <3>1, <3>2
  <2> QED BY <2>1, <2>2, <2>3 DEF Written, Settled, Running
<1>5. f.at = "exit" => ~Written(m)'
  BY <1>1 DEF Written, Settled
<1> QED BY <1>3, <1>4, <1>5 DEF Keeps

\* The steps of a master past its start that leave the file.
LEMMA KeepsLater ==
  ASSUME FramesInv, NEW m \in Masters,
         \/ InstallHandler(m) \/ Fork(m) \/ ForkFails(m) \/ Assign(m)
         \/ StopWorkerKill(m) \/ StopWorkerCall(m) \/ StopWorkerWait(m)
         \/ StopWorkerClear(m)
         \/ Exit(m)
         \/ \E s \in Signals : HandleSignal(m, s) \/ DefaultAction(m, s)
  PROVE  Keeps(m) /\ UNCHANGED pidFile
<1> USE DEF signalVars, outside, programVars
<1>1. UNCHANGED pidFile
  BY DEF InstallHandler, Fork, ForkFails, Assign, StopWorkerKill,
    StopWorkerCall, StopWorkerWait, StopWorkerClear, Exit, HandleSignal,
    DefaultAction
<1>2. Running(m) => stack[m] # <<>>
  BY DEF Running, FramesInv, StackShape
<1>3. ASSUME NEW from, At(m, from), NEW to \in Steps, Goto(m, to),
             from \notin StartSteps \cup {"exit"}, to \notin StartSteps,
             UNCHANGED status
      PROVE  Keeps(m)
  BY <1>3, GotoFrame, KeepsSet
<1>4. AfterStop(m) \in {"fork", "unlink"}
  BY DEF AfterStop
<1>5. CASE InstallHandler(m)
  <2>1. CASE UNCHANGED stack
    BY <1>5, <2>1, KeepsSame DEF InstallHandler
  <2>2. CASE Goto(m, "fork")
    BY <1>3, <1>5, <2>2 DEF InstallHandler, Steps, StartSteps
  <2> QED BY <1>5, <2>1, <2>2 DEF InstallHandler
<1>6. CASE Fork(m) \/ ForkFails(m)
  <2>1. PICK p \in Workers \cup {"failed"} : SetForked(m, p)
    BY <1>6 DEF Fork, ForkFails
  <2>2. /\ At(m, "fork") /\ UNCHANGED status /\ stack[m] # <<>>
        /\ Top(m).at = "fork" /\ Top(m) \in FrameSet
    BY <1>6, TopIsLast DEF Fork, ForkFails, At, FramesInv
  <2>3. PICK f : f = [Top(m) EXCEPT !.at = "assign", !.pid = p]
    OBVIOUS
  <2>4. f \in FrameSet /\ f.at = "assign" /\ SetTop(m, f)
    BY <2>1, <2>2, <2>3 DEF FrameSet, Steps, Pids, SetForked
  <2>5. f.at \notin StartSteps /\ Top(m).at \notin StartSteps \cup {"exit"}
    BY <2>2, <2>4 DEF StartSteps
  <2> QED BY <1>1, <2>2, <2>4, <2>5, KeepsSet
<1>7. CASE Assign(m)
  <2>1. CASE Len(stack[m]) = 1
    BY <1>3, <1>7, <2>1 DEF Assign, Steps, StartSteps
  <2>2. CASE Len(stack[m]) # 1
    <3>1. /\ stack' = [stack EXCEPT ![m] = SubSeq(@, 1, Len(@) - 1)]
          /\ stack[m] # <<>> /\ UNCHANGED status /\ status[m] = "running"
          /\ Top(m).at = "assign"
      BY <1>2, <1>7, <2>2 DEF Assign, At, Running
    <3> PICK L : L = Len(stack[m])
      OBVIOUS
    <3>2. /\ L \in Nat /\ L >= 1 /\ Top(m) = stack[m][L] /\ Len(stack'[m]) = L - 1
          /\ \A i \in 1..(L - 1) : stack'[m][i] = stack[m][i]
      BY <3>1, FramePopped, TopIsLast DEF FramesInv
    <3>3. \A i \in 1..L : i = L \/ i \in 1..(L - 1)
      BY <3>2
    <3>4. 1 \in 1..(L - 1) /\ L - 1 \in 1..(L - 1) /\ L - 1 \in 1..L
      <4>1. \A n \in Nat : n >= 1 /\ n # 1 =>
              1 \in 1..(n - 1) /\ n - 1 \in 1..(n - 1) /\ n - 1 \in 1..n
        OBVIOUS
      <4> QED BY <2>2, <3>2, <4>1
    <3>5. \A i \in 1..L : stack[m][i].at \notin StartSteps
      <4> SUFFICES ASSUME NEW i \in 1..L PROVE stack[m][i].at \notin StartSteps
        OBVIOUS
      <4>1. /\ FrameShape(stack[m][i]) /\ (stack[m][i].sig = "none" <=> i = 1)
            /\ stack[m][1].at \notin StartSteps
        BY <2>2, <3>1 DEF FramesInv, StackShape, StartSteps
      <4>2. stack[m][i].sig \in Signals \cup {"none"}
        BY <3>1, TopIsLast DEF FramesInv, FrameSet
      <4> QED BY <4>1, <4>2
             DEF FrameShape, StartSteps, StopSteps, RenewSteps, Signals
    <3>6. \A at \in StartSteps : ~At(m, at)'
      BY <3>2, <3>4, <3>5 DEF At, Top
    <3>7. Written(m)' => Written(m)
      <4> SUFFICES ASSUME Written(m)' PROVE Written(m)
        OBVIOUS
      <4>1. /\ \A i \in 1..(L - 1) : stack'[m][i].at # "exit"
            /\ stack'[m][1].at \in {"handlers", "fork", "assign", "pause"}
        BY <3>2 DEF Written, Settled
      <4>2. \A i \in 1..L : stack[m][i].at # "exit"
        BY <3>1, <3>2, <3>3, <4>1
      <4> QED BY <3>1, <3>2, <3>4, <4>1, <4>2 DEF Written, Settled, Running
    <3> QED BY <1>1, <3>6, <3>7 DEF Keeps
  <2> QED BY <2>1, <2>2
<1>8. CASE StopWorkerKill(m) \/ StopWorkerWait(m) \/ StopWorkerClear(m)
  BY <1>3, <1>4, <1>8
     DEF StopWorkerKill, StopWorkerWait, StopWorkerClear, Steps, StartSteps
<1>9. CASE Exit(m) \/ \E s \in Signals : DefaultAction(m, s)
  <2>1. status'[m] # "running"
    BY <1>9 DEF Exit, DefaultAction, FramesInv, TypeOK
  <2>2. ~Written(m)' /\ \A at \in StartSteps : ~At(m, at)'
    BY <2>1 DEF At, Running, Written, Settled
  <2> QED BY <1>1, <2>2 DEF Keeps
<1>10. ASSUME NEW s \in Signals, HandleSignal(m, s)
       PROVE  Keeps(m)
  <2> PICK f : f = Frame("kill", s)
    OBVIOUS
  <2>1. f \in FrameSet /\ f.at = "kill"
    BY DEF Frame, FrameSet, Steps, Pids
  <2> PICK L : L = Len(stack[m])
    OBVIOUS
  <2>2. /\ L \in Nat /\ Len(stack'[m]) = L + 1
        /\ \A i \in 1..L : stack'[m][i] = stack[m][i]
        /\ stack'[m][L + 1] = f /\ stack[m] # <<>> /\ UNCHANGED status
    BY <1>2, <1>10, <2>1, FramePushed DEF HandleSignal, FramesInv
  <2>3. 1 \in 1..L /\ \A i \in 1..L : i \in 1..(L + 1)
    BY <2>2, TopIsLast DEF FramesInv
  <2>4. \A at \in StartSteps : ~At(m, at)'
    BY <2>1, <2>2 DEF At, Top, StartSteps
  <2>5. Written(m)' => Written(m)
    <3> SUFFICES ASSUME Written(m)' PROVE Written(m)
      OBVIOUS
    <3>1. /\ \A i \in 1..(L + 1) : stack'[m][i].at # "exit"
          /\ stack'[m][1].at \in {"handlers", "fork", "assign", "pause"}
      BY <2>2 DEF Written, Settled
    <3>2. \A i \in 1..L : stack[m][i].at # "exit"
      BY <2>2, <2>3, <3>1
    <3>3. Running(m)
      BY <1>10 DEF HandleSignal
    <3> QED BY <2>2, <2>3, <3>1, <3>2, <3>3 DEF Written, Settled
  <2> QED BY <2>4, <2>5 DEF Keeps
<1>11. CASE StopWorkerCall(m)
  <2>1. PICK f \in FrameSet : SetTop(m, f) /\ f.at = "wait"
    BY <1>11, CallFrame
  <2>2. /\ UNCHANGED status /\ stack[m] # <<>> /\ f.at \notin StartSteps
        /\ Top(m).at \notin StartSteps \cup {"exit"}
    BY <1>11, <2>1, CallFrame DEF StartSteps
  <2> QED BY <1>1, <2>1, <2>2, KeepsSet
<1> QED BY <1>1, <1>5, <1>6, <1>7, <1>8, <1>9, <1>10, <1>11

\* What a master that is starting knows of the others, and a master about to
\* remove the file of its own.
LEMMA StartShape ==
  ASSUME FramesInv, NEW m \in Masters, NEW at \in StartSteps, At(m, at)
  PROVE  /\ Len(stack[m]) = 1 /\ stack[m][1] = Top(m) /\ Top(m).at = at
         /\ stack[m] # <<>> /\ Starting(m) /\ ~Written(m)
<1>1. stack[m] # <<>> /\ Top(m).at = at
  BY DEF At
<1>2. Len(stack[m]) = 1
  BY <1>1, TopShape DEF StartSteps, FrameShape, StopSteps, RenewSteps, Signals
<1>3. stack[m][1] = Top(m)
  BY <1>2 DEF Top
<1> QED BY <1>1, <1>2, <1>3 DEF StartSteps, Starting, Written

LEMMA UnlinkShape ==
  ASSUME FramesInv, NEW m \in Masters, CalmShape(m), At(m, "unlink")
  PROVE  Written(m)
<1>1. /\ stack[m] # <<>> /\ Top(m).at = "unlink" /\ Running(m)
      /\ Len(stack[m]) \in Nat
  BY TopIsLast DEF At, FramesInv
<1>2. Len(stack[m]) # 1 /\ Len(stack[m]) >= 1
  BY <1>1, TopShape, TopIsLast DEF FrameShape, MainSteps, FramesInv
<1>3. Len(stack[m]) = 2
  <2>1. \A n \in Nat : n # 1 /\ n >= 1 /\ n <= 2 => n = 2
    OBVIOUS
  <2> QED BY <1>1, <1>2, <2>1 DEF CalmShape
<1>4. \A i \in 1..2 : i = 1 \/ i = 2
  OBVIOUS
<1> QED BY <1>1, <1>3, <1>4 DEF CalmShape, Top, Written, Settled

\* Strictness is not regained.
LEMMA StrictBefore ==
  ASSUME FramesInv, [Next]_vars, Strict'
  PROVE  Strict
BY Lasting DEF Strict, FramesInv, TypeOK

\* "start" looks at a file that names the master that has written it.
LEMMA PidLaunch ==
  ASSUME FramesInv, PidFileInv, [Next]_vars, NEW m \in Masters, Launch(m)
  PROVE  PidFileInv'
<1>1. PICK f \in FrameSet, blind \in BOOLEAN :
        /\ Begin(m, f, blind) /\ f.sig = "none"
        /\ \/ f.at = "check" /\ f.pid \in ReadPid
           \/ f.at = "truncate" /\ blind
  BY LaunchFrame
<1>2. /\ stack' = [stack EXCEPT ![m] = <<f>>]
      /\ status' = [status EXCEPT ![m] = "running"] /\ pidFile' = pidFile
      /\ status[m] = "new"
      /\ lapses' = IF blind \/ \E n \in Masters : Starting(n)
                   THEN lapses \cup {"unseen"} ELSE lapses
  BY <1>1 DEF Begin
<1>3. /\ stack'[m] = <<f>> /\ status'[m] = "running"
      /\ \A n \in Masters \ {m} : stack'[n] = stack[n] /\ status'[n] = status[n]
  BY <1>2 DEF FramesInv, TypeOK
<1>4. Len(stack'[m]) = 1 /\ stack'[m][1] = f /\ Top(m)' = f /\ stack'[m] # <<>>
  BY <1>3 DEF Top
<1>5. ~Written(m)' /\ ~Written(m)
  BY <1>1, <1>2, <1>4 DEF Written, Settled, Running
<1>6. \A n \in Masters \ {m} : Keeps(n)
  BY <1>3, KeepsSame
<1>7. AloneInv'
  BY <1>2, <1>5, <1>6, Lasting DEF PidFileInv, AloneInv, Keeps
<1>8. ASSUME Strict'
      PROVE  FileFacts'
  <2>1. Strict /\ FileFacts
    BY <1>8, StrictBefore DEF PidFileInv, FileInv
  <2>2. ~blind /\ \A n \in Masters : ~Starting(n)
    BY <1>2, <1>8 DEF Strict
  <2>3. f.at = "check" /\ f.pid \in ReadPid
    BY <1>1, <2>2
  <2>4. \A n \in Masters \ {m} : ~Starting(n)'
    BY <1>6, <2>2 DEF Keeps, Starting, StartSteps
  <2>5. ~At(m, "truncate")' /\ ~At(m, "write")'
    BY <1>4, <2>3 DEF At
  <2>6. \A n \in Masters : Written(n)' => n # m /\ Written(n) /\ pidFile = n
    BY <1>5, <1>6, <2>1 DEF Keeps, FileFacts, FileNames
  <2>7. \A n \in Masters : Written(n)' => f.pid = n
    BY <2>3, <2>6, SupervisorAssumption DEF ReadPid
  <2>8. OneStarts' /\ StartsAlone'
    BY <2>4, <2>5 DEF OneStarts, StartsAlone, Starting
  <2>9. FileNames'
    BY <1>2, <2>6 DEF FileNames
  <2>10. LookSees'
    <3> SUFFICES ASSUME NEW o \in Masters, NEW n \in Masters,
                        At(o, "check")', Written(n)'
                 PROVE  Top(o)'.pid = n
      BY DEF LookSees
    <3>1. o = m
      BY <2>4 DEF Starting
    <3> QED BY <1>4, <2>7, <3>1
  <2> QED BY <2>8, <2>9, <2>10 DEF FileFacts
<1>9. FileInv'
  BY <1>8 DEF FileInv
<1> QED BY <1>7, <1>9 DEF PidFileInv

\* It gives up if that master runs; else it is alone.
LEMMA PidCheck ==
  ASSUME FramesInv, PidFileInv, [Next]_vars, NEW m \in Masters, StartCheck(m)
  PROVE  PidFileInv'
<1> USE DEF StartSteps
<1>1. /\ Top(m).at = "check" /\ Starting(m) /\ ~Written(m)
      /\ Len(stack[m]) = 1 /\ stack[m] # <<>> /\ At(m, "check")
      /\ UNCHANGED pidFile
  BY StartShape DEF StartCheck
<1>2. CASE UNCHANGED stack /\ status' = [status EXCEPT ![m] = "refused"]
  <2>1. status'[m] # "running"
    BY <1>2 DEF FramesInv, TypeOK
  <2>2. Keeps(m)
    BY <2>1 DEF Keeps, At, Running, Written, Settled
  <2>3. \A n \in Masters \ {m} : Keeps(n)
    BY <1>2, KeepsSame DEF FramesInv, TypeOK
  <2> QED BY <1>1, <2>2, <2>3, PidKept
<1>3. CASE Goto(m, "truncate") /\ UNCHANGED status /\ ~IsProcessRunning(Top(m).pid)
  <2>1. PICK f \in FrameSet : SetTop(m, f) /\ f.at = "truncate"
    BY <1>1, <1>3, GotoFrame DEF Steps
  <2>2. /\ Len(stack'[m]) = 1 /\ stack'[m][1] = f
        /\ \A n \in Masters \ {m} : stack'[n] = stack[n]
    BY <1>1, <2>1, TopSet DEF FramesInv
  <2>3. ~Written(m)' /\ Top(m)' = f /\ ~At(m, "check")'
    BY <2>1, <2>2 DEF Written, Top, At
  <2>4. \A n \in Masters \ {m} : Keeps(n)
    BY <1>3, <2>2, KeepsSame
  <2>5. AloneInv'
    BY <1>1, <2>3, <2>4, Lasting DEF PidFileInv, AloneInv, Keeps
  <2>6. ASSUME Strict'
        PROVE  FileFacts'
    <3>1. FileFacts
      BY <2>6, StrictBefore DEF PidFileInv, FileInv
    <3>2. \A n \in Masters \ {m} : ~Starting(n)
      BY <1>1, <3>1 DEF FileFacts, OneStarts
    <3>3. \A n \in Masters \ {m} : ~Starting(n)'
      BY <2>4, <3>2 DEF Keeps, Starting
    <3>4. \A n \in Masters : ~Written(n)
      <4> SUFFICES ASSUME NEW n \in Masters, Written(n) PROVE FALSE
        OBVIOUS
      <4>1. Top(m).pid = n
        BY <1>1, <3>1 DEF FileFacts, LookSees
      <4> QED BY <1>3, <4>1 DEF IsProcessRunning, Written, Settled
    <3>5. \A n \in Masters : ~Written(n)'
      BY <2>3, <2>4, <3>4 DEF Keeps
    <3> QED BY <3>3, <3>5
           DEF FileFacts, OneStarts, FileNames, LookSees, StartsAlone
  <2>7. FileInv'
    BY <2>6 DEF FileInv
  <2> QED BY <2>5, <2>7 DEF PidFileInv
<1> QED BY <1>2, <1>3 DEF StartCheck

\* The file is its own from then on.
LEMMA PidWrite ==
  ASSUME FramesInv, PidFileInv, [Next]_vars, NEW m \in Masters,
         WritePidFile(m)
  PROVE  PidFileInv'
<1> USE DEF StartSteps, outside
<1>1. PICK from \in {"truncate", "write"}, to \in {"write", "handlers"} :
        /\ At(m, from) /\ Goto(m, to)
        /\ from = "truncate" <=> to = "write"
        /\ to = "handlers" => pidFile' = m
  BY DEF WritePidFile
<1>2. /\ Top(m).at = from /\ Starting(m) /\ ~Written(m) /\ UNCHANGED status
      /\ Len(stack[m]) = 1 /\ stack[m] # <<>>
  BY <1>1, StartShape DEF WritePidFile
<1>3. PICK f \in FrameSet : SetTop(m, f) /\ f.at = to
  BY <1>1, GotoFrame DEF Steps
<1>4. /\ Len(stack'[m]) = 1 /\ stack'[m][1] = f /\ Top(m)' = f
      /\ \A n \in Masters \ {m} : stack'[n] = stack[n]
  BY <1>2, <1>3, TopSet DEF FramesInv, Top
<1>5. /\ Written(m)' => pidFile' = m
      /\ ~At(m, "check")' /\ ~At(m, "truncate")'
      /\ At(m, "write")' => ~Written(m)'
      /\ Starting(m)' => ~Written(m)'
  BY <1>1, <1>3, <1>4 DEF Written, At, Starting
<1>6. \A n \in Masters \ {m} : Keeps(n)
  BY <1>2, <1>4, KeepsSame
<1>7. AloneInv'
  <2> SUFFICES ASSUME NEW n \in Masters, Written(n)',
                      \A o \in Masters \ {n} : status'[o] = "new"
               PROVE  pidFile' = n
    BY DEF AloneInv
  <2>1. n = m
    BY <1>1, <1>2 DEF At, Running
  <2> QED BY <1>5, <2>1
<1>8. ASSUME Strict'
      PROVE  FileFacts'
  <2>1. FileFacts
    BY <1>8, StrictBefore DEF PidFileInv, FileInv
  <2>2. \A n \in Masters \ {m} : ~Starting(n)'
    BY <1>2, <1>6, <2>1 DEF FileFacts, OneStarts, Keeps, Starting
  <2>3. \A n \in Masters \ {m} : ~Written(n)'
    BY <1>1, <1>6, <2>1 DEF FileFacts, StartsAlone, Keeps
  <2>4. OneStarts' /\ FileNames' /\ LookSees'
    BY <1>5, <2>2, <2>3 DEF OneStarts, FileNames, LookSees, Starting
  <2>5. StartsAlone'
    BY <1>5, <2>2, <2>3 DEF StartsAlone, Starting
  <2> QED BY <2>4, <2>5 DEF FileFacts
<1>9. FileInv'
  BY <1>8 DEF FileInv
<1> QED BY <1>7, <1>9 DEF PidFileInv

\* A lapse excuses what the file says.
LEMMA PidLapse ==
  ASSUME "no_file" \in lapses' \/ "boot_stop" \in lapses'
  PROVE  PidFileInv'
<1>1. ~(lapses' \subseteq {"unseen"}) /\ lapses' # {}
  OBVIOUS
<1> QED BY <1>1 DEF PidFileInv, AloneInv, FileInv, Strict

\* A calm master removes its own file, and is no longer in it.
LEMMA PidUnlink ==
  ASSUME FramesInv, CalmInv, PidFileInv, [Next]_vars, NEW m \in Masters,
         UnlinkPidFile(m)
  PROVE  PidFileInv'
<1> USE DEF outside
<1>1. /\ At(m, "unlink") /\ Goto(m, "exit") /\ UNCHANGED status
      /\ Top(m).at = "unlink" /\ stack[m] # <<>> /\ status[m] = "running"
  BY DEF UnlinkPidFile, At, Running
<1>2. PICK f \in FrameSet : SetTop(m, f) /\ f.at = "exit"
  BY <1>1, GotoFrame DEF Steps
<1>3. Keeps(m) /\ ~Written(m)'
  <2>1. f.at \notin StartSteps /\ Top(m).at \notin StartSteps \cup {"exit"}
    BY <1>1, <1>2 DEF StartSteps
  <2> QED BY <1>1, <1>2, <2>1, KeepsSet
<1>4. \A n \in Masters \ {m} : Keeps(n)
  <2>1. \A n \in Masters \ {m} : stack'[n] = stack[n]
    BY <1>1, <1>2, TopSet DEF FramesInv
  <2> QED BY <1>1, <2>1, KeepsSame
<1>5. AloneInv'
  <2> SUFFICES ASSUME NEW n \in Masters, Written(n)',
                      \A o \in Masters \ {n} : status'[o] = "new"
               PROVE  FALSE
    BY DEF AloneInv
  <2>1. n = m
    BY <1>1
  <2> QED BY <1>3, <2>1
<1>6. ASSUME Strict'
      PROVE  FileFacts'
  <2>1. Strict /\ FileFacts
    BY <1>6, StrictBefore DEF PidFileInv, FileInv
  <2>2. Written(m)
    BY <1>1, <2>1, UnlinkShape DEF Strict, CalmInv
  <2>3. \A n \in Masters : Written(n) => n = m
    BY <2>1, <2>2 DEF FileFacts, FileNames
  <2>4. \A n \in Masters : ~Written(n)'
    BY <1>3, <1>4, <2>3 DEF Keeps
  <2>5. OneStarts'
    BY <1>3, <1>4, <2>1 DEF FileFacts, OneStarts, Keeps, Starting, StartSteps
  <2> QED BY <2>4, <2>5 DEF FileFacts, FileNames, LookSees, StartsAlone
<1> QED BY <1>5, <1>6 DEF PidFileInv, FileInv

LEMMA PidStep == FramesInv /\ CalmInv /\ PidFileInv /\ [Next]_vars => PidFileInv'
<1> SUFFICES ASSUME FramesInv, CalmInv, PidFileInv, [Next]_vars
             PROVE  PidFileInv'
  OBVIOUS
<1> USE DEF masterVars, signalVars, workerVars
<1>1. ASSUME NEW m \in Masters, Launch(m) \/ MasterNext(m)
      PROVE  PidFileInv'
  <2>1. \A n \in Masters \ {m} : Keeps(n)
    BY <1>1, OwnFrames, KeepsSame
  <2>2. CASE WritePidFileFails(m)
    BY <2>2, PidLapse DEF WritePidFileFails
  <2>3. CASE Keeps(m) /\ UNCHANGED pidFile
    BY <2>1, <2>3, PidKept
  <2> QED BY <1>1, <2>2, <2>3, PidLaunch, PidCheck, PidWrite, PidUnlink,
             KeepsLater DEF MasterNext
<1>2. CASE UNCHANGED <<pidFile, stack, status>>
  BY <1>2, KeepsSame, PidKept
<1>3. ASSUME NEW w \in Workers, WorkerNext(w) \/ WorkerDies(w)
      PROVE  PidFileInv'
  <2>1. CASE UNCHANGED pidFile
    BY <1>2, <1>3, <2>1 DEF WorkerNext, WorkerServes, WorkerQuits, WorkerDies
  <2>2. CASE pidFile' # pidFile
    BY <1>3, <2>2, PidLapse DEF WorkerNext, WorkerServes, WorkerQuits,
      WorkerDies
  <2> QED BY <2>1, <2>2
<1>4. ASSUME NEW k \in Commands, CommandNext(k)
      PROVE  PidFileInv'
  BY <1>2, <1>4 DEF CommandNext, CommandRead, CommandSignal, Interrupt
<1>5. CASE UNCHANGED vars
  BY <1>2, <1>5 DEF vars
<1> QED BY <1>1, <1>3, <1>4, <1>5 DEF Next

LEMMA PidInit == Init => PidFileInv
<1> SUFFICES ASSUME Init PROVE PidFileInv
  OBVIOUS
<1>1. \A m \in Masters, at \in StartSteps : ~At(m, at) /\ ~Written(m)
  BY DEF Init, At, Running, Written, Settled
<1> QED BY <1>1 DEF PidFileInv, AloneInv, FileInv, FileFacts, OneStarts,
  FileNames, LookSees, StartsAlone, Starting, StartSteps

LEMMA PidHolds == Spec => [](FramesInv /\ CalmInv /\ PidFileInv)
BY FramesInit, FramesStep, CalmInit, CalmStep, PidInit, PidStep, PTL DEF Spec

\* The pid file names the only master from its pause() on, unless it could not
\* be written or a worker was stopped before Drogon took over SIGINT.
THEOREM PidFileIsTrue == Spec => []PidFileNamesMaster
<1>1. PidFileInv => PidFileNamesMaster
  BY DEF PidFileInv, AloneInv, PidFileNamesMaster, Written
<1> QED BY <1>1, PidHolds, PTL

\* There are never two masters past the check of "start", unless two checked
\* at once, the pid file was lost, or the handlers of one nested.
THEOREM OneMasterAtATime == Spec => []OneMaster
<1>1. FramesInv /\ PidFileInv => OneMaster
  <2> SUFFICES ASSUME FramesInv, PidFileInv, Strict
               PROVE  Cardinality({m \in Masters : Settled(m)}) <= 1
    BY DEF OneMaster, Strict
  <2>1. FileFacts
    BY DEF PidFileInv, FileInv
  <2>2. ASSUME NEW m \in Masters, Settled(m)
        PROVE  Written(m) \/ At(m, "truncate") \/ At(m, "write")
    <3>1. stack[m] # <<>> /\ status[m] = "running"
      BY <2>2 DEF Settled, Running, FramesInv, StackShape
    <3>2. 1 \in 1..Len(stack[m])
      BY <3>1, TopIsLast DEF FramesInv
    <3>3. FrameShape(stack[m][1]) /\ stack[m][1].sig = "none"
      BY <3>2 DEF FramesInv, StackShape
    <3>4. stack[m][1].at \in MainSteps \ {"check"}
      BY <2>2, <3>3 DEF FrameShape, Settled
    <3>5. CASE stack[m][1].at \in {"truncate", "write"}
      <4>1. Len(stack[m]) = 1
        BY <3>1, <3>5 DEF FramesInv, StackShape
      <4> QED BY <3>1, <3>5, <4>1 DEF At, Running, Top
    <3> QED BY <2>2, <3>4, <3>5 DEF MainSteps, Written
  <2>3. \A m, n \in Masters : Settled(m) /\ Settled(n) => m = n
    BY <2>1, <2>2 DEF FileFacts, OneStarts, FileNames, StartsAlone, Starting
  <2>4. PICK m : {n \in Masters : Settled(n)} \subseteq {m}
    BY <2>3
  <2>5. IsFiniteSet({m}) /\ Cardinality({m}) = 1
    BY FS_Singleton
  <2> QED BY <2>4, <2>5, FS_Subset
<1> QED BY <1>1, PidHolds, PTL
=============================================================================
