----------------------------- MODULE Supervisor -----------------------------
(***************************************************************************)
(* The master process of Backend/main.cc: it keeps its pid in a file,      *)
(* forks one worker (the Drogon application), and stops or replaces it in  *)
(* its signal handlers.  The commands start, stop and restart of the same  *)
(* program read the pid file and signal the master they find there.        *)
(*                                                                         *)
(* A signal handler interrupts whatever runs, another handler included;    *)
(* its own signal is blocked meanwhile.  The frames of a master are a      *)
(* stack: its main program, then the handlers that interrupted one         *)
(* another.  kill, waitpid and fork are the kernel's.                      *)
(***************************************************************************)
EXTENDS Naturals, Sequences, FiniteSets

CONSTANTS
  Masters,   \* processes that may become masters, each run once
  Workers,   \* bound: processes that fork can make
  Commands,  \* bound: stop and restart commands, each run once
  Launches,  \* how masters are run: "start", or "run" with no command
  NoPid      \* no process at all: an absent file, or pid 0

ASSUME SupervisorAssumption ==
  /\ Launches \subseteq {"start", "run"}
  /\ NoPid \notin Masters \cup Workers
  /\ {"empty", "failed", "other"} \cap (Masters \cup Workers \cup {NoPid}) = {}

Signals == {"INT", "TERM", "USR1"}

VARIABLES
  pidFile,    \* what the pid file holds: a pid, NoPid when it does not exist,
              \* or "empty" between its truncation and the write
  status,     \* "new", "running", "refused", "exited" or "killed"
  stack,      \* the frames of each master, its main program first
  workerPid,  \* the static workerPid of each master, "failed" for -1
  handlers,   \* signals each master has installed its handler for
  pending,    \* signals sent to each master and not yet delivered
  worker,     \* each worker: "none", "boot", "serve", "zombie" or "reaped"
  parent,     \* the master that forked it
  interrupted,\* workers with a SIGINT pending
  deaf,       \* workers forked with SIGINT blocked
  command,    \* each command: what it does, where it is, the pid it has read
  calm,       \* masters whose handlers never interrupted anything but pause()
  lapses      \* what the pid file has been exposed to, see Lapses

signalVars == <<handlers, pending, calm>>
masterVars == <<status, stack, workerPid, signalVars>>
workerVars == <<worker, parent, interrupted, deaf>>
vars == <<pidFile, masterVars, workerVars, command, lapses>>

\* "no_file": the pid file could not be written; "boot_stop": a worker got
\* SIGINT before Drogon took the signal over; "unseen": a master was started
\* without looking at the pid file, or while another had looked and not yet
\* written it.
Lapses == {"no_file", "boot_stop", "unseen"}

\* What a step of a master leaves alone that changes nothing but its frames,
\* the pid file, workerPid or the workers.
outside == <<status, signalVars, command, lapses>>
programVars == <<pidFile, workerPid, workerVars, outside>>

Frame(at, sig) == [at |-> at, sig |-> sig, pid |-> NoPid]

Init ==
  /\ pidFile = NoPid
  /\ status = [m \in Masters |-> "new"]
  /\ stack = [m \in Masters |-> <<>>]
  /\ workerPid = [m \in Masters |-> NoPid]
  /\ handlers = [m \in Masters |-> {}]
  /\ pending = [m \in Masters |-> {}]
  /\ worker = [w \in Workers |-> "none"]
  /\ parent = [w \in Workers |-> NoPid]
  /\ interrupted = {} /\ deaf = {}
  /\ command = [k \in Commands |->
                  [op |-> "none", at |-> "new", seen |-> NoPid]]
  /\ calm = Masters
  /\ lapses = {}

-----------------------------------------------------------------------------
Running(p) == p \in Masters /\ status[p] = "running"

\* Mutant: what an empty file reads as is taken for a pid.
ReadPidUnchecked == {pidFile}

\* readMasterPid: an empty file leaves the pid uninitialized; it may be that
\* of a process that has nothing to do with this program ("other").
ReadPid ==
  IF pidFile = "empty" THEN Masters \cup {NoPid, "other"} ELSE {pidFile}

IsProcessRunning(p) == Running(p) \/ p = "other"

Top(m) == stack[m][Len(stack[m])]

\* Master m runs the step at of its topmost frame.
At(m, at) == Running(m) /\ stack[m] # <<>> /\ Top(m).at = at

SetTop(m, frame) == stack' = [stack EXCEPT ![m][Len(stack[m])] = frame]

Goto(m, at) == SetTop(m, [Top(m) EXCEPT !.at = at])

\* Signal s reaches every master of the set.
Deliver(ms, s) ==
  pending' = [m \in Masters |-> IF m \in ms /\ status[m] = "running"
                                THEN pending[m] \cup {s} ELSE pending[m]]

-----------------------------------------------------------------------------
(***************************************************************************)
(* main and runMaster.  "start" reads the pid file and gives up if that    *)
(* process runs; a plain run does not look.                                *)
(***************************************************************************)
Starting(m) == \E at \in {"check", "truncate", "write"} : At(m, at)

\* Master m begins with this frame; blind says that it does not look.
Begin(m, frame, blind) ==
  /\ status[m] = "new"
  /\ status' = [status EXCEPT ![m] = "running"]
  /\ stack' = [stack EXCEPT ![m] = <<frame>>]
  /\ lapses' = IF blind \/ \E n \in Masters : Starting(n)
               THEN lapses \cup {"unseen"} ELSE lapses
  /\ UNCHANGED <<pidFile, workerPid, signalVars, workerVars, command>>

Launch(m) ==
  \/ /\ "start" \in Launches
     /\ \E p \in ReadPid :
          Begin(m, [at |-> "check", sig |-> "none", pid |-> p], FALSE)
  \/ /\ "run" \in Launches
     /\ Begin(m, Frame("truncate", "none"), TRUE)

StartCheck(m) ==
  /\ At(m, "check")
  /\ IF IsProcessRunning(Top(m).pid)
     THEN status' = [status EXCEPT ![m] = "refused"] /\ UNCHANGED stack
     ELSE Goto(m, "truncate") /\ UNCHANGED status
  /\ UNCHANGED <<pidFile, workerPid, signalVars, workerVars, command, lapses>>

\* The file may belong to another user and not open: the master goes on.
WritePidFile(m) ==
  /\ \/ At(m, "truncate") /\ pidFile' = "empty" /\ Goto(m, "write")
     \/ At(m, "write") /\ pidFile' = m /\ Goto(m, "handlers")
  /\ UNCHANGED <<workerPid, workerVars, outside>>

WritePidFileFails(m) ==
  /\ At(m, "truncate") /\ Goto(m, "handlers")
  /\ lapses' = lapses \cup {"no_file"}
  /\ UNCHANGED <<pidFile, status, workerPid, signalVars, workerVars, command>>

\* SIGINT, SIGTERM and SIGUSR1 in this order.
InstallHandler(m) ==
  /\ At(m, "handlers")
  /\ \E s \in Signals \ handlers[m] :
       /\ s = "TERM" => "INT" \in handlers[m]
       /\ s = "USR1" => "TERM" \in handlers[m]
       /\ handlers' = [handlers EXCEPT ![m] = @ \cup {s}]
       /\ IF s = "USR1" THEN Goto(m, "fork") ELSE UNCHANGED stack
  /\ UNCHANGED <<pidFile, status, workerPid, pending, calm, workerVars,
                 command, lapses>>

-----------------------------------------------------------------------------
(***************************************************************************)
(* startWorker: fork, then assign workerPid.  The child inherits the       *)
(* handlers and the signals blocked by the frames it is forked in.         *)
(***************************************************************************)
SetForked(m, w) == SetTop(m, [Top(m) EXCEPT !.at = "assign", !.pid = w])

Fork(m) ==
  /\ At(m, "fork")
  /\ \E w \in Workers :
       /\ worker[w] = "none"
       /\ worker' = [worker EXCEPT ![w] = "boot"]
       /\ parent' = [parent EXCEPT ![w] = m]
       /\ deaf' = IF \E i \in 1..Len(stack[m]) : stack[m][i].sig = "INT"
                  THEN deaf \cup {w} ELSE deaf
       /\ SetForked(m, w)
  /\ UNCHANGED <<pidFile, workerPid, interrupted, outside>>

ForkFails(m) ==
  At(m, "fork") /\ SetForked(m, "failed") /\ UNCHANGED programVars

\* The main program goes on to pause(); a handler returns.
Assign(m) ==
  /\ At(m, "assign")
  /\ workerPid' = [workerPid EXCEPT ![m] = Top(m).pid]
  /\ IF Len(stack[m]) = 1
     THEN Goto(m, "pause")
     ELSE stack' = [stack EXCEPT ![m] = SubSeq(@, 1, Len(@) - 1)]
  /\ UNCHANGED <<pidFile, workerVars, outside>>

-----------------------------------------------------------------------------
(***************************************************************************)
(* A signal is delivered: to the handler, if it is installed and not       *)
(* running already; else it ends the process.                              *)
(***************************************************************************)
HandleSignal(m, s) ==
  /\ Running(m) /\ s \in pending[m] \cap handlers[m]
  /\ \A i \in 1..Len(stack[m]) : stack[m][i].sig # s
  /\ pending' = [pending EXCEPT ![m] = @ \ {s}]
  /\ calm' = IF At(m, "pause") THEN calm ELSE calm \ {m}
  /\ stack' = [stack EXCEPT ![m] = Append(@, Frame("kill", s))]
  /\ UNCHANGED <<pidFile, status, workerPid, handlers, workerVars, command,
                 lapses>>

DefaultAction(m, s) ==
  /\ Running(m) /\ s \in pending[m] \ handlers[m]
  /\ status' = [status EXCEPT ![m] = "killed"]
  /\ UNCHANGED <<pidFile, stack, workerPid, signalVars, workerVars, command,
                 lapses>>

\* Where masterSignalHandler goes once stopWorker has returned.
AfterStop(m) == IF Top(m).sig = "USR1" THEN "fork" ELSE "unlink"

Live == {w \in Workers : worker[w] \in {"boot", "serve"}}

\* Mutant: a worker is not stopped before the master goes on.
StopWorkerSkipped(m) ==
  At(m, "kill") /\ Goto(m, AfterStop(m)) /\ UNCHANGED programVars

\* Mutant: the worker is waited for without having been signalled.
StopWorkerUnsignalled(m) ==
  /\ At(m, "kill") /\ UNCHANGED programVars
  /\ Goto(m, IF workerPid[m] \in Workers THEN "call" ELSE AfterStop(m))

StopWorkerKill(m) ==
  /\ At(m, "kill")
  /\ IF workerPid[m] \in Workers
     THEN /\ Goto(m, "call")
          /\ interrupted' = interrupted \cup ({workerPid[m]} \cap Live)
     ELSE Goto(m, AfterStop(m)) /\ UNCHANGED interrupted
  /\ UNCHANGED <<pidFile, workerPid, worker, parent, deaf, outside>>

\* waitpid is called with what workerPid is by then, after a handler that ran
\* since the kill.  A handler that interrupts the wait does not change it: the
\* call is restarted with the same argument.
StopWorkerCall(m) ==
  /\ At(m, "call")
  /\ SetTop(m, [Top(m) EXCEPT !.at = "wait", !.pid = workerPid[m]])
  /\ UNCHANGED programVars

\* The children a waitpid waits for; 0 or -1 stand for any.  A worker that a
\* nested restart has reaped is none: the call then returns at once.
Awaited(m) ==
  {w \in Workers : /\ parent[w] = m /\ worker[w] # "reaped"
                   /\ Top(m).pid \in Workers => w = Top(m).pid}

\* Mutant: waitpid with WNOHANG.
StopWorkerNoWait(m) ==
  At(m, "wait") /\ Goto(m, "clear") /\ UNCHANGED programVars

StopWorkerWait(m) ==
  /\ At(m, "wait")
  /\ \/ /\ Awaited(m) = {}
        /\ UNCHANGED worker
     \/ \E w \in Awaited(m) :
          /\ worker[w] = "zombie"
          /\ worker' = [worker EXCEPT ![w] = "reaped"]
  /\ Goto(m, "clear")
  /\ UNCHANGED <<pidFile, workerPid, parent, interrupted, deaf, outside>>

\* Mutant: stopWorker removes the pid file.
StopWorkerUnlinks(m) ==
  /\ At(m, "clear")
  /\ workerPid' = [workerPid EXCEPT ![m] = NoPid]
  /\ pidFile' = NoPid
  /\ Goto(m, AfterStop(m))
  /\ UNCHANGED <<workerVars, outside>>

StopWorkerClear(m) ==
  /\ At(m, "clear")
  /\ workerPid' = [workerPid EXCEPT ![m] = NoPid]
  /\ Goto(m, AfterStop(m))
  /\ UNCHANGED <<pidFile, workerVars, outside>>

UnlinkPidFile(m) ==
  /\ At(m, "unlink")
  /\ pidFile' = NoPid
  /\ Goto(m, "exit")
  /\ UNCHANGED <<workerPid, workerVars, outside>>

Exit(m) ==
  /\ At(m, "exit")
  /\ status' = [status EXCEPT ![m] = "exited"]
  /\ UNCHANGED <<pidFile, stack, workerPid, signalVars, workerVars, command,
                 lapses>>

-----------------------------------------------------------------------------
(***************************************************************************)
(* The worker.  Until Drogon installs handlers of its own, SIGINT runs the *)
(* master's in it: with no worker to stop, it removes the pid file and     *)
(* exits.                                                                  *)
(***************************************************************************)
WorkerServes(w) ==
  /\ worker[w] = "boot"
  /\ worker' = [worker EXCEPT ![w] = "serve"]
  /\ UNCHANGED <<pidFile, masterVars, parent, interrupted, deaf,
                 command, lapses>>

WorkerQuits(w) ==
  /\ w \in Live /\ w \in interrupted \ deaf
  /\ worker' = [worker EXCEPT ![w] = "zombie"]
  /\ IF worker[w] = "boot"
     THEN pidFile' = NoPid /\ lapses' = lapses \cup {"boot_stop"}
     ELSE UNCHANGED <<pidFile, lapses>>
  /\ UNCHANGED <<masterVars, parent, interrupted, deaf, command>>

WorkerDies(w) ==
  /\ w \in Live
  /\ worker' = [worker EXCEPT ![w] = "zombie"]
  /\ UNCHANGED <<pidFile, masterVars, parent, interrupted, deaf,
                 command, lapses>>

-----------------------------------------------------------------------------
(***************************************************************************)
(* The commands, each a process of its own, and the terminal's interrupt,  *)
(* which reaches the master and its workers alike.                         *)
(***************************************************************************)
CommandRead(k, op) ==
  /\ command[k].at = "new"
  /\ \E p \in ReadPid :
       command' = [command EXCEPT ![k] =
                     [op |-> op, at |-> "check", seen |-> p]]
  /\ UNCHANGED <<pidFile, masterVars, workerVars, lapses>>

CommandSignal(k) ==
  /\ command[k].at = "check"
  /\ IF IsProcessRunning(command[k].seen)
     THEN /\ Deliver({command[k].seen},
                     IF command[k].op = "stop" THEN "TERM" ELSE "USR1")
          /\ command' = [command EXCEPT ![k].at = "sent"]
     ELSE /\ command' = [command EXCEPT ![k].at = "not_running"]
          /\ UNCHANGED pending
  /\ UNCHANGED <<pidFile, status, stack, workerPid, handlers, calm, workerVars,
                 lapses>>

Interrupt(k, m) ==
  /\ command[k].at = "new" /\ Running(m)
  /\ command' = [command EXCEPT ![k] =
                   [op |-> "interrupt", at |-> "sent", seen |-> m]]
  /\ Deliver({m}, "INT")
  /\ interrupted' = interrupted \cup {w \in Live : parent[w] = m}
  /\ UNCHANGED <<pidFile, status, stack, workerPid, handlers, calm, worker,
                 parent, deaf, lapses>>

-----------------------------------------------------------------------------
\* What a master does of itself; its signals come with it.
MasterNext(m) ==
  \/ StartCheck(m) \/ WritePidFile(m) \/ WritePidFileFails(m)
  \/ InstallHandler(m)
  \/ Fork(m) \/ ForkFails(m) \/ Assign(m)
  \/ \E s \in Signals : HandleSignal(m, s) \/ DefaultAction(m, s)
  \/ StopWorkerKill(m) \/ StopWorkerCall(m) \/ StopWorkerWait(m)
  \/ StopWorkerClear(m)
  \/ UnlinkPidFile(m) \/ Exit(m)

WorkerNext(w) == WorkerServes(w) \/ WorkerQuits(w)

CommandNext(k) ==
  \/ \E op \in {"stop", "restart"} : CommandRead(k, op)
  \/ CommandSignal(k)
  \/ \E m \in Masters : Interrupt(k, m)

Next ==
  \/ \E m \in Masters : Launch(m) \/ MasterNext(m)
  \/ \E w \in Workers : WorkerNext(w) \/ WorkerDies(w)
  \/ \E k \in Commands : CommandNext(k)

Spec == Init /\ [][Next]_vars

\* The processes run; no command need be given, and a worker need not die.
FairSpec ==
  /\ Spec
  /\ \A m \in Masters : WF_vars(MasterNext(m))
  /\ \A w \in Workers : WF_vars(WorkerNext(w))

-----------------------------------------------------------------------------
Steps == {"check", "truncate", "write", "handlers", "fork", "assign", "pause",
          "kill", "call", "wait", "clear", "unlink", "exit"}

\* Every variable stays within its range (the static workerPid, the pid file,
\* the signal state of main.cc's processes).
TypeOK ==
  /\ pidFile \in Masters \cup {NoPid, "empty"}
  /\ status \in [Masters -> {"new", "running", "refused", "exited", "killed"}]
  /\ stack \in [Masters -> Seq([at  : Steps,
                                sig : Signals \cup {"none"},
                                pid : Masters \cup Workers
                                        \cup {NoPid, "failed", "other"}])]
  /\ workerPid \in [Masters -> Workers \cup {NoPid, "failed"}]
  /\ handlers \in [Masters -> SUBSET Signals]
  /\ pending \in [Masters -> SUBSET Signals]
  /\ worker \in [Workers -> {"none", "boot", "serve", "zombie", "reaped"}]
  /\ parent \in [Workers -> Masters \cup {NoPid}]
  /\ interrupted \in SUBSET Workers
  /\ deaf \in SUBSET Workers
  /\ command \in [Commands -> [op   : {"none", "stop", "restart", "interrupt"},
                               at   : {"new", "check", "sent", "not_running"},
                               seen : Masters \cup {NoPid, "other"}]]
  /\ calm \in SUBSET Masters
  /\ lapses \in SUBSET Lapses

Children(m) == {w \in Live : parent[w] = m}

\* A master never has more than one live worker as long as its handlers only
\* interrupt pause(), and otherwise at most one more for its main program and
\* for each handler that stops it: these write workerPid once, and a restart
\* that runs just before, nested in them, makes a worker nobody knows of.
FewWorkers ==
  \A m \in Masters :
    Cardinality(Children(m)) <=
      IF m \in calm THEN 1
      ELSE 1 + Cardinality({i \in 1..Len(stack[m]) : stack[m][i].sig # "USR1"})

\* A master that exits having been interrupted only in pause() leaves no
\* worker behind, whether the worker was booting, serving or dead already.
CleanExit ==
  \A m \in calm : status[m] = "exited" => Children(m) = {}

\* Past its check of the pid file, and not about to exit with the file gone.
Settled(m) ==
  /\ Running(m) /\ stack[m][1].at # "check"
  /\ \A i \in 1..Len(stack[m]) : stack[m][i].at # "exit"

\* The pid file names the only master from its pause() on, unless it could not
\* be written or a worker was stopped before Drogon took over SIGINT.
PidFileNamesMaster ==
  \A m \in Masters :
    /\ Settled(m) /\ stack[m][1].at = "pause"
    /\ \A n \in Masters \ {m} : status[n] = "new"
    /\ lapses \subseteq {"unseen"}
    => pidFile = m

\* main.cc:157-162: there are never two masters past the check of "start",
\* whatever stops, restarts and crashes came before, unless two checked at
\* once, the pid file was lost, or the handlers of one nested.
OneMaster ==
  lapses = {} /\ calm = Masters =>
    Cardinality({m \in Masters : Settled(m)}) <= 1

\* A master told to stop does so, if nothing nests in its handler: the worker
\* it waits for quits on SIGINT or is dead, however far it had come.
StopStops ==
  \A m \in Masters :
    (Running(m) /\ pending[m] \cap {"INT", "TERM"} # {})
      ~> (status[m] \in {"exited", "killed"} \/ m \notin calm)

\* A master that restarts its worker gets back to pause(), ready for the next
\* signal, if nothing nests in its handler.
RestartReturns ==
  \A m \in Masters :
    (Running(m) /\ \E i \in 1..Len(stack[m]) : stack[m][i].sig = "USR1")
      ~> (At(m, "pause") \/ ~Running(m) \/ m \notin calm)
=============================================================================
