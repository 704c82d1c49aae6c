------------------------------ MODULE TaskQueue ------------------------------
(***************************************************************************)
(* What the event loop promises of the tasks queued in it                  *)
(* (EventLoop::queueInLoop over MpscQueue): they run in the order in which *)
(* they were put, each once.                                               *)
(***************************************************************************)
EXTENDS Sequences

CONSTANT Tasks

VARIABLES
  waiting,  \* the tasks queued, oldest first
  last      \* the task that ran last

Init == waiting = <<>>

\* enqueue
Put ==
  /\ \E x \in Tasks : waiting' = Append(waiting, x)
  /\ UNCHANGED last

\* dequeue, when there is a task
Take ==
  /\ waiting # <<>>
  /\ last' = Head(waiting)
  /\ waiting' = Tail(waiting)

Next == Put \/ Take

Spec == Init /\ [][Next]_<<waiting, last>>
=============================================================================
