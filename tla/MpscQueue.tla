------------------------------ MODULE MpscQueue ------------------------------
(***************************************************************************)
(* The lock-free queue behind the main loop: trantor::MpscQueue            *)
(* (Depends/include/trantor/utils/LockFreeQueue.h), into which the data    *)
(* thread puts its broadcasts and the IO thread the requests of the chat   *)
(* agent, and from which the main loop takes them.                         *)
(*                                                                         *)
(* One action per access to shared memory.  The accesses are atomic and    *)
(* acquire or release where they have to be, so that their interleavings   *)
(* are all there is.  A node is the address it lies at; an address that    *)
(* was freed may be allocated again.  How the loop is woken is external.   *)
(***************************************************************************)
EXTENDS Naturals, Sequences, FiniteSets

CONSTANTS
  Producers, \* threads that queue tasks
  Nodes,     \* addresses
  Null,      \* nullptr, and data that is not there
  MaxTasks   \* bound: tasks put

Tasks == 1..MaxTasks

ASSUME QueueAssumption ==
  /\ Null \notin Nodes \cup Tasks
  /\ Nodes # {}
  /\ MaxTasks \in Nat

VARIABLES
  head,     \* head_, where producers put
  tail,     \* tail_, the node before the oldest task
  next,     \* next_ of each node
  data,     \* what dataPtr_ of each node points to
  heap,     \* the nodes allocated
  pc,       \* where each producer is in queueInLoop
  node,     \* the node it puts
  prevhead, \* the node it found in head_
  put,      \* tasks put so far; they are numbered
  main,     \* where the main loop is
  found,    \* the local next of dequeue
  output,   \* the task dequeued last
  woken,    \* the loop has been woken and has not yet seen it
  chain     \* history: nodes put and not yet dequeued, oldest first

producerVars == <<head, pc, node, prevhead, put>>
consumerVars == <<tail, main, found, output>>
vars == <<producerVars, consumerVars, next, data, heap, woken, chain>>

\* The constructor allocates a node with no task.
Init ==
  /\ head \in Nodes /\ tail = head /\ heap = {head}
  /\ next = [n \in Nodes |-> Null]
  /\ data = [n \in Nodes |-> Null]
  /\ pc = [p \in Producers |-> "idle"]
  /\ node = [p \in Producers |-> Null]
  /\ prevhead = [p \in Producers |-> Null]
  /\ put = 0
  /\ main = "poll" /\ found = Null /\ output = 0
  /\ woken = FALSE
  /\ chain = <<>>

-----------------------------------------------------------------------------
(***************************************************************************)
(* queueInLoop: enqueue makes a node, exchanges it with head_ and links    *)
(* the node it found there to it; then the loop is woken.                  *)
(***************************************************************************)
Producer(p, from, to) ==
  /\ pc[p] = from
  /\ pc' = [pc EXCEPT ![p] = to]
  /\ UNCHANGED consumerVars

New(p) ==
  /\ put < MaxTasks
  /\ Producer(p, "idle", "exchange")
  /\ put' = put + 1
  /\ \E n \in Nodes \ heap :
       /\ heap' = heap \cup {n}
       /\ node' = [node EXCEPT ![p] = n]
       /\ data' = [data EXCEPT ![n] = put + 1]
       /\ next' = [next EXCEPT ![n] = Null]
  /\ UNCHANGED <<head, prevhead, woken, chain>>

\* head_ is set to the node of p, which takes old for what it found.
SwapHead(p, old) ==
  /\ Producer(p, "exchange", "link")
  /\ head' = node[p]
  /\ prevhead' = [prevhead EXCEPT ![p] = old]
  /\ chain' = Append(chain, node[p])
  /\ UNCHANGED <<next, data, heap, node, put, woken>>

\* Mutant: the node is linked behind the last one dequeued.
ExchangeAtTail(p) == SwapHead(p, tail)

Exchange(p) == SwapHead(p, head)

LinkNode(p, from, to) ==
  /\ Producer(p, "link", "wake")
  /\ next' = [next EXCEPT ![from] = to]
  /\ UNCHANGED <<head, data, heap, node, prevhead, put, woken, chain>>

Link(p) == LinkNode(p, prevhead[p], node[p])

Wake(p) ==
  /\ Producer(p, "wake", "idle")
  /\ woken' = TRUE
  /\ node' = [node EXCEPT ![p] = Null]
  /\ prevhead' = [prevhead EXCEPT ![p] = Null]
  /\ UNCHANGED <<head, next, data, heap, put, chain>>

-----------------------------------------------------------------------------
(***************************************************************************)
(* The loop: it waits to be woken, then runs tasks until it finds none.    *)
(***************************************************************************)
Main(from, to) ==
  /\ main = from /\ main' = to
  /\ UNCHANGED producerVars

Poll ==
  /\ woken /\ woken' = FALSE
  /\ Main("poll", "empty")
  /\ UNCHANGED <<tail, found, output, next, data, heap, chain>>

Empty ==
  /\ Main("empty", IF next[tail] = Null THEN "poll" ELSE "load")
  /\ UNCHANGED <<tail, found, output, next, data, heap, woken, chain>>

LoadNext(none, n) ==
  /\ Main("load", IF none THEN "empty" ELSE "take")
  /\ found' = IF none THEN Null ELSE n
  /\ UNCHANGED <<tail, output, next, data, heap, woken, chain>>

\* Mutant: the queue is taken to be empty when its ends meet.
LoadComparesEnds == LoadNext(head = tail, next[tail])

\* Mutant: the task of the node at tail_ is taken, not of the one after it.
LoadTail == LoadNext(next[tail] = Null, tail)

Load == LoadNext(next[tail] = Null, next[tail])

\* output = std::move(...), and its source is deleted.
Take ==
  /\ Main("take", "advance")
  /\ output' = data[found]
  /\ data' = [data EXCEPT ![found] = Null]
  /\ chain' = Tail(chain)
  /\ UNCHANGED <<tail, found, next, heap, woken>>

AdvanceTo(to, freed) ==
  /\ Main("advance", to)
  /\ tail' = found
  /\ heap' = heap \ {freed}
  /\ found' = Null
  /\ UNCHANGED <<output, next, data, woken, chain>>

\* Mutant: the node whose task was taken is freed.
AdvanceFreesNew == AdvanceTo("load", found)

\* Mutant: one task is run for each time the loop is woken.
AdvanceOnce == AdvanceTo("poll", tail)

Advance == AdvanceTo("load", tail)

-----------------------------------------------------------------------------
PutNext(p) == Exchange(p) \/ Link(p) \/ Wake(p)

LoopNext == Poll \/ Empty \/ Load \/ Take \/ Advance

Next == (\E p \in Producers : New(p) \/ PutNext(p)) \/ LoopNext

\* A producer that has begun goes on, and the loop goes on.
Spec ==
  /\ Init /\ [][Next]_vars
  /\ \A p \in Producers : WF_vars(PutNext(p))
  /\ WF_vars(LoopNext)

-----------------------------------------------------------------------------
\* Every variable stays within its range (the members of MpscQueue and
\* BufferNode, the locals of enqueue and dequeue).
TypeOK ==
  /\ head \in Nodes /\ tail \in Nodes
  /\ next \in [Nodes -> Nodes \cup {Null}]
  /\ data \in [Nodes -> Tasks \cup {Null}]
  /\ heap \in SUBSET Nodes
  /\ pc \in [Producers -> {"idle", "exchange", "link", "wake"}]
  /\ node \in [Producers -> Nodes \cup {Null}]
  /\ prevhead \in [Producers -> Nodes \cup {Null}]
  /\ put \in 0..MaxTasks
  /\ main \in {"poll", "empty", "load", "take", "advance"}
  /\ found \in Nodes \cup {Null}
  /\ output \in Tasks \cup {0}
  /\ woken \in BOOLEAN
  /\ chain \in Seq(Nodes)

\* No thread touches a node that was freed, or data that is not there:
\* dequeue deletes a node while a producer may still hold it in prevhead, but
\* only once that producer has made its one access, and no address allocated
\* again takes a link meant for the node that was there before.
NoUseAfterFree ==
  /\ {head, tail} \subseteq heap
  /\ \A p \in Producers : pc[p] = "link" =>
       /\ prevhead[p] \in heap /\ next[prevhead[p]] = Null
       /\ \A q \in Producers \ {p} :
            pc[q] = "link" => prevhead[q] # prevhead[p]
  /\ main = "take" => found \in heap /\ data[found] # Null

\* The nodes from tail_ on: the one before the oldest task, the tasks.
Line == <<IF main = "advance" THEN found ELSE tail>> \o chain

\* The list is whole: from tail_ it leads through the nodes in the order of
\* their exchanges to head_, and where a link is missing a producer is about
\* to set that very link.  What is allocated is the list, the node of each
\* producer that has not exchanged it, and the node being retired: nothing
\* leaks.
ListIntact ==
  /\ Line[Len(Line)] = head
  /\ \A i \in 1..Len(chain) :
       \/ next[Line[i]] = chain[i]
       \/ /\ next[Line[i]] = Null
          /\ \E p \in Producers :
               pc[p] = "link" /\ prevhead[p] = Line[i] /\ node[p] = chain[i]
  /\ next[head] = Null
  /\ heap = {tail} \cup {Line[i] : i \in 1..Len(Line)}
              \cup {node[p] : p \in {q \in Producers : pc[q] = "exchange"}}

\* The queue keeps what the abstract one promises: tasks run in the order of
\* their exchanges, each once, whatever two producers and the loop do between.
Queue == INSTANCE TaskQueue
  WITH waiting <- [i \in 1..Len(chain) |-> data[chain[i]]], last <- output

ImplementsTaskQueue == Queue!Spec

\* Every task that a producer has begun to put is run: the loop never sleeps
\* over one, although it stops at a node that is not linked yet.
EveryTaskRuns ==
  \A t \in Tasks :
    (\E p \in Producers : pc[p] = "exchange" /\ data[node[p]] = t)
      ~> (output = t)
=============================================================================
