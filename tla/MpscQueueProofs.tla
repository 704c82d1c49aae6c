--------------------------- MODULE MpscQueueProofs ---------------------------
(***************************************************************************)
(* Proofs about MpscQueue, for any number of producers, addresses and      *)
(* tasks: the list is whole, no thread touches a node that was freed, and  *)
(* the tasks run in the order in which they were put.                      *)
(***************************************************************************)
EXTENDS MpscQueue, SequenceTheorems, TLAPS

(***************************************************************************)
(* The invariant.  At(i) is Line[i] without the concatenation: the node    *)
(* before task i of the chain.                                             *)
(***************************************************************************)
Dummy == IF main = "advance" THEN found ELSE tail

At(i) == IF i = 1 THEN Dummy ELSE chain[i - 1]

Places == 1..(Len(chain) + 1)

\* The nodes of the list are different ones, and the last is head_.
Apart ==
  /\ \A i, j \in Places : At(i) = At(j) => i = j
  /\ At(Len(chain) + 1) = head
  /\ next[head] = Null

\* A link is there, or a producer is about to set it.
Linked ==
  \A i \in 1..Len(chain) :
    \/ next[At(i)] = chain[i]
    \/ /\ next[At(i)] = Null
       /\ \E p \in Producers :
            pc[p] = "link" /\ prevhead[p] = At(i) /\ node[p] = chain[i]

\* A producer that is about to set a link has a place in the list for it, and
\* no other producer has the same.
Linking ==
  \A p \in Producers : pc[p] = "link" =>
    /\ \E i \in 1..Len(chain) :
         prevhead[p] = At(i) /\ node[p] = chain[i] /\ next[At(i)] = Null
    /\ \A q \in Producers \ {p} : pc[q] = "link" => prevhead[q] # prevhead[p]

\* A node that is not in the list yet is its producer's own.
Fresh ==
  \A p \in Producers : pc[p] = "exchange" =>
    /\ node[p] \in Nodes /\ node[p] # tail
    /\ next[node[p]] = Null /\ data[node[p]] # Null
    /\ \A i \in Places : At(i) # node[p]
    /\ \A q \in Producers \ {p} : pc[q] = "exchange" => node[q] # node[p]

\* Where the loop is: it found the first node of the chain, or it has taken
\* its task and the node before it is no longer in the list.
Loop ==
  /\ \A i \in 1..Len(chain) : data[chain[i]] # Null
  /\ main = "take" => chain # <<>> /\ found = chain[1] /\ next[tail] = found
  /\ main = "advance" =>
       found \in Nodes /\ \A i \in Places : At(i) # tail

\* What is allocated.
Own == {node[p] : p \in {q \in Producers : pc[q] = "exchange"}}
Allocated == heap = {tail} \cup {At(i) : i \in Places} \cup Own

QueueInv ==
  /\ TypeOK
  /\ Apart
  /\ Linked
  /\ Linking
  /\ Fresh
  /\ Loop
  /\ Allocated

(***************************************************************************)
(* What the operators on the chain give.                                   *)
(***************************************************************************)
\* Line is At, place by place.
LEMMA LineIsAt ==
  ASSUME TypeOK, Dummy \in Nodes
  PROVE  /\ Len(Line) = Len(chain) + 1
         /\ \A i \in Places : Line[i] = At(i)
<1> USE DEF TypeOK
<1>1. <<Dummy>> \in Seq(Nodes) /\ Len(<<Dummy>>) = 1 /\ <<Dummy>>[1] = Dummy
  OBVIOUS
<1>2. Len(chain) \in Nat
  OBVIOUS
<1>3. Line = <<Dummy>> \o chain
  BY DEF Line, Dummy
<1>4. Len(Line) = Len(chain) + 1
  BY <1>1, <1>2, <1>3
<1>5. \A i \in Places : Line[i] = At(i)
  BY <1>1, <1>2, <1>3 DEF Places, At
<1> QED BY <1>4, <1>5

\* The node before the chain is a node, and so is every one after it.
LEMMA AtNode ==
  ASSUME TypeOK, Loop
  PROVE  /\ Len(chain) \in Nat
         /\ Dummy \in Nodes
         /\ \A i \in Places : At(i) \in Nodes
         /\ \A i \in 1..Len(chain) : chain[i] \in Nodes
<1>1. Len(chain) \in Nat /\ \A i \in 1..Len(chain) : chain[i] \in Nodes
  BY DEF TypeOK
<1>2. Dummy \in Nodes
  BY DEF TypeOK, Loop, Dummy
<1>3. \A i \in Places : i = 1 \/ i - 1 \in 1..Len(chain)
  BY <1>1 DEF Places
<1> QED BY <1>1, <1>2, <1>3 DEF At

(***************************************************************************)
(* The steps.                                                              *)
(***************************************************************************)
\* A new node touches nothing of the list.
LEMMA NewStep ==
  ASSUME QueueInv, NEW p \in Producers, New(p)
  PROVE  QueueInv'
<1> USE QueueAssumption DEF QueueAssumption
<1> PICK n \in Nodes \ heap :
       /\ heap' = heap \cup {n}
       /\ node' = [node EXCEPT ![p] = n]
       /\ data' = [data EXCEPT ![n] = put + 1]
       /\ next' = [next EXCEPT ![n] = Null]
  BY DEF New
<1>1. /\ pc[p] = "idle" /\ pc' = [pc EXCEPT ![p] = "exchange"]
      /\ put' = put + 1 /\ put < MaxTasks
      /\ UNCHANGED <<head, prevhead, woken, chain, tail, main, found, output>>
  BY DEF New, Producer, consumerVars
<1>2. TypeOK'
  BY <1>1 DEF QueueInv, TypeOK, Tasks
<1>3. /\ Dummy' = Dummy /\ Places' = Places
      /\ \A i : At(i)' = At(i)
  BY <1>1 DEF Dummy, Places, At
<1>4. /\ \A i \in Places : At(i) \in heap
      /\ tail \in heap /\ n # tail
      /\ \A q \in Producers : pc[q] = "exchange" => node[q] \in heap
  BY DEF QueueInv, Allocated, Own
<1>5. \A i \in Places : At(i) # n
  BY <1>4
<1>6. /\ Len(chain) \in Nat
      /\ \A i \in 1..Len(chain) : i \in Places /\ chain[i] = At(i + 1)
      /\ \A i \in 1..Len(chain) : i + 1 \in Places
      /\ \A i \in Places : At(i) \in Nodes
      /\ Len(chain) + 1 \in Places
  BY AtNode DEF QueueInv, Places, At
<1>7. \A i \in Places : next'[At(i)] = next[At(i)] /\ data'[At(i)] = data[At(i)]
  BY <1>5, <1>6 DEF QueueInv, TypeOK
<1>8. Apart'
  BY <1>1, <1>3, <1>6, <1>7 DEF QueueInv, Apart
<1>9. \A q \in Producers : pc[q] = "link" <=> pc'[q] = "link"
  BY <1>1 DEF QueueInv, TypeOK
<1>10. \A q \in Producers : pc[q] = "link" => node'[q] = node[q]
  BY <1>1 DEF QueueInv, TypeOK
<1>11. Linked'
  BY <1>1, <1>3, <1>6, <1>7, <1>9, <1>10 DEF QueueInv, Linked
<1>12. Linking'
  BY <1>1, <1>3, <1>6, <1>7, <1>9, <1>10 DEF QueueInv, Linking
<1>13. /\ pc'[p] = "exchange" /\ node'[p] = n
       /\ \A q \in Producers \ {p} : node'[q] = node[q] /\ pc'[q] = pc[q]
       /\ next'[n] = Null /\ data'[n] = put + 1
       /\ \A m \in Nodes \ {n} : next'[m] = next[m] /\ data'[m] = data[m]
  BY <1>1 DEF QueueInv, TypeOK
<1>14. put + 1 # Null
  <2>1. put + 1 \in Tasks
    BY <1>1 DEF QueueInv, TypeOK, Tasks
  <2> QED BY <2>1, <1>2
<1>15. Fresh'
  BY <1>1, <1>3, <1>4, <1>5, <1>13, <1>14 DEF QueueInv, Fresh
<1>16. Loop'
  BY <1>1, <1>3, <1>4, <1>6, <1>7, <1>13 DEF QueueInv, Loop, TypeOK
<1>17. Own' = Own \cup {n}
  BY <1>1, <1>13 DEF Own
<1>18. Allocated'
  BY <1>1, <1>3, <1>17 DEF QueueInv, Allocated
<1> QED BY <1>2, <1>8, <1>11, <1>12, <1>15, <1>16, <1>18 DEF QueueInv

\* The exchange gives the node the place after the last.
LEMMA ExchangeStep ==
  ASSUME QueueInv, NEW p \in Producers, Exchange(p)
  PROVE  QueueInv'
<1> PICK n : n = node[p]
  OBVIOUS
<1> PICK L : L = Len(chain)
  OBVIOUS
<1>1. /\ pc[p] = "exchange" /\ pc' = [pc EXCEPT ![p] = "link"]
      /\ head' = n /\ prevhead' = [prevhead EXCEPT ![p] = head]
      /\ chain' = Append(chain, n)
      /\ UNCHANGED <<tail, main, found, output, next, data, heap, node, put,
                     woken>>
  BY DEF Exchange, SwapHead, Producer, consumerVars
<1>2. /\ n \in Nodes /\ n # tail /\ next[n] = Null /\ data[n] # Null
      /\ \A i \in Places : At(i) # n
      /\ \A q \in Producers \ {p} : pc[q] = "exchange" => node[q] # n
  BY <1>1 DEF QueueInv, Fresh
<1>3. TypeOK'
  BY <1>1, <1>2 DEF QueueInv, TypeOK
<1>4. /\ L \in Nat
      /\ \A i \in 1..L : i \in Places /\ chain[i] = At(i + 1)
      /\ \A i \in 1..L : i + 1 \in Places
      /\ \A i \in Places : At(i) \in Nodes
      /\ L + 1 \in Places
  BY AtNode DEF QueueInv, Places, At
<1>5. /\ Len(chain') = L + 1
      /\ \A i \in 1..L : chain'[i] = chain[i]
      /\ chain'[L + 1] = n
  BY <1>1, <1>2 DEF QueueInv, TypeOK
<1>6. Dummy' = Dummy /\ Places' = Places \cup {L + 2}
  BY <1>1, <1>4, <1>5 DEF Dummy, Places
<1>7. (\A i \in Places : At(i)' = At(i)) /\ At(L + 2)' = n
  BY <1>4, <1>5, <1>6 DEF At, Places
<1>8. Apart'
  <2>1. \A i, j \in Places' : At(i)' = At(j)' => i = j
    BY <1>2, <1>6, <1>7 DEF QueueInv, Apart
  <2>2. At(L + 2)' = head'
    BY <1>1, <1>7
  <2>3. next'[head'] = Null
    BY <1>1, <1>2
  <2>4. Len(chain') + 1 = L + 2
    BY <1>4, <1>5
  <2> QED BY <2>1, <2>2, <2>3, <2>4 DEF Apart
<1>9. /\ At(L + 1) = head /\ next[head] = Null
      /\ pc'[p] = "link" /\ prevhead'[p] = head /\ node'[p] = n
      /\ \A q \in Producers \ {p} : prevhead'[q] = prevhead[q] /\ pc'[q] = pc[q]
  BY <1>1 DEF QueueInv, Apart, TypeOK
<1>10. Linked'
  <2>1. ASSUME NEW i \in 1..L
        PROVE  \/ next'[At(i)'] = chain'[i]
               \/ /\ next'[At(i)'] = Null
                  /\ \E q \in Producers :
                       pc'[q] = "link" /\ prevhead'[q] = At(i)'
                         /\ node'[q] = chain'[i]
    <3>1. At(i)' = At(i) /\ chain'[i] = chain[i] /\ next' = next
      BY <1>1, <1>4, <1>5, <1>7
    <3>2. CASE next[At(i)] = chain[i]
      BY <3>1, <3>2
    <3>3. CASE next[At(i)] # chain[i]
      <4>1. /\ next[At(i)] = Null
            /\ \E q \in Producers :
                 pc[q] = "link" /\ prevhead[q] = At(i) /\ node[q] = chain[i]
        BY <3>3 DEF QueueInv, Linked
      <4>2. PICK q \in Producers :
              pc[q] = "link" /\ prevhead[q] = At(i) /\ node[q] = chain[i]
        BY <4>1
      <4>3. q # p
        BY <1>1, <4>2
      <4> QED BY <1>1, <1>9, <3>1, <4>1, <4>2, <4>3
    <3> QED BY <3>2, <3>3
  <2>2. /\ next'[At(L + 1)'] = Null /\ prevhead'[p] = At(L + 1)'
        /\ pc'[p] = "link" /\ node'[p] = chain'[L + 1]
    BY <1>1, <1>4, <1>5, <1>7, <1>9
  <2>3. \A i \in 1..Len(chain') : i \in 1..L \/ i = L + 1
    BY <1>4, <1>5
  <2> QED BY <2>1, <2>2, <2>3 DEF Linked
<1>11. Linking'
  <2>1. \A i \in 1..L : At(i) # head
    BY <1>4, <1>9 DEF QueueInv, Apart
  <2>2. ASSUME NEW q \in Producers \ {p}, pc'[q] = "link"
        PROVE  /\ \E i \in 1..Len(chain') :
                    /\ prevhead'[q] = At(i)' /\ node'[q] = chain'[i]
                    /\ next'[At(i)'] = Null
               /\ prevhead'[q] # head
    <3>1. pc[q] = "link" /\ prevhead'[q] = prevhead[q] /\ node'[q] = node[q]
      BY <1>1, <1>9, <2>2
    <3>2. PICK i \in 1..L : /\ prevhead[q] = At(i) /\ node[q] = chain[i]
                            /\ next[At(i)] = Null
      BY <3>1 DEF QueueInv, Linking
    <3>3. i \in 1..Len(chain') /\ At(i)' = At(i) /\ chain'[i] = chain[i]
      BY <1>4, <1>5, <1>7
    <3> QED BY <1>1, <2>1, <3>1, <3>2, <3>3
  <2>3. /\ L + 1 \in 1..Len(chain')
        /\ prevhead'[p] = At(L + 1)' /\ node'[p] = chain'[L + 1]
        /\ next'[At(L + 1)'] = Null
    BY <1>1, <1>4, <1>5, <1>7, <1>9
  <2>4. ASSUME NEW q \in Producers, NEW r \in Producers \ {q},
               pc'[q] = "link", pc'[r] = "link"
        PROVE  prevhead'[q] # prevhead'[r]
    <3>1. CASE q = p
      BY <1>9, <2>2, <2>4, <3>1
    <3>2. CASE r = p
      BY <1>9, <2>2, <2>4, <3>2
    <3>3. CASE q # p /\ r # p
      BY <1>9, <2>4, <3>3 DEF QueueInv, Linking
    <3> QED BY <3>1, <3>2, <3>3
  <2> QED BY <2>2, <2>3, <2>4 DEF Linking
<1>12. Fresh'
  <2> SUFFICES ASSUME NEW q \in Producers, pc'[q] = "exchange"
               PROVE  /\ node'[q] \in Nodes /\ node'[q] # tail'
                      /\ next'[node'[q]] = Null /\ data'[node'[q]] # Null
                      /\ \A i \in Places' : At(i)' # node'[q]
                      /\ \A r \in Producers \ {q} :
                           pc'[r] = "exchange" => node'[r] # node'[q]
    BY DEF Fresh
  <2>1. q # p /\ pc[q] = "exchange"
    BY <1>9
  <2>2. \A r \in Producers \ {q} : pc'[r] = "exchange" => pc[r] = "exchange"
    BY <1>9
  <2>3. \A i \in Places' : At(i)' # node[q]
    BY <1>2, <1>6, <1>7, <2>1 DEF QueueInv, Fresh
  <2> QED BY <1>1, <2>1, <2>2, <2>3 DEF QueueInv, Fresh
<1>13. Loop'
  <2>1. \A i \in 1..Len(chain') : data'[chain'[i]] # Null
    <3>1. \A i \in 1..Len(chain') : i \in 1..L \/ i = L + 1
      BY <1>4, <1>5
    <3> QED BY <1>1, <1>2, <1>5, <3>1 DEF QueueInv, Loop
  <2>2. main' = "take" =>
          chain' # <<>> /\ found' = chain'[1] /\ next'[tail'] = found'
    <3>1. chain # <<>> => 1 \in 1..L
      BY <1>4 DEF QueueInv, TypeOK
    <3>2. chain' # <<>>
      BY <1>1, <1>4, <1>5
    <3> QED BY <1>1, <1>5, <3>1, <3>2 DEF QueueInv, Loop
  <2>3. main' = "advance" =>
          found' \in Nodes /\ \A i \in Places' : At(i)' # tail'
    BY <1>1, <1>2, <1>6, <1>7 DEF QueueInv, Loop
  <2> QED BY <2>1, <2>2, <2>3 DEF Loop
<1>14. Allocated'
  <2>1. Own = Own' \cup {n}
    BY <1>1, <1>9 DEF Own
  <2>2. {At(i)' : i \in Places'} = {At(i) : i \in Places} \cup {n}
    BY <1>6, <1>7
  <2> QED BY <1>1, <2>1, <2>2 DEF QueueInv, Allocated
<1> QED BY <1>3, <1>8, <1>10, <1>11, <1>12, <1>13, <1>14 DEF QueueInv

\* The link is set where it was missing, and nowhere else.
LEMMA LinkStep ==
  ASSUME QueueInv, NEW p \in Producers, Link(p)
  PROVE  QueueInv'
<1> USE QueueAssumption DEF QueueAssumption
<1>1. /\ pc[p] = "link" /\ pc' = [pc EXCEPT ![p] = "wake"]
      /\ next' = [next EXCEPT ![prevhead[p]] = node[p]]
      /\ UNCHANGED <<tail, main, found, output, head, data, heap, node,
                     prevhead, put, woken, chain>>
  BY DEF Link, LinkNode, Producer, consumerVars
<1>2. PICK k \in 1..Len(chain) :
        prevhead[p] = At(k) /\ node[p] = chain[k] /\ next[At(k)] = Null
  BY <1>1 DEF QueueInv, Linking
<1>3. /\ Len(chain) \in Nat
      /\ \A i \in 1..Len(chain) : i \in Places /\ chain[i] = At(i + 1)
      /\ \A i \in 1..Len(chain) : i + 1 \in Places
      /\ \A i \in Places : At(i) \in Nodes
      /\ Len(chain) + 1 \in Places
  BY AtNode DEF QueueInv, Places, At
<1>4. TypeOK'
  BY <1>1, <1>2, <1>3 DEF QueueInv, TypeOK
<1>5. Dummy' = Dummy /\ Places' = Places /\ \A i : At(i)' = At(i)
  BY <1>1 DEF Dummy, Places, At
<1>6. /\ next'[At(k)] = chain[k]
      /\ \A m \in Nodes : m # At(k) => next'[m] = next[m]
      /\ \A i \in Places : i # k => At(i) # At(k)
      /\ \A q \in Producers \ {p} : pc'[q] = pc[q]
      /\ pc'[p] = "wake"
  BY <1>1, <1>2, <1>3 DEF QueueInv, TypeOK, Apart
<1>7. Apart'
  BY <1>1, <1>2, <1>3, <1>5, <1>6 DEF QueueInv, Apart
<1>8. Linked'
  <2> SUFFICES ASSUME NEW i \in 1..Len(chain), i # k
               PROVE  \/ next'[At(i)] = chain[i]
                      \/ /\ next'[At(i)] = Null
                         /\ \E q \in Producers :
                              pc'[q] = "link" /\ prevhead[q] = At(i)
                                /\ node[q] = chain[i]
    BY <1>1, <1>5, <1>6 DEF Linked
  <2>1. next'[At(i)] = next[At(i)] /\ At(i) # At(k)
    BY <1>3, <1>6
  <2> QED BY <1>2, <1>6, <2>1 DEF QueueInv, Linked
<1>9. Linking'
  <2>1. ASSUME NEW q \in Producers, pc'[q] = "link"
        PROVE  /\ \E i \in 1..Len(chain) : /\ prevhead[q] = At(i)
                                           /\ node[q] = chain[i]
                                           /\ next'[At(i)] = Null
               /\ \A r \in Producers \ {q} :
                    pc'[r] = "link" => prevhead[r] # prevhead[q]
    <3>1. q # p /\ pc[q] = "link" /\ prevhead[q] # At(k)
      BY <1>1, <1>2, <1>6, <2>1 DEF QueueInv, Linking
    <3>2. PICK i \in 1..Len(chain) :
            prevhead[q] = At(i) /\ node[q] = chain[i] /\ next[At(i)] = Null
      BY <3>1 DEF QueueInv, Linking
    <3>3. next'[At(i)] = Null
      BY <1>3, <1>6, <3>1, <3>2
    <3> QED BY <1>6, <3>1, <3>2, <3>3 DEF QueueInv, Linking
  <2> QED BY <1>1, <1>5, <2>1 DEF Linking
<1>10. Fresh'
  BY <1>1, <1>3, <1>5, <1>6 DEF QueueInv, Fresh
<1>11. Loop'
  <2>1. main = "take" => At(1) = tail /\ next[tail] # Null
    BY AtNode DEF QueueInv, Loop, At, Dummy
  <2>2. main = "take" => next'[tail] = next[tail]
    BY <1>2, <1>6, <2>1 DEF QueueInv, TypeOK
  <2> QED BY <1>1, <1>5, <2>2 DEF QueueInv, Loop
<1>12. Allocated'
  <2>1. Own' = Own
    BY <1>1, <1>6 DEF Own
  <2> QED BY <1>1, <1>5, <2>1 DEF QueueInv, Allocated
<1> QED BY <1>4, <1>7, <1>8, <1>9, <1>10, <1>11, <1>12 DEF QueueInv

\* The producer is done: it holds no node.
LEMMA WakeStep ==
  ASSUME QueueInv, NEW p \in Producers, Wake(p)
  PROVE  QueueInv'
<1>1. /\ pc[p] = "wake" /\ pc' = [pc EXCEPT ![p] = "idle"]
      /\ node' = [node EXCEPT ![p] = Null]
      /\ prevhead' = [prevhead EXCEPT ![p] = Null]
      /\ woken' = TRUE
      /\ UNCHANGED <<tail, main, found, output, head, next, data, heap, put,
                     chain>>
  BY DEF Wake, Producer, consumerVars
<1>2. TypeOK'
  BY <1>1 DEF QueueInv, TypeOK
<1>3. Dummy' = Dummy /\ Places' = Places /\ \A i : At(i)' = At(i)
  BY <1>1 DEF Dummy, Places, At
<1>4. /\ pc'[p] = "idle"
      /\ \A q \in Producers \ {p} :
           pc'[q] = pc[q] /\ node'[q] = node[q] /\ prevhead'[q] = prevhead[q]
  BY <1>1 DEF QueueInv, TypeOK
<1>5. Apart'
  BY <1>1, <1>3 DEF QueueInv, Apart
<1>6. Linked'
  BY <1>1, <1>3, <1>4 DEF QueueInv, Linked
<1>7. Linking'
  BY <1>1, <1>3, <1>4 DEF QueueInv, Linking
<1>8. Fresh'
  BY <1>1, <1>3, <1>4 DEF QueueInv, Fresh
<1>9. Loop'
  BY <1>1, <1>3 DEF QueueInv, Loop
<1>10. Allocated'
  <2>1. Own' = Own
    BY <1>1, <1>4 DEF Own
  <2> QED BY <1>1, <1>3, <2>1 DEF QueueInv, Allocated
<1> QED BY <1>2, <1>5, <1>6, <1>7, <1>8, <1>9, <1>10 DEF QueueInv

\* A step that moves neither the list nor the producers keeps all but where
\* the loop is.
LEMMA ListKept ==
  ASSUME QueueInv, TypeOK', Loop',
         UNCHANGED <<producerVars, tail, next, data, heap, chain>>,
         main # "advance", main' # "advance"
  PROVE  QueueInv'
<1>1. /\ Dummy' = Dummy /\ Places' = Places /\ Own' = Own
      /\ \A i : At(i)' = At(i)
  BY DEF Dummy, Places, At, Own, producerVars
<1>2. Apart' /\ Linked' /\ Linking' /\ Fresh' /\ Allocated'
  BY <1>1
  DEF QueueInv, Apart, Linked, Linking, Fresh, Allocated, producerVars
<1> QED BY <1>2 DEF QueueInv

\* The loop looks for a next node: if there is one, it is the first of the
\* chain.
LEMMA LookStep ==
  ASSUME QueueInv, Poll \/ Empty \/ Load
  PROVE  QueueInv'
<1> USE DEF Main
<1>1. /\ UNCHANGED <<producerVars, tail, next, data, heap, chain>>
      /\ main # "advance" /\ main' # "advance"
  BY DEF Poll, Empty, Load, LoadNext
<1>2. TypeOK'
  BY DEF QueueInv, TypeOK, Poll, Empty, Load, LoadNext, producerVars
<1>3. Loop'
  <2>1. main' = "take" => Load /\ next[tail] # Null /\ found' = next[tail]
    BY DEF Poll, Empty, Load, LoadNext
  <2>2. At(1) = tail
    BY <1>1 DEF At, Dummy
  <2>3. next[tail] # Null => chain # <<>> /\ next[tail] = chain[1]
    <3>1. Len(chain) \in Nat
      BY AtNode DEF QueueInv
    <3>2. CASE Len(chain) = 0
      BY <2>2, <3>2 DEF QueueInv, Apart
    <3>3. CASE Len(chain) # 0
      BY <2>2, <3>1, <3>3 DEF QueueInv, Linked
    <3> QED BY <3>2, <3>3
  <2> QED BY <1>1, <2>1, <2>3 DEF QueueInv, Loop
<1> QED BY <1>1, <1>2, <1>3, ListKept

\* The first task leaves the chain, and its node takes the place of the one
\* before it.
LEMMA TakeStep ==
  ASSUME QueueInv, Take
  PROVE  QueueInv'
<1>1. /\ main = "take" /\ main' = "advance"
      /\ output' = data[found] /\ data' = [data EXCEPT ![found] = Null]
      /\ chain' = Tail(chain)
      /\ UNCHANGED <<head, pc, node, prevhead, put, tail, found, next, heap,
                     woken>>
  BY DEF Take, Main, producerVars
<1>2. /\ chain # <<>> /\ found = chain[1] /\ next[tail] = found
      /\ found \in Nodes /\ data[found] \in Tasks /\ found # Null
  <2>1. chain # <<>> /\ found = chain[1] /\ next[tail] = found
    BY <1>1 DEF QueueInv, Loop
  <2>2. 1 \in 1..Len(chain)
    BY <2>1 DEF QueueInv, TypeOK
  <2>3. found \in Nodes /\ data[found] # Null
    BY <2>1, <2>2 DEF QueueInv, TypeOK, Loop
  <2> QED BY <2>1, <2>3, QueueAssumption DEF QueueInv, TypeOK, QueueAssumption
<1> PICK L : L = Len(chain)
  OBVIOUS
<1>3. /\ L \in Nat /\ L >= 1 /\ chain' \in Seq(Nodes)
      /\ Len(chain') = L - 1
      /\ \A i \in 1..(L - 1) : chain'[i] = chain[i + 1]
  BY <1>1, <1>2 DEF QueueInv, TypeOK
<1>4. TypeOK'
  BY <1>1, <1>2, <1>3 DEF QueueInv, TypeOK
<1>5. /\ Dummy = tail /\ Dummy' = found /\ Places' = 1..L /\ At(1) = tail
  BY <1>1, <1>3 DEF Dummy, Places, At
<1>6. \A i \in 1..L : At(i)' = At(i + 1)
  <2> TAKE i \in 1..L
  <2>1. CASE i = 1
    BY <1>2, <1>5, <2>1 DEF At
  <2>2. CASE i # 1
    <3>1. i - 1 \in 1..(L - 1) /\ i + 1 # 1 /\ (i + 1) - 1 = (i - 1) + 1
      BY <1>3, <2>2
    <3>2. At(i)' = chain'[i - 1] /\ At(i + 1) = chain[(i + 1) - 1]
      BY <2>2, <3>1 DEF At
    <3> QED BY <1>3, <3>1, <3>2
  <2> QED BY <2>1, <2>2
<1>7. /\ \A i \in 1..L : i + 1 \in Places /\ i \in Places
      /\ \A i \in Places : At(i) \in Nodes
      /\ \A i \in 1..(L - 1) : i + 1 \in 1..L
  BY AtNode, <1>3 DEF QueueInv, Places
<1>8. Apart'
  <2>1. \A i, j \in Places' : At(i)' = At(j)' => i = j
    <3> TAKE i, j \in Places'
    <3>1. i + 1 \in Places /\ j + 1 \in Places /\ i \in 1..L /\ j \in 1..L
      BY <1>5, <1>7
    <3>2. At(i + 1) = At(j + 1) => i + 1 = j + 1
      BY <3>1 DEF QueueInv, Apart
    <3> QED BY <1>3, <1>6, <3>1, <3>2
  <2>2. L \in 1..L /\ Len(chain') + 1 = L
    BY <1>3
  <2>3. At(L)' = head'
    BY <1>1, <1>6, <2>2 DEF QueueInv, Apart
  <2>4. next'[head'] = Null
    BY <1>1 DEF QueueInv, Apart
  <2> QED BY <2>1, <2>2, <2>3, <2>4 DEF Apart
<1>9. Linked'
  <2> SUFFICES ASSUME NEW i \in 1..(L - 1)
               PROVE  \/ next[At(i + 1)] = chain[i + 1]
                      \/ /\ next[At(i + 1)] = Null
                         /\ \E p \in Producers :
                              pc[p] = "link" /\ prevhead[p] = At(i + 1)
                                /\ node[p] = chain[i + 1]
    BY <1>1, <1>3, <1>6 DEF Linked
  <2> QED BY <1>7 DEF QueueInv, Linked
<1>10. Linking'
  <2>1. ASSUME NEW p \in Producers, pc[p] = "link"
        PROVE  \E i \in 1..(L - 1) : /\ prevhead[p] = At(i)'
                                     /\ node[p] = chain'[i]
                                     /\ next[At(i)'] = Null
    <3>1. PICK i \in 1..L :
            prevhead[p] = At(i) /\ node[p] = chain[i] /\ next[At(i)] = Null
      BY <2>1 DEF QueueInv, Linking
    <3>2. i # 1
      BY <1>2, <1>5, <3>1
    <3> PICK j : j = i - 1
      OBVIOUS
    <3>3. j \in 1..(L - 1) /\ j + 1 = i /\ j \in 1..L
      BY <1>3, <3>2
    <3>4. At(j)' = At(i) /\ chain'[j] = chain[i]
      BY <1>3, <1>6, <3>3
    <3> QED BY <3>1, <3>3, <3>4
  <2> QED BY <1>1, <1>3, <2>1 DEF QueueInv, Linking
<1>11. \A i \in 1..L : At(i)' # tail
  <2> TAKE i \in 1..L
  <2>1. i + 1 \in Places /\ 1 \in Places /\ i + 1 # 1
    BY <1>3, <1>7
  <2> QED BY <1>5, <1>6, <2>1 DEF QueueInv, Apart
<1>12. Fresh'
  <2> SUFFICES ASSUME NEW p \in Producers, pc[p] = "exchange"
               PROVE  /\ data'[node[p]] # Null
                      /\ \A i \in 1..L : At(i)' # node[p]
    BY <1>1, <1>5 DEF QueueInv, Fresh
  <2>1. \A i \in Places : At(i) # node[p]
    BY DEF QueueInv, Fresh
  <2>2. found = At(1)' /\ 1 \in 1..L
    BY <1>3, <1>5 DEF At
  <2>3. node[p] # found
    BY <1>6, <1>7, <2>1, <2>2
  <2>4. data'[node[p]] = data[node[p]]
    BY <1>1, <2>3 DEF QueueInv, TypeOK, Fresh
  <2> QED BY <1>6, <1>7, <2>1, <2>4 DEF QueueInv, Fresh
<1>13. Loop'
  <2>1. \A i \in 1..(L - 1) : data'[chain'[i]] # Null
    <3> TAKE i \in 1..(L - 1)
    <3>1. /\ i + 1 \in 1..L /\ (i + 1) + 1 \in Places /\ 2 \in Places
          /\ (i + 1) + 1 # 2
      BY <1>3, <1>7
    <3>2. chain'[i] = chain[i + 1]
      BY <1>3
    <3>3. chain[i + 1] = At((i + 1) + 1) /\ chain[1] = At(2)
      BY <1>3 DEF At
    <3>4. chain[i + 1] # found
      BY <1>2, <3>1, <3>3 DEF QueueInv, Apart
    <3> QED BY <1>1, <1>7, <3>1, <3>2, <3>3, <3>4 DEF QueueInv, TypeOK, Loop
  <2> QED BY <1>1, <1>2, <1>3, <1>5, <1>11, <2>1 DEF Loop
<1>14. Allocated'
  <2>1. Own' = Own
    BY <1>1 DEF Own
  <2>2. {At(i) : i \in Places} = {tail} \cup {At(i)' : i \in Places'}
    <3>1. \A i \in Places : i = 1 \/ (i - 1 \in 1..L /\ (i - 1) + 1 = i)
      BY <1>3 DEF Places
    <3>2. \A i \in Places : At(i) = tail \/ \E j \in 1..L : At(i) = At(j)'
      BY <1>5, <1>6, <3>1
    <3>3. 1 \in Places /\ At(1) = tail
      BY <1>3, <1>5 DEF Places
    <3> QED BY <1>5, <1>6, <1>7, <3>2, <3>3
  <2> QED BY <1>1, <2>1, <2>2 DEF QueueInv, Allocated
<1> QED BY <1>4, <1>8, <1>9, <1>10, <1>12, <1>13, <1>14 DEF QueueInv

\* The node whose successor was taken is in no list and nobody's own: it is
\* freed.
LEMMA AdvanceStep ==
  ASSUME QueueInv, Advance
  PROVE  QueueInv'
<1>1. /\ main = "advance" /\ main' = "load"
      /\ tail' = found /\ heap' = heap \ {tail} /\ found' = Null
      /\ UNCHANGED <<head, pc, node, prevhead, put, output, next, data, woken,
                     chain>>
  BY DEF Advance, AdvanceTo, Main, producerVars
<1>2. found \in Nodes /\ \A i \in Places : At(i) # tail
  BY <1>1 DEF QueueInv, Loop
<1>3. TypeOK'
  BY <1>1, <1>2 DEF QueueInv, TypeOK
<1>4. /\ Dummy = found /\ Dummy' = found /\ Places' = Places /\ Own' = Own
      /\ \A i : At(i)' = At(i)
  BY <1>1 DEF Dummy, Places, At, Own
<1>5. found = At(1) /\ 1 \in Places
  BY <1>4, AtNode DEF QueueInv, At, Places
<1>6. Apart' /\ Linked' /\ Linking'
  BY <1>1, <1>4 DEF QueueInv, Apart, Linked, Linking
<1>7. Fresh'
  BY <1>1, <1>4, <1>5 DEF QueueInv, Fresh
<1>8. Loop'
  BY <1>1 DEF QueueInv, Loop
<1>9. Allocated'
  <2>1. tail \notin Own
    BY DEF QueueInv, Fresh, Own
  <2>2. tail \notin {At(i) : i \in Places} /\ found \in {At(i) : i \in Places}
    BY <1>2, <1>5
  <2> QED BY <1>1, <1>4, <2>1, <2>2 DEF QueueInv, Allocated
<1> QED BY <1>3, <1>6, <1>7, <1>8, <1>9 DEF QueueInv

(***************************************************************************)
(* The invariant holds always, and what follows from it.                   *)
(***************************************************************************)
LEMMA QueueInvInit == Init => QueueInv
<1> SUFFICES ASSUME Init PROVE QueueInv
  OBVIOUS
<1>1. /\ chain = <<>> /\ Len(chain) = 0 /\ Places = {1} /\ Own = {}
      /\ At(1) = head /\ tail = head /\ Dummy = head
  BY DEF Init, Places, Own, At, Dummy
<1>2. TypeOK
  <2> USE QueueAssumption DEF QueueAssumption, Init
  <2>1. chain \in Seq(Nodes) /\ put \in 0..MaxTasks
    OBVIOUS
  <2>2. /\ next \in [Nodes -> Nodes \cup {Null}]
        /\ data \in [Nodes -> Tasks \cup {Null}]
    OBVIOUS
  <2>3. /\ pc \in [Producers -> {"idle", "exchange", "link", "wake"}]
        /\ node \in [Producers -> Nodes \cup {Null}]
        /\ prevhead \in [Producers -> Nodes \cup {Null}]
    OBVIOUS
  <2> QED BY <2>1, <2>2, <2>3 DEF TypeOK
<1> QED BY <1>1, <1>2 DEF Init, QueueInv, Apart, Linked, Linking, Fresh,
  Loop, Allocated

\* Every step keeps the invariant.
LEMMA QueueInvStep == QueueInv /\ [Next]_vars => QueueInv'
<1> SUFFICES ASSUME QueueInv, [Next]_vars PROVE QueueInv'
  OBVIOUS
<1>1. ASSUME NEW p \in Producers, New(p) PROVE QueueInv'
  BY <1>1, NewStep
<1>2. ASSUME NEW p \in Producers, PutNext(p) PROVE QueueInv'
  BY <1>2, ExchangeStep, LinkStep, WakeStep DEF PutNext
<1>3. CASE LoopNext
  BY <1>3, LookStep, TakeStep, AdvanceStep DEF LoopNext
<1>4. CASE UNCHANGED vars
  <2>1. /\ Dummy' = Dummy /\ Places' = Places /\ Own' = Own
        /\ \A i : At(i)' = At(i)
    BY <1>4 DEF vars, producerVars, consumerVars, Dummy, Places, At, Own
  <2> QED BY <1>4, <2>1 DEF vars, producerVars, consumerVars, QueueInv, TypeOK,
    Apart, Linked, Linking, Fresh, Loop, Allocated
<1> QED BY <1>1, <1>2, <1>3, <1>4 DEF Next

LEMMA QueueInvariant == Spec => []QueueInv
<1> QED BY QueueInvInit, QueueInvStep, PTL DEF Spec

\* Every variable stays within its range.
THEOREM TypeCorrect == Spec => []TypeOK
<1>1. QueueInv => TypeOK
  BY DEF QueueInv
<1> QED BY <1>1, QueueInvariant, PTL

\* The list is whole whatever the producers and the loop have done, and
\* nothing leaks.
THEOREM ListStaysIntact == Spec => []ListIntact
<1>1. QueueInv => ListIntact
  <2> SUFFICES ASSUME QueueInv PROVE ListIntact
    OBVIOUS
  <2>1. /\ Len(chain) \in Nat /\ Len(Line) = Len(chain) + 1
        /\ \A i \in Places : Line[i] = At(i)
    BY AtNode, LineIsAt DEF QueueInv
  <2>2. \A i \in 1..Len(chain) : i \in Places
    BY <2>1 DEF Places
  <2>3. Len(chain) + 1 \in Places /\ 1..Len(Line) = Places
    BY <2>1 DEF Places
  <2>4. \A i \in 1..Len(chain) :
         \/ next[Line[i]] = chain[i]
         \/ /\ next[Line[i]] = Null
            /\ \E p \in Producers :
                 pc[p] = "link" /\ prevhead[p] = Line[i] /\ node[p] = chain[i]
    BY <2>1, <2>2 DEF QueueInv, Linked
  <2>5. {Line[i] : i \in 1..Len(Line)} = {At(i) : i \in Places}
    BY <2>1, <2>3
  <2> QED BY <2>1, <2>3, <2>4, <2>5
    DEF QueueInv, Apart, Allocated, Own, ListIntact
<1> QED BY <1>1, QueueInvariant, PTL

\* No thread touches a node that was freed, although an address that was
\* freed is allocated again and a producer keeps the one it found.
THEOREM NoFreedNodeIsUsed == Spec => []NoUseAfterFree
<1>1. QueueInv => NoUseAfterFree
  <2> SUFFICES ASSUME QueueInv PROVE NoUseAfterFree
    OBVIOUS
  <2>1. /\ \A i \in Places : At(i) \in heap
        /\ tail \in heap
    BY DEF QueueInv, Allocated
  <2>2. /\ \A i \in 1..Len(chain) : i \in Places /\ chain[i] = At(i + 1)
        /\ \A i \in 1..Len(chain) : i + 1 \in Places
        /\ Len(chain) + 1 \in Places /\ Len(chain) \in Nat
    BY AtNode DEF QueueInv, Places, At
  <2>3. {head, tail} \subseteq heap
    BY <2>1, <2>2 DEF QueueInv, Apart
  <2>4. ASSUME NEW p \in Producers, pc[p] = "link"
        PROVE  /\ prevhead[p] \in heap /\ next[prevhead[p]] = Null
               /\ \A q \in Producers \ {p} :
                    pc[q] = "link" => prevhead[q] # prevhead[p]
    BY <2>1, <2>2, <2>4 DEF QueueInv, Linking
  <2>5. main = "take" => found \in heap /\ data[found] # Null
    <3> SUFFICES ASSUME main = "take" PROVE found \in heap /\ data[found] # Null
      OBVIOUS
    <3>1. chain # <<>> /\ found = chain[1]
      BY DEF QueueInv, Loop
    <3>2. 1 \in 1..Len(chain)
      BY <2>2, <3>1 DEF QueueInv, TypeOK
    <3> QED BY <2>1, <2>2, <3>1, <3>2 DEF QueueInv, Loop
  <2> QED BY <2>3, <2>4, <2>5 DEF NoUseAfterFree
<1> QED BY <1>1, QueueInvariant, PTL

(***************************************************************************)
(* The list is a queue.                                                    *)
(***************************************************************************)
\* The tasks of the chain: what TaskQueue calls waiting.
Waiting == [i \in 1..Len(chain) |-> data[chain[i]]]

LEMMA WaitingTasks ==
  ASSUME QueueInv
  PROVE  /\ Waiting \in Seq(Tasks)
         /\ Len(chain) \in Nat
         /\ Len(Waiting) = Len(chain)
         /\ \A i \in 1..Len(chain) : /\ Waiting[i] = data[chain[i]]
                                     /\ chain[i] \in Nodes
                                     /\ chain[i] = At(i + 1)
                                     /\ i + 1 \in Places
<1>1. Len(chain) \in Nat /\ \A i \in 1..Len(chain) : chain[i] \in Nodes
  BY AtNode DEF QueueInv
<1>2. \A i \in 1..Len(chain) : data[chain[i]] \in Tasks
  BY <1>1 DEF QueueInv, TypeOK, Loop
<1>3. \A i \in 1..Len(chain) : chain[i] = At(i + 1) /\ i + 1 \in Places
  BY <1>1 DEF Places, At
<1> QED BY <1>1, <1>2, <1>3 DEF Waiting

\* Where the chain and its data stay, the queue stays.
LEMMA WaitingKept ==
  ASSUME QueueInv, chain' = chain, output' = output,
         \A i \in 1..Len(chain) : data'[chain[i]] = data[chain[i]]
  PROVE  UNCHANGED <<Waiting, output>>
BY DEF Waiting

\* An exchange puts a task.
LEMMA ExchangePuts ==
  ASSUME QueueInv, NEW p \in Producers, Exchange(p)
  PROVE  /\ \E x \in Tasks : Waiting' = Append(Waiting, x)
         /\ UNCHANGED output
<1> PICK n : n = node[p]
  OBVIOUS
<1> PICK L : L = Len(chain)
  OBVIOUS
<1>1. /\ chain' = Append(chain, n) /\ data' = data /\ output' = output
      /\ n \in Nodes /\ data[n] \in Tasks
  BY DEF Exchange, SwapHead, Producer, consumerVars, QueueInv, Fresh, TypeOK
<1>2. /\ L \in Nat /\ Len(chain') = L + 1
      /\ \A i \in 1..L : chain'[i] = chain[i]
      /\ chain'[L + 1] = n
  BY <1>1 DEF QueueInv, TypeOK
<1>3. Waiting' = [i \in 1..(L + 1) |-> data[chain'[i]]]
  BY <1>1, <1>2 DEF Waiting
<1>4. /\ Append(Waiting, data[n]) \in Seq(Tasks)
      /\ Len(Append(Waiting, data[n])) = L + 1
      /\ \A i \in 1..L : Append(Waiting, data[n])[i] = Waiting[i]
      /\ Append(Waiting, data[n])[L + 1] = data[n]
  BY <1>1, WaitingTasks
<1>5. Append(Waiting, data[n]) =
        [i \in 1..(L + 1) |-> Append(Waiting, data[n])[i]]
  BY <1>4
<1>6. \A i \in 1..(L + 1) :
        Append(Waiting, data[n])[i] = data[chain'[i]]
  BY <1>1, <1>2, <1>4, WaitingTasks
<1>7. Waiting' = Append(Waiting, data[n])
  BY <1>3, <1>5, <1>6
<1> QED BY <1>1, <1>7

\* Take takes the task put first.
LEMMA TakeTakes ==
  ASSUME QueueInv, Take
  PROVE  /\ Waiting # <<>>
         /\ output' = Head(Waiting)
         /\ Waiting' = Tail(Waiting)
<1> PICK L : L = Len(chain)
  OBVIOUS
<1>1. /\ main = "take" /\ output' = data[found]
      /\ data' = [data EXCEPT ![found] = Null] /\ chain' = Tail(chain)
  BY DEF Take, Main
<1>2. chain # <<>> /\ found = chain[1]
  BY <1>1 DEF QueueInv, Loop
<1>3. /\ L \in Nat /\ L >= 1 /\ Len(chain') = L - 1
      /\ \A i \in 1..(L - 1) : chain'[i] = chain[i + 1]
  BY <1>1, <1>2 DEF QueueInv, TypeOK
<1>4. \A i \in 2..L : chain[i] # found
  <2> TAKE i \in 2..L
  <2>1. i + 1 \in Places /\ 2 \in Places /\ chain[i] = At(i + 1)
        /\ chain[1] = At(2)
    BY <1>3, WaitingTasks DEF Places, At
  <2> QED BY <1>2, <1>3, <2>1 DEF QueueInv, Apart
<1>5. \A i \in 1..(L - 1) : data'[chain'[i]] = Waiting[i + 1]
  <2> TAKE i \in 1..(L - 1)
  <2>1. i + 1 \in 2..L /\ i + 1 \in 1..L
    BY <1>3
  <2> QED BY <1>1, <1>3, <1>4, <2>1, WaitingTasks DEF QueueInv, TypeOK
<1>6. Waiting' = [i \in 1..(L - 1) |-> data'[chain'[i]]]
  BY <1>3 DEF Waiting
<1>7. /\ Waiting \in Seq(Tasks) /\ Len(Waiting) = L /\ Waiting # <<>>
      /\ Head(Waiting) = Waiting[1]
  BY <1>3, WaitingTasks
<1>8. Tail(Waiting) = [i \in 1..(L - 1) |-> Waiting[i + 1]]
  <2>1. /\ Tail(Waiting) \in Seq(Tasks) /\ Len(Tail(Waiting)) = L - 1
        /\ \A i \in 1..(L - 1) : Tail(Waiting)[i] = Waiting[i + 1]
    BY <1>3, <1>7
  <2>2. Tail(Waiting) \in [1..(L - 1) -> Tasks]
    BY <2>1, LenProperties
  <2> QED BY <2>1, <2>2
<1>9. output' = Head(Waiting)
  BY <1>1, <1>2, <1>3, <1>7, WaitingTasks
<1> QED BY <1>5, <1>6, <1>7, <1>8, <1>9

\* Every step of the list is a step of the queue, or none.
LEMMA QueueStep ==
  QueueInv /\ [Next]_vars => [Queue!Next]_<<Waiting, output>>
<1> SUFFICES ASSUME QueueInv, [Next]_vars
             PROVE  \/ \E x \in Tasks : Waiting' = Append(Waiting, x)
                                          /\ UNCHANGED output
                    \/ /\ Waiting # <<>> /\ output' = Head(Waiting)
                       /\ Waiting' = Tail(Waiting)
                    \/ UNCHANGED <<Waiting, output>>
  BY DEF Queue!Next, Queue!Put, Queue!Take, Waiting
<1>1. ASSUME NEW p \in Producers, New(p) PROVE UNCHANGED <<Waiting, output>>
  <2>1. PICK n \in Nodes \ heap : data' = [data EXCEPT ![n] = put + 1]
    BY <1>1 DEF New
  <2>2. chain' = chain /\ output' = output
    BY <1>1 DEF New, Producer, consumerVars
  <2>3. \A i \in 1..Len(chain) : chain[i] \in heap
    BY WaitingTasks DEF QueueInv, Allocated
  <2>4. \A i \in 1..Len(chain) : data'[chain[i]] = data[chain[i]]
    BY <2>1, <2>3 DEF QueueInv, TypeOK
  <2> QED BY <2>2, <2>4, WaitingKept
<1>2. ASSUME NEW p \in Producers, Exchange(p)
      PROVE  \E x \in Tasks : Waiting' = Append(Waiting, x)
                                /\ UNCHANGED output
  BY <1>2, ExchangePuts
<1>3. ASSUME NEW p \in Producers, Link(p) \/ Wake(p)
      PROVE  UNCHANGED <<Waiting, output>>
  BY <1>3, WaitingKept DEF Link, LinkNode, Wake, Producer, consumerVars
<1>4. CASE Poll \/ Empty \/ Load \/ Advance
  BY <1>4, WaitingKept
    DEF Poll, Empty, Load, LoadNext, Advance, AdvanceTo, Main, producerVars
<1>5. CASE Take
  BY <1>5, TakeTakes
<1>6. CASE UNCHANGED vars
  BY <1>6, WaitingKept DEF vars, producerVars, consumerVars
<1> QED BY <1>1, <1>2, <1>3, <1>4, <1>5, <1>6 DEF Next, PutNext, LoopNext

\* Tasks run in the order of their exchanges, each once: the list of nodes
\* implements the queue.
THEOREM ListIsAQueue == Spec => ImplementsTaskQueue
<1>1. Init => Queue!Init
  BY DEF Init, Queue!Init
<1>2. QueueInv /\ [Next]_vars => [Queue!Next]_<<Waiting, output>>
  BY QueueStep
<1> QED BY <1>1, <1>2, QueueInvariant, PTL
  DEF Spec, ImplementsTaskQueue, Queue!Spec, Waiting
=============================================================================
