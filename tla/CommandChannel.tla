--------------------------- MODULE CommandChannel ---------------------------
(***************************************************************************)
(* What write_single_register promises to the code that commands the       *)
(* motor (ModBus::handleNewMessage, MotorTool::run): a call takes effect   *)
(* at most once, the calls of one caller in their order; the caller is     *)
(* told "ok" only if the value has reached the motor (Honest), and         *)
(* "refused" only if this call will never reach it.  "failed" promises     *)
(* nothing: the command may have taken effect, or may do so yet.           *)
(***************************************************************************)
EXTENDS Naturals, Sequences

CONSTANTS
  Callers,  \* threads that call
  Values,   \* what they write
  Ids,      \* numbers of calls, naturals
  Honest    \* a Boolean: whether "ok" is to be believed

VARIABLES
  last,     \* the number of the call each caller made last
  busy,     \* what each caller is writing, or "none"
  outcome,  \* how its last write ended
  pending,  \* commands that may take effect yet
  applied   \* commands that took effect, oldest first

vars == <<last, busy, outcome, pending, applied>>

Commands == [by : Callers, of : Values, id : Ids]

Init ==
  /\ last = [t \in Callers |-> 0]
  /\ busy = [t \in Callers |-> "none"]
  /\ outcome = [t \in Callers |-> "none"]
  /\ pending = {} /\ applied = <<>>

-----------------------------------------------------------------------------
\* Caller t starts something with a number of its own, a write of v or, with
\* "none", anything else; how its last write ended is forgotten.
Start(t, v) ==
  /\ busy[t] = "none"
  /\ \E n \in Ids :
       /\ \A u \in Callers : last[u] < n
       /\ last' = [last EXCEPT ![t] = n]
       /\ pending' = IF v \in Values
                     THEN pending \cup {[by |-> t, of |-> v, id |-> n]}
                     ELSE pending
  /\ busy' = [busy EXCEPT ![t] = v]
  /\ outcome' = [outcome EXCEPT ![t] = "none"]
  /\ UNCHANGED applied

Write(t, v) == v \in Values /\ Start(t, v)

Other(t) == Start(t, "none")

Reached(v) == \E i \in 1..Len(applied) : applied[i].of = v

Return(t, res) ==
  /\ busy[t] \in Values
  /\ res = "ok" /\ Honest => Reached(busy[t])
  /\ pending' = IF res = "refused"
                THEN {c \in pending : ~(c.by = t /\ c.id = last[t])}
                ELSE pending
  /\ res = "refused" =>
       \E c \in pending : c.by = t /\ c.id = last[t]
  /\ busy' = [busy EXCEPT ![t] = "none"]
  /\ outcome' = [outcome EXCEPT ![t] = res]
  /\ UNCHANGED <<last, applied>>

Oldest(c) == \A d \in pending : d.by = c.by => c.id <= d.id

TakeEffect ==
  /\ \E c \in pending :
       /\ Oldest(c)
       /\ pending' = pending \ {c}
       /\ applied' = Append(applied, c)
  /\ UNCHANGED <<last, busy, outcome>>

Lose ==
  /\ \E c \in pending : pending' = pending \ {c}
  /\ UNCHANGED <<last, busy, outcome, applied>>

Next ==
  \/ \E t \in Callers :
       \/ \E v \in Values : Write(t, v)
       \/ Other(t)
       \/ \E res \in {"ok", "failed", "refused"} : Return(t, res)
  \/ TakeEffect \/ Lose

Spec == Init /\ [][Next]_vars
=============================================================================
