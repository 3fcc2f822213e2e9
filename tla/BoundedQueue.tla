---------------------------- MODULE BoundedQueue ----------------------------
(***************************************************************************)
(* What the users of lfq_enqueue and lfq_dequeue rely on: a queue that any  *)
(* number of processes use at once, as if each operation took effect at one *)
(* moment between its call and its return.  A dequeue may report that the   *)
(* queue is empty if it was, at some moment of the call; an enqueue may     *)
(* report that it is full if, at some moment of the call, its entries and   *)
(* the other operations under way used up the nodes.                        *)
(***************************************************************************)
EXTENDS Naturals, Sequences, FiniteSets

CONSTANTS Process, Value, Capacity

VARIABLES
  items,     \* the entries, oldest first
  op,        \* where each process is
  arg,       \* the value it passes in or has got out
  sawEmpty,  \* its dequeue has seen the queue empty
  sawFull    \* its enqueue has seen the nodes used up

vars == <<items, op, arg, sawEmpty, sawFull>>

Init ==
  /\ items = <<>>
  /\ op = [p \in Process |-> "idle"]
  /\ arg \in [Process -> Value]
  /\ sawEmpty = [p \in Process |-> FALSE]
  /\ sawFull = [p \in Process |-> FALSE]

Goes(p, from, to) == op[p] = from /\ op' = [op EXCEPT ![p] = to]

CallEnqueue(p, v) ==
  /\ Goes(p, "idle", "enqueue")
  /\ arg' = [arg EXCEPT ![p] = v]
  /\ UNCHANGED items

CallDequeue(p) == Goes(p, "idle", "dequeue") /\ UNCHANGED <<items, arg>>

Enqueue(p) ==
  /\ Goes(p, "enqueue", "enqueued")
  /\ items' = Append(items, arg[p])
  /\ UNCHANGED arg

Dequeue(p) ==
  /\ Goes(p, "dequeue", "dequeued")
  /\ items # <<>>
  /\ arg' = [arg EXCEPT ![p] = Head(items)]
  /\ items' = Tail(items)

Return(p) ==
  /\ \/ Goes(p, "enqueued", "idle")
     \/ Goes(p, "dequeued", "idle")
     \/ Goes(p, "enqueue", "idle") /\ sawFull[p]
     \/ Goes(p, "dequeue", "idle") /\ sawEmpty[p]
  /\ UNCHANGED <<items, arg>>

\* What the calls under way have seen, given the entries s after the step.
Seen(s) ==
  /\ sawEmpty' = [p \in Process |-> op'[p] = "dequeue" /\ (sawEmpty[p] \/ s = <<>>)]
  /\ sawFull' = [p \in Process |->
       op'[p] = "enqueue" /\
         (sawFull[p] \/ Len(s) + Cardinality({q \in Process \ {p} : op'[q] # "idle"}) >= Capacity)]

Next ==
  /\ \E p \in Process :
       \/ \E v \in Value : CallEnqueue(p, v)
       \/ CallDequeue(p)
       \/ Enqueue(p)
       \/ Dequeue(p)
       \/ Return(p)
  /\ Seen(items')

Spec == Init /\ [][Next]_vars
=============================================================================
