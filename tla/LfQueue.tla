------------------------------- MODULE LfQueue -------------------------------
(***************************************************************************)
(* The lock-free queue of lib/libnc/set: lf_queue.c on the free list of     *)
(* lf_stack.c.  Kernel threads and interrupts use it, and an operation that *)
(* is preempted is left half-way.  Every load of a word and every cas2 is a *)
(* step: a pointer and its counter are two words, read one after the other. *)
(***************************************************************************)
EXTENDS Integers, Sequences, FiniteSets

CONSTANTS
  Node,      \* the nodes of the buffer: 1..n, in address order
  Process,   \* the threads and interrupts that use the queue
  Level,     \* their priorities, interrupts above the threads
  Value,     \* what is queued
  MaxOps     \* a bound on the operations each of them makes

Null == 0

ASSUME NodeAssumption ==
  Node # {} /\ Node = 1 .. Cardinality(Node) /\ Level \in [Process -> Nat] /\ MaxOps \in [Process -> Nat]

\* The addresses of the double words: q->stack.head, q->head, q->tail and, for
\* a node, its next.
Top == -1
QHead == -2
QTail == -3
Loc == Node \cup {Top, QHead, QTail}

VARIABLES
  mem,       \* the double words
  value,     \* node->value
  pc, word,  \* the statement a process is at, and the word it has done
  reg,       \* its copies of double words
  node,      \* the node it has taken, or gives back
  buf,       \* the value it has copied out of a node
  ops,       \* the operations it has made
  op, arg, sawEmpty, sawFull   \* as in BoundedQueue

vars == <<mem, value, pc, word, reg, node, buf, ops, op, arg, sawEmpty, sawFull>>

Pair(p, c) == [ptr |-> p, count |-> c]
NoRegs == [r \in {"top", "head", "tail", "next"} |-> Pair(Null, 0)]
AnyValue == CHOOSE v \in Value : TRUE

(***************************************************************************)
(* lfs_initialize links the nodes; lfq_initialize takes the first for the   *)
(* dummy.                                                                   *)
(***************************************************************************)
After(i) == IF i + 1 \in Node THEN i + 1 ELSE Null

Init ==
  /\ mem = [l \in Loc |->
             CASE l = Top -> Pair(After(1), 1)
               [] l \in {QHead, QTail} -> Pair(1, 0)
               [] OTHER -> Pair(IF l = 1 THEN Null ELSE After(l), 0)]
  /\ value = [i \in Node |-> AnyValue]
  /\ pc = [p \in Process |-> "idle"]
  /\ word = [p \in Process |-> "none"]
  /\ reg = [p \in Process |-> NoRegs]
  /\ node = [p \in Process |-> Null]
  /\ buf = [p \in Process |-> AnyValue]
  /\ ops = [p \in Process |-> 0]
  /\ op = [p \in Process |-> "idle"]
  /\ arg = [p \in Process |-> AnyValue]
  /\ sawEmpty = [p \in Process |-> FALSE]
  /\ sawFull = [p \in Process |-> FALSE]

\* The nodes from i on, as the next pointers link them.
Walk(i) ==
  LET w[k \in 0 .. Cardinality(Node)] ==
        IF k = 0 THEN <<i>>
        ELSE LET s == w[k - 1]
                 n == mem[s[Len(s)]].ptr
             IN  IF n = Null THEN s ELSE Append(s, n)
  IN  w[Cardinality(Node)]

QueueNodes == Walk(mem[QHead].ptr)
FreeNodes == IF mem[Top].ptr = Null THEN <<>> ELSE Walk(mem[Top].ptr)

\* The entries: the nodes after the dummy.
Contents == [k \in 1 .. Len(QueueNodes) - 1 |-> value[QueueNodes[k + 1]]]

-----------------------------------------------------------------------------
(***************************************************************************)
(* The statements                                                           *)
(***************************************************************************)
Go(p, l) == pc' = [pc EXCEPT ![p] = l] /\ word' = [word EXCEPT ![p] = "none"]
HalfDone(p, w) == word' = [word EXCEPT ![p] = w] /\ UNCHANGED pc

\* reg := l, the two words in the order the compiler likes
Load(p, r, l, to) ==
  /\ \E w \in {"ptr", "count"} \ {word[p]} :
       /\ reg' = [reg EXCEPT ![p][r][w] = mem[l][w]]
       /\ IF word[p] = "none" THEN HalfDone(p, w) ELSE Go(p, to)
  /\ UNCHANGED <<mem, value, node, buf, ops, op, arg>>

\* if (reg == l), the pointers first
Check(p, r, l, to, retry) ==
  /\ \/ /\ word[p] = "none"
        /\ IF mem[l].ptr = reg[p][r].ptr THEN HalfDone(p, "ptr") ELSE Go(p, retry)
     \/ /\ word[p] = "ptr"
        /\ Go(p, IF mem[l].count = reg[p][r].count THEN to ELSE retry)
  /\ UNCHANGED <<mem, value, reg, node, buf, ops, op, arg>>

\* Mutant: a compare and swap of the pointer alone.
CasPointer(l, old, new) ==
  /\ mem[l].ptr = old.ptr
  /\ mem' = [mem EXCEPT ![l] = Pair(new, old.count + 1)]

\* cas2 that succeeds: it also advances the counter
Cas(l, old, new) ==
  /\ mem[l] = old
  /\ mem' = [mem EXCEPT ![l] = Pair(new, old.count + 1)]

CasFails(l, old) == mem[l] # old /\ UNCHANGED mem

\* The operation returns.
Done(p) ==
  /\ Go(p, "idle")
  /\ op' = [op EXCEPT ![p] = "idle"]
  /\ reg' = [reg EXCEPT ![p] = NoRegs]
  /\ node' = [node EXCEPT ![p] = Null]
  /\ buf' = [buf EXCEPT ![p] = AnyValue]
  /\ UNCHANGED <<value, ops, arg>>

(***************************************************************************)
(* lfs_pop and lfs_push                                                     *)
(***************************************************************************)
Pop(p) ==
  \/ /\ pc[p] = "pop"
     /\ Load(p, "top", Top, "popCheck")
  \/ /\ pc[p] = "popCheck"
     /\ Check(p, "top", Top, IF reg[p]["top"].ptr = Null THEN "full" ELSE "popNext", "pop")
  \/ /\ pc[p] = "popNext"
     /\ reg' = [reg EXCEPT ![p]["next"].ptr = mem[reg[p]["top"].ptr].ptr]
     /\ Go(p, "popCas")
     /\ UNCHANGED <<mem, value, node, buf, ops, op, arg>>
  \/ /\ pc[p] = "popCas"
     /\ \/ /\ Cas(Top, reg[p]["top"], reg[p]["next"].ptr)
           /\ node' = [node EXCEPT ![p] = reg[p]["top"].ptr]
           /\ Go(p, "fill")
        \/ /\ CasFails(Top, reg[p]["top"])
           /\ Go(p, "pop")
           /\ UNCHANGED node
     /\ UNCHANGED <<value, reg, buf, ops, op, arg>>

Push(p) ==
  \/ /\ pc[p] = "push"
     /\ Load(p, "top", Top, "pushCheck")
  \/ /\ pc[p] = "pushCheck"
     /\ Check(p, "top", Top, "pushLink", "push")
  \/ /\ pc[p] = "pushLink"
     /\ mem' = [mem EXCEPT ![node[p]].ptr = reg[p]["top"].ptr]
     /\ Go(p, "pushCas")
     /\ UNCHANGED <<value, reg, node, buf, ops, op, arg>>
  \/ /\ pc[p] = "pushCas"
     /\ \/ Cas(Top, reg[p]["top"], node[p]) /\ Done(p)
        \/ /\ CasFails(Top, reg[p]["top"])
           /\ Go(p, "push")
           /\ UNCHANGED <<value, reg, node, buf, ops, op, arg>>

(***************************************************************************)
(* lfq_enqueue                                                              *)
(***************************************************************************)
CallEnqueue(p, v) ==
  /\ pc[p] = "idle" /\ ops[p] < MaxOps[p]
  /\ ops' = [ops EXCEPT ![p] = @ + 1]
  /\ op' = [op EXCEPT ![p] = "enqueue"]
  /\ arg' = [arg EXCEPT ![p] = v]
  /\ Go(p, "pop")
  /\ UNCHANGED <<mem, value, reg, node, buf>>

\* return QUEUE_MEMORY
Full(p) == pc[p] = "full" /\ Done(p) /\ UNCHANGED mem

\* Mutant: the node keeps the link it had in the free list.
FillKeepsNext(p) ==
  /\ pc[p] = "fill"
  /\ value' = [value EXCEPT ![node[p]] = arg[p]]
  /\ Go(p, "tail")
  /\ UNCHANGED <<mem, reg, node, buf, ops, op, arg>>

Fill(p) ==
  /\ pc[p] = "fill"
  /\ mem' = [mem EXCEPT ![node[p]].ptr = Null]
  /\ value' = [value EXCEPT ![node[p]] = arg[p]]
  /\ Go(p, "tail")
  /\ UNCHANGED <<reg, node, buf, ops, op, arg>>

ReadTail(p) ==
  \/ pc[p] = "tail" /\ Load(p, "tail", QTail, "next")
  \/ pc[p] = "next" /\ Load(p, "next", reg[p]["tail"].ptr, "tailCheck")
  \/ /\ pc[p] = "tailCheck"
     /\ Check(p, "tail", QTail, IF reg[p]["next"].ptr = Null THEN "link" ELSE "help", "tail")

\* Mutant: an operation that meets a tail that lags behind waits for it.
HelpNot(p, at, to) ==
  /\ pc[p] = at
  /\ Go(p, to)
  /\ UNCHANGED <<mem, value, reg, node, buf, ops, op, arg>>

\* The tail lags behind: advance it for whoever linked the node, and try again.
Help(p, at, to) ==
  /\ pc[p] = at
  /\ \/ Cas(QTail, reg[p]["tail"], reg[p]["next"].ptr)
     \/ CasFails(QTail, reg[p]["tail"])
  /\ Go(p, to)
  /\ UNCHANGED <<value, reg, node, buf, ops, op, arg>>

Link(p) ==
  /\ pc[p] = "link"
  /\ \/ /\ Cas(reg[p]["tail"].ptr, reg[p]["next"], node[p])
        /\ op' = [op EXCEPT ![p] = "enqueued"]
        /\ Go(p, "swing")
     \/ /\ CasFails(reg[p]["tail"].ptr, reg[p]["next"])
        /\ Go(p, "tail")
        /\ UNCHANGED op
  /\ UNCHANGED <<value, reg, node, buf, ops, arg>>

Swing(p) ==
  /\ pc[p] = "swing"
  /\ \/ Cas(QTail, reg[p]["tail"], node[p])
     \/ CasFails(QTail, reg[p]["tail"])
  /\ Done(p)

(***************************************************************************)
(* lfq_dequeue                                                              *)
(***************************************************************************)
CallDequeue(p) ==
  /\ pc[p] = "idle" /\ ops[p] < MaxOps[p]
  /\ ops' = [ops EXCEPT ![p] = @ + 1]
  /\ op' = [op EXCEPT ![p] = "dequeue"]
  /\ Go(p, "head")
  /\ UNCHANGED <<mem, value, reg, node, buf, arg>>

\* Where the values read send the dequeue.
Reads(p) ==
  IF reg[p]["head"].ptr # reg[p]["tail"].ptr THEN "copy"
  ELSE IF reg[p]["next"].ptr = Null THEN "empty" ELSE "deqHelp"

ReadHead(p) ==
  \/ pc[p] = "head" /\ Load(p, "head", QHead, "deqTail")
  \/ pc[p] = "deqTail" /\ Load(p, "tail", QTail, "deqNext")
  \/ pc[p] = "deqNext" /\ Load(p, "next", reg[p]["head"].ptr, "headCheck")
  \/ pc[p] = "headCheck" /\ Check(p, "head", QHead, Reads(p), "head")

\* return QUEUE_EMPTY
Empty(p) == pc[p] = "empty" /\ Done(p) /\ UNCHANGED mem

Copy(p) ==
  /\ pc[p] = "copy"
  /\ buf' = [buf EXCEPT ![p] = value[reg[p]["next"].ptr]]
  /\ Go(p, "take")
  /\ UNCHANGED <<mem, value, reg, node, ops, op, arg>>

Take(p) ==
  /\ pc[p] = "take"
  /\ \/ /\ Cas(QHead, reg[p]["head"], reg[p]["next"].ptr)
        /\ op' = [op EXCEPT ![p] = "dequeued"]
        /\ arg' = [arg EXCEPT ![p] = buf[p]]
        /\ node' = [node EXCEPT ![p] = reg[p]["head"].ptr]
        /\ Go(p, "push")
     \/ /\ CasFails(QHead, reg[p]["head"])
        /\ Go(p, "head")
        /\ UNCHANGED <<op, arg, node>>
  /\ UNCHANGED <<value, reg, buf, ops>>

-----------------------------------------------------------------------------
Queue == INSTANCE BoundedQueue
           WITH items <- Contents, Capacity <- Cardinality(Node) - 1

\* dispatch: a process goes on when none of its level or above is at work; an
\* operation never blocks, and tick rotates no kernel thread.
Runs(p) == \A q \in Process \ {p} : op[q] = "idle" \/ Level[q] < Level[p]

Step(p) ==
  /\ Runs(p)
  /\ \/ Pop(p) \/ Fill(p) \/ ReadTail(p) \/ Help(p, "help", "tail") \/ Link(p) \/ Swing(p)
     \/ ReadHead(p) \/ Help(p, "deqHelp", "head") \/ Copy(p) \/ Take(p) \/ Push(p)
     \/ Full(p) \/ Empty(p)
  /\ Queue!Seen(Contents')

Call(p) ==
  /\ Runs(p)
  /\ (\E v \in Value : CallEnqueue(p, v)) \/ CallDequeue(p)
  /\ Queue!Seen(Contents')

Next == \E p \in Process : Step(p) \/ Call(p)

Spec == Init /\ [][Next]_vars

\* A process that may go on does.
FairSpec == Spec /\ \A p \in Process : WF_vars(Step(p))

-----------------------------------------------------------------------------
\* The type of the state.
TypeOK ==
  LET Copies == [ptr : Node \cup {Null}, count : Nat]
  IN  /\ mem \in [Loc -> Copies]
      /\ value \in [Node -> Value]
      /\ word \in [Process -> {"none", "ptr", "count"}]
      /\ reg \in [Process -> [{"top", "head", "tail", "next"} -> Copies]]
      /\ node \in [Process -> Node \cup {Null}]
      /\ buf \in [Process -> Value] /\ arg \in [Process -> Value]
      /\ op \in [Process -> {"idle", "enqueue", "enqueued", "dequeue", "dequeued"}]

\* Between lfs_pop and the cas2 that links it, and between the cas2 that takes
\* it off the queue and the one of lfs_push, a node belongs to one process.
Holds(p) == node[p] # Null /\ pc[p] # "swing"

\* Every node is in the queue, in the free list or in the hands of one process,
\* and in one of these places once: lfs_entry_t.next and lfq_node_t.next are
\* the same word, and no stale pointer damages it.
NodesAccounted ==
  LET held == {p \in Process : Holds(p)}
      inQueue == {QueueNodes[k] : k \in 1 .. Len(QueueNodes)}
      inStack == {FreeNodes[k] : k \in 1 .. Len(FreeNodes)}
      inHand == {node[p] : p \in held}
  IN  /\ inQueue \cup inStack \cup inHand = Node
      /\ Len(QueueNodes) + Len(FreeNodes) + Cardinality(held) = Cardinality(Node)

\* q->tail is the last node, or the last but one while some enqueue is between
\* its two cas2.
TailNear ==
  \E k \in {Len(QueueNodes) - 1, Len(QueueNodes)} :
    k > 0 /\ mem[QTail].ptr = QueueNodes[k]

\* lf_queue.c, lf_stack.c: whatever operations are stopped half-way, the words
\* keep their types, every node is accounted for and the tail is near the end.
ShapeKept == TypeOK /\ NodesAccounted /\ TailNear

\* The queue implements BoundedQueue: each operation takes effect at one moment.
Linearizable == Queue!Spec

\* No operation waits for another one that is stopped half-way: an interrupt
\* that preempts an operation completes its own.
OperationsEnd == \A p \in Process : op[p] # "idle" ~> op[p] = "idle"
=============================================================================
