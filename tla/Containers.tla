--------------------------------- MODULE Containers ---------------------------------
(***************************************************************************)
(* The containers the kernel and the servers keep their state in           *)
(* (lib/libnc/set): the balanced tree, the hash table, the slab, the       *)
(* sequence of free numbers, the heap, and the ring with the system log    *)
(* over it (servers/syslog).  Each is run beside the set, map, bag or      *)
(* queue it stands for: impl is the container, ideal what it should hold,  *)
(* got and want what the last operation answered and should have.          *)
(***************************************************************************)
EXTENDS Integers, SequencesExt, BagsExt

CONSTANTS
  Key, Value,    \* keys are integers
  HashSize, HashMax,
  BlockId, PerBlock, MinBlock, MaxBlock,
  MaxNumber, WordBits,
  HeapMax,
  RingSize, Message, ReadMax

VARIABLES kind, impl, ideal, got, want
containerVars == <<kind, impl, ideal, got, want>>

Kinds == {"tree", "hash", "slab", "sequence", "heap", "ring"}
None == 0 - 1

\* One operation: the new container and its answer, the new ideal and its answer.
Step(i, g, j, w) == impl' = i /\ got' = g /\ ideal' = j /\ want' = w /\ UNCHANGED kind

-----------------------------------------------------------------------------
(* aatree.c.  A node is a record with its subtrees.  nil_node is one shared   *)
(* node of level 0: splitting it would raise its level for every tree.        *)

Nil == [level |-> 0]
Duplicate == [level |-> -1]
NilSplit == [level |-> -2]
IsNil(p) == p.level <= 0

Skew(p) ==
  IF ~IsNil(p) /\ p.left.level = p.level
  THEN [p.left EXCEPT !.right = [p EXCEPT !.left = p.left.right]]
  ELSE p

Split(p) ==
  IF IsNil(p) THEN NilSplit
  ELSE IF ~IsNil(p.right) /\ p.right.right.level = p.level
  THEN [p.right EXCEPT !.left = [p EXCEPT !.right = p.right.left], !.level = @ + 1]
  ELSE p

RECURSIVE NodePut(_, _)
NodePut(p, key) ==
  LET side == IF key < p.key THEN "left" ELSE "right"
      q == NodePut(p[side], key)
  IN IF IsNil(p) THEN [key |-> key, level |-> 1, left |-> Nil, right |-> Nil]
     ELSE IF key = p.key \/ q = Duplicate THEN Duplicate
     ELSE Split(Skew([p EXCEPT ![side] = q]))

\* Mutant: the node two to the right is not skewed.
RebalanceShort(p) ==
  LET l == p.level - 1
      a == [p EXCEPT !.level = l,
                     !.right = IF @.level > l THEN [@ EXCEPT !.level = l] ELSE @]
      b == Skew(a)
      c == [b EXCEPT !.right = Skew(@)]
      e == Split(c)
  IN IF p.left.level < l \/ p.right.level < l
     THEN [e EXCEPT !.right = Split(@)]
     ELSE p

Rebalance(p) ==
  LET l == p.level - 1
      a == [p EXCEPT !.level = l,
                     !.right = IF @.level > l THEN [@ EXCEPT !.level = l] ELSE @]
      b == Skew(a)
      c == [b EXCEPT !.right = Skew(@)]
      d == IF IsNil(c.right) THEN c ELSE [c EXCEPT !.right.right = Skew(@)]
      e == Split(d)
  IN IF p.left.level < l \/ p.right.level < l
     THEN [e EXCEPT !.right = Split(@)]
     ELSE p

\* node_remove_swap: the first node of p, and p without it
RECURSIVE RemoveSwap(_)
RemoveSwap(p) ==
  LET r == RemoveSwap(p.left)
  IN IF IsNil(p.left) THEN [key |-> p.key, rest |-> p.right]
     ELSE [key |-> r.key, rest |-> Rebalance([p EXCEPT !.left = r.rest])]

RECURSIVE NodeRemove(_, _)
NodeRemove(p, key) ==
  LET r == RemoveSwap(p.right)
  IN IF IsNil(p) THEN p
     ELSE IF key < p.key THEN Rebalance([p EXCEPT !.left = NodeRemove(@, key)])
     ELSE IF key > p.key THEN Rebalance([p EXCEPT !.right = NodeRemove(@, key)])
     ELSE IF IsNil(p.left) THEN p.right
     ELSE IF IsNil(p.right) THEN p.left
     ELSE Rebalance([p EXCEPT !.key = r.key, !.right = r.rest])

\* tree_get
RECURSIVE TreeGet(_, _)
TreeGet(p, key) ==
  IF IsNil(p) THEN None ELSE IF key = p.key THEN key
  ELSE TreeGet(IF key < p.key THEN p.left ELSE p.right, key)

\* tree_first
RECURSIVE TreeFirst(_)
TreeFirst(p) == IF IsNil(p) THEN None ELSE IF IsNil(p.left) THEN p.key ELSE TreeFirst(p.left)

\* tree_traverse with a callback that never stops it
RECURSIVE Traverse(_)
Traverse(p) == IF IsNil(p) THEN << >> ELSE Traverse(p.left) \o <<p.key>> \o Traverse(p.right)

TreePut(key) ==
  LET t == NodePut(impl, key)
  IN Step(IF t = Duplicate THEN impl ELSE t, t # Duplicate,
          ideal \cup {key}, key \notin ideal)

TreeRemove(key) ==
  Step(NodeRemove(impl, key), TreeGet(impl, key), ideal \ {key}, IF key \in ideal THEN key ELSE None)

TreeNext ==
  /\ kind = "tree"
  /\ \/ \E key \in Key : TreePut(key) \/ TreeRemove(key)
     \/ Step(impl, TreeFirst(impl), ideal, IF ideal = {} THEN None ELSE Min(ideal))

\* The rules of the tree: a left child is a level below, a right child at most a
\* level below and not below its own right child.
RECURSIVE Balanced(_)
Balanced(p) ==
  \/ p = Nil
  \/ /\ p.level > 0 /\ Balanced(p.left) /\ Balanced(p.right)
     /\ p.left.level = p.level - 1
     /\ p.right.level \in {p.level - 1, p.level}
     /\ p.right # Nil => p.right.right.level < p.level

TreeExact == Balanced(impl) /\ Traverse(impl) = SetToSortSeq(ideal, LAMBDA a, b : a < b)

-----------------------------------------------------------------------------
(* hash.c: tbl is a list of entries <<key, value>> per head; ideal a function *)

HeadOf(key) == (key % HashSize) + 1

\* find_entry: 0 when there is none
FindEntry(key) ==
  LET l == impl.tbl[HeadOf(key)]
      at == {i \in DOMAIN l : l[i][1] = key}
  IN IF at = {} THEN 0 ELSE Min(at)

\* hash_get: what is found moves to the front
HashGet(key) ==
  LET i == FindEntry(key)
      l == impl.tbl[HeadOf(key)]
  IN Step(IF i = 0 THEN impl
          ELSE [impl EXCEPT !.tbl[HeadOf(key)] = <<l[i]>> \o RemoveAt(l, i)],
          IF i = 0 THEN None ELSE l[i][2],
          ideal, IF key \in DOMAIN ideal THEN ideal[key] ELSE None)

HashPut(key, v) ==
  LET i == FindEntry(key)
      h == HeadOf(key)
      ok == i # 0 \/ impl.spares > 0
  IN Step(IF i # 0 THEN [impl EXCEPT !.tbl[h][i] = <<key, v>>]
          ELSE IF ok THEN [impl EXCEPT !.tbl[h] = <<<<key, v>>>> \o @, !.spares = @ - 1, !.num = @ + 1]
          ELSE impl, ok,
          IF ok THEN [k \in DOMAIN ideal \cup {key} |-> IF k = key THEN v ELSE ideal[k]] ELSE ideal,
          key \in DOMAIN ideal \/ Cardinality(DOMAIN ideal) < HashMax)

HashRemove(key) ==
  LET i == FindEntry(key)
  IN Step(IF i = 0 THEN impl
          ELSE [impl EXCEPT !.tbl[HeadOf(key)] = RemoveAt(@, i), !.spares = @ + 1, !.num = @ - 1],
          i # 0, [k \in DOMAIN ideal \ {key} |-> ideal[k]], key \in DOMAIN ideal)

HashEmpty == [tbl |-> [i \in 1 .. HashSize |-> << >>], spares |-> HashMax, num |-> 0]

HashClear == Step(HashEmpty, 0, << >>, 0)

HashNext ==
  /\ kind = "hash"
  /\ \/ \E key \in Key : HashGet(key) \/ HashRemove(key) \/ \E v \in Value : HashPut(key, v)
     \/ HashClear

HashExact ==
  /\ impl.num = Cardinality(DOMAIN ideal) /\ impl.num + impl.spares = HashMax
  /\ UNION {Range(impl.tbl[i]) : i \in DOMAIN impl.tbl} = {<<k, ideal[k]>> : k \in DOMAIN ideal}

-----------------------------------------------------------------------------
(* slab.c: entries[b] is the free list of block b; ideal the entries in use  *)

\* slab_add_block: palloc gives b, or None
AddBlock(s, b) ==
  IF Len(s.blocks) >= MaxBlock \/ b = None THEN s
  ELSE [s EXCEPT !.empties = Append(@, b), !.blocks = Append(@, b),
                 !.entries[b] = [i \in 1 .. PerBlock |-> i]]

SlabAlloc(b) ==
  LET s == IF impl.empties = << >> THEN AddBlock(impl, b) ELSE impl
      h == Head(s.empties)
      e == <<h, Head(s.entries[h])>>
      t == [s EXCEPT !.entries[h] = Tail(@)]
  IN /\ b # None => ~Contains(impl.blocks, b)
     /\ IF s.empties = << >>
        THEN Step(s, None, ideal,
                  IF b = None \/ Cardinality(ideal) = MaxBlock * PerBlock THEN None ELSE 0)
        ELSE Step(IF t.entries[h] = << >> THEN [t EXCEPT !.empties = Tail(@)] ELSE t,
                  e \in ideal, ideal \cup {e}, FALSE)

SlabFree(e) ==
  LET b == e[1]
      s == IF impl.entries[b] = << >> THEN [impl EXCEPT !.empties = Append(@, b)] ELSE impl
  IN Step(IF Len(s.entries[b]) + 1 = PerBlock /\ Len(s.empties) > 1 /\ Len(s.blocks) > MinBlock
          THEN [s EXCEPT !.empties = SelectSeq(@, LAMBDA x : x # b),
                         !.blocks = SelectSeq(@, LAMBDA x : x # b), !.entries[b] = << >>]
          ELSE [s EXCEPT !.entries[b] = <<e[2]>> \o @],
          0, ideal \ {e}, 0)

SlabNext ==
  /\ kind = "slab"
  /\ \/ \E b \in BlockId \cup {None} : SlabAlloc(b)
     \/ \E e \in ideal : SlabFree(e)

\* Every entry of a block is in use or in its free list, and the blocks with free
\* entries are the ones slab_alloc looks at.
SlabExact ==
  /\ \A e \in ideal : Contains(impl.blocks, e[1])
  /\ Len(impl.blocks) <= MaxBlock
  /\ \A b \in BlockId :
       /\ Cardinality({i \in DOMAIN impl.empties : impl.empties[i] = b})
            = IF impl.entries[b] = << >> THEN 0 ELSE 1
       /\ Contains(impl.blocks, b) =>
            /\ \A i \in 1 .. PerBlock : Contains(impl.entries[b], i) <=> <<b, i>> \notin ideal
            /\ IsInjective(impl.entries[b])

-----------------------------------------------------------------------------
(* sequence.c: the mask is the first offset it leaves of the clock's block    *)

\* sequence_get: from the mask on, then the later blocks, then the earlier ones
SequenceGet ==
  LET first == {n \in impl.map : n \div WordBits = impl.clock /\ n % WordBits >= impl.from}
      later == {n \in impl.map : n \div WordBits > impl.clock}
      n == Min(IF first # {} THEN first ELSE IF later # {} THEN later ELSE impl.map)
      i == [impl EXCEPT !.map = @ \ {n}, !.rest = @ - 1, !.clock = n \div WordBits,
                        !.from = (n % WordBits) + 1]
  IN IF impl.rest = 0 THEN Step(impl, None, ideal, IF ideal = 0 .. MaxNumber - 1 THEN None ELSE 0)
     ELSE IF impl.map = {} THEN Step([impl EXCEPT !.from = 0], None, ideal, 0)
     ELSE Step(i, n \in ideal, ideal \cup {n}, FALSE)

SequenceRelease(n) ==
  LET i == IF impl.rest = 0 THEN [impl EXCEPT !.clock = n \div WordBits, !.from = 0] ELSE impl
  IN Step(IF n \in impl.map THEN impl ELSE [i EXCEPT !.map = @ \cup {n}, !.rest = @ + 1],
          0, ideal \ {n}, 0)

SequenceNext ==
  /\ kind = "sequence"
  /\ SequenceGet \/ \E n \in 0 .. MaxNumber - 1 : SequenceRelease(n)

SequenceExact ==
  /\ impl.map = (0 .. MaxNumber - 1) \ ideal
  /\ impl.rest = Cardinality(impl.map)

-----------------------------------------------------------------------------
(* heap.c: buf from index 0; ideal the bag of its values                      *)

Swap(buf, a, b) == [buf EXCEPT ![a] = buf[b], ![b] = buf[a]]

\* heap_enqueue from position c up
RECURSIVE SiftUp(_, _)
SiftUp(buf, c) ==
  LET p == (c - 1) \div 2
  IN IF c > 0 /\ buf[c + 1] < buf[p + 1] THEN SiftUp(Swap(buf, c + 1, p + 1), p) ELSE buf

\* heap_dequeue from position p down
RECURSIVE SiftDown(_, _)
SiftDown(buf, p) ==
  LET c == 2 * p + 1
      d == IF c + 1 < Len(buf) /\ buf[c + 1] > buf[c + 2] THEN c + 1 ELSE c
  IN IF c < Len(buf) /\ buf[d + 1] < buf[p + 1] THEN SiftDown(Swap(buf, p + 1, d + 1), d) ELSE buf

HeapEnqueue(v) ==
  Step(IF Len(impl) >= HeapMax THEN impl ELSE SiftUp(Append(impl, v), Len(impl)),
       Len(impl) < HeapMax,
       IF Len(impl) < HeapMax THEN ideal (+) SetToBag({v}) ELSE ideal, BagCardinality(ideal) < HeapMax)

HeapDequeue ==
  LET last == Front(<<Last(impl)>> \o Tail(impl))
  IN IF impl = << >> THEN Step(impl, None, ideal, IF ideal = EmptyBag THEN None ELSE 0)
     ELSE Step(SiftDown(IF Len(impl) = 1 THEN << >> ELSE last, 0), Head(impl),
               ideal (-) SetToBag({Min(BagToSet(ideal))}), Min(BagToSet(ideal)))

HeapNext == kind = "heap" /\ (HeapDequeue \/ \E v \in Key : HeapEnqueue(v))

HeapExact == \A v \in Key : CopiesIn(v, ideal) = Cardinality({i \in DOMAIN impl : impl[i] = v})

-----------------------------------------------------------------------------
(* ring.c, positions from 0; ideal the queue of bytes.  A loop runs until it  *)
(* meets the other position.                                                  *)

Cutdown(n) == IF n >= RingSize THEN 0 ELSE n

RingRest(r) == IF r.read <= r.write THEN RingSize - r.write + r.read - 1 ELSE r.read - r.write - 1

RECURSIVE RingGet(_, _)
RingGet(r, rest) ==
  LET last == r.read <= r.write
      avail == IF last THEN r.write - r.read ELSE RingSize - r.read
      len == Min({avail, rest})
      bytes == [i \in 1 .. len |-> r.buf[r.read + i - 1]]
      s == [r EXCEPT !.read = Cutdown(@ + len)]
      more == RingGet(s, rest - len)
  IN IF len = 0 THEN [r |-> r, out |-> << >>]
     ELSE IF last THEN [r |-> s, out |-> bytes]
     ELSE [r |-> more.r, out |-> bytes \o more.out]

RECURSIVE RingPut(_, _)
RingPut(r, bytes) ==
  LET ahead == r.read <= r.write
      last == ~ahead \/ r.read = 0
      avail == IF ahead THEN RingSize - r.write - (IF last THEN 1 ELSE 0) ELSE r.read - r.write - 1
      len == Min({avail, Len(bytes)})
      s == [r EXCEPT !.buf = [i \in DOMAIN @ |-> IF i \in r.write .. r.write + len - 1
                                                  THEN bytes[i - r.write + 1] ELSE @[i]],
                     !.write = Cutdown(@ + len)]
  IN IF len = 0 THEN r
     ELSE IF last THEN s ELSE RingPut(s, SubSeq(bytes, len + 1, Len(bytes)))

\* the server's write: the priority and the message, or nothing (E_SYS)
SyslogWrite(priority, m) ==
  LET fits == Len(m) + 2 <= RingRest(impl)
  IN Step(IF fits THEN RingPut(RingPut(impl, <<priority, " ">>), m) ELSE impl, fits,
          IF fits THEN ideal \o <<priority, " ">> \o m ELSE ideal,
          Len(ideal) + Len(m) + 2 <= RingSize - 1)

\* the server's read
SyslogRead(n) ==
  LET r == RingGet(impl, n)
      len == Min({n, Len(ideal)})
  IN Step(r.r, r.out, SubSeq(ideal, len + 1, Len(ideal)), SubSeq(ideal, 1, len))

RingNext ==
  /\ kind = "ring"
  /\ \/ \E m \in Message, priority \in {"0", "9"} : SyslogWrite(priority, m)
     \/ \E n \in 1 .. ReadMax : SyslogRead(n)

RingExact == RingRest(impl) = RingSize - 1 - Len(ideal)

-----------------------------------------------------------------------------
ContainersInit ==
  /\ kind \in Kinds /\ got = 0 /\ want = 0
  /\ impl = CASE kind = "tree" -> Nil
              [] kind = "hash" -> HashEmpty
              [] kind = "slab" -> [empties |-> << >>, blocks |-> << >>,
                                   entries |-> [b \in BlockId |-> << >>]]
              [] kind = "sequence" -> [map |-> 0 .. MaxNumber - 1, rest |-> MaxNumber,
                                       clock |-> 0, from |-> 0]
              [] kind = "heap" -> << >>
              [] OTHER -> [read |-> 0, write |-> 0, buf |-> [i \in 0 .. RingSize - 1 |-> 0]]
  /\ ideal = IF kind \in {"hash", "heap", "ring"} THEN << >> ELSE {}

ContainersNext == TreeNext \/ HashNext \/ SlabNext \/ SequenceNext \/ HeapNext \/ RingNext

(* Properties *)

\* Every operation answers what it would answer on a set, map, pool, bag or queue,
\* and the container holds the same: tree_*, hash_*, slab_*, sequence_*, heap_* and
\* ring_* over any sequence of calls, full and empty, and with palloc failing.
ContainerExact ==
  /\ got = want
  /\ CASE kind = "tree" -> TreeExact
       [] kind = "hash" -> HashExact
       [] kind = "slab" -> SlabExact
       [] kind = "sequence" -> SequenceExact
       [] kind = "heap" -> HeapExact
       [] OTHER -> RingExact
=============================================================================
