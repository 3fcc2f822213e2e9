---------------------------------- MODULE Memory ----------------------------------
(***************************************************************************)
(* The memory of processes: page frames (kernel/palloc.c), page tables     *)
(* (drivers/i686/memory.c), the segments that processes share              *)
(* (servers/mm/process.c, memory.c, handler.c) and the semaphores in them  *)
(* (servers/mm/semaphore.c).  The process manager does each of these       *)
(* operations without waiting, so an operation is one step; it may run out *)
(* of frames or of segments at any point of it.                            *)
(*                                                                         *)
(* A process has one thread.  Its pages are Code, Data, the heap from Heap *)
(* up to Local - 1, Local, and the stack from Stack to Top - 1; a page     *)
(* table maps PerTable of them.                                            *)
(***************************************************************************)
EXTENDS Integers, FiniteSets, SequencesExt

CONSTANTS
  Proc, Init1,     \* processes, and the first of them
  Frames,          \* the number of page frames
  WordBits,        \* the bits of a word of the frame map
  PerTable,        \* PTE_PER_PAGE
  Data, Heap, Local, Stack, Top,
  Seg,             \* segment_slab
  CountMax         \* bound: the count of a semaphore

ASSUME MemoryAssumption == 0 < Data /\ Data < Heap /\ Heap <= Local /\ Local < Stack /\ Stack < Top

Code == 0
Page == 0 .. Top - 1
Table == 0 .. (Top - 1) \div PerTable
None == 0

VARIABLES
  mem      \* [free, rest, clock, proc, seg, sem, leaked]

Proc0 == [dir |-> None, tab |-> [t \in Table |-> None], pte |-> [v \in Page |-> None],
          code |-> None, data |-> None, heap |-> None, local |-> FALSE,
          thread |-> FALSE, stack |-> 0]
Seg0 == [addr |-> 0, len |-> 0, refs |-> 0]

-----------------------------------------------------------------------------
(* kernel/palloc.c *)

\* palloc: the lowest frame of the first word, from clock_block on, that has one
Palloc(m) ==
  LET found == {f \in m.free : f \div WordBits >= m.clock}
      f == Min(found)
      left == {g \in m.free \ {f} : g \div WordBits = f \div WordBits}
  IN IF m.rest = 0 \/ found = {} THEN [m |-> m, f |-> None]
     ELSE [m |-> [m EXCEPT !.free = @ \ {f}, !.rest = @ - 1,
                           !.clock = f \div WordBits + (IF left = {} THEN 1 ELSE 0)],
           f |-> f]

\* Mutant: the clock stays ahead of the freed frame.
PfreeAhead(m, f) ==
  IF f \in m.free THEN m ELSE [m EXCEPT !.free = @ \cup {f}, !.rest = @ + 1]

\* pfree; a frame that is free already is only reported
Pfree(m, f) ==
  IF f \in m.free THEN m
  ELSE [m EXCEPT !.free = @ \cup {f}, !.rest = @ + 1,
                 !.clock = IF f \div WordBits < @ THEN f \div WordBits ELSE @]

-----------------------------------------------------------------------------
(* drivers/i686/memory.c; a result is [m, ok] *)

\* an operation on pages first, first + 1, ... that stops at the first failure
OnPages(Step(_, _), m, first, n) ==
  FoldLeft(LAMBDA r, k : IF r.ok THEN Step(r.m, first + k - 1) ELSE r,
           [m |-> m, ok |-> TRUE], [k \in 1 .. n |-> k])

\* the page table for page v, allocated when the directory has none
WithTable(m, p, v) ==
  LET t == v \div PerTable
      a == Palloc(m)
  IN IF m.proc[p].tab[t] # None THEN [m |-> m, ok |-> TRUE]
     ELSE [m |-> [a.m EXCEPT !.proc[p].tab[t] = a.f], ok |-> a.f # None]

\* a new frame for page v
NewPage(m, p, v) ==
  LET a == Palloc(m)
  IN [m |-> [a.m EXCEPT !.proc[p].pte[v] = a.f], ok |-> a.f # None]

\* map_user_pages: a page that is present stays
MapPages(m, p, first, n) ==
  LET step(s, v) ==
        LET t == WithTable(s, p, v)
        IN IF t.ok /\ s.proc[p].pte[v] = None THEN NewPage(t.m, p, v) ELSE t
  IN OnPages(step, m, first, n)

\* copy_user_pages: EFAULT, EADDRINUSE or ENOMEM ends it
CopyPages(m, dest, src, first, n) ==
  LET step(s, v) ==
        LET t == WithTable(s, dest, v)
        IN IF ~t.ok THEN t
           ELSE IF s.proc[src].pte[v] = None \/ s.proc[dest].pte[v] # None
           THEN [t EXCEPT !.ok = FALSE]
           ELSE NewPage(t.m, dest, v)
  IN OnPages(step, m, first, n)

\* attach_user_pages: the frames of the source
AttachPages(m, dest, src, first, n) ==
  LET step(s, v) ==
        LET t == WithTable(s, dest, v)
        IN IF ~t.ok THEN t
           ELSE IF s.proc[src].pte[v] = None \/ s.proc[dest].pte[v] # None
           THEN [t EXCEPT !.ok = FALSE]
           ELSE [t EXCEPT !.m.proc[dest].pte[v] = s.proc[src].pte[v]]
  IN OnPages(step, m, first, n)

\* the tables of a range that have become empty are freed
FreeTables(m, p, range) ==
  LET empty == {t \in {v \div PerTable : v \in range} :
                  /\ m.proc[p].tab[t] # None
                  /\ \A v \in Page : v \div PerTable = t => m.proc[p].pte[v] = None}
      freed == FoldSet(LAMBDA t, s : Pfree(s, m.proc[p].tab[t]), m, empty)
  IN [freed EXCEPT !.proc[p].tab = [t \in Table |-> IF t \in empty THEN None ELSE @[t]]]

Cleared(m, p, range) ==
  [m EXCEPT !.proc[p].pte = [v \in Page |-> IF v \in range THEN None ELSE @[v]]]

\* unmap_user_pages
UnmapPages(m, p, first, n) ==
  LET range == first .. first + n - 1
      mapped == {v \in range : m.proc[p].pte[v] # None}
      freed == FoldSet(LAMBDA v, s : Pfree(s, m.proc[p].pte[v]), m, mapped)
  IN FreeTables(Cleared(freed, p, range), p, range)

\* detach_user_pages
DetachPages(m, p, first, n) ==
  LET range == first .. first + n - 1 IN FreeTables(Cleared(m, p, range), p, range)

-----------------------------------------------------------------------------
(* Segments: servers/mm/process.c *)

FreeSegs(m) == {s \in Seg : m.seg[s].refs = 0}

\* _segment_share into the process's field k
Share(m, dest, src, k) ==
  LET s == m.proc[src][k]
      r == AttachPages(m, dest, src, m.seg[s].addr, m.seg[s].len)
  IN IF r.ok
     THEN [r EXCEPT !.m.seg[s].refs = @ + 1, !.m.proc[dest] = [@ EXCEPT ![k] = s]]
     ELSE [r EXCEPT !.m = DetachPages(@, dest, m.seg[s].addr, m.seg[s].len)]

\* _segment_copy
CopySegment(m, dest, src, k) ==
  LET s == m.seg[m.proc[src][k]]
      r == CopyPages(m, dest, src, s.addr, s.len)
      new == CHOOSE x \in FreeSegs(m) : TRUE
  IN IF FreeSegs(m) = {} THEN [m |-> m, ok |-> FALSE]
     ELSE IF ~r.ok THEN [r EXCEPT !.m = UnmapPages(@, dest, s.addr, s.len)]
     ELSE [r EXCEPT !.m.seg[new] = [s EXCEPT !.refs = 1],
                    !.m.proc[dest] = [@ EXCEPT ![k] = new]]

\* _segment_allocate
AllocateSegment(m, p, k, addr, len) ==
  LET r == MapPages(m, p, addr, len)
      new == CHOOSE x \in FreeSegs(m) : TRUE
  IN IF FreeSegs(m) = {} THEN [m |-> m, ok |-> FALSE]
     ELSE IF ~r.ok THEN [r EXCEPT !.m = UnmapPages(@, p, addr, len)]
     ELSE [r EXCEPT !.m.seg[new] = [addr |-> addr, len |-> len, refs |-> 1],
                    !.m.proc[p] = [@ EXCEPT ![k] = new]]

\* Mutant: the semaphores of a segment outlive it.
DeallocateSegmentKeeps(m, p, s) ==
  LET g == m.seg[s]
  IN IF g.refs > 1 THEN [DetachPages(m, p, g.addr, g.len) EXCEPT !.seg[s].refs = @ - 1]
     ELSE [UnmapPages(m, p, g.addr, g.len) EXCEPT !.seg[s] = Seg0]

\* _segment_deallocate, with the semaphores of the segment
DeallocateSegment(m, p, s) ==
  LET g == m.seg[s]
  IN IF g.refs > 1 THEN [DetachPages(m, p, g.addr, g.len) EXCEPT !.seg[s].refs = @ - 1]
     ELSE [UnmapPages(m, p, g.addr, g.len) EXCEPT !.seg[s] = Seg0,
             !.sem = [f \in DOMAIN @ |-> IF @[f].seg = s THEN [@[f] EXCEPT !.seg = None, !.count = 0]
                                         ELSE @[f]]]

\* _release_segments
ReleaseSegments(m, p) ==
  FoldLeft(LAMBDA s, k : IF s.proc[p][k] = None THEN s
                         ELSE [DeallocateSegment(s, p, s.proc[p][k])
                                 EXCEPT !.proc[p] = [@ EXCEPT ![k] = None]],
           m, <<"code", "data", "heap">>)

\* destroy_threads: the stack goes, and a wait for a semaphore ends
DestroyThread(m, p) ==
  IF ~m.proc[p].thread THEN m
  ELSE LET s == UnmapPages(m, p, Top - m.proc[p].stack, m.proc[p].stack)
       IN [s EXCEPT !.proc[p].thread = FALSE, !.proc[p].stack = 0,
                    !.sem = [f \in DOMAIN @ |-> [@[f] EXCEPT !.waits = SelectSeq(@, LAMBDA q : q # p)]]]

\* process_destroy, its memory
Destroy(m, p) ==
  LET unlocal(s) == IF s.proc[p].local THEN UnmapPages(s, p, Local, 1) ELSE s
      remove(s) == [Pfree(s, s.proc[p].dir) EXCEPT !.proc[p] = Proc0]
  IN remove(unlocal(ReleaseSegments(DestroyThread(m, p), p)))

\* The frames process p has mapped or uses as tables that its segments, stack and
\* local page do not account for when it is destroyed after a failed step.
Covered(m, p) ==
  UNION {IF m.proc[p][k] = None THEN {}
         ELSE m.seg[m.proc[p][k]].addr .. m.seg[m.proc[p][k]].addr + m.seg[m.proc[p][k]].len - 1 :
           k \in {"code", "data", "heap"}}
  \cup (IF m.proc[p].local THEN {Local} ELSE {})
  \cup (IF m.proc[p].thread THEN Top - m.proc[p].stack .. Top - 1 ELSE {})
Uncovered(m, p) ==
  LET lost == {v \in Page \ Covered(m, p) : m.proc[p].pte[v] # None}
  IN {m.proc[p].pte[v] : v \in lost} \cup {m.proc[p].tab[v \div PerTable] : v \in lost}
Abandon(m, p) == [Destroy(m, p) EXCEPT !.leaked = @ \cup Uncovered(m, p)]

-----------------------------------------------------------------------------
(* Operations *)

Alive(p) == mem.proc[p].dir # None

\* process_create: the directory
NewProcess(m, p) ==
  LET a == Palloc(m) IN [m |-> [a.m EXCEPT !.proc[p].dir = a.f], ok |-> a.f # None]

Then(r, Op(_)) == IF r.ok THEN Op(r.m) ELSE r

\* _copy_segments: code shared; data and heap shared with RFMEM, else copied; then
\* the local page and the stack
CopySegments(m, c, p, rfmem) ==
  LET seg(s, k) == IF s.proc[p][k] = None THEN [m |-> s, ok |-> TRUE]
                   ELSE IF rfmem THEN Share(s, c, p, k) ELSE CopySegment(s, c, p, k)
      pages(s, first, n) ==
        LET r == CopyPages(s, c, p, first, n)
        IN IF r.ok THEN r ELSE [r EXCEPT !.m = UnmapPages(@, c, first, n)]
      r1 == Share(m, c, p, "code")
      r2 == Then(r1, LAMBDA s : seg(s, "data"))
      r3 == Then(r2, LAMBDA s : seg(s, "heap"))
      r4 == Then(r3, LAMBDA s : pages(s, Local, 1))
  IN Then(r4, LAMBDA s : pages(s, Top - s.proc[p].stack, s.proc[p].stack))

\* process_duplicate (mm_rfork); create_thread may fail.  What it leaves when it
\* fails, process_destroy releases, but for the local page not yet known as such
\* and the stack that has no thread.
Fork(p, c, rfmem, created) ==
  /\ Alive(p) /\ mem.proc[p].thread /\ mem.proc[p].code # None /\ ~Alive(c)
  /\ \E n \in {NewProcess(mem, c)} : \E r \in {Then(n, LAMBDA s : CopySegments(s, c, p, rfmem))} :
        mem' = IF ~n.ok THEN mem
               ELSE IF ~r.ok THEN Abandon(r.m, c)
               ELSE IF ~created THEN Abandon([r.m EXCEPT !.proc[c].local = TRUE], c)
               ELSE [r.m EXCEPT !.proc[c].local = TRUE, !.proc[c].thread = TRUE,
                                !.proc[c].stack = mem.proc[p].stack]

\* process_replace (mm_exec): the new stack, the segments of the file, the thread
Exec(p, hasData, created) ==
  /\ Alive(p) /\ mem.proc[p].thread
  /\ LET s1 == MapPages(DestroyThread(mem, p), p, Top - 1, 1)
         s2 == Then(s1, LAMBDA s : AllocateSegment(ReleaseSegments(s, p), p, "code", Code, 1))
         s3 == Then(s2, LAMBDA s : IF hasData THEN AllocateSegment(s, p, "data", Data, 1)
                                   ELSE [m |-> s, ok |-> TRUE])
     IN \E r \in {s3} :
          mem' = IF r.ok /\ created
                 THEN [r.m EXCEPT !.proc[p].thread = TRUE, !.proc[p].stack = 1]
                 ELSE Abandon(r.m, p)

\* process_destroy (mm_exit, mm_kill); a heap page mapped by a growth that failed
\* is in no segment
Exit(p) == Alive(p) /\ mem' = Abandon(mem, p)

\* mm_sbrk; a heap that two processes share is not grown or shrunk (see README)
Sbrk(p, diff) ==
  /\ Alive(p) /\ mem.proc[p].thread /\ mem.proc[p].code # None
  /\ LET old == mem.proc[p].heap
         new == CHOOSE x \in FreeSegs(mem) : TRUE
         prev == IF mem.proc[p].data = None THEN mem.proc[p].code ELSE mem.proc[p].data
         h == IF old = None THEN new ELSE old
         m == IF old # None THEN mem
              ELSE [mem EXCEPT !.seg[new] = [addr |-> mem.seg[prev].addr + mem.seg[prev].len,
                                             len |-> 0, refs |-> 1],
                               !.proc[p].heap = new]
         g == m.seg[h]
         end == g.addr + g.len
     IN /\ old # None \/ FreeSegs(mem) # {}
        /\ g.refs = 1
        /\ \E r \in {MapPages(m, p, end, diff)} :
           mem' = IF diff > 0
                  THEN IF Local - end < diff THEN m
                       ELSE IF r.ok THEN [r.m EXCEPT !.seg[h].len = @ + diff] ELSE r.m
                  ELSE IF g.len < -diff THEN m
                  ELSE [UnmapPages(m, p, end + diff, -diff) EXCEPT !.seg[h].len = @ + diff]

\* expand_stack: the pages down to the fault; the process is killed when it fails
ExpandStack(p, v) ==
  /\ Alive(p) /\ mem.proc[p].thread /\ mem.proc[p].stack > 0
  /\ v < Top - mem.proc[p].stack
  /\ LET n == Top - mem.proc[p].stack - v
     IN \E r \in {MapPages(mem, p, v, n)} :
        mem' = IF r.ok THEN [r.m EXCEPT !.proc[p].stack = @ + n]
               ELSE Abandon(UnmapPages(r.m, p, v, n), p)

-----------------------------------------------------------------------------
(* servers/mm/semaphore.c; the address is the data page's *)

Waiting(p) == \E f \in DOMAIN mem.sem : Contains(mem.sem[f].waits, p)

\* _find: the semaphore at that address, created with count 0
FindSem(p) ==
  LET f == mem.proc[p].pte[Data]
  IN IF mem.sem[f].seg # None THEN mem
     ELSE [mem EXCEPT !.sem[f] = [seg |-> mem.proc[p].data, count |-> 0, waits |-> << >>]]

CanUse(p) == Alive(p) /\ mem.proc[p].thread /\ mem.proc[p].data # None /\ ~Waiting(p)

\* mm_semacquire
SemAcquire(p, wait) ==
  /\ CanUse(p)
  /\ LET f == mem.proc[p].pte[Data]
         m == FindSem(p)
     IN mem' = IF m.sem[f].count > 0 THEN [m EXCEPT !.sem[f].count = @ - 1]
               ELSE IF wait THEN [m EXCEPT !.sem[f].waits = Append(@, p)] ELSE m

\* mm_semrelease and _release: the first waiters get the count
SemRelease(p, n) ==
  /\ CanUse(p)
  /\ LET f == mem.proc[p].pte[Data]
         m == FindSem(p)
         c == m.sem[f].count + n
         k == IF c < Len(m.sem[f].waits) THEN c ELSE Len(m.sem[f].waits)
     IN /\ c <= CountMax
        /\ mem' = [m EXCEPT !.sem[f].count = c - k,
                            !.sem[f].waits = SubSeq(@, k + 1, Len(@))]

-----------------------------------------------------------------------------
\* spawn: the first process has a directory and a local page, and a thread
\* without a stack of its own
MemoryInit ==
  LET sem0 == [seg |-> None, count |-> 0, waits |-> << >>]
      m0 == [free |-> 1 .. Frames, rest |-> Frames, clock |-> 0,
             proc |-> [p \in Proc |-> Proc0], seg |-> [s \in Seg |-> Seg0],
             sem |-> [f \in 1 .. Frames |-> sem0], leaked |-> {}]
      m1 == NewProcess(m0, Init1).m
  IN mem = [MapPages(m1, Init1, Local, 1).m EXCEPT !.proc[Init1].local = TRUE,
                                                   !.proc[Init1].thread = TRUE]

\* Behaviours end at the first step that loses frames: what it loses is in leaked.
MemoryNext ==
  /\ mem.leaked = {}
  /\ \E p \in Proc :
    \/ Exit(p)
    \/ \E hasData, created \in BOOLEAN : Exec(p, hasData, created)
    \/ \E c \in Proc, rfmem, created \in BOOLEAN : Fork(p, c, rfmem, created)
    \/ \E diff \in {-1, 1, 2} : Sbrk(p, diff)
    \/ \E v \in Stack .. Top - 1 : ExpandStack(p, v)
    \/ \E wait \in BOOLEAN : ~Waiting(p) /\ SemAcquire(p, wait)
    \/ \E n \in 1 .. CountMax : SemRelease(p, n)

-----------------------------------------------------------------------------
(* Properties *)

Live == {p \in Proc : Alive(p)}
Dirs == {mem.proc[p].dir : p \in Live}
Tables == {mem.proc[p].tab[t] : p \in Live, t \in Table} \ {None}
MappedPages == {mem.proc[p].pte[v] : p \in Live, v \in Page} \ {None}

\* Every frame is free or has one use: a directory, a table, or the page of one
\* process or of a segment that processes share; the free count is exact, and the
\* allocator's clock is not past a free frame.  Only steps that fail lose frames.
FramesAccounted ==
  /\ mem.rest = Cardinality(mem.free)
  /\ \A f \in mem.free : f \div WordBits >= mem.clock
  /\ mem.free \cup mem.leaked \cup Dirs \cup Tables \cup MappedPages = 1 .. Frames
  /\ Cardinality(mem.free) + Cardinality(mem.leaked) + Cardinality(Live)
       + Cardinality({<<p, t>> \in Live \X Table : mem.proc[p].tab[t] # None})
       + Cardinality(MappedPages) = Frames
  /\ \A p, q \in Live, v, w \in Page :
       mem.proc[p].pte[v] # None /\ mem.proc[p].pte[v] = mem.proc[q].pte[w] =>
         /\ v = w
         /\ p # q => \E k \in {"code", "data", "heap"} :
                       /\ mem.proc[p][k] # None /\ mem.proc[p][k] = mem.proc[q][k]
                       /\ v \in mem.seg[mem.proc[p][k]].addr .. mem.seg[mem.proc[p][k]].addr
                                                              + mem.seg[mem.proc[p][k]].len - 1

\* Every page of a segment, of the stack and the local page is mapped, and a
\* segment is counted once per process that has it.
SegmentsMapped ==
  /\ \A p \in Live : \A v \in Covered(mem, p) : mem.proc[p].pte[v] # None
  /\ \A s \in Seg : mem.seg[s].refs =
       Cardinality({<<p, k>> \in Live \X {"code", "data", "heap"} : mem.proc[p][k] = s})

\* A semaphore lives in a segment some process has mapped, at its frame; those who
\* wait for it are alive and can reach it, and nobody waits while it has a count.
SemaphoresExact ==
  \A f \in 1 .. Frames :
    LET s == mem.sem[f]
    IN /\ s.seg # None => mem.seg[s.seg].refs > 0 /\ f \notin mem.free
       /\ \A i \in DOMAIN s.waits :
            /\ Alive(s.waits[i]) /\ mem.proc[s.waits[i]].data = s.seg
            /\ mem.proc[s.waits[i]].pte[Data] = f
       /\ s.waits # << >> => s.seg # None /\ s.count = 0
=============================================================================
