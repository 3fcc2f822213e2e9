-------------------------------- MODULE BlockCache --------------------------------
(***************************************************************************)
(* The block cache of the file system (lib/libvfs/cache.c) over its block  *)
(* device (servers/fs/block.c).  Buffers move between three lists; a hash  *)
(* table finds the buffer of a block.  The clients follow the discipline   *)
(* of lib/libtfs: they hold a buffer between cache_get or cache_create and *)
(* cache_release, and what they wrote is reported dirty at the latest when *)
(* they release it.  A block is one value; the device may fail.            *)
(***************************************************************************)
EXTENDS Lists

CONSTANTS
  Block,       \* block numbers
  BufferMax,   \* MAX_CACHE
  Value,       \* contents of a block, 0 is a cleared one
  LockMax,     \* bound: references to one buffer at a time
  Null

Buffer == 1 .. BufferMax     \* cache[]

ASSUME CacheAssumption ==
  BufferMax \in Nat /\ 0 \in Value /\ Null \notin Buffer \cup Block

VARIABLES
  buf,      \* buf[b]: [no, dirty, lock, data]
  free, lru, locked,   \* free_list, lru_list, locked_list, from their heads
  hash,     \* hash[n]: the buffer the table gives for block n, or Null
  disk,     \* the contents of the device
  pend,     \* buffers a client has written to and not yet reported
  latest    \* what was last written to each block

vars == <<buf, free, lru, locked, hash, disk, pend, latest>>

CacheInit ==
  /\ buf = [b \in Buffer |-> [no |-> Null, dirty |-> FALSE, lock |-> 0, data |-> 0]]
  /\ free = [i \in Buffer |-> i] /\ lru = << >> /\ locked = << >>
  /\ hash = [n \in Block |-> Null]
  /\ disk = [n \in Block |-> 0]
  /\ pend = {} /\ latest = disk

\* The fields of one buffer are set.
Set(b, no, dirty, lock, data) ==
  buf' = [buf EXCEPT ![b] = [no |-> no, dirty |-> dirty, lock |-> lock, data |-> data]]

\* list_remove from wherever it is, list_insert at the head of the list of locked
\* buffers
Lock(b) ==
  /\ free' = ListRemove(free, b) /\ lru' = ListRemove(lru, b)
  /\ locked' = ListInsert(ListRemove(locked, b), b)

\* the buffer cache_get and cache_create take for a block that has none
Victim == IF free # << >> THEN Head(free) ELSE IF lru # << >> THEN Head(lru) ELSE Null

\* sweep of the victim, when it is dirty
Swept(v) ==
  IF free = << >> /\ buf[v].dirty
  THEN disk' = [disk EXCEPT ![buf[v].no] = buf[v].data]
  ELSE UNCHANGED disk

\* the table without the block of an evicted buffer
Unhashed(v) == IF free = << >> THEN [hash EXCEPT ![buf[v].no] = Null] ELSE hash

Hit(n, data) ==
  /\ hash[n] # Null /\ buf[hash[n]].lock < LockMax
  /\ Set(hash[n], buf[hash[n]].no, buf[hash[n]].dirty, buf[hash[n]].lock + 1, data)
  /\ Lock(hash[n])
  /\ UNCHANGED <<hash, disk>>

\* Mutant: the dirty victim is not swept.
MissUnswept(n, data) ==
  /\ hash[n] = Null /\ Victim # Null
  /\ Set(Victim, n, FALSE, 1, data)
  /\ hash' = [Unhashed(Victim) EXCEPT ![n] = Victim]
  /\ Lock(Victim) /\ UNCHANGED disk

Miss(n, data) ==
  /\ hash[n] = Null /\ Victim # Null
  /\ Swept(Victim)
  /\ Set(Victim, n, FALSE, 1, data)
  /\ hash' = [Unhashed(Victim) EXCEPT ![n] = Victim]
  /\ Lock(Victim)

\* cache_create: the content is cleared, without a read.  The caller reports it
\* dirty when it releases it.
Create(n) ==
  /\ Hit(n, 0) \/ Miss(n, 0)
  /\ pend' = pend \cup {hash'[n]}
  /\ latest' = [latest EXCEPT ![n] = 0]

\* cache_get
Get(n) ==
  /\ IF hash[n] # Null THEN Hit(n, buf[hash[n]].data) ELSE Miss(n, disk[n])
  /\ UNCHANGED <<pend, latest>>

\* cache_get whose fill fails: the victim, swept and taken out of the table, is
\* free.  (When sweep fails, or no buffer is left, nothing changes.)
GetFails(n) ==
  /\ hash[n] = Null /\ Victim # Null
  /\ Swept(Victim)
  /\ hash' = Unhashed(Victim)
  /\ Set(Victim, n, FALSE, 0, buf[Victim].data)
  /\ free' = ListInsert(ListRemove(free, Victim), Victim)
  /\ lru' = ListRemove(lru, Victim)
  /\ UNCHANGED <<locked, pend, latest>>

\* a client writes to a buffer it holds
Write(b, v) ==
  /\ buf[b].lock > 0
  /\ Set(b, buf[b].no, buf[b].dirty, buf[b].lock, v)
  /\ pend' = pend \cup {b}
  /\ latest' = [latest EXCEPT ![buf[b].no] = v]
  /\ UNCHANGED <<free, lru, locked, hash, disk>>

\* cache_modify
Modify(b) ==
  /\ buf[b].lock > 0
  /\ Set(b, buf[b].no, TRUE, buf[b].lock, buf[b].data) /\ pend' = pend \ {b}
  /\ UNCHANGED <<free, lru, locked, hash, disk, latest>>

\* cache_release; the last reference makes the buffer the next victim, and whoever
\* wrote to it has said so by then.
Release(b, dirty) ==
  /\ buf[b].lock > 0
  /\ b \in pend /\ buf[b].lock = 1 => dirty
  /\ Set(b, buf[b].no, buf[b].dirty \/ dirty, buf[b].lock - 1, buf[b].data)
  /\ pend' = IF dirty THEN pend \ {b} ELSE pend
  /\ IF buf[b].lock = 1
     THEN locked' = ListRemove(locked, b) /\ lru' = ListInsert(lru, b)
     ELSE UNCHANGED <<locked, lru>>
  /\ UNCHANGED <<free, hash, disk, latest>>

\* cache_invalidate of a block nobody holds: its content no longer matters.
Invalidate(n) ==
  LET b == hash[n]
  IN /\ b # Null /\ buf[b].lock = 0
     /\ free' = ListInsert(free, b) /\ lru' = ListRemove(lru, b)
     /\ hash' = [hash EXCEPT ![n] = Null]
     /\ latest' = [latest EXCEPT ![n] = disk[n]]
     /\ UNCHANGED <<buf, locked, disk, pend>>

\* cache_flush: the dirty buffers of lru_list, then those of locked_list, are swept,
\* up to a dirty one that the device fails to write, the one at stop.  With unmount,
\* the buffers of lru_list that were passed are disposed of, one by one.
Flush(unmount, stop) ==
  LET all == lru \o locked
      passed == {all[i] : i \in 1 .. stop - 1}
      swept(n) == {b \in passed : buf[b].no = n /\ buf[b].dirty}
      gone == IF ~unmount THEN 0 ELSE IF stop <= Len(lru) THEN stop - 1 ELSE Len(lru)
  IN /\ stop <= Len(all) => buf[all[stop]].dirty
     /\ disk' = [n \in Block |->
                  IF swept(n) # {} THEN buf[CHOOSE b \in swept(n) : TRUE].data ELSE disk[n]]
     /\ buf' = [b \in Buffer |-> IF b \in passed THEN [buf[b] EXCEPT !.dirty = FALSE] ELSE buf[b]]
     /\ hash' = [n \in Block |->
                  IF \E i \in 1 .. gone : buf[lru[i]].no = n THEN Null ELSE hash[n]]
     /\ lru' = SubSeq(lru, gone + 1, Len(lru))
     /\ free' = Turned(lru, gone) \o free
     /\ UNCHANGED <<locked, pend, latest>>

CacheNext ==
  \/ \E n \in Block : Create(n) \/ Get(n) \/ GetFails(n) \/ Invalidate(n)
  \/ \E b \in Buffer :
       Modify(b) \/ (\E dirty \in BOOLEAN : Release(b, dirty)) \/ \E v \in Value : Write(b, v)
  \/ \E unmount \in BOOLEAN, stop \in 1 .. Len(lru) + Len(locked) + 1 : Flush(unmount, stop)

CacheSpec == CacheInit /\ [][CacheNext]_vars

-----------------------------------------------------------------------------
(* Properties *)

\* Every buffer is in one list, the one its lock count and the hash table call
\* for: a held buffer is never a victim, and a block has one buffer.
BuffersExact ==
  /\ NoDup(free \o lru \o locked) /\ Elems(free \o lru \o locked) = Buffer
  /\ \A b \in Buffer :
       LET mine == buf[b].no # Null /\ hash[buf[b].no] = b
       IN /\ b \in Elems(locked) <=> buf[b].lock > 0
          /\ b \in Elems(free) <=> ~mine
          /\ b \in pend => buf[b].lock > 0

\* No write is lost: the cache gives the last content of every block it has, the
\* device that of every block it has not, and a clean buffer can be dropped.
Coherent ==
  \A n \in Block :
    /\ hash[n] = Null => disk[n] = latest[n]
    /\ hash[n] # Null =>
         LET c == buf[hash[n]]
         IN c.data = latest[n] /\ (c.dirty \/ hash[n] \in pend \/ disk[n] = c.data)
=============================================================================
