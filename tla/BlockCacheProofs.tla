--------------------------- MODULE BlockCacheProofs ---------------------------
(***************************************************************************)
(* No write is lost in the block cache of lib/libvfs/cache.c, for every    *)
(* number of blocks and buffers, whenever the device fails.                *)
(***************************************************************************)
EXTENDS BlockCache, ListsProofs

\* cache_t
Record == [no : Block \cup {Null}, dirty : BOOLEAN, lock : Nat, data : Value]

\* The type of the state.
CacheType ==
  /\ buf \in [Buffer -> Record]
  /\ free \in Seq(Buffer) /\ lru \in Seq(Buffer) /\ locked \in Seq(Buffer)
  /\ hash \in [Block -> Buffer \cup {Null}]
  /\ disk \in [Block -> Value] /\ latest \in [Block -> Value]
  /\ pend \subseteq Buffer

\* Every buffer is linked in one of the three lists, once.
ListsApart ==
  /\ NoDup(free) /\ NoDup(lru) /\ NoDup(locked)
  /\ Elems(free) \cap Elems(lru) = {} /\ Elems(free) \cap Elems(locked) = {}
  /\ Elems(lru) \cap Elems(locked) = {}
  /\ Elems(free) \cup Elems(lru) \cup Elems(locked) = Buffer

\* hash_get of its own block gives the buffer.
Mine(b) == buf[b].no # Null /\ hash[buf[b].no] = b

\* The lists, the lock counts and the table agree.
Placed ==
  \A b \in Buffer :
    /\ b \in Elems(locked) <=> buf[b].lock > 0
    /\ b \in Elems(free) <=> ~Mine(b)
    /\ b \in pend => buf[b].lock > 0

\* The table gives for a block a buffer of that block.
Hashed == \A n \in Block : hash[n] # Null => buf[hash[n]].no = n

Dirty(b) == buf[b].dirty

\* The two halves of Coherent, block by block.
OnDisk(n) == hash[n] = Null => disk[n] = latest[n]
InCache(n) ==
  hash[n] # Null =>
    /\ buf[hash[n]].data = latest[n]
    /\ Dirty(hash[n]) \/ hash[n] \in pend \/ disk[n] = buf[hash[n]].data
Contents == \A n \in Block : OnDisk(n) /\ InCache(n)

\* The inductive invariant.
CacheInv == CacheType /\ ListsApart /\ Placed /\ Hashed /\ Contents

-----------------------------------------------------------------------------
(* What the invariant says of the buffers an operation touches *)

\* A buffer that the table gives for a block is its own, and not in the free list.
LEMMA HashedIsMine ==
  ASSUME CacheInv, NEW n \in Block, hash[n] # Null
  PROVE  hash[n] \in Buffer /\ buf[hash[n]].no = n /\ Mine(hash[n]) /\ hash[n] \notin Elems(free)
  <1>1. hash[n] \in Buffer /\ buf[hash[n]].no = n
    BY DEF CacheInv, CacheType, Hashed
  <1>2. n # Null
    BY CacheAssumption
  <1>3. Mine(hash[n])
    BY <1>1, <1>2 DEF Mine
  <1> QED BY <1>1, <1>3 DEF CacheInv, Placed

\* The fields of a buffer.
LEMMA Fields ==
  ASSUME CacheType, NEW b \in Buffer
  PROVE  /\ buf[b] \in Record
         /\ buf[b].no \in Block \cup {Null} /\ buf[b].lock \in Nat /\ buf[b].data \in Value
         /\ buf[b].dirty \in BOOLEAN
  BY DEF CacheType, Record

\* A step that sets the fields of one buffer leaves the others alone.
LEMMA OneBuffer ==
  ASSUME CacheType, NEW b \in Buffer, NEW no \in Block \cup {Null}, NEW dirty \in BOOLEAN,
         NEW lock \in Nat, NEW data \in Value, Set(b, no, dirty, lock, data)
  PROVE  /\ buf' \in [Buffer -> Record]
         /\ \A c \in Buffer : c # b => buf'[c] = buf[c]
         /\ \A c \in Buffer : c # b => (Dirty(c)' <=> Dirty(c))
         /\ buf'[b].no = no /\ buf'[b].lock = lock /\ buf'[b].data = data
         /\ Dirty(b)' <=> dirty
  <1> DEFINE r == [no |-> no, dirty |-> dirty, lock |-> lock, data |-> data]
  <1>1. r \in Record /\ r.no = no /\ r.lock = lock /\ r.data = data /\ r.dirty = dirty
    BY DEF Record
  <1>2. buf' = [buf EXCEPT ![b] = r] /\ buf \in [Buffer -> Record]
    BY DEF Set, CacheType
  <1> HIDE DEF r
  <1>3. /\ buf' \in [Buffer -> Record] /\ buf'[b] = r
        /\ \A c \in Buffer : c # b => buf'[c] = buf[c]
    BY <1>1, <1>2, Zenon
  <1>4. \A c \in Buffer : c # b => (Dirty(c)' <=> Dirty(c))
    BY <1>3, Zenon DEF Dirty
  <1>5. Dirty(b)' <=> dirty
    BY <1>1, <1>3, Zenon DEF Dirty
  <1> QED BY <1>1, <1>3, <1>4, <1>5

\* list_remove, list_insert: the buffer is in the list of locked ones, wherever it
\* was.
LEMMA LockLinks ==
  ASSUME CacheType, ListsApart, NEW b \in Buffer, Lock(b)
  PROVE  /\ free' \in Seq(Buffer) /\ lru' \in Seq(Buffer) /\ locked' \in Seq(Buffer)
         /\ ListsApart'
         /\ Elems(free') = Elems(free) \ {b} /\ Elems(lru') = Elems(lru) \ {b}
         /\ Elems(locked') = Elems(locked) \cup {b}
  <1>1. free \in Seq(Buffer) /\ lru \in Seq(Buffer) /\ locked \in Seq(Buffer)
    BY DEF CacheType
  <1>2. NoDup(free) /\ NoDup(lru) /\ NoDup(locked)
    BY DEF ListsApart
  <1>3. free' \in Seq(Buffer) /\ NoDup(free') /\ Elems(free') = Elems(free) \ {b}
    BY <1>1, <1>2, RemoveUnlinks DEF Lock
  <1>4. lru' \in Seq(Buffer) /\ NoDup(lru') /\ Elems(lru') = Elems(lru) \ {b}
    BY <1>1, <1>2, RemoveUnlinks DEF Lock
  <1> DEFINE k == ListRemove(locked, b)
  <1>5. k \in Seq(Buffer) /\ NoDup(k) /\ Elems(k) = Elems(locked) \ {b}
    BY <1>1, <1>2, RemoveUnlinks
  <1>6. locked' = ListInsert(k, b)
    BY DEF Lock
  <1> HIDE DEF k
  <1>7. locked' \in Seq(Buffer) /\ NoDup(locked') /\ Elems(locked') = Elems(k) \cup {b}
    BY <1>5, <1>6, InsertLinks
  <1>8. Elems(locked') = Elems(locked) \cup {b}
    BY <1>5, <1>7
  <1>9. ListsApart'
    BY <1>3, <1>4, <1>7, <1>8, Zenon DEF ListsApart, Buffer
  <1> QED BY <1>3, <1>4, <1>7, <1>8, <1>9

\* The victim of cache_get and cache_create is held by nobody; one of lru_list is
\* in the table, one of free_list is not.
LEMMA VictimFacts ==
  ASSUME CacheInv, Victim # Null
  PROVE  /\ Victim \in Buffer /\ Victim \notin pend
         /\ Victim \notin Elems(locked)
         /\ free # << >> => ~Mine(Victim)
         /\ free = << >> => Mine(Victim) /\ buf[Victim].no \in Block
  <1>1. free \in Seq(Buffer) /\ lru \in Seq(Buffer)
    BY DEF CacheInv, CacheType
  <1>2. CASE free # << >>
    <2>1. Victim \in Buffer /\ Victim \in Elems(free)
      BY <1>1, <1>2, DequeueUnlinks DEF Victim
    <2> QED BY <1>2, <2>1 DEF CacheInv, Placed, ListsApart
  <1>3. CASE free = << >>
    <2>1. Victim \in Buffer /\ Victim \in Elems(lru)
      BY <1>1, <1>3, DequeueUnlinks DEF Victim
    <2>2. Victim \notin Elems(free) /\ Victim \notin Elems(locked)
      BY <2>1 DEF CacheInv, ListsApart
    <2>3. Mine(Victim) /\ Victim \notin pend
      BY <2>1, <2>2 DEF CacheInv, Placed
    <2>4. buf[Victim].no \in Block
      BY <2>1, <2>3, Fields DEF CacheInv, Mine
    <2> QED BY <1>3, <2>1, <2>2, <2>3, <2>4
  <1> QED BY <1>2, <1>3

\* sweep and hash_remove of the victim: its block, if it had one, is up to date on
\* the device and no longer in the table; nothing else changes.
LEMMA Evicted ==
  ASSUME CacheInv, NEW n \in Block, hash[n] = Null, Victim # Null, Swept(Victim)
  PROVE  LET h == Unhashed(Victim)
         IN  /\ disk' \in [Block -> Value] /\ disk'[n] = disk[n]
             /\ h \in [Block -> Buffer \cup {Null}] /\ h[n] = Null
             /\ \A m \in Block : h[m] # Null =>
                  h[m] = hash[m] /\ h[m] # Victim /\ disk'[m] = disk[m]
             /\ \A m \in Block : h[m] = Null => disk'[m] = latest[m]
             /\ \A b \in Buffer : b # Victim =>
                  (buf[b].no # Null /\ h[buf[b].no] = b <=> Mine(b))
  <1> DEFINE h == Unhashed(Victim)
             v == Victim
             o == buf[v].no
  <1>1. /\ hash \in [Block -> Buffer \cup {Null}] /\ disk \in [Block -> Value]
        /\ \A b \in Buffer : buf[b].no \in Block \cup {Null} /\ buf[b].data \in Value
    BY Fields DEF CacheInv, CacheType
  <1>2. v \in Buffer /\ v \notin pend /\ v # Null
    BY VictimFacts
  <1>3. \A m \in Block : OnDisk(m) /\ InCache(m)
    BY DEF CacheInv, Contents
  <1>4. \A m \in Block : hash[m] # Null => buf[hash[m]].no = m /\ hash[m] \in Buffer
    BY HashedIsMine
  <1>5. CASE free # << >>
    <2>1. h = hash /\ disk' = disk
      BY <1>5 DEF Unhashed, Swept
    <2>2. ~Mine(v)
      BY <1>5, VictimFacts
    <2>3. \A m \in Block : hash[m] # Null => hash[m] # v
      BY <2>2, HashedIsMine
    <2> HIDE DEF h, v
    <2>4. \A m \in Block : h[m] = Null => disk'[m] = latest[m]
      BY <1>3, <2>1 DEF OnDisk
    <2>5. \A b \in Buffer : buf[b].no # Null /\ h[buf[b].no] = b <=> Mine(b)
      BY <2>1 DEF Mine
    <2> QED BY <1>1, <2>1, <2>3, <2>4, <2>5 DEF h, v
  <1>6. CASE free = << >>
    <2>1. Mine(v) /\ o \in Block
      BY <1>6, VictimFacts
    <2>2. hash[o] = v /\ o # Null
      BY <2>1 DEF Mine
    <2>3. h = [hash EXCEPT ![o] = Null]
      BY <1>6 DEF Unhashed
    <2>4. IF Dirty(v) THEN disk' = [disk EXCEPT ![o] = buf[v].data] ELSE disk' = disk
      BY <1>6, Zenon DEF Swept, Dirty
    <2> HIDE DEF h, v, o
    <2>5. /\ h \in [Block -> Buffer \cup {Null}] /\ h[o] = Null
          /\ \A m \in Block : m # o => h[m] = hash[m]
      BY <1>1, <2>1, <2>3
    <2>6. /\ disk' \in [Block -> Value] /\ \A m \in Block : m # o => disk'[m] = disk[m]
          /\ Dirty(v) => disk'[o] = buf[v].data
          /\ ~Dirty(v) => disk'[o] = disk[o]
      BY <1>1, <1>2, <2>1, <2>4
    <2>7. n # o
      BY <1>2, <2>2
    <2>8. ASSUME NEW m \in Block, h[m] # Null
          PROVE  h[m] = hash[m] /\ h[m] # v /\ disk'[m] = disk[m]
      <3>1. m # o /\ h[m] = hash[m]
        BY <2>5, <2>8
      <3>2. hash[m] # v
        BY <1>4, <2>8, <3>1 DEF o
      <3> QED BY <2>6, <3>1, <3>2
    <2>9. disk'[o] = latest[o]
      <3>1. buf[v].data = latest[o] /\ (Dirty(v) \/ disk[o] = buf[v].data)
        BY <1>2, <1>3, <2>1, <2>2 DEF InCache
      <3> QED BY <2>6, <3>1
    <2>10. ASSUME NEW m \in Block, h[m] = Null PROVE disk'[m] = latest[m]
      <3>1. CASE m = o
        BY <2>9, <3>1
      <3>2. CASE m # o
        BY <1>3, <2>5, <2>6, <2>10, <3>2 DEF OnDisk
      <3> QED BY <3>1, <3>2
    <2>11. ASSUME NEW b \in Buffer, b # v
           PROVE  buf[b].no # Null /\ h[buf[b].no] = b <=> Mine(b)
      <3>1. CASE buf[b].no = o
        <4>1. b # Null
          BY CacheAssumption
        <4> QED BY <2>2, <2>5, <2>11, <3>1, <4>1 DEF Mine
      <3>2. CASE buf[b].no # o
        BY <1>1, <2>5, <3>2 DEF Mine
      <3> QED BY <3>1, <3>2
    <2>12. /\ disk'[n] = disk[n] /\ h[n] = Null
      BY <2>5, <2>6, <2>7
    <2> QED BY <2>5, <2>6, <2>8, <2>10, <2>11, <2>12 DEF h, v
  <1> QED BY <1>5, <1>6

\* A buffer found in the table is held once more.  Whoever changes its content says
\* later that it is dirty.
LEMMA HitKeeps ==
  ASSUME CacheInv, NEW n \in Block, NEW data \in Value, Hit(n, data),
         latest' \in [Block -> Value], latest'[n] = data,
         \A m \in Block : m # n => latest'[m] = latest[m],
         pend' = pend \/ pend' = pend \cup {hash[n]},
         hash[n] \in pend' \/ data = buf[hash[n]].data
  PROVE  CacheInv'
  <1>1. /\ hash[n] # Null /\ hash[n] \in Buffer /\ buf[hash[n]].no = n /\ Mine(hash[n])
        /\ hash[n] \notin Elems(free)
    BY HashedIsMine DEF Hit
  <1> PICK b \in Buffer : b = hash[n]
    BY <1>1
  <1>2. CacheType /\ ListsApart
    BY DEF CacheInv
  <1>3. /\ free' \in Seq(Buffer) /\ lru' \in Seq(Buffer) /\ locked' \in Seq(Buffer)
        /\ ListsApart'
        /\ Elems(free') = Elems(free) \ {b}
        /\ Elems(locked') = Elems(locked) \cup {b}
    BY <1>1, <1>2, LockLinks DEF Hit
  <1>4. hash' = hash /\ disk' = disk
    BY DEF Hit
  <1>5. buf[b].dirty \in BOOLEAN /\ buf[b].lock + 1 \in Nat /\ buf[b].no \in Block \cup {Null}
    BY <1>2, Fields
  <1>6. Set(b, buf[b].no, buf[b].dirty, buf[b].lock + 1, data)
    BY DEF Hit
  <1>7. /\ buf' \in [Buffer -> Record]
        /\ \A c \in Buffer : c # b => buf'[c] = buf[c]
        /\ \A c \in Buffer : c # b => (Dirty(c)' <=> Dirty(c))
        /\ buf'[b].no = buf[b].no /\ buf'[b].lock = buf[b].lock + 1 /\ buf'[b].data = data
        /\ Dirty(b)' <=> buf[b].dirty
    BY <1>2, <1>5, <1>6, OneBuffer
  <1>12. Dirty(b)' <=> Dirty(b)
    BY <1>7, Zenon DEF Dirty
  <1>13. \A c \in Buffer : buf'[c].no = buf[c].no
    BY <1>7
  <1>8. CacheType'
    BY <1>1, <1>2, <1>3, <1>4, <1>7 DEF CacheType
  <1>9. Hashed'
    BY <1>2, <1>4, <1>13 DEF Hashed, CacheInv, CacheType
  <1>10. Placed'
    <2> SUFFICES ASSUME NEW c \in Buffer
                 PROVE  /\ c \in Elems(locked') <=> buf'[c].lock > 0
                        /\ c \in Elems(free') <=> ~Mine(c)'
                        /\ c \in pend' => buf'[c].lock > 0
      BY DEF Placed
    <2>1. Mine(c)' <=> Mine(c)
      BY <1>4, <1>13 DEF Mine
    <2>2. /\ c \in Elems(locked) <=> buf[c].lock > 0
          /\ c \in Elems(free) <=> ~Mine(c)
          /\ c \in pend => buf[c].lock > 0
      BY DEF CacheInv, Placed
    <2>3. CASE c = b
      <3>1. buf[b].lock \in Nat
        BY <1>2, Fields
      <3>2. buf'[c].lock > 0
        BY <1>7, <2>3, <3>1
      <3> QED BY <1>1, <1>3, <2>1, <2>3, <3>2
    <2>4. CASE c # b
      BY <1>3, <1>7, <2>1, <2>2, <2>4
    <2> QED BY <2>3, <2>4
  <1>11. Contents'
    <2> SUFFICES ASSUME NEW m \in Block PROVE OnDisk(m)' /\ InCache(m)'
      BY DEF Contents
    <2>1. OnDisk(m) /\ InCache(m)
      BY DEF CacheInv, Contents
    <2>2. CASE m = n
      <3>1. OnDisk(m)'
        BY <1>1, <1>4, <2>2 DEF OnDisk
      <3>2. b \in pend => b \in pend'
        OBVIOUS
      <3>3. buf'[b].data = latest'[n] /\ (Dirty(b)' \/ b \in pend' \/ disk'[n] = buf'[b].data)
        BY <1>1, <1>4, <1>7, <1>12, <2>1, <2>2, <3>2 DEF InCache
      <3>4. hash'[m] = b
        BY <1>4, <2>2
      <3> QED BY <2>2, <3>1, <3>3, <3>4 DEF InCache
    <2>3. CASE m # n
      <3>1. OnDisk(m)'
        BY <1>4, <2>1, <2>3 DEF OnDisk
      <3>2. ASSUME hash[m] # Null
            PROVE  hash[m] \in Buffer /\ hash[m] # b
        BY <1>1, <2>3, <3>2, HashedIsMine
      <3>3. InCache(m)'
        BY <1>4, <1>7, <2>1, <2>3, <3>2 DEF InCache
      <3> QED BY <3>1, <3>3
    <2> QED BY <2>2, <2>3
  <1> QED BY <1>3, <1>8, <1>9, <1>10, <1>11 DEF CacheInv

\* A block that is not cached takes the victim, whose own block is on the device.
LEMMA MissKeeps ==
  ASSUME CacheInv, NEW n \in Block, NEW data \in Value, Miss(n, data),
         latest' \in [Block -> Value], latest'[n] = data,
         \A m \in Block : m # n => latest'[m] = latest[m],
         pend' = pend \/ pend' = pend \cup {Victim},
         Victim \in pend' \/ data = disk[n]
  PROVE  CacheInv'
  <1>1. hash[n] = Null /\ Victim # Null /\ Swept(Victim)
    BY DEF Miss
  <1>2. /\ Victim \in Buffer /\ Victim \notin pend /\ Victim \notin Elems(locked)
    BY <1>1, VictimFacts
  <1> PICK v \in Buffer : v = Victim
    BY <1>2
  <1> DEFINE h == Unhashed(Victim)
  <1>3. /\ disk' \in [Block -> Value] /\ disk'[n] = disk[n]
        /\ h \in [Block -> Buffer \cup {Null}] /\ h[n] = Null
        /\ \A m \in Block : h[m] # Null => h[m] = hash[m] /\ h[m] # v /\ disk'[m] = disk[m]
        /\ \A m \in Block : h[m] = Null => disk'[m] = latest[m]
        /\ \A b \in Buffer : b # v => (buf[b].no # Null /\ h[buf[b].no] = b <=> Mine(b))
    BY <1>1, Evicted
  <1>4. hash' = [h EXCEPT ![n] = v]
    BY DEF Miss
  <1> HIDE DEF h
  <1>5. /\ hash' \in [Block -> Buffer \cup {Null}] /\ hash'[n] = v
        /\ \A m \in Block : m # n => hash'[m] = h[m]
    BY <1>3, <1>4
  <1>6. CacheType /\ ListsApart
    BY DEF CacheInv
  <1>7. /\ free' \in Seq(Buffer) /\ lru' \in Seq(Buffer) /\ locked' \in Seq(Buffer)
        /\ ListsApart'
        /\ Elems(free') = Elems(free) \ {v}
        /\ Elems(locked') = Elems(locked) \cup {v}
    BY <1>6, LockLinks DEF Miss
  <1>8. Set(v, n, FALSE, 1, data)
    BY Zenon DEF Miss
  <1>9. /\ buf' \in [Buffer -> Record]
        /\ \A c \in Buffer : c # v => buf'[c] = buf[c]
        /\ \A c \in Buffer : c # v => (Dirty(c)' <=> Dirty(c))
        /\ buf'[v].no = n /\ buf'[v].lock = 1 /\ buf'[v].data = data
    BY <1>6, <1>8, OneBuffer, Zenon
  <1>10. CacheType'
    BY <1>3, <1>5, <1>6, <1>7, <1>9 DEF CacheType
  <1>11. ASSUME NEW m \in Block, m # n, hash'[m] # Null
         PROVE  hash'[m] = hash[m] /\ hash[m] # v /\ hash[m] \in Buffer /\ hash[m] # Null
                /\ disk'[m] = disk[m]
    <2>1. hash'[m] = h[m]
      BY <1>5, <1>11
    <2>2. h[m] = hash[m] /\ hash[m] # v /\ hash[m] # Null /\ disk'[m] = disk[m]
      BY <1>3, <1>11, <2>1
    <2>3. hash[m] \in Buffer
      BY <2>2, HashedIsMine
    <2> QED BY <2>1, <2>2, <2>3
  <1>12. Hashed'
    <2> SUFFICES ASSUME NEW m \in Block, hash'[m] # Null PROVE buf'[hash'[m]].no = m
      BY DEF Hashed
    <2>1. CASE m = n
      BY <1>5, <1>9, <2>1
    <2>2. CASE m # n
      <3>1. buf[hash[m]].no = m
        BY <1>11, <2>2 DEF CacheInv, Hashed
      <3> QED BY <1>9, <1>11, <2>2, <3>1
    <2> QED BY <2>1, <2>2
  <1>13. Placed'
    <2> SUFFICES ASSUME NEW c \in Buffer
                 PROVE  /\ c \in Elems(locked') <=> buf'[c].lock > 0
                        /\ c \in Elems(free') <=> ~Mine(c)'
                        /\ c \in pend' => buf'[c].lock > 0
      BY DEF Placed
    <2>1. CASE c = v
      <3>1. n # Null
        BY CacheAssumption
      <3>2. Mine(c)'
        BY <1>5, <1>9, <2>1, <3>1 DEF Mine
      <3> QED BY <1>7, <1>9, <2>1, <3>2
    <2>2. CASE c # v
      <3>1. /\ c \in Elems(locked) <=> buf[c].lock > 0
            /\ c \in Elems(free) <=> ~Mine(c)
            /\ c \in pend => buf[c].lock > 0
        BY DEF CacheInv, Placed
      <3>2. Mine(c)' <=> Mine(c)
        <4>1. buf'[c].no = buf[c].no /\ buf[c].no \in Block \cup {Null}
          BY <1>6, <1>9, <2>2, Fields
        <4>2. CASE buf[c].no = n
          <5>1. c # Null
            BY CacheAssumption
          <5> QED BY <1>1, <1>5, <2>2, <4>1, <4>2, <5>1 DEF Mine
        <4>3. CASE buf[c].no # n
          BY <1>3, <1>5, <2>2, <4>1, <4>3 DEF Mine
        <4> QED BY <4>2, <4>3
      <3>3. c \in pend' => c \in pend
        BY <2>2
      <3> QED BY <1>7, <1>9, <2>2, <3>1, <3>2, <3>3
    <2> QED BY <2>1, <2>2
  <1>14. Contents'
    <2> SUFFICES ASSUME NEW m \in Block PROVE OnDisk(m)' /\ InCache(m)'
      BY DEF Contents
    <2>1. CASE m = n
      <3>1. hash'[m] = v /\ v # Null
        BY <1>5, <2>1, CacheAssumption
      <3>2. buf'[v].data = latest'[m] /\ (v \in pend' \/ disk'[m] = buf'[v].data)
        BY <1>3, <1>9, <2>1
      <3> QED BY <3>1, <3>2 DEF OnDisk, InCache
    <2>2. CASE m # n
      <3>1. OnDisk(m)'
        BY <1>3, <1>5, <2>2 DEF OnDisk
      <3>2. ASSUME hash'[m] # Null
            PROVE  /\ buf'[hash'[m]].data = latest'[m]
                   /\ Dirty(hash[m])' \/ hash'[m] \in pend' \/ disk'[m] = buf'[hash'[m]].data
        <4> PICK b \in Buffer : b = hash[m]
          BY <1>11, <2>2, <3>2
        <4>1. hash'[m] = b /\ b # v /\ b # Null /\ disk'[m] = disk[m]
          BY <1>11, <2>2, <3>2
        <4>2. buf[b].data = latest[m] /\ (Dirty(b) \/ b \in pend \/ disk[m] = buf[b].data)
          BY <4>1 DEF CacheInv, Contents, InCache
        <4>3. Dirty(b)' <=> Dirty(b)
          BY <1>9, <4>1
        <4>4. buf'[b] = buf[b] /\ latest'[m] = latest[m] /\ (b \in pend => b \in pend')
          BY <1>9, <2>2, <4>1
        <4>5. buf'[b].data = latest'[m] /\ (Dirty(b)' \/ b \in pend' \/ disk'[m] = buf'[b].data)
          BY <4>1, <4>2, <4>3, <4>4
        <4> QED BY <4>1, <4>5
      <3> QED BY <3>1, <3>2 DEF InCache
    <2> QED BY <2>1, <2>2
  <1> QED BY <1>7, <1>10, <1>12, <1>13, <1>14 DEF CacheInv

-----------------------------------------------------------------------------
(* The operations *)

\* cache_create
LEMMA CreateKeeps ==
  ASSUME CacheInv, NEW n \in Block, Create(n)
  PROVE  CacheInv'
  <1>1. /\ latest' \in [Block -> Value] /\ latest'[n] = 0
        /\ \A m \in Block : m # n => latest'[m] = latest[m]
    BY CacheAssumption DEF Create, CacheInv, CacheType
  <1>2. pend' = pend \cup {hash'[n]} /\ 0 \in Value
    BY CacheAssumption DEF Create
  <1>3. CASE Hit(n, 0)
    <2>1. hash' = hash
      BY <1>3 DEF Hit
    <2>2. pend' = pend \cup {hash[n]} /\ hash[n] \in pend'
      BY <1>2, <2>1
    <2> QED BY <1>1, <1>2, <1>3, <2>2, HitKeeps
  <1>4. CASE Miss(n, 0)
    <2>1. hash' = [Unhashed(Victim) EXCEPT ![n] = Victim]
      BY <1>4 DEF Miss
    <2>2. Unhashed(Victim) \in [Block -> Buffer \cup {Null}]
      BY <1>4, Evicted DEF Miss
    <2>3. hash'[n] = Victim
      BY <2>1, <2>2
    <2>4. pend' = pend \cup {Victim} /\ Victim \in pend'
      BY <1>2, <2>3
    <2> QED BY <1>1, <1>2, <1>4, <2>4, MissKeeps
  <1> QED BY <1>3, <1>4 DEF Create

\* cache_get
LEMMA GetKeeps ==
  ASSUME CacheInv, NEW n \in Block, Get(n)
  PROVE  CacheInv'
  <1>1. latest' = latest /\ pend' = pend /\ latest \in [Block -> Value] /\ disk \in [Block -> Value]
    BY DEF Get, CacheInv, CacheType
  <1>2. CASE hash[n] # Null
    <2> DEFINE data == buf[hash[n]].data
    <2>1. Hit(n, data)
      BY <1>2 DEF Get
    <2>2. data = latest[n] /\ data \in Value
      BY <1>1, <1>2 DEF CacheInv, Contents, InCache
    <2> HIDE DEF data
    <2>3. hash[n] \in pend' \/ data = buf[hash[n]].data
      BY DEF data
    <2> QED BY <1>1, <2>1, <2>2, <2>3, HitKeeps
  <1>3. CASE hash[n] = Null
    <2>1. Miss(n, disk[n])
      BY <1>3 DEF Get
    <2>2. disk[n] = latest[n] /\ disk[n] \in Value
      BY <1>1, <1>3 DEF CacheInv, Contents, OnDisk
    <2> QED BY <1>1, <2>1, <2>2, MissKeeps
  <1> QED BY <1>2, <1>3

\* cache_get that fails: the victim is free, and its block on the device.
LEMMA GetFailsKeeps ==
  ASSUME CacheInv, NEW n \in Block, GetFails(n)
  PROVE  CacheInv'
  <1>1. hash[n] = Null /\ Victim # Null /\ Swept(Victim)
    BY DEF GetFails
  <1>2. /\ Victim \in Buffer /\ Victim \notin pend /\ Victim \notin Elems(locked)
    BY <1>1, VictimFacts
  <1> PICK v \in Buffer : v = Victim
    BY <1>2
  <1>3. /\ disk' \in [Block -> Value]
        /\ hash' \in [Block -> Buffer \cup {Null}] /\ hash'[n] = Null
        /\ \A m \in Block : hash'[m] # Null =>
             hash'[m] = hash[m] /\ hash'[m] # v /\ disk'[m] = disk[m]
        /\ \A m \in Block : hash'[m] = Null => disk'[m] = latest[m]
        /\ \A b \in Buffer : b # v => (buf[b].no # Null /\ hash'[buf[b].no] = b <=> Mine(b))
    <2>1. hash' = Unhashed(Victim)
      BY DEF GetFails
    <2> QED BY <1>1, <2>1, Evicted
  <1>4. CacheType /\ ListsApart
    BY DEF CacheInv
  <1> PICK d \in Value : d = buf[v].data
    BY <1>4, Fields
  <1> PICK t \in BOOLEAN, z \in Nat : t = FALSE /\ z = 0
    BY Zenon
  <1>5. Set(v, n, t, z, d)
    BY Zenon DEF GetFails
  <1>6. /\ buf' \in [Buffer -> Record]
        /\ \A c \in Buffer : c # v => buf'[c] = buf[c]
        /\ \A c \in Buffer : c # v => (Dirty(c)' <=> Dirty(c))
        /\ buf'[v].no = n /\ buf'[v].lock = z
    BY <1>4, <1>5, OneBuffer
  <1>7. /\ free \in Seq(Buffer) /\ lru \in Seq(Buffer) /\ NoDup(free) /\ NoDup(lru)
    BY <1>4 DEF CacheType, ListsApart
  <1>8. /\ lru' \in Seq(Buffer) /\ NoDup(lru') /\ Elems(lru') = Elems(lru) \ {v}
    BY <1>7, RemoveUnlinks DEF GetFails
  <1>9. free' \in Seq(Buffer) /\ NoDup(free') /\ Elems(free') = Elems(free) \cup {v}
    <2> DEFINE k == ListRemove(free, v)
    <2>1. k \in Seq(Buffer) /\ NoDup(k) /\ Elems(k) = Elems(free) \ {v}
      BY <1>7, RemoveUnlinks
    <2>2. free' = ListInsert(k, v)
      BY DEF GetFails
    <2> HIDE DEF k
    <2>3. free' \in Seq(Buffer) /\ NoDup(free') /\ Elems(free') = Elems(k) \cup {v}
      BY <2>1, <2>2, InsertLinks
    <2> QED BY <2>1, <2>3
  <1>10. locked' = locked /\ pend' = pend /\ latest' = latest
    BY DEF GetFails
  <1>11. ListsApart'
    BY <1>2, <1>4, <1>8, <1>9, <1>10, Zenon DEF ListsApart, Buffer
  <1>12. CacheType'
    BY <1>3, <1>4, <1>6, <1>8, <1>9, <1>10 DEF CacheType
  <1>13. Hashed'
    <2> SUFFICES ASSUME NEW m \in Block, hash'[m] # Null PROVE buf'[hash'[m]].no = m
      BY DEF Hashed
    <2>1. hash'[m] = hash[m] /\ hash[m] # v /\ hash[m] # Null
      BY <1>3
    <2>2. hash[m] \in Buffer /\ buf[hash[m]].no = m
      BY <2>1, HashedIsMine
    <2> QED BY <1>6, <2>1, <2>2
  <1>14. Placed'
    <2> SUFFICES ASSUME NEW c \in Buffer
                 PROVE  /\ c \in Elems(locked') <=> buf'[c].lock > 0
                        /\ c \in Elems(free') <=> ~Mine(c)'
                        /\ c \in pend' => buf'[c].lock > 0
      BY DEF Placed
    <2>1. CASE c = v
      <3>1. c # Null
        BY CacheAssumption
      <3>2. ~Mine(c)'
        BY <1>3, <1>6, <2>1, <3>1 DEF Mine
      <3> QED BY <1>2, <1>6, <1>9, <1>10, <2>1, <3>2
    <2>2. CASE c # v
      <3>1. /\ c \in Elems(locked) <=> buf[c].lock > 0
            /\ c \in Elems(free) <=> ~Mine(c)
            /\ c \in pend => buf[c].lock > 0
        BY DEF CacheInv, Placed
      <3>2. Mine(c)' <=> Mine(c)
        BY <1>3, <1>6, <2>2 DEF Mine
      <3> QED BY <1>6, <1>9, <1>10, <2>2, <3>1, <3>2
    <2> QED BY <2>1, <2>2
  <1>15. Contents'
    <2> SUFFICES ASSUME NEW m \in Block PROVE OnDisk(m)' /\ InCache(m)'
      BY DEF Contents
    <2>1. OnDisk(m)'
      BY <1>3, <1>10 DEF OnDisk
    <2>2. ASSUME hash'[m] # Null
          PROVE  /\ buf'[hash'[m]].data = latest'[m]
                 /\ Dirty(hash[m])' \/ hash'[m] \in pend' \/ disk'[m] = buf'[hash'[m]].data
      <3>1. hash[m] # Null /\ hash'[m] = hash[m] /\ hash[m] # v /\ disk'[m] = disk[m]
        BY <1>3, <2>2
      <3> PICK b \in Buffer : b = hash[m]
        BY <3>1, HashedIsMine
      <3>2. buf[b].data = latest[m] /\ (Dirty(b) \/ b \in pend \/ disk[m] = buf[b].data)
        BY <3>1 DEF CacheInv, Contents, InCache
      <3>3. (Dirty(b)' <=> Dirty(b)) /\ buf'[b] = buf[b]
        BY <1>6, <3>1
      <3>4. buf'[b].data = latest'[m] /\ (Dirty(b)' \/ b \in pend' \/ disk'[m] = buf'[b].data)
        BY <1>10, <3>1, <3>2, <3>3
      <3> QED BY <3>1, <3>4
    <2> QED BY <2>1, <2>2 DEF InCache
  <1> QED BY <1>11, <1>12, <1>13, <1>14, <1>15 DEF CacheInv

\* What a step that moves no buffer, changes the table or a lock count does not
\* touch: the lists and the table stay as they should be.
LEMMA SameLists ==
  ASSUME CacheInv, UNCHANGED <<free, lru, locked, hash>>,
         buf' \in [Buffer -> Record],
         \A c \in Buffer : buf'[c].no = buf[c].no /\ buf'[c].lock = buf[c].lock,
         pend' \subseteq Buffer, \A c \in pend' : c \in pend \/ buf[c].lock > 0,
         disk' \in [Block -> Value], latest' \in [Block -> Value]
  PROVE  CacheType' /\ ListsApart' /\ Placed' /\ Hashed'
  <1>1. CacheType /\ ListsApart /\ Placed /\ Hashed
    BY DEF CacheInv
  <1>2. CacheType'
    BY <1>1 DEF CacheType
  <1>3. ListsApart'
    BY <1>1, Zenon DEF ListsApart, Buffer
  <1>4. \A c \in Buffer : Mine(c)' <=> Mine(c)
    BY DEF Mine
  <1>5. Placed'
    <2> SUFFICES ASSUME NEW c \in Buffer
                 PROVE  /\ c \in Elems(locked') <=> buf'[c].lock > 0
                        /\ c \in Elems(free') <=> ~Mine(c)'
                        /\ c \in pend' => buf'[c].lock > 0
      BY DEF Placed
    <2>1. /\ c \in Elems(locked) <=> buf[c].lock > 0
          /\ c \in Elems(free) <=> ~Mine(c)
          /\ c \in pend => buf[c].lock > 0
      BY <1>1 DEF Placed
    <2> QED BY <1>4, <2>1
  <1>6. Hashed'
    BY <1>1 DEF Hashed, CacheType
  <1> QED BY <1>2, <1>3, <1>5, <1>6

\* A client writes to a buffer it holds.
LEMMA WriteKeeps ==
  ASSUME CacheInv, NEW b \in Buffer, NEW d \in Value, Write(b, d)
  PROVE  CacheInv'
  <1>1. CacheType
    BY DEF CacheInv
  <1>2. buf[b].lock > 0 /\ UNCHANGED <<free, lru, locked, hash, disk>> /\ pend' = pend \cup {b}
    BY DEF Write
  <1>3. PICK no \in Block : no = buf[b].no
    <2>1. b \in Elems(locked)
      BY <1>2 DEF CacheInv, Placed
    <2>2. b \notin Elems(free)
      BY <2>1 DEF CacheInv, ListsApart
    <2>3. Mine(b)
      BY <2>2 DEF CacheInv, Placed
    <2> QED BY <1>1, <2>3, Fields DEF Mine
  <1>4. hash[no] = b
    <2>1. b \notin Elems(free)
      BY <1>2 DEF CacheInv, Placed, ListsApart
    <2>2. Mine(b)
      BY <2>1 DEF CacheInv, Placed
    <2> QED BY <1>3, <2>2 DEF Mine
  <1>5. PICK t \in BOOLEAN : t = buf[b].dirty
    BY <1>1, Fields
  <1>6. PICK l \in Nat : l = buf[b].lock
    BY <1>1, Fields
  <1>7. Set(b, no, t, l, d)
    BY <1>3, <1>5, <1>6 DEF Write
  <1>8. /\ buf' \in [Buffer -> Record]
        /\ \A c \in Buffer : c # b => buf'[c] = buf[c]
        /\ \A c \in Buffer : c # b => (Dirty(c)' <=> Dirty(c))
        /\ buf'[b].no = no /\ buf'[b].lock = l /\ buf'[b].data = d
    BY <1>1, <1>7, OneBuffer
  <1>9. /\ latest' \in [Block -> Value] /\ latest'[no] = d
        /\ \A m \in Block : m # no => latest'[m] = latest[m]
    BY <1>1, <1>3 DEF Write, CacheType
  <1>10. CacheType' /\ ListsApart' /\ Placed' /\ Hashed'
    <2>1. \A c \in Buffer : buf'[c].no = buf[c].no /\ buf'[c].lock = buf[c].lock
      BY <1>3, <1>6, <1>8
    <2>2. pend' \subseteq Buffer /\ (\A c \in pend' : c \in pend \/ buf[c].lock > 0)
      BY <1>1, <1>2 DEF CacheType
    <2>3. disk' \in [Block -> Value]
      BY <1>1, <1>2 DEF CacheType
    <2> QED BY <1>2, <1>8, <1>9, <2>1, <2>2, <2>3, SameLists
  <1>11. Contents'
    <2> SUFFICES ASSUME NEW m \in Block PROVE OnDisk(m)' /\ InCache(m)'
      BY DEF Contents
    <2>1. OnDisk(m) /\ InCache(m)
      BY DEF CacheInv, Contents
    <2>2. CASE m = no
      <3>1. hash'[m] = b /\ b # Null
        BY <1>2, <1>4, <2>2, CacheAssumption
      <3>2. buf'[b].data = latest'[m] /\ b \in pend'
        BY <1>2, <1>8, <1>9, <2>2
      <3> QED BY <3>1, <3>2 DEF OnDisk, InCache
    <2>3. CASE m # no
      <3>1. OnDisk(m)'
        BY <1>2, <1>9, <2>1, <2>3 DEF OnDisk
      <3>2. hash[m] # Null => hash[m] \in Buffer /\ hash[m] # b
        BY <1>3, <2>3, HashedIsMine
      <3>3. InCache(m)'
        BY <1>2, <1>8, <1>9, <2>1, <2>3, <3>2 DEF InCache
      <3> QED BY <3>1, <3>3
    <2> QED BY <2>2, <2>3
  <1> QED BY <1>10, <1>11 DEF CacheInv

\* cache_modify
LEMMA ModifyKeeps ==
  ASSUME CacheInv, NEW b \in Buffer, Modify(b)
  PROVE  CacheInv'
  <1>1. CacheType
    BY DEF CacheInv
  <1>2. UNCHANGED <<free, lru, locked, hash, disk, latest>> /\ pend' = pend \ {b}
    BY DEF Modify
  <1> PICK no \in Block \cup {Null}, l \in Nat, d \in Value :
         no = buf[b].no /\ l = buf[b].lock /\ d = buf[b].data
    BY <1>1, Fields
  <1>7. PICK t \in BOOLEAN : t = TRUE
    BY Zenon
  <1>3. Set(b, no, t, l, d)
    BY <1>7, Zenon DEF Modify
  <1>4. /\ buf' \in [Buffer -> Record]
        /\ \A c \in Buffer : c # b => buf'[c] = buf[c]
        /\ \A c \in Buffer : c # b => (Dirty(c)' <=> Dirty(c))
        /\ buf'[b].no = no /\ buf'[b].lock = l /\ buf'[b].data = d
        /\ Dirty(b)' <=> t
    BY <1>1, <1>3, OneBuffer
  <1>5. CacheType' /\ ListsApart' /\ Placed' /\ Hashed'
    <2>1. \A c \in Buffer : buf'[c].no = buf[c].no /\ buf'[c].lock = buf[c].lock
      BY <1>4
    <2>2. pend' \subseteq Buffer /\ (\A c \in pend' : c \in pend \/ buf[c].lock > 0)
      BY <1>1, <1>2 DEF CacheType
    <2>3. disk' \in [Block -> Value] /\ latest' \in [Block -> Value]
      BY <1>1, <1>2 DEF CacheType
    <2> QED BY <1>2, <1>4, <2>1, <2>2, <2>3, SameLists
  <1>6. Contents'
    <2> SUFFICES ASSUME NEW m \in Block PROVE OnDisk(m)' /\ InCache(m)'
      BY DEF Contents
    <2>1. OnDisk(m) /\ InCache(m)
      BY DEF CacheInv, Contents
    <2>2. OnDisk(m)'
      BY <1>2, <2>1 DEF OnDisk
    <2>3. ASSUME hash'[m] # Null
          PROVE  /\ buf'[hash'[m]].data = latest'[m]
                 /\ Dirty(hash[m])' \/ hash'[m] \in pend' \/ disk'[m] = buf'[hash'[m]].data
      <3> PICK c \in Buffer : c = hash[m]
        BY <1>2, <2>3, HashedIsMine
      <3>1. buf[c].data = latest[m] /\ (Dirty(c) \/ c \in pend \/ disk[m] = buf[c].data)
        BY <1>2, <2>1, <2>3 DEF InCache
      <3>2. buf'[c].data = latest'[m] /\ (Dirty(c)' \/ c \in pend' \/ disk'[m] = buf'[c].data)
        BY <1>2, <1>4, <1>7, <3>1
      <3>3. hash'[m] = c
        BY <1>2
      <3> QED BY <3>2, <3>3
    <2> QED BY <2>2, <2>3 DEF InCache
  <1> QED BY <1>5, <1>6 DEF CacheInv

\* cache_release: the last reference moves the buffer to lru_list.
LEMMA ReleaseKeeps ==
  ASSUME CacheInv, NEW b \in Buffer, NEW dirty \in BOOLEAN, Release(b, dirty)
  PROVE  CacheInv'
  <1>1. CacheType /\ ListsApart
    BY DEF CacheInv
  <1>2. /\ UNCHANGED <<free, hash, disk, latest>> /\ buf[b].lock > 0
        /\ b \in pend /\ buf[b].lock = 1 => dirty
        /\ pend' = IF dirty THEN pend \ {b} ELSE pend
    BY DEF Release
  <1> PICK no \in Block \cup {Null}, d \in Value : no = buf[b].no /\ d = buf[b].data
    BY <1>1, Fields
  <1>3. PICK l \in Nat : l = buf[b].lock - 1
    BY <1>1, <1>2, Fields
  <1>4. PICK t \in BOOLEAN : t <=> Dirty(b) \/ dirty
    BY Zenon
  <1>5. Set(b, no, t, l, d)
    <2>1. t = (buf[b].dirty \/ dirty)
      BY <1>1, <1>4, Fields, Zenon DEF Dirty
    <2>2. Set(b, no, buf[b].dirty \/ dirty, buf[b].lock - 1, d)
      BY Zenon DEF Release
    <2> QED BY <1>3, <2>1, <2>2, Zenon
  <1>6. /\ buf' \in [Buffer -> Record]
        /\ \A c \in Buffer : c # b => buf'[c] = buf[c]
        /\ \A c \in Buffer : c # b => (Dirty(c)' <=> Dirty(c))
        /\ buf'[b].no = no /\ buf'[b].lock = l /\ buf'[b].data = d
        /\ Dirty(b)' <=> t
    BY <1>1, <1>5, OneBuffer
  <1>7. b \in Elems(locked) /\ b \notin Elems(lru) /\ b \notin Elems(free)
    BY <1>1, <1>2 DEF CacheInv, Placed, ListsApart
  <1>8. /\ lru' \in Seq(Buffer) /\ locked' \in Seq(Buffer) /\ ListsApart'
        /\ l = 0 => Elems(locked') = Elems(locked) \ {b}
        /\ l # 0 => Elems(locked') = Elems(locked)
    <2>1. /\ lru \in Seq(Buffer) /\ locked \in Seq(Buffer) /\ NoDup(lru) /\ NoDup(locked)
      BY <1>1 DEF CacheType, ListsApart
    <2>2. CASE l = 0
      <3>1. locked' = ListRemove(locked, b) /\ lru' = ListInsert(lru, b)
        BY <1>1, <1>3, <2>2, Fields DEF Release
      <3>2. locked' \in Seq(Buffer) /\ NoDup(locked') /\ Elems(locked') = Elems(locked) \ {b}
        BY <2>1, <3>1, RemoveUnlinks
      <3>3. lru' \in Seq(Buffer) /\ NoDup(lru') /\ Elems(lru') = Elems(lru) \cup {b}
        BY <1>7, <2>1, <3>1, InsertLinks
      <3>4. ListsApart'
        BY <1>1, <1>2, <1>7, <3>2, <3>3, Zenon DEF ListsApart, Buffer
      <3> QED BY <2>2, <3>2, <3>3, <3>4
    <2>3. CASE l # 0
      <3>1. locked' = locked /\ lru' = lru
        BY <1>1, <1>3, <2>3, Fields DEF Release
      <3>2. ListsApart'
        BY <1>1, <1>2, <3>1, Zenon DEF ListsApart, Buffer
      <3> QED BY <2>1, <2>3, <3>1, <3>2
    <2> QED BY <2>2, <2>3
  <1>9. pend' \subseteq pend
    BY <1>2
  <1>10. CacheType'
    BY <1>1, <1>2, <1>6, <1>8, <1>9 DEF CacheType
  <1>11. \A c \in Buffer : buf'[c].no = buf[c].no
    BY <1>6
  <1>12. Hashed'
    BY <1>1, <1>2, <1>11 DEF CacheInv, Hashed, CacheType
  <1>13. Placed'
    <2> SUFFICES ASSUME NEW c \in Buffer
                 PROVE  /\ c \in Elems(locked') <=> buf'[c].lock > 0
                        /\ c \in Elems(free') <=> ~Mine(c)'
                        /\ c \in pend' => buf'[c].lock > 0
      BY DEF Placed
    <2>1. /\ c \in Elems(locked) <=> buf[c].lock > 0
          /\ c \in Elems(free) <=> ~Mine(c)
          /\ c \in pend => buf[c].lock > 0
      BY DEF CacheInv, Placed
    <2>2. c \in Elems(free') <=> ~Mine(c)'
      BY <1>2, <1>11, <2>1 DEF Mine
    <2>3. CASE c # b
      BY <1>6, <1>8, <1>9, <2>1, <2>2, <2>3
    <2>4. CASE c = b
      <3>1. c \in Elems(locked') <=> l > 0
        BY <1>7, <1>8, <2>4
      <3>2. c \in pend' => l # 0
        <4>1. SUFFICES ASSUME l = 0, b \in pend' PROVE FALSE
          BY <2>4
        <4>2. buf[b].lock = 1
          BY <1>1, <1>3, <4>1, Fields
        <4>3. b \in pend
          BY <1>9, <4>1
        <4>4. dirty
          BY <1>2, <4>2, <4>3
        <4>5. pend' = pend \ {b}
          BY <1>2, <4>4
        <4> QED BY <4>1, <4>5
      <3> QED BY <1>6, <2>2, <2>4, <3>1, <3>2
    <2> QED BY <2>3, <2>4
  <1>14. Contents'
    <2> SUFFICES ASSUME NEW m \in Block PROVE OnDisk(m)' /\ InCache(m)'
      BY DEF Contents
    <2>1. OnDisk(m) /\ InCache(m)
      BY DEF CacheInv, Contents
    <2>2. OnDisk(m)'
      BY <1>2, <2>1 DEF OnDisk
    <2>3. ASSUME hash'[m] # Null
          PROVE  /\ buf'[hash'[m]].data = latest'[m]
                 /\ Dirty(hash[m])' \/ hash'[m] \in pend' \/ disk'[m] = buf'[hash'[m]].data
      <3> PICK c \in Buffer : c = hash[m]
        BY <1>2, <2>3, HashedIsMine
      <3>1. buf[c].data = latest[m] /\ (Dirty(c) \/ c \in pend \/ disk[m] = buf[c].data)
        BY <1>2, <2>1, <2>3 DEF InCache
      <3>2. buf'[c].data = buf[c].data
        BY <1>6
      <3>3. Dirty(c) => Dirty(c)'
        BY <1>4, <1>6
      <3>4. c \in pend => c \in pend' \/ Dirty(c)'
        BY <1>2, <1>4, <1>6
      <3>5. buf'[c].data = latest'[m] /\ (Dirty(c)' \/ c \in pend' \/ disk'[m] = buf'[c].data)
        BY <1>2, <3>1, <3>2, <3>3, <3>4
      <3>6. hash'[m] = c
        BY <1>2
      <3> QED BY <3>5, <3>6
    <2> QED BY <2>2, <2>3 DEF InCache
  <1> QED BY <1>8, <1>10, <1>12, <1>13, <1>14 DEF CacheInv

\* cache_invalidate of a block nobody holds
LEMMA InvalidateKeeps ==
  ASSUME CacheInv, NEW n \in Block, Invalidate(n)
  PROVE  CacheInv'
  <1>1. CacheType /\ ListsApart
    BY DEF CacheInv
  <1>2. hash[n] # Null /\ buf[hash[n]].lock = 0
    BY DEF Invalidate
  <1> PICK b \in Buffer : b = hash[n]
    BY <1>2, HashedIsMine
  <1>3. buf[b].no = n /\ b \notin Elems(free)
    BY <1>2, HashedIsMine
  <1>4. /\ free' = ListInsert(free, b) /\ lru' = ListRemove(lru, b)
        /\ hash' = [hash EXCEPT ![n] = Null] /\ latest' = [latest EXCEPT ![n] = disk[n]]
        /\ UNCHANGED <<buf, locked, disk, pend>>
    BY DEF Invalidate
  <1>5. b \notin Elems(locked)
    BY <1>2 DEF CacheInv, Placed
  <1>6. /\ free \in Seq(Buffer) /\ lru \in Seq(Buffer) /\ NoDup(free) /\ NoDup(lru)
    BY <1>1 DEF CacheType, ListsApart
  <1>7. free' \in Seq(Buffer) /\ NoDup(free') /\ Elems(free') = Elems(free) \cup {b}
    BY <1>3, <1>4, <1>6, InsertLinks
  <1>8. lru' \in Seq(Buffer) /\ NoDup(lru') /\ Elems(lru') = Elems(lru) \ {b}
    BY <1>4, <1>6, RemoveUnlinks
  <1>9. ListsApart'
    <2>1. locked' = locked
      BY <1>4
    <2> QED BY <1>1, <1>5, <1>7, <1>8, <2>1, Zenon DEF ListsApart, Buffer
  <1>10. /\ hash' \in [Block -> Buffer \cup {Null}] /\ hash'[n] = Null
         /\ \A m \in Block : m # n => hash'[m] = hash[m]
         /\ latest' \in [Block -> Value] /\ latest'[n] = disk[n]
         /\ \A m \in Block : m # n => latest'[m] = latest[m]
    BY <1>1, <1>4 DEF CacheType
  <1>11. CacheType'
    BY <1>1, <1>4, <1>7, <1>8, <1>10 DEF CacheType
  <1>12. Hashed'
    BY <1>4, <1>10 DEF CacheInv, Hashed
  <1>13. Placed'
    <2> SUFFICES ASSUME NEW c \in Buffer
                 PROVE  /\ c \in Elems(locked') <=> buf'[c].lock > 0
                        /\ c \in Elems(free') <=> ~Mine(c)'
                        /\ c \in pend' => buf'[c].lock > 0
      BY DEF Placed
    <2>1. /\ c \in Elems(locked) <=> buf[c].lock > 0
          /\ c \in Elems(free) <=> ~Mine(c)
          /\ c \in pend => buf[c].lock > 0
      BY DEF CacheInv, Placed
    <2>2. c # Null
      BY CacheAssumption
    <2>3. CASE c = b
      <3>1. ~Mine(c)'
        BY <1>3, <1>4, <1>10, <2>2, <2>3 DEF Mine
      <3> QED BY <1>4, <1>7, <2>1, <2>3, <3>1
    <2>4. CASE c # b
      <3>1. Mine(c)' <=> Mine(c)
        <4>1. buf[c].no \in Block \cup {Null}
          BY <1>1, Fields
        <4>2. CASE buf[c].no = n
          BY <1>4, <1>10, <2>2, <2>4, <4>2 DEF Mine
        <4>3. CASE buf[c].no # n
          BY <1>4, <1>10, <4>1, <4>3 DEF Mine
        <4> QED BY <4>2, <4>3
      <3> QED BY <1>4, <1>7, <2>1, <2>4, <3>1
    <2> QED BY <2>3, <2>4
  <1>14. Contents'
    <2> SUFFICES ASSUME NEW m \in Block PROVE OnDisk(m)' /\ InCache(m)'
      BY DEF Contents
    <2>1. OnDisk(m) /\ InCache(m)
      BY DEF CacheInv, Contents
    <2>2. CASE m = n
      BY <1>4, <1>10, <2>2 DEF OnDisk, InCache
    <2>3. CASE m # n
      <3>1. hash'[m] = hash[m] /\ latest'[m] = latest[m] /\ disk'[m] = disk[m] /\ buf' = buf
            /\ pend' = pend
        BY <1>4, <1>10, <2>3
      <3>2. OnDisk(m)'
        BY <2>1, <3>1 DEF OnDisk
      <3>3. InCache(m)'
        BY <2>1, <3>1, Zenon DEF InCache, Dirty
      <3> QED BY <3>2, <3>3
    <2> QED BY <2>2, <2>3
  <1> QED BY <1>9, <1>11, <1>12, <1>13, <1>14 DEF CacheInv

\* cache_flush, up to the buffer that the device fails to write
LEMMA FlushKeeps ==
  ASSUME CacheInv, NEW unmount \in BOOLEAN, NEW stop \in 1 .. Len(lru) + Len(locked) + 1,
         Flush(unmount, stop)
  PROVE  CacheInv'
  <1>1. CacheType /\ ListsApart
    BY DEF CacheInv
  <1>2. /\ lru \in Seq(Buffer) /\ locked \in Seq(Buffer) /\ free \in Seq(Buffer)
        /\ NoDup(lru) /\ NoDup(free) /\ Len(lru) \in Nat /\ Len(locked) \in Nat
        /\ hash \in [Block -> Buffer \cup {Null}] /\ disk \in [Block -> Value]
    BY <1>1 DEF CacheType, ListsApart
  <1> DEFINE all == lru \o locked
             passed == {all[i] : i \in 1 .. stop - 1}
             swept(n) == {b \in passed : buf[b].no = n /\ buf[b].dirty}
             gone == IF ~unmount THEN 0 ELSE IF stop <= Len(lru) THEN stop - 1 ELSE Len(lru)
             front == Turned(lru, gone)
  <1>3. /\ disk' = [n \in Block |->
                     IF swept(n) # {} THEN buf[CHOOSE b \in swept(n) : TRUE].data ELSE disk[n]]
        /\ buf' = [b \in Buffer |-> IF b \in passed THEN [buf[b] EXCEPT !.dirty = FALSE] ELSE buf[b]]
        /\ hash' = [n \in Block |->
                     IF \E i \in 1 .. gone : buf[lru[i]].no = n THEN Null ELSE hash[n]]
        /\ lru' = SubSeq(lru, gone + 1, Len(lru))
        /\ free' = front \o free
        /\ locked' = locked /\ pend' = pend /\ latest' = latest
    BY Zenon DEF Flush
  <1>4. gone \in 0 .. Len(lru) /\ gone <= stop - 1
    BY <1>2
  <1>5. /\ \A i \in 1 .. Len(lru) : all[i] = lru[i]
        /\ Len(all) = Len(lru) + Len(locked)
        /\ Elems(all) = Elems(lru) \cup Elems(locked)
    BY <1>2, JoinedLists
  <1>6. passed \subseteq Elems(lru) \cup Elems(locked)
    <2>1. \A i \in 1 .. stop - 1 : i \in 1 .. Len(all)
      BY <1>2, <1>5
    <2> HIDE DEF all
    <2> QED BY <1>5, <2>1, Zenon DEF Elems
  <1> DEFINE G == {lru[i] : i \in 1 .. gone}
  <1>7. G \subseteq passed
    <2>1. \A i \in 1 .. gone : i \in 1 .. stop - 1 /\ all[i] = lru[i]
      BY <1>2, <1>4, <1>5
    <2> HIDE DEF all, gone
    <2> QED BY <2>1
  <1>8. /\ front \in Seq(Buffer) /\ lru' \in Seq(Buffer) /\ NoDup(front) /\ NoDup(lru')
        /\ Elems(front) = G /\ Elems(lru') = Elems(lru) \ G /\ G \subseteq Elems(lru)
    <2>1. lru' = SubSeq(lru, gone + 1, Len(lru))
      BY <1>3
    <2>2. gone \in 0 .. Len(lru)
      BY <1>4
    <2> HIDE DEF gone
    <2> DEFINE rest == SubSeq(lru, gone + 1, Len(lru))
    <2>3. /\ front \in Seq(Buffer) /\ rest \in Seq(Buffer) /\ NoDup(front) /\ NoDup(rest)
          /\ Elems(front) = G /\ Elems(rest) = Elems(lru) \ Elems(front)
          /\ Elems(front) \subseteq Elems(lru)
      BY <1>2, <2>2, SplitLists
    <2>4. lru' = rest
      BY <2>1
    <2> HIDE DEF front, rest, G
    <2> QED BY <2>3, <2>4
  <1>9. \A n \in Block : hash'[n] = IF \E b \in G : buf[b].no = n THEN Null ELSE hash[n]
    <2> HIDE DEF gone
    <2> QED BY <1>3
  <1>10. \A b \in passed : b \in Buffer /\ Mine(b) /\ buf[b].no \in Block
    <2> SUFFICES ASSUME NEW b \in passed PROVE b \in Buffer /\ Mine(b) /\ buf[b].no \in Block
      OBVIOUS
    <2> HIDE DEF passed
    <2>1. b \in Buffer /\ b \notin Elems(free)
      BY <1>1, <1>6 DEF ListsApart
    <2>2. Mine(b)
      BY <2>1 DEF CacheInv, Placed
    <2> QED BY <1>1, <2>1, <2>2, Fields DEF Mine
  <1>11. free' \in Seq(Buffer) /\ NoDup(free') /\ Elems(free') = G \cup Elems(free)
    <2>1. free' = front \o free
      BY <1>3
    <2>2. G \cap Elems(free) = {}
      BY <1>1, <1>8 DEF ListsApart
    <2> HIDE DEF front, G
    <2> QED BY <1>2, <1>8, <2>1, <2>2, JoinedLists
  <1> HIDE DEF all, gone, front, G, passed
  <1>12. ListsApart'
    <2>1. locked' = locked
      BY <1>3
    <2> QED BY <1>1, <1>8, <1>11, <2>1, Zenon DEF ListsApart, Buffer
  <1>13. /\ buf' \in [Buffer -> Record]
         /\ \A b \in Buffer : /\ buf'[b].no = buf[b].no /\ buf'[b].lock = buf[b].lock
                              /\ buf'[b].data = buf[b].data
         /\ \A b \in Buffer : b \notin passed => (Dirty(b)' <=> Dirty(b))
    <2>1. ASSUME NEW b \in Buffer
          PROVE  /\ buf'[b] \in Record /\ buf'[b].no = buf[b].no /\ buf'[b].lock = buf[b].lock
                 /\ buf'[b].data = buf[b].data
                 /\ b \notin passed => (Dirty(b)' <=> Dirty(b))
      <3> PICK x \in Record : x = buf[b]
        BY <1>1, Fields
      <3>1. CASE b \in passed
        <4>1. buf'[b] = [x EXCEPT !.dirty = FALSE]
          BY <1>3, <3>1
        <4>2. [x EXCEPT !.dirty = FALSE] \in Record
          BY Zenon DEF Record
        <4>3. buf'[b].no = x.no /\ buf'[b].lock = x.lock /\ buf'[b].data = x.data
          BY <4>1 DEF Record
        <4> QED BY <3>1, <4>1, <4>2, <4>3
      <3>2. CASE b \notin passed
        <4>1. buf'[b] = x
          BY <1>3, <3>2
        <4>2. Dirty(b)' <=> Dirty(b)
          BY <4>1, Zenon DEF Dirty
        <4> QED BY <4>1, <4>2
      <3> QED BY <3>1, <3>2
    <2>2. buf' = [b \in Buffer |-> buf'[b]]
      BY <1>3
    <2> QED BY <2>1, <2>2
  <1>14. ASSUME NEW n \in Block
         PROVE  /\ hash[n] # Null /\ hash[n] \in passed /\ Dirty(hash[n]) => disk'[n] = buf[hash[n]].data
                /\ ~(hash[n] # Null /\ hash[n] \in passed /\ Dirty(hash[n])) => disk'[n] = disk[n]
    <2>1. disk'[n] = IF swept(n) # {} THEN buf[CHOOSE b \in swept(n) : TRUE].data ELSE disk[n]
      BY <1>3
    <2>2. \A b \in swept(n) : b = hash[n] /\ b # Null /\ b \in passed /\ Dirty(b)
      <3> SUFFICES ASSUME NEW b \in swept(n) PROVE b = hash[n] /\ b # Null /\ b \in passed /\ Dirty(b)
        OBVIOUS
      <3>1. b \in passed /\ buf[b].no = n /\ Dirty(b)
        BY Zenon DEF Dirty
      <3>2. b \in Buffer /\ Mine(b)
        BY <1>10, <3>1
      <3> QED BY <3>1, <3>2, CacheAssumption DEF Mine
    <2>3. ASSUME hash[n] # Null, hash[n] \in passed, Dirty(hash[n]) PROVE hash[n] \in swept(n)
      <3>1. buf[hash[n]].no = n
        BY <2>3, HashedIsMine
      <3> QED BY <2>3, <3>1, Zenon DEF Dirty
    <2> HIDE DEF swept
    <2>4. CASE hash[n] # Null /\ hash[n] \in passed /\ Dirty(hash[n])
      <3>1. (CHOOSE b \in swept(n) : TRUE) \in swept(n)
        BY <2>3, <2>4
      <3>2. (CHOOSE b \in swept(n) : TRUE) = hash[n]
        BY <2>2, <3>1
      <3> QED BY <2>1, <2>3, <2>4, <3>2, Zenon
    <2>5. CASE ~(hash[n] # Null /\ hash[n] \in passed /\ Dirty(hash[n]))
      <3>1. swept(n) = {}
        BY <2>2, <2>5
      <3> QED BY <2>1, <2>5, <3>1
    <2> QED BY <2>4, <2>5
  <1>15. disk' \in [Block -> Value]
    <2>1. \A n \in Block : disk'[n] \in Value
      <3> SUFFICES ASSUME NEW n \in Block PROVE disk'[n] \in Value
        OBVIOUS
      <3>1. CASE hash[n] # Null /\ hash[n] \in passed /\ Dirty(hash[n])
        <4>1. hash[n] \in Buffer
          BY <1>2, <3>1
        <4>2. buf[hash[n]].data \in Value
          BY <1>1, <4>1, Fields
        <4> QED BY <1>14, <3>1, <4>2
      <3>2. CASE ~(hash[n] # Null /\ hash[n] \in passed /\ Dirty(hash[n]))
        BY <1>2, <1>14, <3>2
      <3> QED BY <3>1, <3>2
    <2>2. disk' = [n \in Block |-> disk'[n]]
      BY <1>3
    <2> QED BY <2>1, <2>2
  <1>16. CacheType'
    <2>1. hash' \in [Block -> Buffer \cup {Null}]
      BY <1>2, <1>3
    <2> QED BY <1>1, <1>3, <1>8, <1>11, <1>13, <1>15, <2>1 DEF CacheType
  <1>17. Hashed'
    <2> SUFFICES ASSUME NEW n \in Block, hash'[n] # Null PROVE buf'[hash'[n]].no = n
      BY DEF Hashed
    <2>1. hash'[n] = hash[n]
      BY <1>9
    <2>2. hash[n] \in Buffer /\ buf[hash[n]].no = n
      BY <2>1, HashedIsMine
    <2> QED BY <1>13, <2>1, <2>2
  <1>18. Placed'
    <2> SUFFICES ASSUME NEW c \in Buffer
                 PROVE  /\ c \in Elems(locked') <=> buf'[c].lock > 0
                        /\ c \in Elems(free') <=> ~Mine(c)'
                        /\ c \in pend' => buf'[c].lock > 0
      BY DEF Placed
    <2>1. /\ c \in Elems(locked) <=> buf[c].lock > 0
          /\ c \in Elems(free) <=> ~Mine(c)
          /\ c \in pend => buf[c].lock > 0
      BY DEF CacheInv, Placed
    <2>2. c # Null /\ buf'[c].no = buf[c].no /\ buf[c].no \in Block \cup {Null}
      BY <1>1, <1>13, Fields, CacheAssumption
    <2>3. CASE c \in G
      <3>1. buf[c].no \in Block
        BY <1>7, <1>10, <2>3
      <3>2. hash'[buf[c].no] = Null
        BY <1>9, <2>3, <3>1
      <3>3. ~Mine(c)'
        BY <2>2, <3>2 DEF Mine
      <3> QED BY <1>3, <1>11, <1>13, <2>1, <2>3, <3>3
    <2>4. CASE c \notin G
      <3>1. Mine(c)' => Mine(c)
        BY <1>9, <2>2 DEF Mine
      <3>2. ASSUME Mine(c) PROVE Mine(c)'
        <4>1. buf[c].no \in Block /\ hash[buf[c].no] = c
          BY <2>2, <3>2 DEF Mine
        <4>2. ASSUME NEW b \in G, buf[b].no = buf[c].no PROVE FALSE
          <5>1. Mine(b)
            BY <1>7, <1>10
          <5> QED BY <2>4, <4>1, <4>2, <5>1 DEF Mine
        <4>3. hash'[buf[c].no] = hash[buf[c].no]
          BY <1>9, <4>1, <4>2
        <4> QED BY <2>2, <3>2, <4>3 DEF Mine
      <3> QED BY <1>3, <1>11, <1>13, <2>1, <2>4, <3>1, <3>2
    <2> QED BY <2>3, <2>4
  <1>19. Contents'
    <2> SUFFICES ASSUME NEW m \in Block PROVE OnDisk(m)' /\ InCache(m)'
      BY DEF Contents
    <2>1. OnDisk(m) /\ InCache(m)
      BY DEF CacheInv, Contents
    <2>2. CASE hash[m] = Null
      <3>1. hash'[m] = Null /\ disk'[m] = disk[m]
        BY <1>9, <1>14, <2>2
      <3> QED BY <1>3, <2>1, <2>2, <3>1 DEF OnDisk, InCache
    <2>3. CASE hash[m] # Null
      <3> PICK b \in Buffer : b = hash[m]
        BY <2>3, HashedIsMine
      <3>1. buf[b].data = latest[m] /\ (Dirty(b) \/ b \in pend \/ disk[m] = buf[b].data)
        BY <2>1, <2>3 DEF InCache
      <3>2. b \in passed /\ Dirty(b) => disk'[m] = buf[b].data
        BY <1>14, <2>3
      <3>3. ~(b \in passed /\ Dirty(b)) => disk'[m] = disk[m]
        BY <1>14, <2>3
      <3>4. CASE \E c \in G : buf[c].no = m
        <4>1. hash'[m] = Null
          BY <1>9, <3>4
        <4>2. PICK c \in G : buf[c].no = m
          BY <3>4
        <4>3. Mine(c)
          BY <1>7, <1>10
        <4>4. b \in G
          BY <4>2, <4>3 DEF Mine
        <4>5. b \notin pend /\ b \in passed
          BY <1>1, <1>7, <1>8, <4>4 DEF ListsApart, CacheInv, Placed
        <4>6. disk'[m] = latest'[m]
          BY <1>3, <3>1, <3>2, <3>3, <4>5
        <4> QED BY <4>1, <4>6 DEF OnDisk, InCache
      <3>5. CASE ~\E c \in G : buf[c].no = m
        <4>1. hash'[m] = b
          BY <1>9, <3>5
        <4>2. buf'[b].data = latest'[m]
          BY <1>3, <1>13, <3>1
        <4>3. Dirty(b)' \/ b \in pend' \/ disk'[m] = buf'[b].data
          <5>1. CASE b \in passed
            BY <1>3, <1>13, <3>1, <3>2, <3>3, <5>1
          <5>2. CASE b \notin passed
            BY <1>3, <1>13, <3>1, <3>3, <5>2
          <5> QED BY <5>1, <5>2
        <4> QED BY <2>3, <4>1, <4>2, <4>3 DEF OnDisk, InCache
      <3> QED BY <3>4, <3>5
    <2> QED BY <2>2, <2>3
  <1> QED BY <1>12, <1>16, <1>17, <1>18, <1>19 DEF CacheInv

-----------------------------------------------------------------------------
(* The theorems *)

\* cache_initialize: all buffers are in the free list, no block is in the table.
LEMMA InitHolds ==
  ASSUME CacheInit
  PROVE  CacheInv
  <1>1. Buffer = 1 .. BufferMax /\ BufferMax \in Nat /\ 0 \in Value
    BY CacheAssumption DEF Buffer
  <1>2. /\ free \in Seq(Buffer) /\ Len(free) = BufferMax /\ \A i \in 1 .. BufferMax : free[i] = i
        /\ lru = << >> /\ locked = << >>
    <2>1. free = [i \in 1 .. BufferMax |-> i] /\ free \in [1 .. BufferMax -> Buffer]
      BY <1>1 DEF CacheInit
    <2> QED BY <1>1, <2>1 DEF CacheInit
  <1>3. NoDup(free) /\ Elems(free) = Buffer
    BY <1>1, <1>2 DEF NoDup, Elems
  <1>4. NoDup(lru) /\ NoDup(locked) /\ Elems(lru) = {} /\ Elems(locked) = {}
    BY <1>2, EmptyList
  <1>5. /\ \A b \in Buffer : buf[b].no = Null /\ buf[b].lock = 0
        /\ \A n \in Block : hash[n] = Null /\ disk[n] = latest[n]
        /\ pend = {} /\ disk \in [Block -> Value] /\ latest \in [Block -> Value]
        /\ hash \in [Block -> Buffer \cup {Null}]
    BY <1>1 DEF CacheInit
  <1>6. buf \in [Buffer -> Record]
    <2> DEFINE r == [no |-> Null, dirty |-> FALSE, lock |-> 0, data |-> 0]
    <2>1. r \in Record
      BY <1>1 DEF Record
    <2>2. buf = [b \in Buffer |-> r]
      BY DEF CacheInit
    <2> HIDE DEF r
    <2> QED BY <2>1, <2>2
  <1>7. CacheType
    <2>1. lru \in Seq(Buffer) /\ locked \in Seq(Buffer)
      BY <1>2
    <2> QED BY <1>2, <1>5, <1>6, <2>1 DEF CacheType
  <1>8. ListsApart
    BY <1>3, <1>4 DEF ListsApart
  <1>9. Placed
    BY <1>3, <1>4, <1>5 DEF Placed, Mine
  <1>10. Hashed /\ Contents
    BY <1>5 DEF Hashed, Contents, OnDisk, InCache
  <1> QED BY <1>7, <1>8, <1>9, <1>10 DEF CacheInv

\* Every operation of the cache and every write of a client keeps the invariant.
LEMMA StepKeeps ==
  ASSUME CacheInv, [CacheNext]_vars
  PROVE  CacheInv'
  <1>1. CASE UNCHANGED vars
    BY <1>1 DEF vars, CacheInv, CacheType, ListsApart, Placed, Mine, Hashed, Contents, OnDisk,
                InCache, Dirty
  <1>2. ASSUME NEW n \in Block, Create(n) PROVE CacheInv'
    BY <1>2, CreateKeeps
  <1>3. ASSUME NEW n \in Block, Get(n) PROVE CacheInv'
    BY <1>3, GetKeeps
  <1>4. ASSUME NEW n \in Block, GetFails(n) PROVE CacheInv'
    BY <1>4, GetFailsKeeps
  <1>5. ASSUME NEW n \in Block, Invalidate(n) PROVE CacheInv'
    BY <1>5, InvalidateKeeps
  <1>6. ASSUME NEW b \in Buffer, Modify(b) PROVE CacheInv'
    BY <1>6, ModifyKeeps
  <1>7. ASSUME NEW b \in Buffer, NEW dirty \in BOOLEAN, Release(b, dirty) PROVE CacheInv'
    BY <1>7, ReleaseKeeps
  <1>8. ASSUME NEW b \in Buffer, NEW v \in Value, Write(b, v) PROVE CacheInv'
    BY <1>8, WriteKeeps
  <1>9. ASSUME NEW unmount \in BOOLEAN, NEW stop \in 1 .. Len(lru) + Len(locked) + 1,
               Flush(unmount, stop)
        PROVE  CacheInv'
    BY <1>9, FlushKeeps
  <1> QED BY <1>1, <1>2, <1>3, <1>4, <1>5, <1>6, <1>7, <1>8, <1>9, Zenon DEF CacheNext

\* The invariant holds in every state, for every set of blocks and every MAX_CACHE.
THEOREM CacheInvariance == CacheSpec => []CacheInv
  <1>1. CacheInit => CacheInv
    BY InitHolds
  <1>2. CacheInv /\ [CacheNext]_vars => CacheInv'
    BY StepKeeps
  <1> QED BY <1>1, <1>2, PTL DEF CacheSpec

\* Every buffer of cache[MAX_CACHE] is in exactly one of free_list, lru_list and
\* locked_list, the one its lock count and the hash table call for.
THEOREM BuffersPlaced == CacheSpec => []BuffersExact
  <1>1. CacheInv => BuffersExact
    <2> SUFFICES ASSUME CacheInv PROVE BuffersExact
      OBVIOUS
    <2>1. /\ free \in Seq(Buffer) /\ lru \in Seq(Buffer) /\ locked \in Seq(Buffer)
          /\ NoDup(free) /\ NoDup(lru) /\ NoDup(locked)
          /\ Elems(free) \cap Elems(lru) = {} /\ Elems(free) \cap Elems(locked) = {}
          /\ Elems(lru) \cap Elems(locked) = {}
          /\ Elems(free) \cup Elems(lru) \cup Elems(locked) = Buffer
      BY DEF CacheInv, CacheType, ListsApart
    <2> DEFINE s == free \o lru
    <2>2. s \in Seq(Buffer) /\ NoDup(s) /\ Elems(s) = Elems(free) \cup Elems(lru)
      BY <2>1, JoinedLists
    <2>3. NoDup(s \o locked) /\ Elems(s \o locked) = Buffer
      <3> HIDE DEF s
      <3>1. Elems(s) \cap Elems(locked) = {}
        BY <2>1, <2>2
      <3>2. Elems(s \o locked) = Elems(s) \cup Elems(locked)
        BY <2>1, <2>2, JoinedLists
      <3> QED BY <2>1, <2>2, <3>1, <3>2, JoinedLists
    <2>4. \A b \in Buffer :
            /\ b \in Elems(locked) <=> buf[b].lock > 0
            /\ b \in Elems(free) <=> ~(buf[b].no # Null /\ hash[buf[b].no] = b)
            /\ b \in pend => buf[b].lock > 0
      BY DEF CacheInv, Placed, Mine
    <2> QED BY <2>3, <2>4, Zenon DEF BuffersExact
  <1> QED BY <1>1, CacheInvariance, PTL

\* No write is lost: what was last written to a block is in its buffer, or on the
\* device when it has none, and a buffer that is clean and reported can be dropped.
THEOREM NoWriteLost == CacheSpec => []Coherent
  <1>1. CacheInv => Coherent
    <2>1. CacheInv => \A n \in Block : OnDisk(n) /\ InCache(n)
      BY DEF CacheInv, Contents
    <2> QED BY <2>1, Zenon DEF Coherent, OnDisk, InCache, Dirty
  <1> QED BY <1>1, CacheInvariance, PTL

\* While somebody holds a buffer no step gives it to another block or takes it out of
\* the table.
HeldStays == \A b \in Buffer : buf[b].lock > 0 => buf'[b].no = buf[b].no /\ hash'[buf[b].no] = b

\* A buffer that is held is its block's, and no victim.
LEMMA HeldIsMine ==
  ASSUME CacheInv, NEW b \in Buffer, buf[b].lock > 0
  PROVE  /\ Mine(b) /\ buf[b].no \in Block /\ b # Null
         /\ Victim # Null => b # Victim
         /\ b \notin Elems(lru)
  <1>1. b \in Elems(locked) /\ b \notin Elems(free) /\ b \notin Elems(lru)
    BY DEF CacheInv, Placed, ListsApart
  <1>2. Mine(b)
    BY <1>1 DEF CacheInv, Placed
  <1>3. buf[b].no \in Block
    BY <1>2, Fields DEF Mine, CacheInv
  <1> QED BY <1>1, <1>2, <1>3, VictimFacts, CacheAssumption

\* A miss evicts a buffer that nobody holds.
LEMMA EvictionSpares ==
  ASSUME CacheInv, NEW n \in Block, hash[n] = Null, Victim # Null, Swept(Victim),
         NEW data \in Value, NEW lock \in Nat, Set(Victim, n, FALSE, lock, data),
         \A m \in Block : m # n => hash'[m] = Unhashed(Victim)[m]
  PROVE  HeldStays
  <1> SUFFICES ASSUME NEW b \in Buffer, buf[b].lock > 0
               PROVE  buf'[b].no = buf[b].no /\ hash'[buf[b].no] = b
    BY DEF HeldStays
  <1>1. Mine(b) /\ buf[b].no \in Block /\ b # Null /\ b # Victim
    BY HeldIsMine
  <1>2. Victim \in Buffer
    BY VictimFacts
  <1>3. PICK f \in BOOLEAN : f = FALSE
    BY Zenon
  <1>4. Set(Victim, n, f, lock, data)
    BY <1>3, Zenon
  <1>5. buf'[b] = buf[b]
    BY <1>1, <1>2, <1>4, OneBuffer DEF CacheInv
  <1>6. Unhashed(Victim)[buf[b].no] = b
    BY <1>1, Evicted
  <1>7. buf[b].no # n
    BY <1>1 DEF Mine
  <1> QED BY <1>1, <1>5, <1>6, <1>7

\* The number and the table of a step that sets the other fields of one buffer.
LEMMA SameBlock ==
  ASSUME CacheInv, hash' = hash, NEW c \in Buffer, NEW dirty \in BOOLEAN, NEW lock \in Nat,
         NEW data \in Value, Set(c, buf[c].no, dirty, lock, data)
  PROVE  HeldStays
  <1>1. CacheType
    BY DEF CacheInv
  <1>2. PICK no \in Block \cup {Null} : no = buf[c].no
    BY <1>1, Fields
  <1>3. Set(c, no, dirty, lock, data)
    BY <1>2
  <1>4. \A b \in Buffer : buf'[b].no = buf[b].no
    BY <1>1, <1>2, <1>3, OneBuffer
  <1>5. \A b \in Buffer : buf[b].lock > 0 => hash[buf[b].no] = b
    BY HeldIsMine DEF Mine
  <1> QED BY <1>4, <1>5 DEF HeldStays

\* cache_get and cache_create give whoever asks for a block the buffer that others
\* hold for it, until the last of them calls cache_release.
THEOREM HeldBuffersStay == CacheSpec => [][HeldStays]_vars
  <1>1. ASSUME CacheInv, NEW n \in Block, NEW data \in Value, Hit(n, data) PROVE HeldStays
    <2>1. PICK c \in Buffer : c = hash[n]
      BY <1>1, HashedIsMine DEF Hit
    <2>2. /\ hash' = hash
          /\ Set(c, buf[c].no, buf[c].dirty, buf[c].lock + 1, data)
      BY <1>1, <2>1 DEF Hit
    <2>3. buf[c].dirty \in BOOLEAN /\ buf[c].lock + 1 \in Nat
      BY <1>1, Fields DEF CacheInv
    <2>4. PICK dirty \in BOOLEAN : dirty = buf[c].dirty
      BY <2>3
    <2>5. PICK lock \in Nat : lock = buf[c].lock + 1
      BY <2>3
    <2>6. Set(c, buf[c].no, dirty, lock, data)
      BY <2>2, <2>4, <2>5, Zenon
    <2> QED BY <1>1, <2>2, <2>6, SameBlock
  <1>2. ASSUME CacheInv, NEW n \in Block, NEW data \in Value, Miss(n, data) PROVE HeldStays
    <2>1. hash[n] = Null /\ Victim # Null /\ Swept(Victim) /\ Set(Victim, n, FALSE, 1, data)
      BY <1>2, Zenon DEF Miss
    <2>2. \A m \in Block : m # n => hash'[m] = Unhashed(Victim)[m]
      <3>1. Unhashed(Victim) \in [Block -> Buffer \cup {Null}]
        BY <1>2, <2>1, Evicted
      <3>2. hash' = [Unhashed(Victim) EXCEPT ![n] = Victim]
        BY <1>2 DEF Miss
      <3> QED BY <3>1, <3>2
    <2>3. PICK lock \in Nat : lock = 1
      OBVIOUS
    <2>4. Set(Victim, n, FALSE, lock, data)
      BY <2>1, <2>3, Zenon
    <2> QED BY <1>2, <2>1, <2>2, <2>4, EvictionSpares, Zenon
  <1>3. ASSUME CacheInv, NEW n \in Block, GetFails(n) PROVE HeldStays
    <2>1. /\ hash[n] = Null /\ Victim # Null /\ Swept(Victim)
          /\ Set(Victim, n, FALSE, 0, buf[Victim].data)
      BY <1>3, Zenon DEF GetFails
    <2>2. \A m \in Block : m # n => hash'[m] = Unhashed(Victim)[m]
      BY <1>3 DEF GetFails
    <2>3. buf[Victim].data \in Value
      BY <1>3, <2>1, VictimFacts, Fields DEF CacheInv
    <2>4. PICK data \in Value : data = buf[Victim].data
      BY <2>3
    <2>5. PICK lock \in Nat : lock = 0
      OBVIOUS
    <2>6. Set(Victim, n, FALSE, lock, data)
      BY <2>1, <2>4, <2>5, Zenon
    <2> QED BY <1>3, <2>1, <2>2, <2>6, EvictionSpares, Zenon
  <1>4. ASSUME CacheInv, NEW n \in Block, Create(n) PROVE HeldStays
    BY <1>1, <1>2, <1>4, CacheAssumption DEF Create
  <1>5. ASSUME CacheInv, NEW n \in Block, Get(n) PROVE HeldStays
    <2>1. CASE hash[n] # Null
      <3>1. hash[n] \in Buffer
        BY <1>5, <2>1, HashedIsMine
      <3>2. buf[hash[n]].data \in Value
        BY <1>5, <3>1, Fields DEF CacheInv
      <3> QED BY <1>1, <1>5, <2>1, <3>2 DEF Get
    <2>2. CASE hash[n] = Null
      <3>1. disk[n] \in Value
        BY <1>5 DEF CacheInv, CacheType
      <3> QED BY <1>2, <1>5, <2>2, <3>1 DEF Get
    <2> QED BY <2>1, <2>2
  <1>6. ASSUME CacheInv, NEW n \in Block, Invalidate(n) PROVE HeldStays
    <2> SUFFICES ASSUME NEW b \in Buffer, buf[b].lock > 0
                 PROVE  buf'[b].no = buf[b].no /\ hash'[buf[b].no] = b
      BY DEF HeldStays
    <2>1. Mine(b) /\ buf[b].no \in Block
      BY <1>6, HeldIsMine
    <2>2. hash \in [Block -> Buffer \cup {Null}]
      BY <1>6 DEF CacheInv, CacheType
    <2>3. hash' = [hash EXCEPT ![n] = Null] /\ buf' = buf /\ buf[hash[n]].lock = 0
      BY <1>6 DEF Invalidate
    <2>4. buf[b].no # n
      BY <2>1, <2>3 DEF Mine
    <2> QED BY <2>1, <2>2, <2>3, <2>4 DEF Mine
  <1>7. ASSUME CacheInv, NEW c \in Buffer, NEW v \in Value, Write(c, v) PROVE HeldStays
    <2>1. hash' = hash /\ Set(c, buf[c].no, buf[c].dirty, buf[c].lock, v)
      BY <1>7 DEF Write
    <2>2. buf[c].dirty \in BOOLEAN /\ buf[c].lock \in Nat
      BY <1>7, Fields DEF CacheInv
    <2>3. PICK dirty \in BOOLEAN, lock \in Nat : dirty = buf[c].dirty /\ lock = buf[c].lock
      BY <2>2, Zenon
    <2>4. Set(c, buf[c].no, dirty, lock, v)
      BY <2>1, <2>3, Zenon
    <2> QED BY <1>7, <2>1, <2>4, SameBlock
  <1>8. ASSUME CacheInv, NEW c \in Buffer, Modify(c) PROVE HeldStays
    <2>1. hash' = hash /\ Set(c, buf[c].no, TRUE, buf[c].lock, buf[c].data)
      BY <1>8, Zenon DEF Modify
    <2>2. buf[c].lock \in Nat /\ buf[c].data \in Value
      BY <1>8, Fields DEF CacheInv
    <2>3. PICK lock \in Nat, data \in Value : lock = buf[c].lock /\ data = buf[c].data
      BY <2>2
    <2>4. PICK t \in BOOLEAN : t = TRUE
      BY Zenon
    <2>5. Set(c, buf[c].no, t, lock, data)
      BY <2>1, <2>3, <2>4, Zenon
    <2> QED BY <1>8, <2>1, <2>5, SameBlock
  <1>9. ASSUME CacheInv, NEW c \in Buffer, NEW dirty \in BOOLEAN, Release(c, dirty) PROVE HeldStays
    <2>1. hash' = hash /\ Set(c, buf[c].no, buf[c].dirty \/ dirty, buf[c].lock - 1, buf[c].data)
      BY <1>9 DEF Release
    <2>2. buf[c].lock - 1 \in Nat /\ buf[c].data \in Value
      BY <1>9, Fields DEF CacheInv, Release
    <2>3. PICK lock \in Nat, data \in Value : lock = buf[c].lock - 1 /\ data = buf[c].data
      BY <2>2
    <2>4. PICK t \in BOOLEAN : t = (buf[c].dirty \/ dirty)
      BY Zenon
    <2>5. Set(c, buf[c].no, t, lock, data)
      BY <2>1, <2>3, <2>4, Zenon
    <2> QED BY <1>9, <2>1, <2>5, SameBlock
  <1>10. ASSUME CacheInv, NEW unmount \in BOOLEAN,
                NEW stop \in 1 .. Len(lru) + Len(locked) + 1, Flush(unmount, stop)
         PROVE  HeldStays
    <2> SUFFICES ASSUME NEW b \in Buffer, buf[b].lock > 0
                 PROVE  buf'[b].no = buf[b].no /\ hash'[buf[b].no] = b
      BY DEF HeldStays
    <2>1. Mine(b) /\ buf[b].no \in Block /\ b \notin Elems(lru)
      BY <1>10, HeldIsMine
    <2> DEFINE passed == {(lru \o locked)[i] : i \in 1 .. stop - 1}
               gone == IF ~unmount THEN 0 ELSE IF stop <= Len(lru) THEN stop - 1 ELSE Len(lru)
    <2>2. /\ buf' = [c \in Buffer |-> IF c \in passed THEN [buf[c] EXCEPT !.dirty = FALSE] ELSE buf[c]]
          /\ hash' = [m \in Block |->
                       IF \E i \in 1 .. gone : buf[lru[i]].no = m THEN Null ELSE hash[m]]
      BY <1>10, Zenon DEF Flush
    <2>3. lru \in Seq(Buffer) /\ Len(lru) \in Nat
      BY <1>10 DEF CacheInv, CacheType
    <2>4. \A i \in 1 .. gone : i \in 1 .. Len(lru)
      BY <2>3
    <2> HIDE DEF gone, passed
    <2>5. buf[b] \in Record
      BY <1>10, Fields DEF CacheInv
    <2>6. buf'[b].no = buf[b].no
      BY <2>2, <2>5 DEF Record
    <2>7. ASSUME NEW i \in 1 .. gone, buf[lru[i]].no = buf[b].no PROVE FALSE
      <3>1. lru[i] \in Elems(lru) /\ lru[i] \in Buffer
        BY <2>3, <2>4 DEF Elems
      <3>2. Mine(lru[i])
        BY <1>10, <3>1 DEF CacheInv, Placed, ListsApart
      <3> QED BY <2>1, <2>7, <3>1, <3>2 DEF Mine
    <2>8. hash'[buf[b].no] = hash[buf[b].no]
      BY <2>1, <2>2, <2>7
    <2> QED BY <2>1, <2>6, <2>8 DEF Mine
  <1>11. CacheInv /\ [CacheNext]_vars => [HeldStays]_vars
    BY <1>3, <1>4, <1>5, <1>6, <1>7, <1>8, <1>9, <1>10, Zenon DEF CacheNext
  <1> QED BY <1>11, CacheInvariance, PTL DEF CacheSpec
=============================================================================
