----------------------------------- MODULE Tfs -----------------------------------
(***************************************************************************)
(* The file system of the fs server: lib/libtfs (blocks, inodes,           *)
(* directories, files) under lib/libvfs (vnodes, operations) and the fids  *)
(* of servers/fs.  The server is one thread, so an operation is one step.  *)
(*                                                                         *)
(* A block is Cells cells long; an inode has First entries i_ib, each the  *)
(* number of a block of Second block numbers.  A file is a sequence of     *)
(* cells; in a directory an entry is a header cell followed by the cells   *)
(* its name needs.  Blocks below the first data block (superblock, bitmap) *)
(* are the variables of the allocator.  The block device does not fail     *)
(* here (BlockCache is about that), the device does fill up.               *)
(***************************************************************************)
EXTENDS Integers, FiniteSets, SequencesExt

CONSTANTS
  Dblk, EndBlk,    \* fs_dblkno, the block of the root inode, and the last block
  WordBits,        \* INT_BIT, the bits a step of the allocator looks at
  Cells, First, Second,
  Name,            \* file names
  LongName,        \* the names that need a cell of their own
  Value,           \* what clients write
  WriteMax,        \* bound: cells in one write
  SizeMax,         \* bound: the end of a write
  Fid

Blk == Dblk .. EndBlk
Root == Dblk

VARIABLES
  fs,      \* the file system on its device, and its vnodes
  fid,     \* fid[f]: [vnode, flag] of a client's fid
  ideal    \* ideal[i]: what the file of inode i holds

vars == <<fs, fid, ideal>>

None == -1       \* no vnode, no file
Zero == <<0>>    \* a cleared cell
NoFile == <<<<None>>>>

EmptyInode == [k \in 0 .. First - 1 |-> 0]
EmptyIndirect == [k \in 0 .. Second - 1 |-> 0]
NoVnode == [refs |-> 0, size |-> 0, dir |-> FALSE, dirty |-> FALSE, parent |-> None]

TfsInit ==
  /\ fs = [free |-> Blk \ {Root}, hand |-> 0, nfree |-> Cardinality(Blk) - 1,
           ib |-> [b \in Blk |-> EmptyInode], ind |-> [b \in Blk |-> EmptyIndirect],
           data |-> [b \in Blk |-> [k \in 0 .. Cells - 1 |-> Zero]],
           isize |-> [b \in Blk |-> 0], idir |-> [b \in Blk |-> b = Root],
           vn |-> [b \in Blk |-> IF b = Root
                                 THEN [NoVnode EXCEPT !.refs = 1, !.dir = TRUE]
                                 ELSE NoVnode],
           leaked |-> {}, torn |-> FALSE]
  /\ fid = [f \in Fid |-> [vnode |-> None, flag |-> "none"]]
  /\ ideal = [b \in Blk |-> IF b = Root THEN << >> ELSE NoFile]

-----------------------------------------------------------------------------
(* lib/libtfs/block.c *)

\* tfs_allocate_block: from the word of fs_block_hand on, the lowest bit of the
\* first word that has one; the result is [s, b], b = 0 when there is none
Allocate(s) ==
  LET found == {b \in s.free : b \div WordBits >= s.hand \div WordBits}
      b == Min(found)
  IN IF s.nfree = 0 \/ found = {} THEN [s |-> s, b |-> 0]
     ELSE [s |-> [s EXCEPT !.free = @ \ {b}, !.nfree = @ - 1, !.hand = b + 1], b |-> b]

\* Mutant: the hand is not moved back.
DeallocateAhead(s, b) == [s EXCEPT !.free = @ \cup {b}, !.nfree = @ + 1]

\* tfs_deallocate_block
Deallocate(s, b) ==
  IF b < Dblk THEN s
  ELSE [s EXCEPT !.free = @ \cup {b}, !.nfree = @ + 1, !.hand = IF b < @ THEN b ELSE @]

ValidNth(n) == n < First * Second

\* tfs_get_block_no
BlockNo(s, i, n) ==
  LET x == s.ib[i][n \div Second]
  IN IF ~ValidNth(n) \/ x = 0 THEN 0 ELSE s.ind[x][n % Second]

\* tfs_set_block_no of a block just allocated; a block that finds no place is lost
SetBlockNo(s, i, n, b) ==
  LET k == n \div Second
      a == Allocate(s)
      lost == [s |-> [s EXCEPT !.leaked = @ \cup ({b} \ {0})], b |-> 0]
  IN IF ~ValidNth(n) \/ b = 0 THEN lost
     ELSE IF s.ib[i][k] # 0
     THEN [s |-> [s EXCEPT !.ind[s.ib[i][k]][n % Second] = b], b |-> b]
     ELSE IF a.b = 0 THEN lost
     ELSE [s |-> [a.s EXCEPT !.ib[i][k] = a.b,
                             !.ind[a.b] = [EmptyIndirect EXCEPT ![n % Second] = b]],
           b |-> b]

\* deallocate_2nd: the blocks of indirect block x from an offset to the first hole
Deallocate2nd(s, x, offset) ==
  LET used == {k \in offset .. Second - 1 : \A j \in offset .. k : s.ind[x][j] # 0}
      freed == FoldSet(LAMBDA k, t : Deallocate(t, s.ind[x][k]), s, used)
  IN [freed EXCEPT !.ind[x] = [k \in DOMAIN @ |-> IF k \in used THEN 0 ELSE @[k]]]

\* shorten_blocks
ShortenBlocks(s, i, blocks) ==
  LET index == blocks \div Second
      from == IF blocks % Second = 0 THEN index ELSE index + 1
      rest == {k \in from .. First - 1 : \A j \in from .. k : s.ib[i][j] # 0}
      s1 == IF blocks % Second = 0 THEN s ELSE Deallocate2nd(s, s.ib[i][index], blocks % Second)
      s2 == FoldSet(LAMBDA k, t : Deallocate(Deallocate2nd(t, t.ib[i][k], 0), t.ib[i][k]),
                    s1, rest)
  IN [s2 EXCEPT !.ib[i] = [k \in DOMAIN @ |-> IF k \in rest THEN 0 ELSE @[k]]]

CalcBlocks(size) == (size + Cells - 1) \div Cells

\* tfs_shorten
Shorten(s, i, size) ==
  LET t == IF CalcBlocks(size) < CalcBlocks(s.vn[i].size)
           THEN ShortenBlocks(s, i, CalcBlocks(size)) ELSE s
  IN [t EXCEPT !.vn[i].size = size]

-----------------------------------------------------------------------------
(* lib/libtfs/file.c *)

Cell(s, i, n) == s.data[BlockNo(s, i, n \div Cells)][n % Cells]

\* the content tfs_read gives
Content(s, i, size) == [n \in 1 .. size |-> Cell(s, i, n - 1)]

\* the block of cell n, allocated when the file has none
Place(s, i, n) ==
  LET b == BlockNo(s, i, n \div Cells)
      a == Allocate(s)
  IN IF b # 0 THEN [s |-> s, b |-> b] ELSE SetBlockNo(a.s, i, n \div Cells, a.b)

\* tfs_write: the cells up to the first that finds no block; the result is
\* [s, n], n the cells written
WriteCells(s, i, offset, cells) ==
  LET put(acc, c) ==
        LET p == Place(acc.s, i, offset + acc.n)
        IN IF acc.full THEN acc
           ELSE IF p.b = 0 THEN [acc EXCEPT !.s = p.s, !.full = TRUE]
           ELSE [acc EXCEPT !.s = [p.s EXCEPT !.data[p.b][(offset + acc.n) % Cells] = c],
                            !.n = @ + 1]
      grown(all) ==
        [s |-> IF all.n = 0 THEN all.s
               ELSE [all.s EXCEPT !.vn[i].size = IF offset + all.n > @ THEN offset + all.n ELSE @,
                                  !.vn[i].dirty = TRUE],
         n |-> all.n]
  IN grown(FoldLeft(put, [s |-> s, n |-> 0, full |-> FALSE], cells))

\* _synchronize_vnode
Synchronize(s, i) ==
  IF ~s.vn[i].dirty THEN s
  ELSE [s EXCEPT !.isize[i] = s.vn[i].size, !.idir[i] = s.vn[i].dir, !.vn[i].dirty = FALSE]

-----------------------------------------------------------------------------
(* lib/libvfs/vnodes.c; a vnode is known by its index *)

Refer(s, i) == [s EXCEPT !.vn[i].refs = @ + 1]

\* vnodes_create, with what tfs_open reads from the inode
OpenVnode(s, i, parent) ==
  Refer([s EXCEPT !.vn[i] = [refs |-> 1, size |-> s.isize[i], dir |-> s.idir[i],
                             dirty |-> FALSE, parent |-> parent]], parent)

\* vnodes_remove: the last reference closes the vnode and drops its parent's
RECURSIVE Unrefer(_, _)
Unrefer(s, i) ==
  IF i = None THEN s
  ELSE IF s.vn[i].refs > 1 THEN [s EXCEPT !.vn[i].refs = @ - 1]
  ELSE Unrefer([Synchronize(s, i) EXCEPT !.vn[i] = NoVnode], s.vn[i].parent)

-----------------------------------------------------------------------------
(* lib/libtfs/directory.c *)

Header(name, i) == <<name, i>>
RealLen(name) == IF name \in LongName THEN 2 ELSE 1
Entry(name, i) == IF name \in LongName THEN <<Header(name, i), <<name>>>> ELSE <<Header(name, i)>>

\* the offsets the loops of tfs_walk and tfs_remove_entry come to
RECURSIVE Offsets(_, _)
Offsets(c, offset) ==
  IF offset = Len(c) THEN {}
  ELSE {offset} \cup Offsets(c, offset + RealLen(c[offset + 1][1]))

\* the first entry whose field (1 the name, 2 the inode) is x; None is ENOENT
Scan(c, field, x) ==
  LET found == {o \in Offsets(c, 0) : c[o + 1][field] = x}
  IN IF found = {} THEN None ELSE Min(found)

Directory(s, i) == Content(s, i, s.vn[i].size)

Lookup(s, i, name) == Scan(Directory(s, i), 1, name)

\* Mutant: a vnode found open is not referred to.
TfsWalkUncounted(s, i, name) ==
  LET at == Lookup(s, i, name)
      ino == Directory(s, i)[at + 1][2]
  IN IF at = None THEN [s |-> s, i |-> None]
     ELSE [s |-> IF s.vn[ino].refs > 0 THEN s ELSE OpenVnode(s, ino, i), i |-> ino]

\* tfs_walk: an open vnode of that index, or a new one; [s, i], i = None: ENOENT
TfsWalk(s, i, name) ==
  LET at == Lookup(s, i, name)
      ino == Directory(s, i)[at + 1][2]
  IN IF at = None THEN [s |-> s, i |-> None]
     ELSE [s |-> IF s.vn[ino].refs > 0 THEN Refer(s, ino) ELSE OpenVnode(s, ino, i),
           i |-> ino]

\* tfs_allocate_inode and vnodes_append: the inode is cleared
AllocateInode(s, parent) ==
  LET a == Allocate(s)
  IN IF a.b = 0 THEN a
     ELSE [s |-> OpenVnode([a.s EXCEPT !.ib[a.b] = EmptyInode, !.isize[a.b] = 0,
                                       !.idir[a.b] = FALSE], a.b, parent),
           b |-> a.b]

\* tfs_deallocate_inode
DeallocateInode(s, i) ==
  LET t == Shorten(s, i, 0)
  IN Deallocate([t EXCEPT !.ib[i] = EmptyInode, !.isize[i] = 0, !.idir[i] = FALSE,
                          !.vn[i].dirty = FALSE], i)

\* tfs_create; an entry the device has no room for is not taken back
TfsCreate(s, parent, name, dir) ==
  LET entered(w, i) ==
        IF w.n < RealLen(name)
        THEN [s |-> [Unrefer(DeallocateInode(w.s, i), i) EXCEPT !.torn = w.n > 0], i |-> None]
        ELSE [s |-> [w.s EXCEPT !.vn[i].dirty = TRUE, !.vn[i].dir = dir], i |-> i]
      made(a) ==
        IF a.b = 0 THEN [s |-> s, i |-> None]
        ELSE entered(WriteCells(a.s, parent, a.s.vn[parent].size, Entry(name, a.b)), a.b)
  IN made(AllocateInode(s, parent))

\* Mutant: the entries behind the removed one stay where they are.
RemoveEntryCut(s, parent, i) ==
  LET c == Directory(s, parent)
      at == Scan(c, 2, i)
  IN Shorten(s, parent, Len(c) - RealLen(c[at + 1][1]))

\* tfs_remove_entry: the entries behind it move up, one after the other
RemoveEntry(s, parent, i) ==
  LET cut(c, at, delta) ==
        Shorten(WriteCells(s, parent, at, SubSeq(c, at + delta + 1, Len(c))).s, parent, Len(c) - delta)
      found(c, at) == cut(c, at, RealLen(c[at + 1][1]))
      among(c) == found(c, Scan(c, 2, i))
  IN among(Directory(s, parent))

\* tfs_remove
TfsRemove(s, parent, i) ==
  LET t == RemoveEntry(s, parent, i)
  IN DeallocateInode([t EXCEPT !.vn[parent].dirty = TRUE], i)

-----------------------------------------------------------------------------
(* The fid operations of servers/fs *)

Free(f) == fid[f].vnode = None
Walked(f) == fid[f].flag = "walk"
V(f) == fid[f].vnode

Gone == [vnode |-> None, flag |-> "none"]

\* if_attach
Attach(f) ==
  /\ Free(f)
  /\ fs' = Refer(fs, Root)
  /\ fid' = [fid EXCEPT ![f] = [vnode |-> Root, flag |-> "walk"]]
  /\ UNCHANGED ideal

\* if_walk: the new fid, or the fid itself, gets vnode i
Moved(s, f, g, i) ==
  /\ fs' = IF g = f THEN Unrefer(s, V(f)) ELSE s
  /\ fid' = [fid EXCEPT ![g] = [vnode |-> i, flag |-> "walk"]]

\* if_walk with one name: vfs_walk holds the parent while it looks
Walk(f, g, name) ==
  /\ Walked(f) /\ (g = f \/ Free(g)) /\ fs.vn[V(f)].dir
  /\ \E w \in {TfsWalk(Refer(fs, V(f)), V(f), name)} :
        /\ w.i # None
        /\ Moved(Unrefer(w.s, V(f)), f, g, w.i)
  /\ UNCHANGED ideal

\* if_walk with ".."
WalkUp(f, g) ==
  /\ Walked(f) /\ (g = f \/ Free(g)) /\ fs.vn[V(f)].dir
  /\ LET parent == fs.vn[V(f)].parent
         pp == IF parent = None THEN V(f) ELSE parent
     IN Moved(Unrefer(Refer(Refer(fs, V(f)), pp), V(f)), f, g, pp)
  /\ UNCHANGED ideal

\* if_walk without names: the vnode gets one more fid
WalkClone(f, g) ==
  /\ Walked(f) /\ Free(g)
  /\ Moved(Refer(fs, V(f)), f, g, V(f))
  /\ UNCHANGED ideal

\* if_create: the fid of the directory becomes that of the file
CreateFile(f, name, dir) ==
  /\ Walked(f) /\ fs.vn[V(f)].dir
  /\ Lookup(fs, V(f), name) = None
  /\ \E c \in {TfsCreate(fs, V(f), name, dir)} :
        IF c.i = None THEN fs' = c.s /\ UNCHANGED <<fid, ideal>>
        ELSE /\ fs' = Unrefer(c.s, V(f))
             /\ fid' = [fid EXCEPT ![f] = [vnode |-> c.i, flag |-> IF dir THEN "r" ELSE "rw"]]
             /\ ideal' = [ideal EXCEPT ![c.i] = << >>, ![V(f)] = @ \o Entry(name, c.i)]

\* if_open; with O_TRUNC, tfs_wstat shortens the file to nothing
OpenFile(f, flag, trunc) ==
  /\ Walked(f)
  /\ fs.vn[V(f)].dir => flag = "r" /\ ~trunc
  /\ fid' = [fid EXCEPT ![f].flag = flag]
  /\ IF trunc
     THEN /\ fs' = [Shorten(fs, V(f), 0) EXCEPT !.vn[V(f)].dirty = TRUE]
          /\ ideal' = [ideal EXCEPT ![V(f)] = << >>]
     ELSE UNCHANGED <<fs, ideal>>

\* a sequence after cells were written to it
Overwrite(c, offset, cells) ==
  [n \in 1 .. Max({Len(c), offset + Len(cells)}) |->
     IF n > offset /\ n <= offset + Len(cells) THEN cells[n - offset] ELSE c[n]]

\* if_write: a hole before the offset is filled with zeros first
WriteFile(f, offset, cells) ==
  /\ fid[f].flag = "rw" /\ offset + Len(cells) <= SizeMax
  /\ LET i == V(f)
         size == fs.vn[i].size
         zeros == [n \in 1 .. offset - size |-> Zero]
     IN \E z \in {WriteCells(fs, i, size, zeros)} : \E w \in {WriteCells(z.s, i, offset, cells)} :
          LET zero == Overwrite(ideal[i], size, SubSeq(zeros, 1, z.n))
              filled == z.n = Len(zeros)
          IN /\ fs' = IF filled THEN w.s ELSE z.s
             /\ ideal' = [ideal EXCEPT ![i] =
                  IF filled THEN Overwrite(zero, offset, SubSeq(cells, 1, w.n)) ELSE zero]
  /\ UNCHANGED fid

\* if_remove: vfs_remove, then the fid is gone in any case.  (The vnode freed by
\* vfs_remove is released a second time: its count wraps and nothing follows.)
RemoveFile(f) ==
  /\ ~Free(f)
  /\ LET i == V(f)
         parent == fs.vn[i].parent
         held == parent = None \/ fs.vn[i].refs > 1 \/ (fs.vn[i].dir /\ fs.vn[i].size > 0)
     IN IF held THEN fs' = Unrefer(fs, i) /\ UNCHANGED ideal
        ELSE /\ fs' = Unrefer(TfsRemove(fs, parent, i), i)
             /\ ideal' = [ideal EXCEPT ![i] = NoFile, ![parent] =
                  LET at == Scan(@, 2, i)
                  IN SubSeq(@, 1, at) \o SubSeq(@, at + RealLen(@[at + 1][1]) + 1, Len(@))]
  /\ fid' = [fid EXCEPT ![f] = Gone]

\* if_clunk
Clunk(f) ==
  /\ ~Free(f)
  /\ fs' = Unrefer(fs, V(f)) /\ fid' = [fid EXCEPT ![f] = Gone]
  /\ UNCHANGED ideal

\* SIGNAL_SYNC: vnodes_synchronize
SynchronizeAll ==
  /\ fs' = FoldSet(LAMBDA i, s : Synchronize(s, i), fs, {i \in Blk : fs.vn[i].refs > 0})
  /\ UNCHANGED <<fid, ideal>>

\* A directory with half an entry is not used further: see the hazard on it.
TfsNext ==
  /\ ~fs.torn
  /\ \/ SynchronizeAll
     \/ \E f \in Fid :
          \/ Attach(f) \/ RemoveFile(f) \/ Clunk(f)
          \/ \E g \in Fid : WalkUp(f, g) \/ WalkClone(f, g) \/ \E name \in Name : Walk(f, g, name)
          \/ \E name \in Name, dir \in BOOLEAN : CreateFile(f, name, dir)
          \/ \E flag \in {"r", "rw"}, trunc \in BOOLEAN : OpenFile(f, flag, trunc)
          \/ \E offset \in 0 .. SizeMax, n \in 1 .. WriteMax, v \in Value :
               WriteFile(f, offset, [k \in 1 .. n |-> <<v>>])

-----------------------------------------------------------------------------
(* Properties *)

Live == {i \in Blk : ideal[i] # NoFile}
InodeSize(i) == IF fs.vn[i].refs > 0 THEN fs.vn[i].size ELSE fs.isize[i]
IsDir(i) == IF fs.vn[i].refs > 0 THEN fs.vn[i].dir ELSE fs.idir[i]
Indirects(i) == {fs.ib[i][k] : k \in 0 .. First - 1} \ {0}
DataBlocks(i) == UNION {{fs.ind[x][k] : k \in 0 .. Second - 1} : x \in Indirects(i)} \ {0}

\* Every block has one use: it is free, or the inode, an indirect or a data block
\* of one file, or lost by a write to a full device.  The free count is exact and
\* the allocator's hand is never past the word of a free block, so a block is
\* found while there is one.  (block.c)
BlocksAccounted ==
  /\ fs.nfree = Cardinality(fs.free)
  /\ \A b \in fs.free : b \div WordBits >= fs.hand \div WordBits
  /\ ~fs.torn =>
       /\ UNION {{i} \cup Indirects(i) \cup DataBlocks(i) : i \in Live}
            = Blk \ (fs.free \cup fs.leaked)
       /\ Cardinality(Blk) = Cardinality(fs.free) + Cardinality(fs.leaked)
            + FoldSet(LAMBDA i, n : n + 1 + Cardinality(Indirects(i))
                                      + Cardinality(DataBlocks(i)), 0, Live)

\* Every file holds what was written to it, zeros in the holes, and nothing of
\* another or an earlier file; every directory holds its entries, and every file
\* but the root has exactly one entry.
FilesIntact ==
  ~fs.torn =>
    /\ \A i \in Live : Content(fs, i, InodeSize(i)) = ideal[i]
    /\ \A i \in Live \ {Root} :
         Cardinality({d \in Live : IsDir(d) /\ \E n \in DOMAIN ideal[d] :
                        ideal[d][n] \in Name \X {i}}) = 1

\* A vnode is referred to once by every fid on it and by every open vnode under
\* it, the root once more; so an open file is never closed or removed.
RefsExact ==
  \A i \in Blk :
    fs.vn[i].refs = Cardinality({f \in Fid : V(f) = i})
                    + Cardinality({j \in Blk : fs.vn[j].refs > 0 /\ fs.vn[j].parent = i})
                    + (IF i = Root THEN 1 ELSE 0)
=============================================================================
