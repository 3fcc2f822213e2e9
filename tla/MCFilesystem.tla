------------------------------ MODULE MCFilesystem ------------------------------
(***************************************************************************)
(* Model of the file system's two layers for TLC: the block cache alone,   *)
(* with a device that fails, and the file system over a device that does   *)
(* not, in two geometries: "wide" has room for files that share indirect   *)
(* blocks and is used through several fids, "deep" has one file of several *)
(* indirect blocks.  A behaviour is of one of the three, chosen by "which".*)
(***************************************************************************)
EXTENDS BlockCache, TLC

CONSTANTS
  Dblk, WordBits, Name, LongName, Fid,
  EndWide, CellsWide, FirstWide, SecondWide, WriteWide, SizeWide,
  FidDeep, EndDeep, CellsDeep, FirstDeep, SecondDeep, WriteDeep, SizeDeep

VARIABLES which, fs, fid, ideal

W == INSTANCE Tfs WITH Value <- Value \ {0}, EndBlk <- EndWide, Cells <- CellsWide,
  First <- FirstWide, Second <- SecondWide, WriteMax <- WriteWide, SizeMax <- SizeWide
D == INSTANCE Tfs WITH Value <- Value \ {0}, EndBlk <- EndDeep, Cells <- CellsDeep,
  First <- FirstDeep, Second <- SecondDeep, WriteMax <- WriteDeep, SizeMax <- SizeDeep,
  Name <- Name \ LongName, Fid <- FidDeep

off == "off"
tfsVars == <<fs, fid, ideal>>

Init ==
  \/ which = "cache" /\ CacheInit /\ fs = off /\ fid = off /\ ideal = off
  \/ /\ \/ which = "wide" /\ W!TfsInit
        \/ which = "deep" /\ D!TfsInit
     /\ buf = off /\ free = off /\ lru = off /\ locked = off
     /\ hash = off /\ disk = off /\ pend = off /\ latest = off

Next ==
  \/ which = "cache" /\ CacheNext /\ UNCHANGED <<which, tfsVars>>
  \/ which = "wide" /\ W!TfsNext /\ UNCHANGED <<which, vars>>
  \/ which = "deep" /\ D!TfsNext /\ UNCHANGED <<which, vars>>

Symmetry == Permutations(Fid) \cup Permutations(Block)

Spec == Init /\ [][Next]_<<which, tfsVars, vars>>

\* cache.c: the buffers' lists, lock counts and hash table agree, and no write is
\* lost.
CacheExact == which = "cache" => BuffersExact /\ Coherent

\* libtfs/block.c: every block has one use and the allocator knows the free ones.
BlocksAccounted == (which = "wide" => W!BlocksAccounted) /\ (which = "deep" => D!BlocksAccounted)

\* libtfs, servers/fs: every file and directory holds what was written to it.
FilesIntact == (which = "wide" => W!FilesIntact) /\ (which = "deep" => D!FilesIntact)

\* libvfs/vnodes.c: every vnode is counted once per user.
RefsExact == (which = "wide" => W!RefsExact) /\ (which = "deep" => D!RefsExact)
=============================================================================
