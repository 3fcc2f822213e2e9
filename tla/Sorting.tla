---------------------------------- MODULE Sorting ----------------------------------
(***************************************************************************)
(* qsort and bsearch (lib/libc/stdlib).  qsort sorts runs of growing       *)
(* length: short ones by insertion, longer ones by merging their halves.   *)
(* Elements are pairs of a key, which compar looks at, and a mark.         *)
(***************************************************************************)
EXTENDS Integers, SequencesExt, FiniteSetsExt

CONSTANTS
  Threshold,   \* THRESHOLD
  SortKey,     \* keys, integers
  SortMax      \* the longest array sorted

VARIABLES kind, impl, ideal, got, want

Compar(a, b) == a[1] - b[1]
Lesser(a, b) == IF a < b THEN a ELSE b

\* insert: the elements low..high, from 0.
RECURSIVE InsertFrom(_, _, _, _)
InsertFrom(base, low, high, i) ==
  LET work == base[i + 1]
      j == Max({low - 1} \cup {k \in low..(i - 1) : Compar(base[k + 1], work) <= 0})
  IN IF i > high THEN base
     ELSE InsertFrom([k \in DOMAIN base |-> IF k = j + 2 THEN work
                                            ELSE IF k \in (j + 3)..(i + 1) THEN base[k - 1]
                                            ELSE base[k]], low, high, i + 1)
Insert(base, low, high) == InsertFrom(base, low, high, low + 1)

\* merge: the left half is set aside in work; to, j and i are where to store,
\* and what to take, next.
RECURSIVE MergeLoop(_, _, _, _, _, _, _)
MergeLoop(base, work, high, range, to, j, i) ==
  IF j > range \/ i > high
  THEN [k \in DOMAIN base |-> IF k \in (to + 1)..(to + range - j + 1) THEN work[j + k - to] ELSE base[k]]
  ELSE IF Compar(work[j + 1], base[i + 1]) <= 0
  THEN MergeLoop([base EXCEPT ![to + 1] = work[j + 1]], work, high, range, to + 1, j + 1, i)
  ELSE MergeLoop([base EXCEPT ![to + 1] = base[i + 1]], work, high, range, to + 1, j, i + 1)
\* The right half is looked for from range + 1 whatever low is: right for low 0.
Merge(base, low, high, range) ==
  IF low < high THEN MergeLoop(base, SubSeq(base, low + 1, low + range + 1), high, range, low, 0, range + 1)
  ELSE base

RECURSIVE Pass(_, _, _)
Pass(base, range, i) ==
  LET high == Lesser(i + 2 * range - 1, Len(base) - 1)
  IN IF i >= Len(base) THEN base
     ELSE Pass(IF high - i < Threshold THEN Insert(base, i, high) ELSE Merge(base, i, high, range - 1),
               range, i + 2 * range)
RECURSIVE Passes(_, _)
Passes(base, range) == IF range >= Len(base) THEN base ELSE Passes(Pass(base, range, 0), 2 * range)
Qsort(base) == Passes(base, 1)

RECURSIVE Narrow(_, _, _, _)
Narrow(key, base, low, high) ==
  LET middle == low + ((high - low) \div 2)
      diff == key - base[middle + 1][1]
  IN IF low > high THEN -1
     ELSE IF diff = 0 THEN middle
     ELSE IF diff < 0 THEN Narrow(key, base, low, middle - 1)
     ELSE Narrow(key, base, middle + 1, high)
Bsearch(key, base) == Narrow(key, base, 0, Len(base) - 1)

\* Arrays long enough for two merges of one pass are not sorted right: the second
\* starts above 0.
FirstMerge == Min({r \in {1, 2, 4, 8, 16, 32, 64} : 2 * r - 1 >= Threshold})
SortLimit == 2 * FirstMerge + Threshold

\* The array in order, elements of one key as they were; a key is found exactly
\* when it is there.
Stable(base) == SortSeq(base, LAMBDA a, b : Compar(a, b) < 0 \/ (Compar(a, b) = 0 /\ a[2] < b[2]))
Sort ==
  \E n \in 0..SortMax : \E keys \in [1..n -> SortKey] :
    LET base == [i \in 1..n |-> <<keys[i], i>>]
        sorted == Qsort(base)
    IN /\ n <= SortLimit
       /\ impl' = base
       /\ got' = <<sorted, {k \in SortKey : Bsearch(k, sorted) >= 0 /\ sorted[Bsearch(k, sorted) + 1][1] = k}>>
       /\ want' = <<Stable(base), {keys[i] : i \in 1..n}>>

SortingNext == kind = "sorting" /\ got = <<>> /\ Sort /\ UNCHANGED <<kind, ideal>>

=============================================================================
