----------------------------------- MODULE Malloc -----------------------------------
(***************************************************************************)
(* The heap of a program (lib/libc/stdlib/malloc.c, calloc.c, realloc.c):  *)
(* fragments, each with a header, in a ring in address order, and a list   *)
(* of the free ones.  impl is [h, free, end]: h[a] is the header at        *)
(* address a, free the addresses behind the headers of free fragments.     *)
(* ideal[p] is what the program was given p for.                           *)
(***************************************************************************)
EXTENDS Integers, SequencesExt, TLC

CONSTANTS
  MinSize,       \* sizeof(Fragment)
  PageSize, Initial, Limit,    \* PAGE_SIZE, INITIAL_SIZE, where sbrk fails
  Sizes          \* bytes asked for

VARIABLES kind, impl, ideal, got, want

RoundUp(n, unit) == ((n + unit - 1) \div unit) * unit

MallocEmpty ==
  [h |-> (0 :> [next |-> MinSize, prev |-> MinSize, use |-> TRUE])
           @@ (MinSize :> [next |-> 0, prev |-> 0, use |-> FALSE]),
   free |-> <<2 * MinSize>>, end |-> Initial]

\* where the fragment at f ends
End(m, f) == IF m.h[f].next = 0 THEN m.end ELSE m.h[f].next

Without(s, p) == SelectSeq(s, LAMBDA q : q # p)

\* find: the first free fragment large enough, split when the rest can be one
Fits(m, size) == {i \in DOMAIN m.free : End(m, m.free[i] - MinSize) - m.free[i] >= size}
Find(m, size) ==
  LET p == m.free[Min(Fits(m, size))]
      f == p - MinSize
      rest == p + size
      split == End(m, f) - p - size >= MinSize * 2
      h1 == IF ~split THEN m.h
            ELSE [m.h EXCEPT ![m.h[f].next].prev = rest, ![f].next = rest]
                   @@ (rest :> [next |-> m.h[f].next, prev |-> f, use |-> FALSE])
  IN [p |-> p,
      m |-> [m EXCEPT !.h = [h1 EXCEPT ![f].use = TRUE],
                      !.free = (IF split THEN <<rest + MinSize>> ELSE << >>) \o Without(@, p)]]

\* free: joined with the fragment behind, and with the one before
Free(m, p) ==
  LET f == p - MinSize
      n == m.h[f].next
      h1 == [m.h EXCEPT ![f].use = FALSE]
      join == ~h1[n].use
      h2 == IF join THEN [h1 EXCEPT ![h1[n].next].prev = f, ![f].next = h1[n].next] ELSE h1
      free == IF join THEN Without(m.free, n + MinSize) ELSE m.free
      b == h2[f].prev
      h3 == [h2 EXCEPT ![b].next = h2[f].next, ![h2[f].next].prev = b]
      left == DOMAIN h2 \ (IF join THEN {n} ELSE {})
  IN IF h2[b].use
     THEN [m EXCEPT !.h = [a \in left |-> h2[a]], !.free = <<p>> \o free]
     ELSE [m EXCEPT !.h = [a \in left \ {f} |-> h3[a]], !.free = free]

\* expand and block_append: the new pages are a fragment in use that is freed
Expand(m, size) ==
  LET need == RoundUp(MinSize + size, PageSize)
      last == m.h[0].prev
      h == [m.h EXCEPT ![0].prev = m.end, ![last].next = m.end]
             @@ (m.end :> [next |-> 0, prev |-> last, use |-> TRUE])
  IN Free([m EXCEPT !.h = h, !.end = @ + need], m.end + MinSize)
CanExpand(m, size) == m.end + RoundUp(MinSize + size, PageSize) <= Limit

\* malloc; p is 0 when it fails
RECURSIVE MallocOf(_, _)
MallocOf(m, n) ==
  LET size == IF n < MinSize THEN MinSize ELSE RoundUp(n, MinSize)
  IN IF n = 0 THEN [m |-> m, p |-> 0]
     ELSE IF Fits(m, size) # {} THEN Find(m, size)
     ELSE IF CanExpand(m, size) THEN MallocOf(Expand(m, size), n)
     ELSE [m |-> m, p |-> 0]

Given(p, n, kept) == (p :> [size |-> n, kept |-> kept])
Taken(p) == [q \in DOMAIN ideal \ {p} |-> ideal[q]]

Malloc(n) ==
  LET r == MallocOf(impl, n)
  IN /\ impl' = r.m
     /\ ideal' = IF r.p = 0 THEN ideal ELSE Given(r.p, n, FALSE) @@ ideal
     /\ UNCHANGED <<kind, got, want>>

FreeCall(p) == impl' = Free(impl, p) /\ ideal' = Taken(p) /\ UNCHANGED <<kind, got, want>>

\* realloc: the size of the last fragment is taken from the address of the guard,
\* which it is behind of, and is never too small; kept says that it was the last
Realloc(p, n) ==
  LET next == impl.h[p - MinSize].next
      r == MallocOf(impl, n)
  IN /\ n > 0
     /\ UNCHANGED <<kind, got, want>>
     /\ \/ /\ next = 0 \/ next - p >= n
           /\ ideal' = Given(p, n, next = 0) @@ ideal
           /\ UNCHANGED impl
        \/ /\ next # 0 /\ next - p < n
           /\ impl' = IF r.p = 0 THEN r.m ELSE Free(r.m, p)
           /\ ideal' = IF r.p = 0 THEN ideal ELSE Given(r.p, n, FALSE) @@ Taken(p)

MallocNext ==
  /\ kind = "malloc"
  /\ \/ \E n \in Sizes : Malloc(n)
     \/ \E p \in DOMAIN ideal : FreeCall(p) \/ \E n \in Sizes : Realloc(p, n)

(* Properties *)

\* The fragments tile the heap in the order of both links of the ring; one is in
\* use exactly when the program holds it, and is as large as was asked for; the
\* free ones are each in the list once, and no two are neighbours.
HeapExact ==
  kind = "malloc" =>
    LET m == impl
        frags == DOMAIN m.h \ {0}
    IN /\ \A f \in DOMAIN m.h : m.h[m.h[f].next].prev = f /\ m.h[m.h[f].prev].next = f
       /\ m.h[0].next = MinSize
       /\ \A f \in frags :
            /\ End(m, f) > f + MinSize /\ End(m, f) <= m.end
            /\ \A g \in frags : g > f => End(m, f) <= g
            /\ m.h[f].use <=> f + MinSize \in DOMAIN ideal
            /\ m.h[f].use <=> ~Contains(m.free, f + MinSize)
            /\ ~m.h[f].use => m.h[m.h[f].next].use /\ m.h[m.h[f].prev].use
       /\ IsInjective(m.free) /\ Len(m.free) + Cardinality(DOMAIN ideal) = Cardinality(frags)
       /\ \A p \in DOMAIN ideal : ideal[p].kept \/ ideal[p].size <= End(m, p - MinSize) - p
=============================================================================
