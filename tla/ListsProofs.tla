---------------------------- MODULE ListsProofs ----------------------------
(* What the list operations do to the set of linked entries. *)
EXTENDS Lists, TLAPS

\* The empty list links nothing.
LEMMA EmptyList == Elems(<<>>) = {} /\ NoDup(<<>>)
  BY DEF Elems, NoDup

\* A list without entries is the guard alone.
LEMMA NoElems ==
  ASSUME NEW S, NEW s \in Seq(S), Elems(s) = {}
  PROVE  s = <<>>
  <1>1. Len(s) = 0
    <2>1. CASE Len(s) > 0
      <3>1. 1 \in 1..Len(s)
        BY <2>1
      <3> QED BY <3>1 DEF Elems
    <2> QED BY <2>1
  <1> QED BY <1>1

\* list_enqueue links one more entry, and links it once if it was in no list.
LEMMA EnqueueLinks ==
  ASSUME NEW S, NEW s \in Seq(S), NEW e \in S
  PROVE  /\ ListEnqueue(s, e) \in Seq(S)
         /\ Elems(ListEnqueue(s, e)) = Elems(s) \cup {e}
         /\ NoDup(s) /\ e \notin Elems(s) => NoDup(ListEnqueue(s, e))
  <1> DEFINE q == ListEnqueue(s, e)
  <1>1. /\ q \in Seq(S) /\ Len(q) = Len(s) + 1 /\ Len(s) \in Nat
        /\ \A i \in 1..Len(s) : q[i] = s[i]
        /\ q[Len(s) + 1] = e
    BY DEF ListEnqueue
  <1>2. Elems(q) = Elems(s) \cup {e}
    <2>1. \A i \in 1..Len(q) : i \in 1..Len(s) \/ i = Len(s) + 1
      BY <1>1
    <2>2. \A i \in 1..Len(s) : i \in 1..Len(q)
      BY <1>1
    <2>3. Len(s) + 1 \in 1..Len(q)
      BY <1>1
    <2> HIDE DEF q
    <2> QED BY <1>1, <2>1, <2>2, <2>3 DEF Elems
  <1>3. NoDup(s) /\ e \notin Elems(s) => NoDup(q)
    <2> HIDE DEF q
    <2> QED BY <1>1 DEF Elems, NoDup
  <1> QED BY <1>1, <1>2, <1>3

\* list_dequeue unlinks the head and nothing else.
LEMMA DequeueUnlinks ==
  ASSUME NEW S, NEW s \in Seq(S), s # <<>>
  PROVE  /\ Head(s) \in S /\ Head(s) \in Elems(s)
         /\ ListDequeue(s) \in Seq(S)
         /\ NoDup(s) => /\ NoDup(ListDequeue(s))
                        /\ Elems(ListDequeue(s)) = Elems(s) \ {Head(s)}
  <1> DEFINE q == ListDequeue(s)
  <1>1. /\ q \in Seq(S) /\ Len(q) = Len(s) - 1 /\ Len(s) \in Nat \ {0}
        /\ \A i \in 1..Len(q) : q[i] = s[i + 1]
        /\ Head(s) = s[1]
    BY DEF ListDequeue
  <1>2. Head(s) \in S /\ Head(s) \in Elems(s)
    BY <1>1 DEF Elems
  <1>3. ASSUME NoDup(s) PROVE NoDup(q) /\ Elems(q) = Elems(s) \ {Head(s)}
    <2> HIDE DEF q
    <2>1. NoDup(q)
      BY <1>1, <1>3 DEF NoDup
    <2>2. ASSUME NEW i \in 1..Len(q) PROVE q[i] \in Elems(s) \ {Head(s)}
      BY <1>1, <1>3 DEF NoDup, Elems
    <2>3. ASSUME NEW i \in 1..Len(s), s[i] # Head(s) PROVE s[i] \in Elems(q)
      <3>1. i # 1 /\ i - 1 \in 1..Len(q) /\ q[i - 1] = s[i]
        BY <1>1, <2>3
      <3> QED BY <3>1 DEF Elems
    <2> QED BY <2>1, <2>2, <2>3 DEF Elems
  <1> QED BY <1>1, <1>2, <1>3

\* list_remove unlinks its entry and nothing else; on an entry that is not
\* linked it does nothing.
LEMMA RemoveUnlinks ==
  ASSUME NEW S, NEW s \in Seq(S), NEW e, NoDup(s)
  PROVE  /\ ListRemove(s, e) \in Seq(S)
         /\ NoDup(ListRemove(s, e))
         /\ Elems(ListRemove(s, e)) = Elems(s) \ {e}
  <1> DEFINE q == ListRemove(s, e)
  <1>1. CASE e \notin Elems(s)
    BY <1>1 DEF ListRemove
  <1>2. CASE e \in Elems(s)
    <2> DEFINE at == CHOOSE i \in 1..Len(s) : s[i] = e
    <2>1. at \in 1..Len(s) /\ s[at] = e
      BY <1>2 DEF Elems
    <2>2. q = [i \in 1..(Len(s) - 1) |-> IF i < at THEN s[i] ELSE s[i + 1]]
      BY <1>2 DEF ListRemove
    <2> HIDE DEF q, at
    <2>3. Len(s) \in Nat /\ \A i \in 1..Len(s) : s[i] \in S
      OBVIOUS
    <2>4. q \in Seq(S) /\ Len(q) = Len(s) - 1
      <3>1. q \in [1..(Len(s) - 1) -> S] /\ Len(s) - 1 \in Nat
        BY <2>1, <2>2, <2>3
      <3> QED BY <3>1
    <2>5. \A i \in 1..Len(q) : q[i] = IF i < at THEN s[i] ELSE s[i + 1]
      BY <2>2, <2>4
    <2>6. NoDup(q)
      BY <2>1, <2>3, <2>4, <2>5 DEF NoDup
    <2>7. ASSUME NEW i \in 1..Len(q) PROVE q[i] \in Elems(s) \ {e}
      BY <2>1, <2>3, <2>4, <2>5 DEF NoDup, Elems
    <2>8. ASSUME NEW i \in 1..Len(s), s[i] # e PROVE s[i] \in Elems(q)
      <3>1. CASE i < at
        <4>1. i \in 1..Len(q) /\ q[i] = s[i]
          BY <2>1, <2>3, <2>4, <2>5, <3>1
        <4> QED BY <4>1 DEF Elems
      <3>2. CASE i > at
        <4>1. i - 1 \in 1..Len(q) /\ q[i - 1] = s[i]
          BY <2>1, <2>3, <2>4, <2>5, <3>2
        <4> QED BY <4>1 DEF Elems
      <3> QED BY <2>1, <2>8, <3>1, <3>2
    <2>9. Elems(q) = Elems(s) \ {e}
      BY <2>7, <2>8 DEF Elems
    <2> QED BY <2>4, <2>6, <2>9 DEF q
  <1> QED BY <1>1, <1>2

\* Two lists one after the other hold the entries of both.
LEMMA JoinedLists ==
  ASSUME NEW S, NEW s \in Seq(S), NEW t \in Seq(S)
  PROVE  /\ s \o t \in Seq(S)
         /\ Elems(s \o t) = Elems(s) \cup Elems(t)
         /\ NoDup(s) /\ NoDup(t) /\ Elems(s) \cap Elems(t) = {} => NoDup(s \o t)
  <1> DEFINE q == s \o t
  <1>1. /\ q \in Seq(S) /\ Len(q) = Len(s) + Len(t) /\ Len(s) \in Nat /\ Len(t) \in Nat
        /\ \A i \in 1..Len(s) : q[i] = s[i]
        /\ \A i \in 1..Len(t) : q[Len(s) + i] = t[i]
    OBVIOUS
  <1> HIDE DEF q
  <1>2. ASSUME NEW i \in 1..Len(q)
        PROVE  \/ i \in 1..Len(s) /\ q[i] = s[i]
               \/ i - Len(s) \in 1..Len(t) /\ q[i] = t[i - Len(s)]
    <2>1. CASE i <= Len(s)
      BY <1>1, <2>1
    <2>2. CASE i > Len(s)
      <3>1. i - Len(s) \in 1..Len(t) /\ Len(s) + (i - Len(s)) = i
        BY <1>1, <2>2
      <3> QED BY <1>1, <3>1
    <2> QED BY <1>1, <2>1, <2>2
  <1>3. Elems(q) \subseteq Elems(s) \cup Elems(t)
    BY <1>2 DEF Elems
  <1>4. Elems(s) \subseteq Elems(q)
    <2>1. \A i \in 1..Len(s) : i \in 1..Len(q) /\ q[i] = s[i]
      BY <1>1
    <2> QED BY <2>1 DEF Elems
  <1>5. Elems(t) \subseteq Elems(q)
    <2>1. \A i \in 1..Len(t) : Len(s) + i \in 1..Len(q) /\ q[Len(s) + i] = t[i]
      BY <1>1
    <2> QED BY <2>1 DEF Elems
  <1>6. ASSUME NoDup(s), NoDup(t), Elems(s) \cap Elems(t) = {} PROVE NoDup(q)
    <2> SUFFICES ASSUME NEW i \in 1..Len(q), NEW j \in 1..Len(q), q[i] = q[j] PROVE i = j
      BY DEF NoDup
    <2>1. CASE i \in 1..Len(s) /\ q[i] = s[i]
      <3>1. s[i] \in Elems(s)
        BY <2>1 DEF Elems
      <3>2. ~(j - Len(s) \in 1..Len(t) /\ q[j] = t[j - Len(s)])
        BY <1>6, <2>1, <3>1 DEF Elems
      <3> QED BY <1>2, <1>6, <2>1, <3>2 DEF NoDup
    <2>2. CASE i - Len(s) \in 1..Len(t) /\ q[i] = t[i - Len(s)]
      <3>1. t[i - Len(s)] \in Elems(t)
        BY <2>2 DEF Elems
      <3>2. ~(j \in 1..Len(s) /\ q[j] = s[j])
        BY <1>6, <2>2, <3>1 DEF Elems
      <3>3. j - Len(s) \in 1..Len(t) /\ q[j] = t[j - Len(s)]
        BY <1>2, <3>2
      <3>4. i - Len(s) = j - Len(s)
        BY <1>6, <2>2, <3>3 DEF NoDup
      <3> QED BY <1>1, <3>4
    <2> QED BY <1>2, <2>1, <2>2
  <1> QED BY <1>1, <1>3, <1>4, <1>5, <1>6 DEF q

\* list_insert links one more entry, and links it once if it was in no list.
LEMMA InsertLinks ==
  ASSUME NEW S, NEW s \in Seq(S), NEW e \in S
  PROVE  /\ ListInsert(s, e) \in Seq(S)
         /\ Elems(ListInsert(s, e)) = Elems(s) \cup {e}
         /\ NoDup(s) /\ e \notin Elems(s) => NoDup(ListInsert(s, e))
  <1>1. <<e>> \in Seq(S) /\ Elems(<<e>>) = {e} /\ NoDup(<<e>>)
    BY DEF Elems, NoDup
  <1> HIDE DEF Elems, NoDup
  <1>2. /\ <<e>> \o s \in Seq(S)
        /\ Elems(<<e>> \o s) = Elems(<<e>>) \cup Elems(s)
        /\ NoDup(<<e>>) /\ NoDup(s) /\ Elems(<<e>>) \cap Elems(s) = {} => NoDup(<<e>> \o s)
    BY <1>1, JoinedLists
  <1>3. e \notin Elems(s) => Elems(<<e>>) \cap Elems(s) = {}
    BY <1>1
  <1>4. Elems(<<e>>) \cup Elems(s) = Elems(s) \cup {e}
    BY <1>1
  <1> QED BY <1>1, <1>2, <1>3, <1>4 DEF ListInsert

\* The first entries of a list taken out one by one, each to the head of another
\* list: what is left, and what is in front there, share nothing and lose nothing.
LEMMA SplitLists ==
  ASSUME NEW S, NEW s \in Seq(S), NEW g \in 0..Len(s), NoDup(s)
  PROVE  LET front == Turned(s, g)
             rest == SubSeq(s, g + 1, Len(s))
         IN  /\ front \in Seq(S) /\ rest \in Seq(S)
             /\ NoDup(front) /\ NoDup(rest)
             /\ Elems(front) = {s[i] : i \in 1..g}
             /\ Elems(rest) = Elems(s) \ Elems(front)
             /\ Elems(front) \subseteq Elems(s)
  <1> DEFINE front == Turned(s, g)
             rest == SubSeq(s, g + 1, Len(s))
  <1>1. /\ Len(s) \in Nat /\ g \in Nat /\ g <= Len(s)
        /\ \A i \in 1..Len(s) : s[i] \in S
    OBVIOUS
  <1>2. front \in Seq(S) /\ Len(front) = g /\ \A i \in 1..g : front[i] = s[g + 1 - i]
    <2>1. \A i \in 1..g : g + 1 - i \in 1..Len(s)
      BY <1>1
    <2>2. front \in [1..g -> S]
      BY <1>1, <2>1 DEF Turned
    <2> QED BY <1>1, <2>2 DEF Turned
  <1>3. /\ rest \in Seq(S) /\ Len(rest) = Len(s) - g
        /\ \A i \in 1..Len(rest) : rest[i] = s[g + i]
    <2>1. /\ rest \in Seq(S) /\ Len(rest) = Len(s) - g
          /\ \A i \in 1..Len(rest) : rest[i] = s[g + 1 + i - 1]
      BY <1>1
    <2>2. \A i \in 1..Len(rest) : g + 1 + i - 1 = g + i
      BY <1>1
    <2> QED BY <2>1, <2>2
  <1> HIDE DEF front, rest
  <1>4. NoDup(front)
    <2> SUFFICES ASSUME NEW i \in 1..g, NEW j \in 1..g, front[i] = front[j] PROVE i = j
      BY <1>2 DEF NoDup
    <2>1. g + 1 - i \in 1..Len(s) /\ g + 1 - j \in 1..Len(s)
      BY <1>1
    <2>2. s[g + 1 - i] = s[g + 1 - j]
      BY <1>2
    <2>3. g + 1 - i = g + 1 - j
      BY <2>1, <2>2 DEF NoDup
    <2> QED BY <1>1, <2>3
  <1>5. NoDup(rest)
    <2> SUFFICES ASSUME NEW i \in 1..Len(rest), NEW j \in 1..Len(rest), rest[i] = rest[j]
                 PROVE  i = j
      BY DEF NoDup
    <2>1. g + i \in 1..Len(s) /\ g + j \in 1..Len(s) /\ s[g + i] = s[g + j]
      BY <1>1, <1>3
    <2>2. g + i = g + j
      BY <2>1 DEF NoDup
    <2> QED BY <1>1, <1>3, <2>2
  <1>6. Elems(front) = {s[i] : i \in 1..g}
    <2>1. ASSUME NEW i \in 1..g
          PROVE  front[i] = s[g + 1 - i] /\ g + 1 - i \in 1..g /\ front[g + 1 - i] = s[i]
      <3>1. g + 1 - i \in 1..g /\ g + 1 - (g + 1 - i) = i
        BY <1>1
      <3> QED BY <1>2, <3>1
    <2> QED BY <1>2, <2>1 DEF Elems
  <1>7. Elems(front) \subseteq Elems(s)
    <2>1. \A i \in 1..g : i \in 1..Len(s)
      BY <1>1
    <2> QED BY <1>6, <2>1 DEF Elems
  <1>8. ASSUME NEW i \in 1..Len(rest) PROVE rest[i] \in Elems(s) \ Elems(front)
    <2>1. g + i \in 1..Len(s) /\ rest[i] = s[g + i]
      BY <1>1, <1>3
    <2>2. ASSUME NEW j \in 1..g PROVE s[j] # s[g + i]
      <3>1. j \in 1..Len(s) /\ j # g + i
        BY <1>1, <1>3
      <3> QED BY <2>1, <3>1 DEF NoDup
    <2> QED BY <1>6, <2>1, <2>2 DEF Elems
  <1>9. ASSUME NEW i \in 1..Len(s), s[i] \notin Elems(front) PROVE s[i] \in Elems(rest)
    <2>1. i \notin 1..g
      BY <1>6, <1>9
    <2>2. i - g \in 1..Len(rest) /\ rest[i - g] = s[i]
      <3>1. i - g \in 1..Len(rest) /\ g + (i - g) = i
        BY <1>1, <1>3, <2>1
      <3> QED BY <1>3, <3>1
    <2> QED BY <2>2 DEF Elems
  <1>10. Elems(rest) = Elems(s) \ Elems(front)
    BY <1>8, <1>9 DEF Elems
  <1> QED BY <1>2, <1>3, <1>4, <1>5, <1>6, <1>7, <1>10 DEF front, rest

\* list_remove changes nothing of a list the entry is not in, and undoes
\* list_append.
LEMMA RemoveUndoes ==
  ASSUME NEW S, NEW s \in Seq(S), NEW e \in S, e \notin Elems(s)
  PROVE  ListRemove(s, e) = s /\ ListRemove(ListEnqueue(s, e), e) = s
  <1> DEFINE q == ListEnqueue(s, e)
             n == Len(s)
             at == CHOOSE i \in 1..Len(q) : q[i] = e
  <1>1. /\ q \in Seq(S) /\ Len(q) = n + 1 /\ n \in Nat
        /\ \A i \in 1..n : q[i] = s[i]
        /\ q[n + 1] = e
    BY DEF ListEnqueue
  <1>2. \A i \in 1..n : s[i] # e
    BY DEF Elems
  <1> HIDE DEF q
  <1>3. at = n + 1
    <2>1. \E i \in 1..Len(q) : q[i] = e
      BY <1>1
    <2>2. at \in 1..Len(q) /\ q[at] = e
      BY <2>1
    <2> HIDE DEF at
    <2> QED BY <1>1, <1>2, <2>2
  <1>4. e \in Elems(q)
    BY <1>1 DEF Elems
  <1>5. ListRemove(q, e) = [i \in 1..(Len(q) - 1) |-> IF i < at THEN q[i] ELSE q[i + 1]]
    BY <1>4 DEF ListRemove
  <1> HIDE DEF at
  <1>6. ListRemove(q, e) = [i \in 1..n |-> s[i]]
    BY <1>1, <1>3, <1>5
  <1>7. s = [i \in 1..n |-> s[i]]
    OBVIOUS
  <1>8. ListRemove(s, e) = s
    BY DEF ListRemove
  <1> QED BY <1>6, <1>7, <1>8 DEF q
=============================================================================
