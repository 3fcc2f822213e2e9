----------------------------- MODULE PipeProofs -----------------------------
(***************************************************************************)
(* The invariants of Pipe, proved for any number of threads, any size of    *)
(* the ring and any requests.                                               *)
(***************************************************************************)
EXTENDS Pipe, ListsProofs, TLAPS

(***************************************************************************)
(* Arithmetic of the ring: positions are counted modulo its size.           *)
(***************************************************************************)

\* The remainder of x by S, which the lemmas speak of without looking into it
Mod(x, S) == x % S

\* The remainder is unique.
LEMMA ModUnique ==
  ASSUME NEW S \in Nat \ {0}, NEW x \in Int, NEW q \in Int, NEW r \in 0 .. S - 1, x = S * q + r
  PROVE  Mod(x, S) = r
  BY DEF Mod

\* Every number has one.
LEMMA ModDiv ==
  ASSUME NEW S \in Nat \ {0}, NEW x \in Int
  PROVE  Mod(x, S) \in 0 .. S - 1 /\ \E q \in Int : x = S * q + Mod(x, S)
  <1>1. x \div S \in Int /\ x = S * (x \div S) + Mod(x, S)
    BY DEF Mod
  <1>2. Mod(x, S) \in 0 .. S - 1
    BY DEF Mod
  <1> DEFINE d == x \div S
  <1>3. d \in Int /\ x = S * d + Mod(x, S)
    BY <1>1
  <1> HIDE DEF d
  <1> QED BY <1>2, <1>3, Zenon

\* A position computed from two numbers is in the ring.
LEMMA ModSum ==
  ASSUME NEW S \in Nat \ {0}, NEW x \in Int, NEW y \in Int
  PROVE  Mod(x + y, S) \in 0 .. S - 1 /\ Mod(x - y, S) \in 0 .. S - 1
  <1> DEFINE a == x + y
             b == x - y
  <1>1. a \in Int /\ b \in Int
    OBVIOUS
  <1> HIDE DEF a, b
  <1>2. Mod(a, S) \in 0 .. S - 1 /\ Mod(b, S) \in 0 .. S - 1
    BY <1>1, ModDiv, Zenon
  <1> QED BY <1>2 DEF a, b

\* A position may be reduced before the next one is computed from it.
LEMMA ModPlus ==
  ASSUME NEW S \in Nat \ {0}, NEW x \in Int, NEW y \in Int
  PROVE  Mod(Mod(x, S) + y, S) = Mod(x + y, S)
  <1> DEFINE r == Mod(x, S)
  <1>1. r \in 0 .. S - 1 /\ \E q \in Int : x = S * q + r
    BY ModDiv, Zenon
  <1>2. PICK q \in Int : x = S * q + r
    BY <1>1, Zenon
  <1> HIDE DEF r
  <1> DEFINE z == r + y
             m == Mod(z, S)
  <1>3. z \in Int
    BY <1>1
  <1>4. m \in 0 .. S - 1 /\ \E k \in Int : z = S * k + m
    BY <1>3, ModDiv, Zenon
  <1> HIDE DEF m
  <1>5. PICK k \in Int : z = S * k + m
    BY <1>4
  <1>6. S * (q + k) = S * q + S * k /\ S * q \in Int /\ S * k \in Int /\ q + k \in Int
    OBVIOUS
  <1>7. x + y = S * (q + k) + m
    <2> DEFINE a == S * q
               b == S * k
    <2>1. a \in Int /\ b \in Int /\ S * (q + k) = a + b /\ x = a + r /\ r + y = b + m
      BY <1>2, <1>5, <1>6
    <2> HIDE DEF a, b
    <2>2. x + y = a + b + m
      BY <1>1, <1>4, <2>1
    <2> QED BY <2>1, <2>2, Zenon
  <1>8. x + y \in Int
    OBVIOUS
  <1>9. Mod(x + y, S) = m
    BY <1>4, <1>6, <1>7, <1>8, ModUnique, Zenon
  <1> QED BY <1>9 DEF m, r

\* The remainder of a number that is at most one round away
LEMMA Around ==
  ASSUME NEW S \in Nat \ {0}
  PROVE  \A x \in Int : -S <= x /\ x < 2 * S =>
           Mod(x, S) = IF x < 0 THEN x + S ELSE IF x < S THEN x ELSE x - S
  <1> SUFFICES ASSUME NEW x \in Int, -S <= x, x < 2 * S
               PROVE  Mod(x, S) = IF x < 0 THEN x + S ELSE IF x < S THEN x ELSE x - S
    OBVIOUS
  <1>1. CASE x < 0
    <2>1. x = S * (-1) + (x + S) /\ x + S \in 0 .. S - 1
      BY <1>1
    <2> QED BY <1>1, <2>1 DEF Mod
  <1>2. CASE x >= 0 /\ x < S
    <2>1. x = S * 0 + x /\ x \in 0 .. S - 1
      BY <1>2
    <2> QED BY <1>2, <2>1 DEF Mod
  <1>3. CASE x >= S
    <2>1. x = S * 1 + (x - S) /\ x - S \in 0 .. S - 1
      BY <1>3
    <2> QED BY <1>3, <2>1 DEF Mod
  <1> QED BY <1>1, <1>2, <1>3

\* Bytes read leave the ring.
LEMMA UsedLess ==
  ASSUME NEW S \in Nat \ {0}, NEW r \in 0 .. S - 1, NEW w \in 0 .. S - 1,
         NEW n \in 0 .. S - 1, n <= Mod(w - r, S)
  PROVE  /\ Mod(r + n, S) \in 0 .. S - 1
         /\ Mod(w - Mod(r + n, S), S) = Mod(w - r, S) - n
  <1>1. Mod(r + n, S) = IF r + n < S THEN r + n ELSE r + n - S
    BY Around
  <1>2. Mod(w - r, S) = IF w < r THEN w - r + S ELSE w - r
    BY Around
  <1> DEFINE p == Mod(r + n, S)
  <1>3. p \in 0 .. S - 1 /\ (p = r + n \/ p = r + n - S)
    BY <1>1
  <1> HIDE DEF p
  <1>4. Mod(w - p, S) = IF w < p THEN w - p + S ELSE w - p
    BY <1>3, Around
  <1>5. Mod(w - p, S) = Mod(w - r, S) - n
    BY <1>2, <1>3, <1>4
  <1> QED BY <1>3, <1>5 DEF p

\* Bytes written enter it.
LEMMA UsedMore ==
  ASSUME NEW S \in Nat \ {0}, NEW r \in 0 .. S - 1, NEW w \in 0 .. S - 1,
         NEW n \in 0 .. S - 1, n <= S - 1 - Mod(w - r, S)
  PROVE  /\ Mod(w + n, S) \in 0 .. S - 1
         /\ Mod(Mod(w + n, S) - r, S) = Mod(w - r, S) + n
  <1>1. Mod(w + n, S) = IF w + n < S THEN w + n ELSE w + n - S
    BY Around
  <1>2. Mod(w - r, S) = IF w < r THEN w - r + S ELSE w - r
    BY Around
  <1> DEFINE p == Mod(w + n, S)
  <1>3. p \in 0 .. S - 1 /\ (p = w + n \/ p = w + n - S)
    BY <1>1
  <1> HIDE DEF p
  <1>4. Mod(p - r, S) = IF p < r THEN p - r + S ELSE p - r
    BY <1>3, Around
  <1>5. Mod(p - r, S) = Mod(w - r, S) + n
    BY <1>2, <1>3, <1>4
  <1> QED BY <1>3, <1>5 DEF p

\* Where the place of the i-th byte of the ring is, seen from the write position
LEMMA PlaceFromEnd ==
  ASSUME NEW S \in Nat \ {0}, NEW r \in 0 .. S - 1, NEW w \in 0 .. S - 1, NEW i \in 0 .. S - 1
  PROVE  /\ Mod(r + i, S) \in 0 .. S - 1
         /\ Mod(Mod(r + i, S) - w, S) = IF i < Mod(w - r, S) THEN i - Mod(w - r, S) + S
                                        ELSE i - Mod(w - r, S)
  <1>1. Mod(r + i, S) = IF r + i < S THEN r + i ELSE r + i - S
    BY Around
  <1>2. Mod(w - r, S) = IF w < r THEN w - r + S ELSE w - r
    BY Around
  <1> DEFINE p == Mod(r + i, S)
  <1>3. p \in 0 .. S - 1 /\ (p = r + i \/ p = r + i - S)
    BY <1>1
  <1> HIDE DEF p
  <1>4. Mod(p - w, S) = IF p < w THEN p - w + S ELSE p - w
    BY <1>3, Around
  <1>5. Mod(p - w, S) = IF i < Mod(w - r, S) THEN i - Mod(w - r, S) + S ELSE i - Mod(w - r, S)
    BY <1>2, <1>3, <1>4
  <1> QED BY <1>3, <1>5 DEF p

-----------------------------------------------------------------------------
(***************************************************************************)
(* The ring                                                                 *)
(***************************************************************************)

\* The ring b holds the bytes from number k up to number e between its read
\* position r and its write position w.
Holds(b, r, w, k, e) ==
  /\ Mod(k + Mod(w - r, Size), ByteNo) = e
  /\ \A i \in 0 .. Size - 1 : i < Mod(w - r, Size) => b[Mod(r + i, Size)] = Mod(k + i, ByteNo)

\* The ring f is b with n bytes from number e on put at the write position w.
Filled(f, b, w, e, n) ==
  f = [i \in 0 .. Size - 1 |->
         IF Mod(i - w, Size) < n THEN Mod(e + Mod(i - w, Size), ByteNo) ELSE b[i]]

\* _put to a reader takes the oldest bytes.
LEMMA RingTakes ==
  ASSUME NEW r \in 0 .. Size - 1, NEW w \in 0 .. Size - 1, NEW k \in 0 .. ByteNo - 1, NEW b, NEW e,
         NEW n \in 0 .. Size - 1, n <= Mod(w - r, Size), Holds(b, r, w, k, e)
  PROVE  Holds(b, Mod(r + n, Size), w, Mod(k + n, ByteNo), e)
  <1> DEFINE p == Mod(r + n, Size)
             u == Mod(w - r, Size)
             v == Mod(w - p, Size)
             j == Mod(k + n, ByteNo)
  <1>1. Size \in Nat \ {0} /\ ByteNo \in Nat \ {0}
    BY PipeAssumption
  <1>2. p \in 0 .. Size - 1 /\ v = u - n
    BY <1>1, UsedLess
  <1>3. u \in 0 .. Size - 1
    <2> DEFINE d == w - r
    <2>1. d \in Int
      OBVIOUS
    <2> HIDE DEF d
    <2>2. Mod(d, Size) \in 0 .. Size - 1
      BY <1>1, <2>1, ModDiv, Zenon
    <2> QED BY <2>2 DEF d
  <1>4. Mod(j + v, ByteNo) = e
    <2>1. Mod(j + (u - n), ByteNo) = Mod((k + n) + (u - n), ByteNo)
      <3> DEFINE x == k + n
                 y == u - n
      <3>1. x \in Int /\ y \in Int
        BY <1>3
      <3> HIDE DEF x, y
      <3>2. Mod(Mod(x, ByteNo) + y, ByteNo) = Mod(x + y, ByteNo)
        BY <1>1, <3>1, ModPlus, Zenon
      <3> QED BY <3>2 DEF x, y
    <2>2. (k + n) + (u - n) = k + u
      BY <1>3
    <2>3. Mod(k + u, ByteNo) = e
      BY DEF Holds
    <2> QED BY <1>2, <2>1, <2>2, <2>3
  <1>5. ASSUME NEW i \in 0 .. Size - 1, i < v
        PROVE  b[Mod(p + i, Size)] = Mod(j + i, ByteNo)
    <2>1. n + i \in 0 .. Size - 1 /\ n + i < u /\ i \in Int
      BY <1>1, <1>2, <1>3, <1>5
    <2>2. Mod(p + i, Size) = Mod(r + (n + i), Size)
      <3> DEFINE x == r + n
      <3>1. x \in Int /\ x + i = r + (n + i)
        OBVIOUS
      <3> HIDE DEF x
      <3>2. Mod(Mod(x, Size) + i, Size) = Mod(x + i, Size)
        BY <1>1, <2>1, <3>1, ModPlus, Zenon
      <3> QED BY <3>1, <3>2 DEF x
    <2>3. Mod(j + i, ByteNo) = Mod(k + (n + i), ByteNo)
      <3> DEFINE x == k + n
      <3>1. x \in Int /\ x + i = k + (n + i)
        OBVIOUS
      <3> HIDE DEF x
      <3>2. Mod(Mod(x, ByteNo) + i, ByteNo) = Mod(x + i, ByteNo)
        BY <1>1, <2>1, <3>1, ModPlus, Zenon
      <3> QED BY <3>1, <3>2 DEF x
    <2>4. b[Mod(r + (n + i), Size)] = Mod(k + (n + i), ByteNo)
      <3> DEFINE x == n + i
      <3>1. x \in 0 .. Size - 1 /\ x < Mod(w - r, Size)
        BY <2>1
      <3> HIDE DEF x
      <3>2. b[Mod(r + x, Size)] = Mod(k + x, ByteNo)
        BY <3>1 DEF Holds
      <3> QED BY <3>2 DEF x
    <2> QED BY <2>2, <2>3, <2>4
  <1> QED BY <1>4, <1>5 DEF Holds

\* _get from a writer adds bytes in the room there is.
LEMMA RingAdds ==
  ASSUME NEW r \in 0 .. Size - 1, NEW w \in 0 .. Size - 1, NEW k \in 0 .. ByteNo - 1, NEW b,
         NEW e \in 0 .. ByteNo - 1,
         NEW n \in 0 .. Size - 1, n <= Size - 1 - Mod(w - r, Size), Holds(b, r, w, k, e),
         NEW f, Filled(f, b, w, e, n)
  PROVE  Holds(f, r, Mod(w + n, Size), k, Mod(e + n, ByteNo))
  <1> DEFINE p == Mod(w + n, Size)
             u == Mod(w - r, Size)
             v == Mod(p - r, Size)
  <1>1. Size \in Nat \ {0} /\ ByteNo \in Nat \ {0}
    BY PipeAssumption
  <1>2. p \in 0 .. Size - 1 /\ v = u + n
    BY <1>1, UsedMore
  <1>3. u \in 0 .. Size - 1
    <2> DEFINE d == w - r
    <2>1. d \in Int
      OBVIOUS
    <2> HIDE DEF d
    <2>2. Mod(d, Size) \in 0 .. Size - 1
      BY <1>1, <2>1, ModDiv, Zenon
    <2> QED BY <2>2 DEF d
  <1>4. ASSUME NEW y \in Int PROVE Mod(e + y, ByteNo) = Mod(k + (u + y), ByteNo)
    <2> DEFINE x == k + u
    <2>1. x \in Int /\ x + y = k + (u + y) /\ Mod(x, ByteNo) = e
      BY <1>3 DEF Holds
    <2> HIDE DEF x
    <2>2. Mod(Mod(x, ByteNo) + y, ByteNo) = Mod(x + y, ByteNo)
      BY <1>1, <2>1, ModPlus, Zenon
    <2> QED BY <2>1, <2>2
  <1>5. Mod(k + v, ByteNo) = Mod(e + n, ByteNo)
    BY <1>2, <1>4
  <1>6. ASSUME NEW i \in 0 .. Size - 1, i < v
        PROVE  f[Mod(r + i, Size)] = Mod(k + i, ByteNo)
    <2> DEFINE at == Mod(r + i, Size)
               far == Mod(at - w, Size)
    <2>1. at \in 0 .. Size - 1 /\ far = IF i < u THEN i - u + Size ELSE i - u
      BY <1>1, PlaceFromEnd, Zenon
    <2>2. f[at] = IF far < n THEN Mod(e + far, ByteNo) ELSE b[at]
      <3> HIDE DEF at
      <3> QED BY <2>1 DEF Filled
    <2> HIDE DEF far
    <2>3. CASE i < u
      <3>1. ~(far < n)
        BY <1>1, <1>2, <1>3, <2>1, <2>3
      <3> QED BY <2>2, <2>3, <3>1 DEF Holds
    <2>4. CASE i >= u
      <3>1. far \in Int /\ far < n /\ u + far = i
        BY <1>1, <1>2, <1>3, <1>6, <2>1, <2>4
      <3>2. Mod(e + far, ByteNo) = Mod(k + (u + far), ByteNo)
        BY <1>4, <3>1
      <3> QED BY <2>2, <3>1, <3>2
    <2> QED BY <1>3, <2>3, <2>4
  <1> QED BY <1>5, <1>6 DEF Holds

-----------------------------------------------------------------------------
(***************************************************************************)
(* The lists of requests                                                    *)
(***************************************************************************)

\* Every request in q still asks for something.
Asking(q) == q \in Seq(Request) /\ \A i \in 1 .. Len(q) : q[i].position < q[i].count

\* No thread has two requests in q.
Single(q) == \A i, j \in 1 .. Len(q) : q[i].tid = q[j].tid => i = j

\* An empty list.
LEMMA NoRequests == Asking(<<>>) /\ Single(<<>>) /\ Tids(<<>>) = {}
  BY DEF Asking, Single, Tids

\* A list without threads is empty.
LEMMA NoTids ==
  ASSUME NEW q \in Seq(Request), Tids(q) = {}
  PROVE  q = <<>>
  <1>1. DOMAIN q = 1 .. Len(q) /\ Len(q) \in Nat
    OBVIOUS
  <1>2. CASE Len(q) > 0
    <2>1. 1 \in DOMAIN q
      BY <1>1, <1>2
    <2> QED BY <2>1, Zenon DEF Tids
  <1> QED BY <1>1, <1>2

\* if_read and if_write put a request at the end.
LEMMA RequestAdded ==
  ASSUME NEW q, Asking(q), NEW t \in Thread, NEW n \in Count
  PROVE  LET r == ListEnqueue(q, NewRequest(t, n))
         IN  /\ Asking(r) /\ r # <<>> /\ Tids(r) = Tids(q) \cup {t}
             /\ Single(q) /\ t \notin Tids(q) => Single(r)
             /\ q = <<>> => Len(r) = 1
  <1> DEFINE x == NewRequest(t, n)
             r == ListEnqueue(q, x)
  <1>1. x \in Request /\ x.tid = t /\ x.position < x.count
    BY PipeAssumption DEF NewRequest, Request
  <1> HIDE DEF x
  <1>2. q \in Seq(Request) /\ Len(q) \in Nat /\ DOMAIN q = 1 .. Len(q)
    BY DEF Asking
  <1>3. /\ r \in Seq(Request) /\ Len(r) = Len(q) + 1 /\ DOMAIN r = 1 .. Len(q) + 1
        /\ \A i \in 1 .. Len(q) : r[i] = q[i]
        /\ r[Len(q) + 1] = x
    BY <1>1, <1>2 DEF ListEnqueue
  <1> HIDE DEF r
  <1>4. Asking(r)
    <2> SUFFICES ASSUME NEW i \in 1 .. Len(r) PROVE r[i].position < r[i].count
      BY <1>3 DEF Asking
    <2> QED BY <1>1, <1>2, <1>3 DEF Asking
  <1>5. Tids(r) = Tids(q) \cup {t}
    <2>1. ASSUME NEW i \in DOMAIN r PROVE r[i].tid \in Tids(q) \cup {t}
      <3>1. i \in DOMAIN q \/ i = Len(q) + 1
        BY <1>2, <1>3
      <3> QED BY <1>1, <1>2, <1>3, <3>1 DEF Tids
    <2>2. t \in Tids(r)
      <3>1. Len(q) + 1 \in DOMAIN r
        BY <1>2, <1>3
      <3> QED BY <1>1, <1>3, <3>1 DEF Tids
    <2>3. ASSUME NEW i \in DOMAIN q PROVE q[i].tid \in Tids(r)
      <3>1. i \in DOMAIN r /\ r[i] = q[i]
        BY <1>2, <1>3
      <3> QED BY <3>1 DEF Tids
    <2> QED BY <2>1, <2>2, <2>3 DEF Tids
  <1>6. ASSUME Single(q), t \notin Tids(q) PROVE Single(r)
    <2>1. \A i \in 1 .. Len(q) : q[i].tid # t
      BY <1>2, <1>6 DEF Tids
    <2> SUFFICES ASSUME NEW i \in 1 .. Len(r), NEW j \in 1 .. Len(r), r[i].tid = r[j].tid
                 PROVE  i = j
      BY DEF Single
    <2>2. (i \in 1 .. Len(q) \/ i = Len(q) + 1) /\ (j \in 1 .. Len(q) \/ j = Len(q) + 1)
      BY <1>2, <1>3
    <2> QED BY <1>1, <1>3, <1>6, <2>1, <2>2 DEF Single
  <1>7. r # <<>> /\ (q = <<>> => Len(r) = 1)
    BY <1>2, <1>3
  <1> QED BY <1>4, <1>5, <1>6, <1>7 DEF r, x

\* The request at the head is answered.
LEMMA RequestDone ==
  ASSUME NEW q, Asking(q), q # <<>>
  PROVE  /\ Head(q) \in Request /\ Head(q).position < Head(q).count /\ Head(q).tid \in Tids(q)
         /\ Asking(ListDequeue(q)) /\ Tids(ListDequeue(q)) \subseteq Tids(q)
         /\ Tids(q) \ {Head(q).tid} \subseteq Tids(ListDequeue(q))
         /\ Single(q) => Single(ListDequeue(q)) /\ Head(q).tid \notin Tids(ListDequeue(q))
         /\ Len(q) = 1 => ListDequeue(q) = <<>>
  <1> DEFINE r == ListDequeue(q)
  <1>1. /\ q \in Seq(Request) /\ Len(q) \in Nat \ {0} /\ DOMAIN q = 1 .. Len(q)
        /\ Head(q) = q[1] /\ 1 \in 1 .. Len(q)
    BY DEF Asking
  <1>2. /\ r \in Seq(Request) /\ Len(r) = Len(q) - 1 /\ DOMAIN r = 1 .. Len(q) - 1
        /\ \A i \in 1 .. Len(q) - 1 : r[i] = q[i + 1]
    BY <1>1 DEF ListDequeue
  <1> HIDE DEF r
  <1>3. Head(q) \in Request /\ Head(q).position < Head(q).count /\ Head(q).tid \in Tids(q)
    BY <1>1 DEF Asking, Tids
  <1>4. Asking(r)
    <2> SUFFICES ASSUME NEW i \in 1 .. Len(r) PROVE r[i].position < r[i].count
      BY <1>2 DEF Asking
    <2>1. i + 1 \in 1 .. Len(q) /\ r[i] = q[i + 1]
      BY <1>1, <1>2
    <2> QED BY <2>1 DEF Asking
  <1>5. ASSUME NEW i \in DOMAIN r PROVE i + 1 \in DOMAIN q /\ r[i].tid = q[i + 1].tid
    BY <1>1, <1>2
  <1>6. Tids(r) \subseteq Tids(q)
    BY <1>5 DEF Tids
  <1>7. ASSUME NEW i \in DOMAIN q, i # 1 PROVE q[i].tid \in Tids(r)
    <2>1. i - 1 \in DOMAIN r /\ r[i - 1] = q[i]
      BY <1>1, <1>2, <1>7
    <2> QED BY <2>1 DEF Tids
  <1>8. Tids(q) \ {Head(q).tid} \subseteq Tids(r)
    BY <1>1, <1>7 DEF Tids
  <1>9. ASSUME Single(q) PROVE Single(r) /\ Head(q).tid \notin Tids(r)
    <2>1. ASSUME NEW i \in 1 .. Len(r), NEW j \in 1 .. Len(r), r[i].tid = r[j].tid
          PROVE  i = j
      <3>1. /\ i + 1 \in 1 .. Len(q) /\ j + 1 \in 1 .. Len(q)
            /\ q[i + 1].tid = q[j + 1].tid
        BY <1>1, <1>2, <2>1
      <3>2. i + 1 = j + 1
        BY <1>9, <3>1 DEF Single
      <3> QED BY <3>2
    <2>2. ASSUME NEW i \in DOMAIN r PROVE r[i].tid # q[1].tid
      <3>1. i + 1 \in 1 .. Len(q) /\ i + 1 # 1
        BY <1>1, <1>2
      <3> QED BY <1>1, <1>5, <1>9, <3>1 DEF Single
    <2> QED BY <1>1, <2>1, <2>2 DEF Single, Tids
  <1>10. Len(q) = 1 => r = <<>>
    BY <1>2
  <1> QED BY <1>3, <1>4, <1>6, <1>8, <1>9, <1>10 DEF r

\* The request at the head goes on.
LEMMA RequestGoesOn ==
  ASSUME NEW q, Asking(q), q # <<>>, NEW x \in Nat, x < Head(q).count
  PROVE  LET r == [q EXCEPT ![1].position = x]
         IN  /\ Asking(r) /\ r # <<>> /\ Tids(r) = Tids(q) /\ Len(r) = Len(q)
             /\ Single(q) => Single(r)
  <1> DEFINE h == [q[1] EXCEPT !.position = x]
             r == [q EXCEPT ![1].position = x]
  <1>1. /\ q \in Seq(Request) /\ Len(q) \in Nat \ {0} /\ DOMAIN q = 1 .. Len(q)
        /\ Head(q) = q[1] /\ 1 \in 1 .. Len(q) /\ q[1] \in Request
    BY DEF Asking
  <1>2. h \in Request /\ h.tid = q[1].tid /\ h.count = q[1].count /\ h.position = x
    BY <1>1 DEF Request
  <1>3. r = [q EXCEPT ![1] = h]
    OBVIOUS
  <1> HIDE DEF h, r
  <1>4. /\ r \in Seq(Request) /\ Len(r) = Len(q) /\ DOMAIN r = 1 .. Len(q)
        /\ r[1] = h /\ \A i \in 1 .. Len(q) : i # 1 => r[i] = q[i]
    BY <1>1, <1>2, <1>3
  <1>5. \A i \in 1 .. Len(q) : r[i].tid = q[i].tid
    BY <1>2, <1>4
  <1>6. Asking(r)
    <2> SUFFICES ASSUME NEW i \in 1 .. Len(r) PROVE r[i].position < r[i].count
      BY <1>4 DEF Asking
    <2> QED BY <1>1, <1>2, <1>4 DEF Asking
  <1>7. Tids(r) = Tids(q)
    BY <1>1, <1>4, <1>5 DEF Tids
  <1>8. Single(q) => Single(r)
    BY <1>4, <1>5 DEF Single
  <1>9. r # <<>>
    BY <1>1, <1>4
  <1> QED BY <1>4, <1>6, <1>7, <1>8, <1>9 DEF r

-----------------------------------------------------------------------------
(***************************************************************************)
(* The invariant of the rings and of the loops.  When _read starts (moved   *)
(* is FALSE) a writer that waits found the ring full, and when _write       *)
(* starts a reader that waits found it empty; a loop that moves nothing     *)
(* leaves nobody behind.                                                    *)
(***************************************************************************)
RingType ==
  /\ readpos \in [Channel -> 0 .. Size - 1]
  /\ writepos \in [Channel -> 0 .. Size - 1]
  /\ buf \in [Channel -> [0 .. Size - 1 -> 0 .. ByteNo - 1]]
  /\ wrote \in [Channel -> 0 .. ByteNo - 1]
  /\ took \in [Channel -> 0 .. ByteNo - 1]

Rings == \A c \in Channel : Holds(buf[c], readpos[c], writepos[c], took[c], wrote[c])

Requests ==
  /\ readers \in [Channel -> Seq(Request)]
  /\ writers \in [Channel -> Seq(Request)]
  /\ \A c \in Channel : Asking(readers[c]) /\ Asking(writers[c])

NoneIdle(c) ==
  /\ readers[c] # <<>> => Used(c) = 0
  /\ writers[c] # <<>> => Free(c) = 0

Loops ==
  \A c \in Channel :
    /\ phase = "accept" \/ channel # c => NoneIdle(c)
    /\ phase = "read" /\ channel = c /\ ~moved => (writers[c] # <<>> => Free(c) = 0)
    /\ phase = "write" /\ channel = c /\ ~moved => (readers[c] # <<>> => Used(c) = 0)

RingInv == TypeOK /\ Rings /\ Requests /\ Loops

\* What a step does to the rings when it leaves u bytes in that of channel c.
Leaves(c, u) ==
  /\ RingType' /\ Rings' /\ Used(c)' = u
  /\ \A d \in Channel \ {c} : Used(d)' = Used(d)

\* The bytes in a ring and the room for more
LEMMA UsedRange ==
  ASSUME RingType, NEW c \in Channel
  PROVE  /\ Used(c) \in 0 .. Size - 1 /\ Free(c) = Size - 1 - Used(c) /\ Size \in Nat /\ Size >= 2
         /\ Used(c) = Mod(writepos[c] - readpos[c], Size)
  <1>1. Size \in Nat /\ Size >= 2
    BY PipeAssumption
  <1> DEFINE d == writepos[c] - readpos[c]
  <1>2. d \in Int
    BY <1>1 DEF RingType
  <1>3. Used(c) = Mod(d, Size)
    BY DEF Used, Mod
  <1>4. Mod(d, Size) \in 0 .. Size - 1
    <2> HIDE DEF d
    <2> QED BY <1>1, <1>2, ModDiv
  <1> HIDE DEF d
  <1>5. Used(c) \in 0 .. Size - 1
    BY <1>3, <1>4
  <1> QED BY <1>1, <1>3, <1>5 DEF Free, d

\* _put, in one copy or two
LEMMA TakenBytes ==
  ASSUME RingType, Rings, NEW c \in Channel, NEW n \in Nat, n <= Used(c), TakeBytes(c, n)
  PROVE  Leaves(c, Used(c) - n)
  <1>1. /\ Used(c) \in 0 .. Size - 1 /\ Size \in Nat \ {0} /\ ByteNo \in Nat \ {0}
        /\ Used(c) = Mod(writepos[c] - readpos[c], Size)
    BY UsedRange, PipeAssumption
  <1>2. /\ readpos' = [readpos EXCEPT ![c] = Mod(readpos[c] + n, Size)]
        /\ took' = [took EXCEPT ![c] = Mod(took[c] + n, ByteNo)]
        /\ writepos' = writepos /\ buf' = buf /\ wrote' = wrote
    BY DEF TakeBytes, Mod
  <1> DEFINE r == Mod(readpos[c] + n, Size)
             k == Mod(took[c] + n, ByteNo)
  <1>3. /\ readpos[c] \in 0 .. Size - 1 /\ writepos[c] \in 0 .. Size - 1
        /\ took[c] \in 0 .. ByteNo - 1 /\ n \in 0 .. Size - 1
        /\ Holds(buf[c], readpos[c], writepos[c], took[c], wrote[c])
    BY <1>1 DEF RingType, Rings
  <1>4. Holds(buf[c], r, writepos[c], k, wrote[c])
    BY <1>1, <1>3, RingTakes
  <1>5. r \in 0 .. Size - 1 /\ Mod(writepos[c] - r, Size) = Used(c) - n
    BY <1>1, <1>3, UsedLess
  <1>6. k \in 0 .. ByteNo - 1
    <2> DEFINE x == took[c] + n
    <2>1. x \in Int
      BY <1>1, <1>3
    <2> HIDE DEF x
    <2>2. Mod(x, ByteNo) \in 0 .. ByteNo - 1
      BY <1>1, <2>1, ModDiv, Zenon
    <2> QED BY <2>2 DEF x
  <1> HIDE DEF r, k
  <1>7. readpos' = [readpos EXCEPT ![c] = r] /\ took' = [took EXCEPT ![c] = k]
    BY <1>2 DEF r, k
  <1>8. /\ readpos'[c] = r /\ took'[c] = k
        /\ \A d \in Channel \ {c} : readpos'[d] = readpos[d] /\ took'[d] = took[d]
    BY <1>7 DEF RingType
  <1>9. RingType'
    BY <1>2, <1>5, <1>6, <1>7, Zenon DEF RingType
  <1>10. Rings'
    <2> SUFFICES ASSUME NEW d \in Channel
                 PROVE  Holds(buf[d], readpos'[d], writepos[d], took'[d], wrote[d])
      BY <1>2, Zenon DEF Rings
    <2> QED BY <1>4, <1>8, Zenon DEF Rings
  <1>11. Used(c)' = Used(c) - n
    BY <1>2, <1>5, <1>8 DEF Used, Mod
  <1>12. \A d \in Channel \ {c} : Used(d)' = Used(d)
    BY <1>2, <1>8 DEF Used
  <1> QED BY <1>9, <1>10, <1>11, <1>12 DEF Leaves

\* _get, in one copy or two
LEMMA AddedBytes ==
  ASSUME RingType, Rings, NEW c \in Channel, NEW n \in Nat, n <= Free(c), AddBytes(c, n)
  PROVE  Leaves(c, Used(c) + n)
  <1>1. /\ Used(c) \in 0 .. Size - 1 /\ Size \in Nat \ {0} /\ ByteNo \in Nat \ {0}
        /\ Used(c) = Mod(writepos[c] - readpos[c], Size) /\ n <= Size - 1 - Used(c)
    BY UsedRange, PipeAssumption
  <1> DEFINE w == Mod(writepos[c] + n, Size)
             e == Mod(wrote[c] + n, ByteNo)
             f == [i \in 0 .. Size - 1 |->
                     IF Mod(i - writepos[c], Size) < n
                       THEN Mod(wrote[c] + Mod(i - writepos[c], Size), ByteNo) ELSE buf[c][i]]
  <1>2. /\ writepos' = [writepos EXCEPT ![c] = w] /\ wrote' = [wrote EXCEPT ![c] = e]
        /\ buf' = [buf EXCEPT ![c] = f] /\ readpos' = readpos /\ took' = took
    BY DEF AddBytes, Mod
  <1>3. /\ readpos[c] \in 0 .. Size - 1 /\ writepos[c] \in 0 .. Size - 1
        /\ took[c] \in 0 .. ByteNo - 1 /\ wrote[c] \in 0 .. ByteNo - 1 /\ n \in 0 .. Size - 1
        /\ buf[c] \in [0 .. Size - 1 -> 0 .. ByteNo - 1]
        /\ Holds(buf[c], readpos[c], writepos[c], took[c], wrote[c])
    BY <1>1 DEF RingType, Rings
  <1>4. Filled(f, buf[c], writepos[c], wrote[c], n)
    BY Zenon DEF Filled
  <1>5. wrote[c] \in Int /\ writepos[c] \in Int
    BY <1>1, <1>3
  <1>6. \A i \in Int : Mod(i - writepos[c], Size) \in 0 .. Size - 1
    BY <1>1, <1>5, ModSum
  <1>7. \A i \in Int : Mod(wrote[c] + i, ByteNo) \in 0 .. ByteNo - 1
    BY <1>1, <1>5, ModSum
  <1>8. f \in [0 .. Size - 1 -> 0 .. ByteNo - 1]
    <2> SUFFICES ASSUME NEW i \in 0 .. Size - 1
                 PROVE  (IF Mod(i - writepos[c], Size) < n
                           THEN Mod(wrote[c] + Mod(i - writepos[c], Size), ByteNo) ELSE buf[c][i])
                        \in 0 .. ByteNo - 1
      OBVIOUS
    <2> DEFINE m == Mod(i - writepos[c], Size)
    <2>1. m \in 0 .. Size - 1
      <3>1. i \in Int
        BY <1>1
      <3> QED BY <1>6, <3>1
    <2> HIDE DEF m
    <2>2. m \in Int
      BY <1>1, <2>1
    <2>4. Mod(wrote[c] + m, ByteNo) \in 0 .. ByteNo - 1
      BY <1>7, <2>2
    <2>3. (IF m < n THEN Mod(wrote[c] + m, ByteNo) ELSE buf[c][i]) \in 0 .. ByteNo - 1
      BY <1>3, <2>4, Zenon
    <2> QED BY <2>3 DEF m
  <1> HIDE DEF f
  <1>9. Holds(f, readpos[c], w, took[c], e)
    BY <1>1, <1>3, <1>4, RingAdds, Zenon
  <1>10. w \in 0 .. Size - 1 /\ Mod(w - readpos[c], Size) = Used(c) + n
    <2>1. /\ readpos[c] \in 0 .. Size - 1 /\ writepos[c] \in 0 .. Size - 1 /\ n \in 0 .. Size - 1
          /\ Size \in Nat \ {0}
      BY <1>1, <1>3
    <2>2. n <= Size - 1 - Mod(writepos[c] - readpos[c], Size) /\ Used(c) = Mod(writepos[c] - readpos[c], Size)
      BY <1>1
    <2> QED BY <2>1, <2>2, UsedMore
  <1> HIDE DEF w, e
  <1>11. /\ writepos'[c] = w /\ wrote'[c] = e /\ buf'[c] = f
         /\ \A d \in Channel \ {c} :
              writepos'[d] = writepos[d] /\ wrote'[d] = wrote[d] /\ buf'[d] = buf[d]
    BY <1>2 DEF RingType
  <1>12. RingType'
    <2>1. e \in 0 .. ByteNo - 1
      BY <1>7 DEF e
    <2> QED BY <1>2, <1>8, <1>10, <2>1, Zenon DEF RingType
  <1>13. Rings'
    <2> SUFFICES ASSUME NEW d \in Channel
                 PROVE  Holds(buf'[d], readpos[d], writepos'[d], took[d], wrote'[d])
      BY <1>2, Zenon DEF Rings
    <2> QED BY <1>9, <1>11, Zenon DEF Rings
  <1>14. Used(c)' = Used(c) + n
    BY <1>2, <1>10, <1>11 DEF Used, Mod
  <1>15. \A d \in Channel \ {c} : Used(d)' = Used(d)
    BY <1>2, <1>11 DEF Used
  <1> QED BY <1>12, <1>13, <1>14, <1>15 DEF Leaves

\* A step that leaves the rings alone
LEMMA SameRings ==
  ASSUME RingType, Rings, NEW c \in Channel, UNCHANGED ringVars
  PROVE  Leaves(c, Used(c))
  BY DEF RingType, Rings, ringVars, Used, Leaves

\* The type of what is not in the rings or the lists.
CtlType ==
  /\ file \in [Channel -> {"none", "root", "walked", "open"}]
  /\ refer \in [Channel -> Nat]
  /\ phase \in {"accept", "read", "write"}
  /\ channel \in Channel
  /\ moved \in BOOLEAN
  /\ setup \in {"no", "attached", "walked1", "opened1", "walked", "done"}
  /\ holder \in [Channel -> SUBSET Thread]
  /\ life \in [Thread -> {"unborn", "live", "dying", "dead"}]
  /\ waiting \subseteq Thread

\* The parts of RingInv.
LEMMA Parts == RingInv <=> RingType /\ CtlType /\ Rings /\ Requests /\ Loops
  BY Zenon DEF RingInv, TypeOK, RingType, CtlType, Requests

\* A step that leaves the rings and the loops alone and at most empties lists.
LEMMA QuietInv ==
  ASSUME RingInv, CtlType', UNCHANGED ringVars, UNCHANGED loopVars,
         readers' \in [Channel -> Seq(Request)], writers' \in [Channel -> Seq(Request)],
         \A c \in Channel : /\ readers'[c] = readers[c] \/ readers'[c] = <<>>
                            /\ writers'[c] = writers[c] \/ writers'[c] = <<>>
  PROVE  RingInv'
  <1>1. RingType /\ Rings /\ Requests /\ Loops
    BY Parts
  <1>2. RingType' /\ Rings' /\ \A c \in Channel : Used(c)' = Used(c) /\ Free(c)' = Free(c)
    BY <1>1, Zenon DEF RingType, Rings, ringVars, Used, Free
  <1>3. Requests'
    BY <1>1, NoRequests, Zenon DEF Requests
  <1>4. Loops'
    BY <1>1, <1>2, Zenon DEF Loops, loopVars, NoneIdle
  <1> QED BY <1>2, <1>3, <1>4, Parts, Zenon DEF RingInv, TypeOK, RingType, CtlType, Requests

\* An iteration of _read, or its end.
LEMMA ReadStep ==
  ASSUME RingInv, NEW c \in Channel, phase = "read", channel = c, channel' = c, CtlType',
         NEW n \in Nat, n <= Used(c), Leaves(c, Used(c) - n),
         readers' \in [Channel -> Seq(Request)], Asking(readers'[c]), writers' = writers,
         \A d \in Channel \ {c} : readers'[d] = readers[d],
         \/ phase' = "read" /\ (moved' \/ (n = 0 /\ ~moved))
         \/ /\ ~moved'
            /\ n = Used(c) \/ readers'[c] = <<>>
            /\ phase' = "write" \/ (phase' = "accept" /\ ~moved /\ n = 0)
  PROVE  RingInv'
  <1>1. RingType /\ Rings /\ Requests /\ Loops
    BY Parts
  <1>2. /\ Used(c) \in 0 .. Size - 1 /\ Free(c) = Size - 1 - Used(c) /\ Size \in Nat /\ Size >= 2
    BY <1>1, UsedRange
  <1>3. RingType' /\ Rings' /\ Used(c)' = Used(c) - n
        /\ \A d \in Channel \ {c} : Used(d)' = Used(d)
    BY DEF Leaves
  <1>4. /\ Free(c)' = Size - 1 - Used(c)'
        /\ \A d \in Channel \ {c} : Free(d)' = Free(d)
    BY <1>3 DEF Free
  <1>5. Requests'
    BY <1>1, Zenon DEF Requests
  <1>6. ASSUME NEW d \in Channel \ {c} PROVE NoneIdle(d)'
    <2>1. NoneIdle(d)
      BY <1>1 DEF Loops
    <2> QED BY <1>3, <1>4, <2>1 DEF NoneIdle
  <1>7. ~moved => (writers[c] # <<>> => Free(c) = 0)
    BY <1>1 DEF Loops
  <1>8. CASE phase' = "read"
    <2>1. ~moved' => (writers'[c] # <<>> => Free(c)' = 0)
      BY <1>2, <1>3, <1>4, <1>7, <1>8
    <2> QED BY <1>3, <1>5, <1>6, <1>8, <2>1, Parts, Zenon DEF RingInv, TypeOK, RingType, CtlType, Requests, Loops
  <1>9. CASE phase' = "write"
    <2>1. readers'[c] # <<>> => Used(c)' = 0
      BY <1>2, <1>3, <1>9
    <2> QED BY <1>3, <1>5, <1>6, <1>9, <2>1, Parts, Zenon DEF RingInv, TypeOK, RingType, CtlType, Requests, Loops
  <1>10. CASE phase' = "accept"
    <2>1. readers'[c] # <<>> => Used(c)' = 0
      BY <1>2, <1>3, <1>10
    <2>2. writers'[c] # <<>> => Free(c)' = 0
      BY <1>2, <1>3, <1>4, <1>7, <1>10
    <2> QED BY <1>3, <1>5, <1>6, <1>10, <2>1, <2>2, Parts, Zenon
            DEF RingInv, TypeOK, RingType, CtlType, Requests, Loops, NoneIdle
  <1> QED BY <1>8, <1>9, <1>10

\* An iteration of _write, or its end.
LEMMA WriteStep ==
  ASSUME RingInv, NEW c \in Channel, phase = "write", channel = c, channel' = c, CtlType',
         NEW n \in Nat, n <= Free(c), Leaves(c, Used(c) + n),
         writers' \in [Channel -> Seq(Request)], Asking(writers'[c]), readers' = readers,
         \A d \in Channel \ {c} : writers'[d] = writers[d],
         \/ phase' = "write" /\ (moved' \/ (n = 0 /\ ~moved))
         \/ /\ ~moved'
            /\ n = Free(c) \/ writers'[c] = <<>>
            /\ phase' = "read" \/ (phase' = "accept" /\ ~moved /\ n = 0)
  PROVE  RingInv'
  <1>1. RingType /\ Rings /\ Requests /\ Loops
    BY Parts, Zenon
  <1>2. /\ Used(c) \in 0 .. Size - 1 /\ Free(c) = Size - 1 - Used(c) /\ Size \in Nat /\ Size >= 2
    BY <1>1, UsedRange, Zenon
  <1>3. RingType' /\ Rings' /\ Used(c)' = Used(c) + n
        /\ \A d \in Channel \ {c} : Used(d)' = Used(d)
    BY Zenon DEF Leaves
  <1>4. /\ Free(c)' = Size - 1 - Used(c)'
        /\ \A d \in Channel \ {c} : Free(d)' = Free(d)
    BY <1>3 DEF Free
  <1>5. Requests'
    BY <1>1, Zenon DEF Requests
  <1>6. ASSUME NEW d \in Channel \ {c} PROVE NoneIdle(d)'
    <2>1. NoneIdle(d)
      BY <1>1 DEF Loops
    <2> QED BY <1>3, <1>4, <2>1 DEF NoneIdle
  <1>7. ~moved => (readers[c] # <<>> => Used(c) = 0)
    BY <1>1 DEF Loops
  <1>8. CASE phase' = "write"
    <2>1. ~moved' => (readers'[c] # <<>> => Used(c)' = 0)
      BY <1>2, <1>3, <1>4, <1>7, <1>8
    <2> QED BY <1>3, <1>5, <1>6, <1>8, <2>1, Parts, Zenon DEF RingInv, TypeOK, RingType, CtlType, Requests, Loops
  <1>9. CASE phase' = "read"
    <2>1. writers'[c] # <<>> => Free(c)' = 0
      BY <1>2, <1>3, <1>4, <1>9
    <2> QED BY <1>3, <1>5, <1>6, <1>9, <2>1, Parts, Zenon DEF RingInv, TypeOK, RingType, CtlType, Requests, Loops
  <1>10. CASE phase' = "accept"
    <2>1. readers'[c] # <<>> => Used(c)' = 0
      BY <1>2, <1>3, <1>7, <1>10
    <2>2. writers'[c] # <<>> => Free(c)' = 0
      BY <1>2, <1>3, <1>4, <1>10
    <2> QED BY <1>3, <1>5, <1>6, <1>10, <2>1, <2>2, Parts, Zenon
            DEF RingInv, TypeOK, RingType, CtlType, Requests, Loops, NoneIdle
  <1> QED BY <1>8, <1>9, <1>10, Zenon

\* A list of requests is changed for channel c only.
LEMMA ListPut ==
  ASSUME NEW f \in [Channel -> Seq(Request)], NEW c \in Channel, NEW q \in Seq(Request)
  PROVE  /\ [f EXCEPT ![c] = q] \in [Channel -> Seq(Request)] /\ [f EXCEPT ![c] = q][c] = q
         /\ \A d \in Channel \ {c} : [f EXCEPT ![c] = q][d] = f[d]
  OBVIOUS

\* A copy to a reader fails.
LEMMA ReadFaultInv ==
  ASSUME RingInv, NEW c \in Channel, phase = "read", channel = c, readers[c] # <<>>,
         NEW n \in Nat, n <= Used(c), ReadFault(c, n)
  PROVE  RingInv'
  <1>1. RingType /\ CtlType /\ Rings /\ Requests
    BY Parts
  <1> DEFINE q == readers[c]
             t == Head(q).tid
             r == ListDequeue(q)
  <1>2. Asking(q) /\ readers \in [Channel -> Seq(Request)]
    BY <1>1 DEF Requests
  <1>3. Asking(r) /\ r \in Seq(Request) /\ t \in Thread
    <2>1. Head(q) \in Request /\ Asking(r)
      BY <1>2, RequestDone
    <2> QED BY <2>1 DEF Asking, Request
  <1>4. /\ readers' = [readers EXCEPT ![c] = r] /\ writers' = writers
        /\ life' = Signalled(t) /\ waiting' = waiting \ {t}
        /\ file' = file /\ refer' = refer /\ phase' = phase /\ channel' = channel
        /\ setup' = setup /\ holder' = holder /\ TakeBytes(c, n)
    BY DEF ReadFault
  <1>5. moved' = (moved \/ n > 0)
    BY DEF ReadFault
  <1> HIDE DEF r, t
  <1>6. moved' \in BOOLEAN /\ (moved' \/ (n = 0 /\ ~moved))
    <2>1. CASE n > 0
      BY <1>5, <2>1, Zenon
    <2>2. CASE n = 0
      <3>1. moved' = (moved \/ FALSE)
        BY <1>5, <2>2
      <3>2. moved \in BOOLEAN
        BY <1>1 DEF CtlType
      <3> QED BY <2>2, <3>1, <3>2
    <2> QED BY <2>1, <2>2
  <1>7. CtlType'
    <2>1. Signalled(t) \in [Thread -> {"unborn", "live", "dying", "dead"}]
      BY <1>1, <1>3 DEF CtlType, Signalled
    <2> QED BY <1>1, <1>4, <1>6, <2>1 DEF CtlType
  <1>8. /\ readers' \in [Channel -> Seq(Request)] /\ readers'[c] = r
        /\ \A d \in Channel \ {c} : readers'[d] = readers[d]
    BY <1>2, <1>3, <1>4, ListPut
  <1>9. Leaves(c, Used(c) - n)
    BY <1>1, <1>4, TakenBytes
  <1> QED BY <1>3, <1>4, <1>6, <1>7, <1>8, <1>9, ReadStep

\* A copy from a writer fails.
LEMMA WriteFaultInv ==
  ASSUME RingInv, NEW c \in Channel, phase = "write", channel = c, writers[c] # <<>>,
         NEW n \in Nat, n <= Free(c), WriteFault(c, n)
  PROVE  RingInv'
  <1>1. RingType /\ CtlType /\ Rings /\ Requests
    BY Parts
  <1> DEFINE q == writers[c]
             t == Head(q).tid
             r == ListDequeue(q)
  <1>2. Asking(q) /\ writers \in [Channel -> Seq(Request)]
    BY <1>1 DEF Requests
  <1>3. Asking(r) /\ r \in Seq(Request) /\ t \in Thread
    <2>1. Head(q) \in Request /\ Asking(r)
      BY <1>2, RequestDone
    <2> QED BY <2>1 DEF Asking, Request
  <1>4. /\ writers' = [writers EXCEPT ![c] = r] /\ readers' = readers
        /\ life' = Signalled(t) /\ waiting' = waiting \ {t}
        /\ file' = file /\ refer' = refer /\ phase' = phase /\ channel' = channel
        /\ setup' = setup /\ holder' = holder /\ AddBytes(c, n)
    BY DEF WriteFault
  <1>5. moved' = (moved \/ n > 0)
    BY DEF WriteFault
  <1> HIDE DEF r, t
  <1>6. moved' \in BOOLEAN /\ (moved' \/ (n = 0 /\ ~moved))
    <2>1. CASE n > 0
      BY <1>5, <2>1, Zenon
    <2>2. CASE n = 0
      <3>1. moved' = (moved \/ FALSE)
        BY <1>5, <2>2
      <3>2. moved \in BOOLEAN
        BY <1>1 DEF CtlType
      <3> QED BY <2>2, <3>1, <3>2
    <2> QED BY <2>1, <2>2
  <1>7. CtlType'
    <2>1. Signalled(t) \in [Thread -> {"unborn", "live", "dying", "dead"}]
      BY <1>1, <1>3 DEF CtlType, Signalled
    <2> QED BY <1>1, <1>4, <1>6, <2>1 DEF CtlType
  <1>8. /\ writers' \in [Channel -> Seq(Request)] /\ writers'[c] = r
        /\ \A d \in Channel \ {c} : writers'[d] = writers[d]
    BY <1>2, <1>3, <1>4, ListPut
  <1>9. Leaves(c, Used(c) + n)
    BY <1>1, <1>4, AddedBytes
  <1> QED BY <1>3, <1>4, <1>6, <1>7, <1>8, <1>9, WriteStep

\* An iteration of _read
LEMMA ReadHeadInv ==
  ASSUME RingInv, NEW c \in Channel, ReadHead(c)
  PROVE  RingInv'
  <1>1. RingType /\ CtlType /\ Rings /\ Requests /\ Loops
    BY Parts
  <1>2. phase = "read" /\ channel = c /\ readers[c] # <<>>
    BY DEF ReadHead
  <1>3. Used(c) \in Nat
    <2>1. Used(c) \in 0 .. Size - 1 /\ Size \in Nat
      BY <1>1, UsedRange, Zenon
    <2> QED BY <2>1
  <1> DEFINE q == readers[c]
             req == Head(q)
             rest == req.count - req.position
             n == IF rest <= Used(c) THEN rest ELSE Used(c)
             answered == rest <= Used(c)
                           \/ (writers[c] = <<>> /\ (n > 0 \/ refer[Partner(c)] = 0))
             r == IF answered THEN ListDequeue(q) ELSE [q EXCEPT ![1].position = req.position + n]
  <1>4. CASE \/ Used(c) > 0 /\ ReadFault(c, 0)
             \/ FirstGet(c) > 0 /\ FirstGet(c) < Used(c) /\ ReadFault(c, FirstGet(c))
    <2>1. CASE ReadFault(c, 0)
      BY <1>2, <1>3, <2>1, ReadFaultInv
    <2>2. CASE FirstGet(c) > 0 /\ FirstGet(c) < Used(c) /\ ReadFault(c, FirstGet(c))
      <3>1. FirstGet(c) \in Nat /\ FirstGet(c) <= Used(c)
        <4>1. FirstGet(c) \in Int
          BY <1>1, PipeAssumption DEF RingType, FirstGet
        <4> QED BY <1>3, <2>2, <4>1
      <3> QED BY <1>2, <2>2, <3>1, ReadFaultInv
    <2> QED BY <1>4, <2>1, <2>2
  <1>5. CASE /\ TakeBytes(c, n)
             /\ readers' = [readers EXCEPT ![c] = r]
             /\ waiting' = IF answered THEN waiting \ {req.tid} ELSE waiting
             /\ IF rest > Used(c)
                  THEN /\ phase' = IF moved \/ n > 0 THEN "write" ELSE "accept"
                       /\ moved' = FALSE
                  ELSE moved' = TRUE /\ UNCHANGED phase
             /\ UNCHANGED <<file, refer, writers, channel, clientVars>>
    <2>1. Asking(q) /\ readers \in [Channel -> Seq(Request)]
      BY <1>1 DEF Requests
    <2>2. req \in Request /\ req.position < req.count /\ Asking(ListDequeue(q))
      BY <1>2, <2>1, RequestDone
    <2>3. req.position \in Nat /\ req.count \in Nat
      BY <2>2, PipeAssumption, Zenon DEF Request
    <2>4. n \in Nat /\ n <= Used(c) /\ (rest > Used(c) => n = Used(c) /\ req.position + n < req.count)
      BY <1>3, <2>2, <2>3
    <2>5. Asking(r)
      <3>1. CASE answered
        BY <2>2, <3>1
      <3>2. CASE ~answered
        <4> DEFINE x == req.position + n
        <4>1. x \in Nat /\ x < Head(q).count
          BY <1>3, <2>3, <2>4, <3>2
        <4> HIDE DEF x
        <4>2. Asking([q EXCEPT ![1].position = x])
          BY <1>2, <2>1, <4>1, RequestGoesOn
        <4> QED BY <3>2, <4>2 DEF x
      <3> QED BY <3>1, <3>2
    <2>6. Leaves(c, Used(c) - n)
      <3>1. TakeBytes(c, n)
        BY <1>5
      <3> HIDE DEF n
      <3> QED BY <1>1, <2>4, <3>1, TakenBytes
    <2>7. /\ readers' = [readers EXCEPT ![c] = r] /\ writers' = writers /\ channel' = c
          /\ (waiting' = waiting \ {req.tid} \/ waiting' = waiting)
          /\ file' = file /\ refer' = refer /\ setup' = setup /\ holder' = holder /\ life' = life
      BY <1>2, <1>5 DEF clientVars
    <2>8. /\ moved' \in BOOLEAN
          /\ \/ phase' = "read" /\ moved'
             \/ /\ ~moved'
                /\ n = Used(c)
                /\ phase' = "write" \/ (phase' = "accept" /\ ~moved /\ n = 0)
      <3>1. CASE rest > Used(c)
        <4>1. moved' = FALSE /\ phase' = IF moved \/ n > 0 THEN "write" ELSE "accept"
          BY <1>5, <3>1
        <4>2. n = Used(c) /\ n \in Nat
          BY <2>4, <3>1
        <4> HIDE DEF n
        <4>3. phase' = "write" \/ (phase' = "accept" /\ ~moved /\ ~(n > 0))
          BY <4>1, Zenon
        <4>4. ~(n > 0) => n = 0
          BY <4>2
        <4> QED BY <4>1, <4>2, <4>3, <4>4, Zenon
      <3>2. CASE ~(rest > Used(c))
        BY <1>2, <1>5, <3>2, Zenon
      <3> QED BY <3>1, <3>2
    <2> HIDE DEF r, n, answered
    <2>9. CtlType'
      BY <1>1, <2>7, <2>8 DEF CtlType
    <2>10. r \in Seq(Request)
      BY <2>5 DEF Asking
    <2>11. /\ readers' \in [Channel -> Seq(Request)] /\ readers'[c] = r
           /\ \A d \in Channel \ {c} : readers'[d] = readers[d]
      BY <2>1, <2>7, <2>10, ListPut
    <2> QED BY <1>2, <2>4, <2>5, <2>6, <2>7, <2>8, <2>9, <2>11, ReadStep
  <1> QED BY <1>4, <1>5, Zenon DEF ReadHead

\* An iteration of _write
LEMMA WriteHeadInv ==
  ASSUME RingInv, NEW c \in Channel, WriteHead(c)
  PROVE  RingInv'
  <1>1. RingType /\ CtlType /\ Rings /\ Requests /\ Loops
    BY Parts
  <1>2. phase = "write" /\ channel = c /\ writers[c] # <<>>
    BY DEF WriteHead
  <1>3. /\ Free(c) \in Nat /\ Used(c) \in 0 .. Size - 1 /\ Free(c) = Size - 1 - Used(c) /\ Size \in Nat
        /\ readpos[c] \in 0 .. Size - 1 /\ writepos[c] \in 0 .. Size - 1
    <2>1. Used(c) \in 0 .. Size - 1 /\ Size \in Nat /\ Free(c) = Size - 1 - Used(c)
      BY <1>1, UsedRange
    <2> QED BY <1>1, <2>1 DEF RingType
  <1> DEFINE q == writers[c]
             req == Head(q)
             rest == req.count - req.position
             fits == rest <= Free(c)
             n == IF fits THEN rest ELSE Free(c)
             tries == readpos[c] <= writepos[c] \/ Free(c) > 0
             r == IF fits THEN ListDequeue(q) ELSE [q EXCEPT ![1].position = req.position + n]
  <1>4. CASE \/ WriteFault(c, 0)
             \/ readpos[c] <= writepos[c] /\ FirstPut(c) < Free(c) /\ WriteFault(c, FirstPut(c))
    <2>1. CASE WriteFault(c, 0)
      BY <1>2, <1>3, <2>1, WriteFaultInv
    <2>2. CASE readpos[c] <= writepos[c] /\ FirstPut(c) < Free(c) /\ WriteFault(c, FirstPut(c))
      <3>1. FirstPut(c) \in Nat /\ FirstPut(c) <= Free(c)
        <4>1. FirstPut(c) \in Nat
          BY <1>3, <2>2, PipeAssumption DEF FirstPut
        <4> QED BY <1>3, <2>2, <4>1
      <3> QED BY <1>2, <2>2, <3>1, WriteFaultInv
    <2> QED BY <1>4, <2>1, <2>2
  <1>5. CASE /\ AddBytes(c, n)
             /\ writers' = [writers EXCEPT ![c] = r]
             /\ waiting' = IF fits THEN waiting \ {req.tid} ELSE waiting
             /\ IF fits
                  THEN moved' = TRUE /\ UNCHANGED phase
                  ELSE /\ phase' = IF moved \/ tries THEN "read" ELSE "accept"
                       /\ moved' = FALSE
             /\ UNCHANGED <<file, refer, readers, channel, clientVars>>
    <2>1. Asking(q) /\ writers \in [Channel -> Seq(Request)]
      BY <1>1 DEF Requests
    <2>2. req \in Request /\ req.position < req.count /\ Asking(ListDequeue(q))
      BY <1>2, <2>1, RequestDone, Zenon
    <2>3. req.position \in Nat /\ req.count \in Nat
      BY <2>2, PipeAssumption, Zenon DEF Request
    <2>4. n \in Nat /\ n <= Free(c) /\ (~fits => n = Free(c) /\ req.position + n < req.count)
      BY <1>3, <2>2, <2>3
    <2>5. Asking(r)
      <3>1. CASE fits
        BY <2>2, <3>1
      <3>2. CASE ~fits
        <4> DEFINE x == req.position + n
        <4>1. x \in Nat /\ x < Head(q).count
          BY <2>3, <2>4, <3>2
        <4> HIDE DEF x
        <4>2. Asking([q EXCEPT ![1].position = x])
          BY <1>2, <2>1, <4>1, RequestGoesOn
        <4> QED BY <3>2, <4>2 DEF x
      <3> QED BY <3>1, <3>2
    <2>6. Leaves(c, Used(c) + n)
      <3>1. AddBytes(c, n)
        BY <1>5
      <3> HIDE DEF n
      <3> QED BY <1>1, <2>4, <3>1, AddedBytes
    <2>7. /\ writers' = [writers EXCEPT ![c] = r] /\ readers' = readers /\ channel' = c
          /\ (waiting' = waiting \ {req.tid} \/ waiting' = waiting)
          /\ file' = file /\ refer' = refer /\ setup' = setup /\ holder' = holder /\ life' = life
      BY <1>2, <1>5 DEF clientVars
    <2>8. /\ moved' \in BOOLEAN
          /\ \/ phase' = "write" /\ moved'
             \/ /\ ~moved'
                /\ n = Free(c)
                /\ phase' = "read" \/ (phase' = "accept" /\ ~moved /\ n = 0)
      <3>1. CASE ~fits
        <4>1. moved' = FALSE /\ phase' = IF moved \/ tries THEN "read" ELSE "accept"
          BY <1>5, <3>1
        <4>2. n = Free(c) /\ (~tries => n = 0)
          BY <1>3, <2>4, <3>1
        <4> HIDE DEF n, tries
        <4> QED BY <4>1, <4>2, Zenon
      <3>2. CASE fits
        BY <1>2, <1>5, <3>2
      <3> QED BY <3>1, <3>2
    <2> HIDE DEF r, n, fits
    <2>9. CtlType'
      BY <1>1, <2>7, <2>8, Zenon DEF CtlType
    <2>10. r \in Seq(Request)
      BY <2>5 DEF Asking
    <2>11. /\ writers' \in [Channel -> Seq(Request)] /\ writers'[c] = r
           /\ \A d \in Channel \ {c} : writers'[d] = writers[d]
      BY <2>1, <2>7, <2>10, ListPut
    <2> QED BY <1>2, <2>4, <2>5, <2>6, <2>7, <2>8, <2>9, <2>11, WriteStep
  <1> QED BY <1>4, <1>5, Zenon DEF WriteHead

\* The ends of the loops
LEMMA EndsInv ==
  ASSUME RingInv, NEW c \in Channel, ReadEnd(c) \/ WriteEnd(c)
  PROVE  RingInv'
  <1>1. RingType /\ CtlType /\ Rings /\ Requests /\ Loops
    BY Parts
  <1>2. Used(c) \in Nat /\ Free(c) \in Nat
    <2>1. Used(c) \in 0 .. Size - 1 /\ Size \in Nat /\ Free(c) = Size - 1 - Used(c)
      BY <1>1, UsedRange
    <2> QED BY <2>1
  <1>3. /\ channel = c /\ channel' = c /\ readers' = readers /\ writers' = writers
        /\ UNCHANGED ringVars /\ moved' = FALSE
        /\ file' = file /\ refer' = refer /\ setup' = setup /\ holder' = holder /\ life' = life
        /\ waiting' = waiting
    BY DEF ReadEnd, WriteEnd, clientVars
  <1>4. Leaves(c, Used(c) - 0) /\ Leaves(c, Used(c) + 0)
    <2>1. Used(c) - 0 = Used(c) /\ Used(c) + 0 = Used(c)
      BY <1>2
    <2> QED BY <1>1, <1>3, <2>1, SameRings
  <1>5. Asking(readers'[c]) /\ Asking(writers'[c])
        /\ readers' \in [Channel -> Seq(Request)] /\ writers' \in [Channel -> Seq(Request)]
    BY <1>1, <1>3 DEF Requests
  <1>6. CASE ReadEnd(c)
    <2>1. phase = "read" /\ readers[c] = <<>> /\ phase' = IF moved THEN "write" ELSE "accept"
      BY <1>6 DEF ReadEnd
    <2>2. CtlType'
      BY <1>1, <1>3, <2>1, Zenon DEF CtlType
    <2>3. phase' = "write" \/ (phase' = "accept" /\ ~moved)
      BY <2>1, Zenon
    <2> QED BY <1>2, <1>3, <1>4, <1>5, <2>1, <2>2, <2>3, ReadStep
  <1>7. CASE WriteEnd(c)
    <2>1. phase = "write" /\ writers[c] = <<>> /\ phase' = IF moved THEN "read" ELSE "accept"
      BY <1>7 DEF WriteEnd
    <2>2. CtlType'
      BY <1>1, <1>3, <2>1, Zenon DEF CtlType
    <2>3. phase' = "read" \/ (phase' = "accept" /\ ~moved)
      BY <2>1, Zenon
    <2> QED BY <1>2, <1>3, <1>4, <1>5, <2>1, <2>2, <2>3, WriteStep
  <1> QED BY <1>6, <1>7

\* Two empty rings hold nothing.
LEMMA EmptyHolds ==
  ASSUME NEW b
  PROVE  Holds(b, 0, 0, 0, 0) /\ 0 \in 0 .. Size - 1 /\ 0 \in 0 .. ByteNo - 1 /\ Mod(0 - 0, Size) = 0
  <1>1. Size \in Nat \ {0} /\ ByteNo \in Nat \ {0}
    BY PipeAssumption
  <1>2. Mod(0, Size) = 0 /\ Mod(0, ByteNo) = 0
    BY <1>1 DEF Mod
  <1> QED BY <1>1, <1>2 DEF Holds

\* if_read
LEMMA IfReadInv ==
  ASSUME RingInv, NEW t \in Thread, NEW c \in Channel, NEW k \in Count, IfRead(t, c, k)
  PROVE  RingInv'
  <1>1. RingType /\ CtlType /\ Rings /\ Requests /\ Loops
    BY Parts
  <1> DEFINE r == ListEnqueue(readers[c], NewRequest(t, k))
  <1>2. Asking(r) /\ r \in Seq(Request)
    BY <1>1, RequestAdded DEF Requests, Asking
  <1>3. /\ phase = "accept" /\ waiting' = waiting \cup {t} /\ readers' = [readers EXCEPT ![c] = r]
        /\ phase' = "read" /\ channel' = c /\ moved' = FALSE /\ writers' = writers
        /\ UNCHANGED ringVars
        /\ file' = file /\ refer' = refer /\ setup' = setup /\ holder' = holder /\ life' = life
    BY DEF IfRead, Asks, clientVars
  <1> HIDE DEF r
  <1>4. /\ readers' \in [Channel -> Seq(Request)] /\ readers'[c] = r
        /\ \A d \in Channel \ {c} : readers'[d] = readers[d]
    BY <1>1, <1>2, <1>3, ListPut DEF Requests
  <1>5. RingType' /\ Rings' /\ \A d \in Channel : Used(d)' = Used(d) /\ Free(d)' = Free(d)
    BY <1>1, <1>3 DEF RingType, Rings, ringVars, Used, Free
  <1>6. CtlType'
    BY <1>1, <1>3, Zenon DEF CtlType
  <1>7. Requests'
    BY <1>1, <1>2, <1>3, <1>4 DEF Requests
  <1>8. \A d \in Channel : NoneIdle(d)
    BY <1>1, <1>3 DEF Loops
  <1>9. Loops'
    BY <1>3, <1>4, <1>5, <1>8 DEF Loops, NoneIdle
  <1> QED BY <1>5, <1>6, <1>7, <1>9, Parts, Zenon DEF RingInv, TypeOK, RingType, CtlType, Requests

\* if_write
LEMMA IfWriteInv ==
  ASSUME RingInv, NEW t \in Thread, NEW c \in Channel, NEW k \in Count, IfWrite(t, c, k)
  PROVE  RingInv'
  <1>1. RingType /\ CtlType /\ Rings /\ Requests /\ Loops
    BY Parts
  <1> DEFINE p == Partner(c)
             r == ListEnqueue(writers[p], NewRequest(t, k))
  <1>2. p \in Channel
    BY DEF Partner, Channel
  <1>3. phase = "accept" /\ readers' = readers /\ UNCHANGED ringVars
        /\ file' = file /\ refer' = refer /\ setup' = setup /\ holder' = holder
    BY DEF IfWrite, Asks
  <1>4. CASE refer[p] = 0
    <2>1. /\ life' = [life EXCEPT ![t] = "dying"] /\ writers' = writers /\ waiting' = waiting
          /\ UNCHANGED loopVars
      BY <1>4 DEF IfWrite
    <2>2. CtlType'
      BY <1>1, <1>3, <2>1 DEF CtlType, loopVars
    <2> QED BY <1>1, <1>3, <2>1, <2>2, QuietInv DEF Requests
  <1>5. CASE refer[p] # 0
    <2>1. /\ waiting' = waiting \cup {t} /\ writers' = [writers EXCEPT ![p] = r]
          /\ phase' = "write" /\ channel' = p /\ moved' = FALSE /\ life' = life
      BY <1>5 DEF IfWrite
    <2> HIDE DEF p
    <2>2. Asking(r) /\ r \in Seq(Request)
      BY <1>1, <1>2, RequestAdded, Zenon DEF Requests, Asking
    <2> HIDE DEF r
    <2>3. /\ writers' \in [Channel -> Seq(Request)] /\ writers'[p] = r
          /\ \A d \in Channel \ {p} : writers'[d] = writers[d]
      BY <1>1, <1>2, <2>1, <2>2, ListPut DEF Requests
    <2>4. RingType' /\ Rings' /\ \A d \in Channel : Used(d)' = Used(d) /\ Free(d)' = Free(d)
      BY <1>1, <1>3 DEF RingType, Rings, ringVars, Used, Free
    <2>5. CtlType'
      BY <1>1, <1>2, <1>3, <2>1, Zenon DEF CtlType
    <2>6. Requests'
      BY <1>1, <1>3, <2>2, <2>3, Zenon DEF Requests
    <2>7. \A d \in Channel : NoneIdle(d)
      BY <1>1, <1>3 DEF Loops
    <2>8. Loops'
      BY <1>3, <2>1, <2>3, <2>4, <2>7 DEF Loops, NoneIdle
    <2> QED BY <2>4, <2>5, <2>6, <2>8, Parts, Zenon DEF RingInv, TypeOK, RingType, CtlType, Requests
  <1> QED BY <1>4, <1>5

\* if_attach
LEMMA AttachInv ==
  ASSUME RingInv, Attach
  PROVE  RingInv'
  <1>1. RingType /\ CtlType
    BY Parts
  <1>2. /\ setup' = "attached" /\ file' = [file EXCEPT ![0] = "root"] /\ refer' = [c \in Channel |-> 0]
        /\ readers' = [c \in Channel |-> <<>>] /\ writers' = [c \in Channel |-> <<>>]
        /\ phase' = phase /\ channel' = channel /\ moved' = moved
        /\ holder' = holder /\ life' = life /\ waiting' = waiting
    BY DEF Attach, loopVars
  <1>3. /\ readpos' = [c \in Channel |-> 0] /\ writepos' = [c \in Channel |-> 0]
        /\ wrote' = [c \in Channel |-> 0] /\ took' = [c \in Channel |-> 0]
        /\ buf' = [c \in Channel |-> [i \in 0 .. Size - 1 |-> 0]]
    BY DEF Attach, EmptyRings
  <1>4. RingType'
    BY <1>3, EmptyHolds DEF RingType
  <1>5. Rings'
    BY <1>3, EmptyHolds DEF Rings
  <1>6. CtlType'
    BY <1>1, <1>2, Zenon DEF CtlType
  <1>7. \A c \in Channel : readers'[c] = <<>> /\ writers'[c] = <<>>
    BY <1>2
  <1>8. Requests'
    BY <1>2, <1>7, NoRequests DEF Requests
  <1>9. Loops'
    BY <1>7 DEF Loops, NoneIdle
  <1> QED BY <1>4, <1>5, <1>6, <1>8, <1>9, Parts, Zenon DEF RingInv, TypeOK, RingType, CtlType, Requests

\* mm_close, and _close_all of a process
LEMMA CloseInv ==
  ASSUME RingInv, NEW t \in Thread, NEW c \in Channel, Close(t, c)
  PROVE  RingInv'
  <1>1. CtlType /\ Requests
    BY Parts
  <1>2. holder' = [holder EXCEPT ![c] = @ \ {t}]
    BY DEF Close
  <1>3. CASE holder[c] # {t}
    <2>1. /\ UNCHANGED ringVars /\ UNCHANGED loopVars /\ readers' = readers /\ writers' = writers
          /\ file' = file /\ refer' = refer /\ setup' = setup /\ life' = life /\ waiting' = waiting
      BY <1>3 DEF Close
    <2>2. CtlType'
      BY <1>1, <1>2, <2>1 DEF CtlType, loopVars
    <2> QED BY <1>1, <2>1, <2>2, QuietInv DEF Requests
  <1>4. CASE holder[c] = {t}
    <2> DEFINE last == \A d \in Channel \ {c} : file[d] = "none"
    <2>1. /\ file' = [file EXCEPT ![c] = "none"]
          /\ refer' = [refer EXCEPT ![c] = IF @ > 0 THEN @ - 1 ELSE @]
          /\ setup' = IF last THEN "no" ELSE setup
          /\ UNCHANGED ringVars /\ UNCHANGED loopVars
      BY <1>4 DEF Close, IfClunk
    <2>2. /\ file' \in [Channel -> {"none", "root", "walked", "open"}]
          /\ refer' \in [Channel -> Nat]
          /\ setup' \in {"no", "attached", "walked1", "opened1", "walked", "done"}
          /\ holder' \in [Channel -> SUBSET Thread]
      BY <1>1, <1>2, <2>1 DEF CtlType
    <2>3. CASE refer[c] = 1
      <3>1. ReleaseRequests(c, last)
        BY <1>4, <2>3, Zenon DEF Close, IfClunk
      <3> HIDE DEF last
      <3>2. /\ waiting' \subseteq Thread
            /\ life' \in [Thread -> {"unborn", "live", "dying", "dead"}]
        BY <1>1, <3>1 DEF ReleaseRequests, CtlType
      <3>3. CtlType'
        BY <1>1, <2>1, <2>2, <3>2 DEF CtlType, loopVars
      <3>4. /\ readers' = [d \in Channel |-> IF last \/ d = Partner(c) THEN <<>> ELSE readers[d]]
            /\ writers' = [d \in Channel |-> IF last \/ d = c THEN <<>> ELSE writers[d]]
        BY <3>1 DEF ReleaseRequests
      <3>5. /\ readers' \in [Channel -> Seq(Request)] /\ writers' \in [Channel -> Seq(Request)]
            /\ \A d \in Channel : (readers'[d] = readers[d] \/ readers'[d] = <<>>)
            /\ \A d \in Channel : (writers'[d] = writers[d] \/ writers'[d] = <<>>)
        BY <1>1, <3>4 DEF Requests
      <3> QED BY <2>1, <3>3, <3>5, QuietInv
    <2>4. CASE refer[c] # 1
      <3>1. readers' = readers /\ writers' = writers /\ waiting' = waiting /\ life' = life
        BY <1>4, <2>4 DEF Close, IfClunk
      <3>2. CtlType'
        BY <1>1, <2>1, <2>2, <3>1 DEF CtlType, loopVars
      <3> QED BY <1>1, <2>1, <3>1, <3>2, QuietInv DEF Requests
    <2> QED BY <2>3, <2>4
  <1> QED BY <1>3, <1>4

\* if_walk, if_open, process_destroy, mm_rfork and mm_kill leave the rings alone.
LEMMA OthersInv ==
  ASSUME RingInv,
         \/ WalkFails
         \/ \E c \in Channel : Walk(c) \/ Open(c)
         \/ \E t \in Thread : Destroy(t) \/ Kill(t)
         \/ \E t, u \in Thread : Fork(t, u)
  PROVE  RingInv'
  <1>1. CtlType /\ Requests
    BY Parts
  <1>2. CASE WalkFails
    <2>1. /\ UNCHANGED ringVars /\ UNCHANGED loopVars /\ readers' = readers /\ writers' = writers
      BY <1>2 DEF WalkFails
    <2>2. CtlType'
      BY <1>1, <1>2, Zenon DEF CtlType, WalkFails, loopVars
    <2> QED BY <1>1, <2>1, <2>2, QuietInv DEF Requests
  <1>3. ASSUME NEW c \in Channel, Walk(c) PROVE RingInv'
    <2>1. /\ UNCHANGED ringVars /\ UNCHANGED loopVars /\ readers' = readers /\ writers' = writers
      BY <1>3 DEF Walk
    <2>2. CtlType'
      BY <1>1, <1>3 DEF CtlType, Walk, loopVars
    <2> QED BY <1>1, <2>1, <2>2, QuietInv DEF Requests
  <1>4. ASSUME NEW c \in Channel, Open(c) PROVE RingInv'
    <2>1. /\ UNCHANGED ringVars /\ UNCHANGED loopVars /\ readers' = readers /\ writers' = writers
      BY <1>4 DEF Open
    <2>2. /\ file' = [file EXCEPT ![c] = "open"] /\ refer' = [refer EXCEPT ![c] = @ + 1]
          /\ setup' \in {"opened1", "done"} /\ life' = life /\ waiting' = waiting
          /\ holder' = holder \/ holder' = [d \in Channel |-> {First}]
      BY <1>4 DEF Open
    <2>3. CtlType'
      BY <1>1, <2>1, <2>2, PipeAssumption DEF CtlType, loopVars
    <2> QED BY <1>1, <2>1, <2>3, QuietInv DEF Requests
  <1>5. ASSUME NEW t \in Thread, Destroy(t) \/ Kill(t) PROVE RingInv'
    <2>1. /\ UNCHANGED ringVars /\ UNCHANGED loopVars /\ readers' = readers /\ writers' = writers
      BY <1>5 DEF Destroy, Kill
    <2>2. /\ file' = file /\ refer' = refer /\ setup' = setup /\ holder' = holder /\ waiting' = waiting
          /\ life' = [life EXCEPT ![t] = "dead"] \/ life' = [life EXCEPT ![t] = "dying"]
      BY <1>5 DEF Destroy, Kill
    <2>3. CtlType'
      BY <1>1, <2>1, <2>2 DEF CtlType, loopVars
    <2> QED BY <1>1, <2>1, <2>3, QuietInv DEF Requests
  <1>6. ASSUME NEW t \in Thread, NEW u \in Thread, Fork(t, u) PROVE RingInv'
    <2>1. /\ UNCHANGED ringVars /\ UNCHANGED loopVars /\ readers' = readers /\ writers' = writers
      BY <1>6 DEF Fork
    <2>2. CtlType'
      BY <1>1, <1>6 DEF CtlType, Fork, loopVars
    <2> QED BY <1>1, <2>1, <2>2, QuietInv DEF Requests
  <1> QED BY <1>2, <1>3, <1>4, <1>5, <1>6

\* The rings start empty and nobody asks for anything.
LEMMA RingInit ==
  ASSUME Init
  PROVE  RingInv
  <1>1. RingType /\ Rings
    BY EmptyHolds, Zenon DEF Init, RingType, Rings
  <1>2. CtlType
    BY Zenon DEF Init, CtlType, Channel
  <1>3. Requests
    BY NoRequests DEF Init, Requests
  <1>4. Loops
    BY DEF Init, Loops, NoneIdle
  <1> QED BY <1>1, <1>2, <1>3, <1>4, Zenon DEF RingInv, TypeOK, RingType, CtlType, Requests

\* Every step of the server, the manager and the processes keeps the rings.
LEMMA RingNext ==
  ASSUME RingInv, [Next]_vars
  PROVE  RingInv'
  <1>1. CASE UNCHANGED vars
    <2>1. /\ UNCHANGED ringVars /\ UNCHANGED loopVars /\ readers' = readers /\ writers' = writers
          /\ file' = file /\ refer' = refer /\ setup' = setup /\ holder' = holder
          /\ life' = life /\ waiting' = waiting
      BY <1>1 DEF vars, ringVars, loopVars, clientVars
    <2>2. CtlType /\ Requests
      BY Parts
    <2>3. CtlType'
      BY <2>1, <2>2 DEF CtlType, loopVars
    <2> QED BY <2>1, <2>2, <2>3, QuietInv DEF Requests
  <1>2. CASE Next
    <2>1. CASE Attach
      BY <2>1, AttachInv
    <2>2. CASE Serve
      <3>1. PICK c \in Channel : ReadHead(c) \/ ReadEnd(c) \/ WriteHead(c) \/ WriteEnd(c)
        BY <2>2 DEF Serve
      <3> QED BY <3>1, ReadHeadInv, WriteHeadInv, EndsInv
    <2>3. ASSUME NEW t \in Thread, NEW c \in Channel, NEW n \in Count, IfRead(t, c, n) \/ IfWrite(t, c, n)
          PROVE  RingInv'
      BY <2>3, IfReadInv, IfWriteInv
    <2>4. ASSUME NEW t \in Thread, NEW c \in Channel, Close(t, c)
          PROVE  RingInv'
      BY <2>4, CloseInv
    <2> QED BY <1>2, <2>1, <2>2, <2>3, <2>4, OthersInv DEF Next
  <1> QED BY <1>1, <1>2

\* The inductive invariant of the rings: their types, what the numbers of the
\* bytes say of the buffers, what the requests still ask for, and how far the
\* alternation of _read and _write has come.
THEOREM RingInvariance == Spec => []RingInv
  <1>1. Init => RingInv
    BY RingInit
  <1>2. RingInv /\ [Next]_vars => RingInv'
    BY RingNext
  <1> QED BY <1>1, <1>2, PTL DEF Spec

\* Whatever the size of the ring and the lengths of the requests, a ring of
\* servers/pipe holds exactly the bytes written to it and not taken from it,
\* in their order.
THEOREM BytesStayInOrder == Spec => []BytesInOrder
  <1>1. ASSUME RingInv PROVE BytesInOrder
    <2>1. TypeOK /\ RingType /\ Rings
      BY <1>1, Parts DEF RingInv
    <2>2. ASSUME NEW c \in Channel
          PROVE  /\ (took[c] + Used(c)) % ByteNo = wrote[c]
                 /\ \A i \in 0 .. Used(c) - 1 :
                      buf[c][(readpos[c] + i) % Size] = (took[c] + i) % ByteNo
      <3>1. /\ Used(c) = Mod(writepos[c] - readpos[c], Size) /\ Used(c) \in 0 .. Size - 1
            /\ Size \in Nat
        BY <2>1, UsedRange, PipeAssumption DEF Used, Mod
      <3>2. Holds(buf[c], readpos[c], writepos[c], took[c], wrote[c])
        BY <2>1 DEF Rings
      <3>3. Mod(took[c] + Used(c), ByteNo) = wrote[c]
        BY <3>1, <3>2 DEF Holds
      <3>4. ASSUME NEW i \in 0 .. Used(c) - 1
            PROVE  buf[c][Mod(readpos[c] + i, Size)] = Mod(took[c] + i, ByteNo)
        <4>1. i \in 0 .. Size - 1 /\ i < Used(c)
          BY <3>1
        <4> QED BY <3>1, <3>2, <4>1 DEF Holds
      <3> QED BY <3>3, <3>4 DEF Mod
    <2> QED BY <2>1, <2>2 DEF BytesInOrder
  <1> QED BY <1>1, RingInvariance, PTL

\* When the server turns to its next message nobody waits in vain: no reader at
\* a channel with bytes, no writer at one with room.
THEOREM NoTransferIdle == Spec => []NoIdleTransfer
  <1>1. ASSUME RingInv PROVE NoIdleTransfer
    BY <1>1 DEF RingInv, Loops, NoneIdle, NoIdleTransfer
  <1> QED BY <1>1, RingInvariance, PTL

-----------------------------------------------------------------------------
(***************************************************************************)
(* Who waits for an end that is closed.  The processes that wait for the    *)
(* pipe are those with a request in one of its four lists; they have one    *)
(* each, live, and keep their descriptors.  So when the last descriptor of  *)
(* a file is closed no request of its own is left, and those of its partner *)
(* are answered.                                                            *)
(***************************************************************************)
Kind == {"read", "write"}

List(c, k) == IF k = "read" THEN readers[c] ELSE writers[c]

\* The file through which the requests of the list came.
EndOf(c, k) == IF k = "read" THEN c ELSE Partner(c)

Waits ==
  /\ \A c \in Channel, k \in Kind :
       Single(List(c, k)) /\ Tids(List(c, k)) \subseteq waiting \cap holder[EndOf(c, k)]
  /\ \A c, d \in Channel, k, l \in Kind :
       c # d \/ k # l => Tids(List(c, k)) \cap Tids(List(d, l)) = {}
  /\ \A t \in waiting :
       life[t] = "live" /\ \E c \in Channel, k \in Kind : t \in Tids(List(c, k))

Ends ==
  /\ setup # "done" => \A c \in Channel : holder[c] = {}
  /\ setup = "done" => \A c \in Channel :
       IF holder[c] = {} THEN refer[c] = 0 /\ file[c] = "none" ELSE refer[c] = 1 /\ file[c] = "open"
  /\ setup \in {"attached", "walked1"} => \A c \in Channel : refer[c] = 0
  /\ setup \in {"opened1", "walked"} => refer[0] = 0 /\ refer[1] = 1 /\ file[1] = "open"

Closed ==
  \A c \in Channel :
    /\ readers[c] # <<>> /\ refer[Partner(c)] = 0
         => phase = "read" /\ channel = c /\ Len(readers[c]) = 1
    /\ writers[c] # <<>> => refer[c] > 0

EndInv == RingInv /\ Waits /\ Ends /\ Closed

\* The same processes wait in the same lists.
LEMMA WaitsKept ==
  ASSUME Waits, waiting' = waiting,
         \A c \in Channel, k \in Kind : Single(List(c, k)') /\ Tids(List(c, k)') = Tids(List(c, k)),
         \A t \in waiting : life'[t] = life[t] /\ \A c \in Channel : t \in holder[c] => t \in holder'[c]
  PROVE  Waits'
  <1>1. ASSUME NEW c \in Channel, NEW k \in Kind
        PROVE  Single(List(c, k)') /\ Tids(List(c, k)') \subseteq waiting' \cap holder'[EndOf(c, k)]
    <2>1. EndOf(c, k) \in Channel
      BY DEF EndOf, Partner, Channel
    <2>2. Tids(List(c, k)) \subseteq waiting \cap holder[EndOf(c, k)]
      BY DEF Waits
    <2> QED BY <2>1, <2>2, Zenon
  <1>2. ASSUME NEW c \in Channel, NEW d \in Channel, NEW k \in Kind, NEW l \in Kind, c # d \/ k # l
        PROVE  Tids(List(c, k)') \cap Tids(List(d, l)') = {}
    BY <1>2 DEF Waits
  <1>3. ASSUME NEW t \in waiting
        PROVE  life'[t] = "live" /\ \E c \in Channel, k \in Kind : t \in Tids(List(c, k)')
    BY DEF Waits
  <1> QED BY <1>1, <1>2, <1>3 DEF Waits

\* Who is in a list waits, and is in it once.
LEMMA Queued ==
  ASSUME Waits, NEW c \in Channel, NEW k \in Kind
  PROVE  Single(List(c, k)) /\ Tids(List(c, k)) \subseteq waiting
  BY DEF Waits

\* The request of h is answered and taken from its list.
LEMMA WaitsAnswered ==
  ASSUME Waits, NEW b \in Channel, NEW m \in Kind, NEW h \in Tids(List(b, m)),
         Single(List(b, m)'), Tids(List(b, m)') = Tids(List(b, m)) \ {h},
         \A c \in Channel, k \in Kind : c # b \/ k # m => List(c, k)' = List(c, k),
         waiting' = waiting \ {h}, holder' = holder,
         \A t \in waiting \ {h} : life'[t] = life[t]
  PROVE  Waits'
  <1>1. ASSUME NEW c \in Channel, NEW k \in Kind
        PROVE  Single(List(c, k)') /\ Tids(List(c, k)') = Tids(List(c, k)) \ {h}
    <2>1. CASE c # b \/ k # m
      <3>1. Tids(List(c, k)) \cap Tids(List(b, m)) = {} /\ Single(List(c, k))
        BY <2>1 DEF Waits
      <3> QED BY <2>1, <3>1, Zenon
    <2> QED BY <2>1, Zenon
  <1>2. ASSUME NEW c \in Channel, NEW k \in Kind
        PROVE  Tids(List(c, k)') \subseteq waiting' \cap holder'[EndOf(c, k)]
    <2>1. Tids(List(c, k)) \subseteq waiting \cap holder[EndOf(c, k)]
      BY DEF Waits
    <2> QED BY <1>1, <2>1, Zenon
  <1>3. ASSUME NEW c \in Channel, NEW d \in Channel, NEW k \in Kind, NEW l \in Kind, c # d \/ k # l
        PROVE  Tids(List(c, k)') \cap Tids(List(d, l)') = {}
    <2>1. Tids(List(c, k)) \cap Tids(List(d, l)) = {}
      BY <1>3, Zenon DEF Waits
    <2> QED BY <1>1, <2>1, Zenon
  <1>4. ASSUME NEW t \in waiting'
        PROVE  life'[t] = "live" /\ \E c \in Channel, k \in Kind : t \in Tids(List(c, k)')
    <2>1. t \in waiting /\ t # h
      OBVIOUS
    <2>2. life[t] = "live"
      BY <2>1, Zenon DEF Waits
    <2>3. PICK c \in Channel, k \in Kind : t \in Tids(List(c, k))
      BY <2>1 DEF Waits
    <2>4. t \in Tids(List(c, k)')
      BY <1>1, <2>1, <2>3
    <2> QED BY <2>1, <2>2, <2>4
  <1> QED BY <1>1, <1>2, <1>3, <1>4, Zenon DEF Waits

\* The thread t asks and waits.
LEMMA WaitsAdded ==
  ASSUME Waits, NEW b \in Channel, NEW m \in Kind, NEW t \in holder[EndOf(b, m)], t \notin waiting,
         Single(List(b, m)'), Tids(List(b, m)') = Tids(List(b, m)) \cup {t},
         \A c \in Channel, k \in Kind : c # b \/ k # m => List(c, k)' = List(c, k),
         waiting' = waiting \cup {t}, holder' = holder, life' = life, life[t] = "live"
  PROVE  Waits'
  <1>1. ASSUME NEW c \in Channel, NEW k \in Kind
        PROVE  /\ Single(List(c, k)') /\ Tids(List(c, k)) \subseteq waiting
               /\ Tids(List(c, k)') = IF c = b /\ k = m THEN Tids(List(c, k)) \cup {t} ELSE Tids(List(c, k))
    <2>1. Single(List(c, k)) /\ Tids(List(c, k)) \subseteq waiting
      BY Queued, Zenon
    <2>2. CASE c = b /\ k = m
      BY <2>1, <2>2, Zenon
    <2>3. CASE c # b \/ k # m
      <3>1. List(c, k)' = List(c, k)
        BY <2>3, Zenon
      <3>2. ~(c = b /\ k = m)
        BY <2>3, Zenon
      <3> QED BY <2>1, <3>1, <3>2, Zenon
    <2> QED BY <2>2, <2>3, Zenon
  <1>2. ASSUME NEW c \in Channel, NEW k \in Kind
        PROVE  Tids(List(c, k)') \subseteq waiting' \cap holder'[EndOf(c, k)]
    <2>1. Tids(List(c, k)) \subseteq waiting \cap holder[EndOf(c, k)]
      BY Zenon DEF Waits
    <2> QED BY <1>1, <2>1
  <1>3. ASSUME NEW c \in Channel, NEW d \in Channel, NEW k \in Kind, NEW l \in Kind, c # d \/ k # l
        PROVE  Tids(List(c, k)') \cap Tids(List(d, l)') = {}
    <2>1. Tids(List(c, k)) \cap Tids(List(d, l)) = {}
      BY <1>3 DEF Waits
    <2>2. t \notin Tids(List(c, k)) /\ t \notin Tids(List(d, l))
      BY <1>1
    <2> QED BY <1>1, <1>3, <2>1, <2>2
  <1>4. ASSUME NEW x \in waiting'
        PROVE  life'[x] = "live" /\ \E c \in Channel, k \in Kind : x \in Tids(List(c, k)')
    <2>1. CASE x = t
      <3>1. t \in Tids(List(b, m)')
        OBVIOUS
      <3> QED BY <2>1, <3>1
    <2>2. CASE x \in waiting
      <3>1. PICK c \in Channel, k \in Kind : x \in Tids(List(c, k))
        BY <2>2 DEF Waits
      <3>2. x \in Tids(List(c, k)')
        BY <1>1, <3>1
      <3>3. life[x] = "live"
        BY <2>2 DEF Waits
      <3> QED BY <3>2, <3>3
    <2> QED BY <2>1, <2>2, Zenon
  <1> QED BY <1>1, <1>2, <1>3, <1>4, Zenon DEF Waits

\* A step that changes the readers of one channel.
LEMMA ReadersPut ==
  ASSUME readers \in [Channel -> Seq(Request)], NEW c \in Channel, NEW r,
         readers' = [readers EXCEPT ![c] = r], writers' = writers
  PROVE  /\ List(c, "read")' = r
         /\ \A d \in Channel, k \in Kind : d # c \/ k # "read" => List(d, k)' = List(d, k)
  BY DEF List, Kind

\* A step that changes the writers of one channel.
LEMMA WritersPut ==
  ASSUME writers \in [Channel -> Seq(Request)], NEW c \in Channel, NEW r,
         writers' = [writers EXCEPT ![c] = r], readers' = readers
  PROVE  /\ List(c, "write")' = r
         /\ \A d \in Channel, k \in Kind : d # c \/ k # "write" => List(d, k)' = List(d, k)
  BY DEF List, Kind

\* What RingInv says of the four lists.
LEMMA ListsAsk ==
  ASSUME RingInv, NEW c \in Channel, NEW k \in Kind
  PROVE  Asking(List(c, k)) /\ List(c, k) \in Seq(Request) /\ EndOf(c, k) \in Channel
  BY DEF RingInv, Requests, List, Kind, Asking, EndOf, Partner, Channel

\* The request at the head of a list is answered.
LEMMA HeadAnswered ==
  ASSUME RingInv, Waits, NEW b \in Channel, NEW m \in Kind, List(b, m) # <<>>,
         List(b, m)' = ListDequeue(List(b, m)),
         \A c \in Channel, k \in Kind : c # b \/ k # m => List(c, k)' = List(c, k),
         waiting' = waiting \ {Head(List(b, m)).tid}, holder' = holder,
         \A t \in waiting \ {Head(List(b, m)).tid} : life'[t] = life[t]
  PROVE  Waits'
  <1> DEFINE q == List(b, m)
             h == Head(q).tid
  <1>1. Asking(q) /\ Single(q)
    BY ListsAsk DEF Waits
  <1> HIDE DEF q
  <1>2. /\ h \in Tids(q) /\ Single(ListDequeue(q)) /\ Tids(ListDequeue(q)) = Tids(q) \ {h}
    BY <1>1, RequestDone DEF q
  <1> HIDE DEF h
  <1>3. waiting' = waiting \ {h} /\ \A t \in waiting \ {h} : life'[t] = life[t]
    BY DEF h, q
  <1>4. h \in Tids(List(b, m)) /\ Single(List(b, m)') /\ Tids(List(b, m)') = Tids(List(b, m)) \ {h}
    BY <1>2 DEF q
  <1> QED BY <1>3, <1>4, WaitsAnswered

\* A file without references is held by nobody.
LEMMA NoHolder ==
  ASSUME Ends, NEW c \in Channel, refer[c] = 0
  PROVE  holder[c] = {}
  BY DEF Ends

\* A list whose file nobody holds is empty.
LEMMA NobodyAsks ==
  ASSUME RingInv, Waits, NEW c \in Channel, NEW k \in Kind, holder[EndOf(c, k)] \cap waiting = {}
  PROVE  List(c, k) = <<>>
  <1>1. Tids(List(c, k)) = {}
    BY DEF Waits
  <1> QED BY <1>1, ListsAsk, NoTids

\* A step of the loops adds no request, and answers a reader of a closed pipe.
LEMMA ClosedKept ==
  ASSUME Closed, refer' = refer,
         \A d \in Channel : readers'[d] # <<>> => readers[d] # <<>>,
         \A d \in Channel : writers'[d] # <<>> => writers[d] # <<>>,
         \A d \in Channel : phase = "read" /\ channel = d /\ readers'[d] # <<>> => refer[Partner(d)] # 0
  PROVE  Closed'
  <1> SUFFICES ASSUME NEW d \in Channel
               PROVE  /\ readers'[d] # <<>> => refer[Partner(d)] # 0
                      /\ writers'[d] # <<>> => refer[d] > 0
    BY DEF Closed
  <1> QED BY DEF Closed

\* The manager does nothing while the server is in a loop.
LEMMA EndsKept ==
  ASSUME Ends, file' = file, refer' = refer, setup' = setup, holder' = holder
  PROVE  Ends'
  BY DEF Ends

\* What a step keeps of the three parts together with the rings.
EndKept == Waits' /\ Ends' /\ Closed'

\* A copy fails and the reader, or the writer, gets a signal.
LEMMA FaultKept ==
  ASSUME EndInv, NEW c \in Channel, NEW n,
         \/ phase = "read" /\ channel = c /\ readers[c] # <<>> /\ ReadFault(c, n)
         \/ phase = "write" /\ channel = c /\ writers[c] # <<>> /\ WriteFault(c, n)
  PROVE  EndKept
  <1>1. RingInv /\ Waits /\ Ends /\ Closed /\ CtlType /\ Requests
    BY Parts DEF EndInv
  <1>2. CASE phase = "read" /\ channel = c /\ readers[c] # <<>> /\ ReadFault(c, n)
    <2> DEFINE q == readers[c]
               h == Head(q).tid
    <2>1. /\ readers' = [readers EXCEPT ![c] = ListDequeue(q)] /\ writers' = writers
          /\ waiting' = waiting \ {h} /\ life' = Signalled(h)
          /\ file' = file /\ refer' = refer /\ setup' = setup /\ holder' = holder
      BY <1>2 DEF ReadFault
    <2>2. /\ List(c, "read")' = ListDequeue(q)
          /\ \A d \in Channel, k \in Kind : d # c \/ k # "read" => List(d, k)' = List(d, k)
      BY <1>1, <2>1, ReadersPut, Zenon DEF Requests
    <2>3. q = List(c, "read") /\ "read" \in Kind
      BY DEF List, Kind
    <2>4. \A t \in waiting \ {h} : life'[t] = life[t]
      BY <1>1, <2>1 DEF CtlType, Signalled
    <2>5. Waits'
      BY <1>1, <1>2, <2>1, <2>2, <2>3, <2>4, HeadAnswered
    <2>6. Ends'
      BY <1>1, <2>1, EndsKept
    <2>7. refer[Partner(c)] = 0 => readers'[c] = <<>>
      <3>1. refer[Partner(c)] = 0 => Len(q) = 1
        BY <1>1, <1>2 DEF Closed
      <3>2. readers'[c] = ListDequeue(q) /\ Asking(q)
        BY <1>1, <2>1 DEF Requests
      <3> QED BY <1>2, <3>1, <3>2, RequestDone, Zenon
    <2>8. Closed'
      <3>1. \A d \in Channel : readers'[d] # <<>> => readers[d] # <<>>
        BY <1>1, <1>2, <2>1 DEF Requests
      <3> QED BY <1>1, <1>2, <2>1, <2>7, <3>1, ClosedKept, Zenon
    <2> QED BY <2>5, <2>6, <2>8 DEF EndKept
  <1>3. CASE phase = "write" /\ channel = c /\ writers[c] # <<>> /\ WriteFault(c, n)
    <2> DEFINE q == writers[c]
               h == Head(q).tid
    <2>1. /\ writers' = [writers EXCEPT ![c] = ListDequeue(q)] /\ readers' = readers
          /\ waiting' = waiting \ {h} /\ life' = Signalled(h)
          /\ file' = file /\ refer' = refer /\ setup' = setup /\ holder' = holder
      BY <1>3 DEF WriteFault
    <2>2. /\ List(c, "write")' = ListDequeue(q)
          /\ \A d \in Channel, k \in Kind : d # c \/ k # "write" => List(d, k)' = List(d, k)
      BY <1>1, <2>1, WritersPut, Zenon DEF Requests
    <2>3. q = List(c, "write") /\ "write" \in Kind
      BY DEF List, Kind
    <2>4. \A t \in waiting \ {h} : life'[t] = life[t]
      BY <1>1, <2>1, Zenon DEF CtlType, Signalled
    <2>5. Waits'
      BY <1>1, <1>3, <2>1, <2>2, <2>3, <2>4, HeadAnswered, Zenon
    <2>6. Ends'
      BY <1>1, <2>1, EndsKept, Zenon
    <2>7. Closed'
      <3>1. \A d \in Channel : writers'[d] # <<>> => writers[d] # <<>>
        BY <1>1, <1>3, <2>1 DEF Requests
      <3> QED BY <1>1, <1>3, <2>1, <3>1, ClosedKept, Zenon
    <2> QED BY <2>5, <2>6, <2>7 DEF EndKept
  <1> QED BY <1>2, <1>3

\* The request at the head of a list goes on: its thread waits on.
LEMMA HeadGoesOn ==
  ASSUME RingInv, Waits, NEW b \in Channel, NEW m \in Kind, List(b, m) # <<>>,
         NEW x \in Nat, x < Head(List(b, m)).count,
         List(b, m)' = [List(b, m) EXCEPT ![1].position = x],
         \A c \in Channel, k \in Kind : c # b \/ k # m => List(c, k)' = List(c, k),
         waiting' = waiting, holder' = holder, life' = life
  PROVE  Waits'
  <1> DEFINE q == List(b, m)
             r == [q EXCEPT ![1].position = x]
  <1>1. Asking(q) /\ Single(q) /\ q # <<>> /\ x < Head(q).count
    BY ListsAsk DEF Waits
  <1> HIDE DEF q
  <1>2. Single(r) /\ Tids(r) = Tids(q)
    BY <1>1, RequestGoesOn
  <1> HIDE DEF r
  <1>3. List(b, m)' = r
    BY DEF r, q
  <1>4. ASSUME NEW c \in Channel, NEW k \in Kind
        PROVE  Single(List(c, k)') /\ Tids(List(c, k)') = Tids(List(c, k))
    <2>1. Single(List(c, k))
      BY DEF Waits
    <2>2. CASE c = b /\ k = m
      BY <1>2, <1>3, <2>2 DEF q
    <2>3. CASE c # b \/ k # m
      BY <2>1, <2>3
    <2> QED BY <2>2, <2>3
  <1> QED BY <1>4, WaitsKept

\* _read
LEMMA ReadHeadKept ==
  ASSUME EndInv, NEW c \in Channel, ReadHead(c)
  PROVE  EndKept
  <1>1. RingInv /\ Waits /\ Ends /\ Closed /\ RingType /\ CtlType /\ Requests
    BY Parts DEF EndInv
  <1> DEFINE q == readers[c]
             req == Head(q)
             rest == req.count - req.position
             n == IF rest <= Used(c) THEN rest ELSE Used(c)
             answered == rest <= Used(c)
                           \/ (writers[c] = <<>> /\ (n > 0 \/ refer[Partner(c)] = 0))
             x == req.position + n
  <1>2. phase = "read" /\ channel = c /\ q # <<>>
    BY DEF ReadHead
  <1>3. CASE ReadFault(c, 0) \/ ReadFault(c, FirstGet(c))
    BY <1>2, <1>3, FaultKept
  <1>4. CASE /\ readers' = [readers EXCEPT ![c] =
                   IF answered THEN ListDequeue(q) ELSE [q EXCEPT ![1].position = x]]
             /\ waiting' = IF answered THEN waiting \ {req.tid} ELSE waiting
             /\ UNCHANGED <<file, refer, writers, channel, clientVars>>
    <2>1. /\ writers' = writers /\ file' = file /\ refer' = refer /\ setup' = setup
          /\ holder' = holder /\ life' = life
      BY <1>4 DEF clientVars
    <2>2. q = List(c, "read") /\ "read" \in Kind /\ Asking(q)
      BY <1>1 DEF List, Kind, Requests
    <2>3. Ends'
      BY <1>1, <2>1, EndsKept
    <2>4. refer[Partner(c)] = 0 => writers[c] = <<>> /\ Len(q) = 1
      <3> SUFFICES ASSUME refer[Partner(c)] = 0 PROVE writers[c] = <<>> /\ Len(q) = 1
        OBVIOUS
      <3>1. Partner(c) \in Channel /\ EndOf(c, "write") = Partner(c) /\ List(c, "write") = writers[c]
            /\ "write" \in Kind
        BY DEF Partner, Channel, EndOf, List, Kind
      <3>2. holder[Partner(c)] = {}
        BY <1>1, <3>1, NoHolder
      <3>3. writers[c] = <<>>
        BY <1>1, <3>1, <3>2, NobodyAsks
      <3> QED BY <1>1, <1>2, <3>3 DEF Closed
    <2>5. CASE answered
      <3>1. readers' = [readers EXCEPT ![c] = ListDequeue(q)] /\ waiting' = waiting \ {req.tid}
        BY <1>4, <2>5, Zenon
      <3> HIDE DEF answered
      <3>2. /\ List(c, "read")' = ListDequeue(q)
            /\ \A d \in Channel, k \in Kind : d # c \/ k # "read" => List(d, k)' = List(d, k)
        BY <1>1, <2>1, <3>1, ReadersPut, Zenon DEF Requests
      <3>3. Waits'
        BY <1>1, <1>2, <2>1, <2>2, <3>1, <3>2, HeadAnswered
      <3>4. refer[Partner(c)] = 0 => readers'[c] = <<>>
        <4>1. readers'[c] = ListDequeue(q)
          BY <1>1, <3>1 DEF Requests
        <4> QED BY <1>2, <2>2, <2>4, <4>1, RequestDone, Zenon
      <3>5. \A d \in Channel : readers'[d] # <<>> => readers[d] # <<>>
        BY <1>1, <1>2, <3>1 DEF Requests
      <3>6. Closed'
        BY <1>1, <1>2, <2>1, <3>4, <3>5, ClosedKept
      <3> QED BY <2>3, <3>3, <3>6 DEF EndKept
    <2>6. CASE ~answered
      <3>1. readers' = [readers EXCEPT ![c] = [q EXCEPT ![1].position = x]] /\ waiting' = waiting
        BY <1>4, <2>6
      <3>2. refer[Partner(c)] # 0
        BY <2>4, <2>6
      <3>3. req \in Request /\ req.position < req.count
        BY <1>2, <2>2, RequestDone
      <3>4. x \in Nat /\ x < req.count
        <4>1. Used(c) \in 0 .. Size - 1 /\ Size \in Nat
          BY <1>1, UsedRange
        <4>2. Used(c) \in Nat
          BY <4>1
        <4>3. req.position \in Nat /\ req.count \in Nat
          BY <3>3, PipeAssumption, Zenon DEF Request
        <4>4. ~(rest <= Used(c))
          BY <2>6
        <4> QED BY <4>2, <4>3, <4>4
      <3> HIDE DEF answered, x
      <3>5. /\ List(c, "read")' = [q EXCEPT ![1].position = x]
            /\ \A d \in Channel, k \in Kind : d # c \/ k # "read" => List(d, k)' = List(d, k)
        BY <1>1, <2>1, <3>1, ReadersPut, Zenon DEF Requests
      <3>6. Waits'
        BY <1>1, <1>2, <2>1, <2>2, <3>1, <3>4, <3>5, HeadGoesOn
      <3>7. \A d \in Channel : readers'[d] # <<>> => readers[d] # <<>>
        BY <1>1, <1>2, <3>1 DEF Requests
      <3>8. Closed'
        BY <1>1, <1>2, <2>1, <3>2, <3>7, ClosedKept
      <3> QED BY <2>3, <3>6, <3>8 DEF EndKept
    <2> QED BY <2>5, <2>6, Zenon
  <1> QED BY <1>3, <1>4 DEF ReadHead

\* _write
LEMMA WriteHeadKept ==
  ASSUME EndInv, NEW c \in Channel, WriteHead(c)
  PROVE  EndKept
  <1>1. RingInv /\ Waits /\ Ends /\ Closed /\ RingType /\ CtlType /\ Requests
    BY Parts DEF EndInv
  <1> DEFINE q == writers[c]
             req == Head(q)
             rest == req.count - req.position
             fits == rest <= Free(c)
             n == IF fits THEN rest ELSE Free(c)
             x == req.position + n
  <1>2. phase = "write" /\ channel = c /\ q # <<>>
    BY DEF WriteHead
  <1>3. CASE WriteFault(c, 0) \/ WriteFault(c, FirstPut(c))
    BY <1>2, <1>3, FaultKept
  <1>4. CASE /\ writers' = [writers EXCEPT ![c] =
                   IF fits THEN ListDequeue(q) ELSE [q EXCEPT ![1].position = x]]
             /\ waiting' = IF fits THEN waiting \ {req.tid} ELSE waiting
             /\ UNCHANGED <<file, refer, readers, channel, clientVars>>
    <2>1. /\ readers' = readers /\ file' = file /\ refer' = refer /\ setup' = setup
          /\ holder' = holder /\ life' = life
      BY <1>4 DEF clientVars
    <2>2. q = List(c, "write") /\ "write" \in Kind /\ Asking(q)
      BY <1>1 DEF List, Kind, Requests
    <2>3. Ends'
      BY <1>1, <2>1, EndsKept
    <2>4. Closed'
      <3>1. \A d \in Channel : writers'[d] # <<>> => writers[d] # <<>>
        BY <1>1, <1>2, <1>4 DEF Requests
      <3> QED BY <1>1, <1>2, <2>1, <3>1, ClosedKept
    <2>5. CASE fits
      <3>1. writers' = [writers EXCEPT ![c] = ListDequeue(q)] /\ waiting' = waiting \ {req.tid}
        BY <1>4, <2>5
      <3> HIDE DEF fits
      <3>2. /\ List(c, "write")' = ListDequeue(q)
            /\ \A d \in Channel, k \in Kind : d # c \/ k # "write" => List(d, k)' = List(d, k)
        BY <1>1, <2>1, <3>1, WritersPut, Zenon DEF Requests
      <3>3. Waits'
        BY <1>1, <1>2, <2>1, <2>2, <3>1, <3>2, HeadAnswered
      <3> QED BY <2>3, <2>4, <3>3 DEF EndKept
    <2>6. CASE ~fits
      <3>1. writers' = [writers EXCEPT ![c] = [q EXCEPT ![1].position = x]] /\ waiting' = waiting
        BY <1>4, <2>6
      <3>2. req \in Request /\ req.position < req.count
        BY <1>2, <2>2, RequestDone, Zenon
      <3>3. x \in Nat /\ x < req.count
        <4>1. /\ Used(c) \in 0 .. Size - 1 /\ Size \in Nat /\ Free(c) = Size - 1 - Used(c)
              /\ Size >= 2
          BY <1>1, UsedRange
        <4>2. Free(c) \in Nat
          BY <4>1
        <4>3. req.position \in Nat /\ req.count \in Nat
          BY <3>2, PipeAssumption, Zenon DEF Request
        <4> QED BY <2>6, <4>2, <4>3
      <3> HIDE DEF fits, x
      <3>4. /\ List(c, "write")' = [q EXCEPT ![1].position = x]
            /\ \A d \in Channel, k \in Kind : d # c \/ k # "write" => List(d, k)' = List(d, k)
        BY <1>1, <2>1, <3>1, WritersPut, Zenon DEF Requests
      <3>5. Waits'
        BY <1>1, <1>2, <2>1, <2>2, <3>1, <3>3, <3>4, HeadGoesOn
      <3> QED BY <2>3, <2>4, <3>5 DEF EndKept
    <2> QED BY <2>5, <2>6
  <1> QED BY <1>3, <1>4 DEF WriteHead

\* The end of a list in _read or _write
LEMMA LoopEndKept ==
  ASSUME EndInv, NEW c \in Channel, ReadEnd(c) \/ WriteEnd(c)
  PROVE  EndKept
  <1>1. RingInv /\ Waits /\ Ends /\ Closed
    BY DEF EndInv
  <1>2. /\ readers' = readers /\ writers' = writers /\ waiting' = waiting
        /\ file' = file /\ refer' = refer /\ setup' = setup /\ holder' = holder /\ life' = life
    BY DEF ReadEnd, WriteEnd, clientVars
  <1>3. \A d \in Channel, k \in Kind : List(d, k)' = List(d, k)
    BY <1>2 DEF List
  <1>4. Waits'
    <2>1. \A d \in Channel, k \in Kind : Single(List(d, k)') /\ Tids(List(d, k)') = Tids(List(d, k))
      BY <1>1, <1>3, Queued, Zenon
    <2> QED BY <1>1, <1>2, <2>1, WaitsKept, Zenon
  <1>5. Closed'
    BY <1>1, <1>2, ClosedKept, Zenon DEF ReadEnd, WriteEnd
  <1> QED BY <1>1, <1>2, <1>4, <1>5, EndsKept DEF EndKept

\* if_read
LEMMA IfReadKept ==
  ASSUME EndInv, NEW t \in Thread, NEW c \in Channel, NEW n \in Count, IfRead(t, c, n)
  PROVE  EndKept
  <1>1. RingInv /\ Waits /\ Ends /\ Closed /\ CtlType /\ Requests
    BY Parts DEF EndInv
  <1> DEFINE q == readers[c]
             r == ListEnqueue(q, NewRequest(t, n))
  <1>2. /\ phase = "accept" /\ t \in holder[c] /\ t \notin waiting /\ life[t] = "live"
        /\ waiting' = waiting \cup {t} /\ readers' = [readers EXCEPT ![c] = r]
        /\ phase' = "read" /\ channel' = c /\ writers' = writers
        /\ file' = file /\ refer' = refer /\ setup' = setup /\ holder' = holder /\ life' = life
    BY DEF IfRead, Asks, clientVars
  <1>3. q = List(c, "read") /\ "read" \in Kind /\ EndOf(c, "read") = c
    BY DEF List, Kind, EndOf
  <1>4. Asking(q) /\ Single(q) /\ t \notin Tids(q)
    <2>1. Asking(q)
      BY <1>1, Zenon DEF Requests
    <2>2. Single(q) /\ Tids(q) \subseteq waiting
      BY <1>1, <1>3, Queued, Zenon
    <2> QED BY <1>2, <2>1, <2>2, Zenon
  <1>5. Single(r) /\ Tids(r) = Tids(q) \cup {t} /\ (q = <<>> => Len(r) = 1)
    BY <1>4, RequestAdded, Zenon
  <1> HIDE DEF r
  <1>6. /\ List(c, "read")' = r
        /\ \A d \in Channel, k \in Kind : d # c \/ k # "read" => List(d, k)' = List(d, k)
    BY <1>1, <1>2, ReadersPut, Zenon DEF Requests
  <1>7. Waits'
    BY <1>1, <1>2, <1>3, <1>5, <1>6, WaitsAdded, Zenon
  <1>8. readers'[c] = r /\ \A d \in Channel \ {c} : readers'[d] = readers[d]
    BY <1>1, <1>2, Zenon DEF Requests
  <1>9. Closed'
    BY <1>1, <1>2, <1>5, <1>8, Zenon DEF Closed
  <1> QED BY <1>1, <1>2, <1>7, <1>9, EndsKept, Zenon DEF EndKept

\* if_write
LEMMA IfWriteKept ==
  ASSUME EndInv, NEW t \in Thread, NEW c \in Channel, NEW n \in Count, IfWrite(t, c, n)
  PROVE  EndKept
  <1>1. RingInv /\ Waits /\ Ends /\ Closed /\ CtlType /\ Requests
    BY Parts DEF EndInv
  <1> DEFINE p == Partner(c)
             q == writers[p]
             r == ListEnqueue(q, NewRequest(t, n))
  <1>2. p \in Channel /\ Partner(p) = c
    BY DEF Partner, Channel
  <1>3. /\ phase = "accept" /\ t \in holder[c] /\ t \notin waiting /\ life[t] = "live"
        /\ readers' = readers /\ file' = file /\ refer' = refer /\ setup' = setup /\ holder' = holder
    BY Zenon DEF IfWrite, Asks
  <1>4. Ends'
    BY <1>1, <1>3, EndsKept
  <1>5. CASE refer[p] = 0
    <2>1. /\ life' = [life EXCEPT ![t] = "dying"] /\ writers' = writers /\ waiting' = waiting
          /\ phase' = phase /\ channel' = channel
      BY <1>5 DEF IfWrite, loopVars
    <2>2. \A x \in waiting : life'[x] = life[x]
      BY <1>1, <1>3, <2>1 DEF CtlType
    <2>3. \A d \in Channel, k \in Kind : Single(List(d, k)') /\ Tids(List(d, k)') = Tids(List(d, k))
      BY <1>1, <1>3, <2>1 DEF List, Waits
    <2>4. Waits'
      BY <1>1, <1>3, <2>1, <2>2, <2>3, WaitsKept, Zenon
    <2>5. Closed'
      BY <1>1, <1>3, <2>1, Zenon DEF Closed
    <2> QED BY <1>4, <2>4, <2>5 DEF EndKept
  <1>6. CASE refer[p] # 0
    <2>1. /\ waiting' = waiting \cup {t} /\ writers' = [writers EXCEPT ![p] = r] /\ life' = life
      BY <1>6 DEF IfWrite
    <2>2. q = List(p, "write") /\ "write" \in Kind /\ EndOf(p, "write") = c
      BY <1>2 DEF List, Kind, EndOf
    <2>3. Asking(q) /\ Single(q) /\ t \notin Tids(q)
      <3>1. Asking(q)
        BY <1>1, <1>2, Zenon DEF Requests
      <3>2. Single(q) /\ Tids(q) \subseteq waiting
        BY <1>1, <1>2, <2>2, Queued, Zenon
      <3> QED BY <1>3, <3>1, <3>2, Zenon
    <2>4. Single(r) /\ Tids(r) = Tids(q) \cup {t}
      BY <2>3, RequestAdded, Zenon
    <2>5. refer[p] > 0
      BY <1>1, <1>2, <1>6 DEF CtlType
    <2> HIDE DEF r, p
    <2>6. /\ List(p, "write")' = r
          /\ \A d \in Channel, k \in Kind : d # p \/ k # "write" => List(d, k)' = List(d, k)
      BY <1>1, <1>2, <1>3, <2>1, WritersPut, Zenon DEF Requests
    <2>7. Waits'
      BY <1>1, <1>2, <1>3, <2>1, <2>2, <2>4, <2>6, WaitsAdded, Zenon
    <2>8. \A d \in Channel \ {p} : writers'[d] = writers[d]
      BY <1>1, <1>2, <2>1 DEF Requests
    <2>9. Closed'
      <3> SUFFICES ASSUME NEW d \in Channel
                   PROVE  /\ readers[d] # <<>> => refer[Partner(d)] # 0
                          /\ writers'[d] # <<>> => refer[d] > 0
        BY <1>3, Zenon DEF Closed
      <3> QED BY <1>1, <1>3, <2>5, <2>8, Zenon DEF Closed
    <2> QED BY <1>4, <2>7, <2>9 DEF EndKept
  <1> QED BY <1>5, <1>6

\* Nobody waits when nobody holds a file.
LEMMA NobodyWaits ==
  ASSUME RingInv, Waits, \A c \in Channel, k \in Kind : holder[EndOf(c, k)] \cap waiting = {}
  PROVE  waiting = {} /\ \A c \in Channel : readers[c] = <<>> /\ writers[c] = <<>>
  <1>1. \A c \in Channel, k \in Kind : List(c, k) = <<>>
    BY NobodyAsks, Zenon
  <1>2. \A c \in Channel : List(c, "read") = readers[c] /\ List(c, "write") = writers[c]
    BY DEF List
  <1>3. "read" \in Kind /\ "write" \in Kind
    BY DEF Kind
  <1>4. \A c \in Channel, k \in Kind : Tids(List(c, k)) = {}
    BY <1>1, NoRequests
  <1>5. waiting = {}
    BY <1>4, Zenon DEF Waits
  <1> QED BY <1>1, <1>2, <1>3, <1>5, Zenon

\* Afterwards nobody waits.
LEMMA NoneWait ==
  ASSUME waiting' = {}, \A c \in Channel : readers'[c] = <<>> /\ writers'[c] = <<>>
  PROVE  Waits' /\ Closed'
  <1>1. \A c \in Channel, k \in Kind : List(c, k)' = <<>>
    BY DEF List
  <1>2. \A c \in Channel, k \in Kind : Single(List(c, k)') /\ Tids(List(c, k)') = {}
    BY <1>1, NoRequests
  <1>3. Waits'
    BY <1>2, Zenon DEF Waits
  <1>4. Closed'
    BY DEF Closed
  <1> QED BY <1>3, <1>4

\* mm_close, _close_all and if_clunk
LEMMA CloseKept ==
  ASSUME EndInv, NEW t \in Thread, NEW c \in Channel, Close(t, c)
  PROVE  EndKept
  <1>1. RingInv /\ Waits /\ Ends /\ Closed /\ CtlType /\ Requests
    BY Parts DEF EndInv
  <1>2. /\ setup = "done" /\ t \in holder[c] /\ t \notin waiting
        /\ holder' = [holder EXCEPT ![c] = @ \ {t}]
    BY <1>1 DEF Close, Waits
  <1>3. holder'[c] = holder[c] \ {t} /\ \A d \in Channel \ {c} : holder'[d] = holder[d]
    BY <1>1, <1>2 DEF CtlType
  <1>4. CASE holder[c] # {t}
    <2>1. /\ readers' = readers /\ writers' = writers /\ waiting' = waiting /\ life' = life
          /\ file' = file /\ refer' = refer /\ setup' = setup /\ phase' = phase /\ channel' = channel
      BY <1>4 DEF Close, loopVars
    <2>2. \A d \in Channel, k \in Kind : Single(List(d, k)') /\ Tids(List(d, k)') = Tids(List(d, k))
      BY <1>1, <2>1, Zenon DEF List, Waits
    <2>3. \A x \in waiting, d \in Channel : x \in holder[d] => x \in holder'[d]
      BY <1>2, <1>3
    <2>4. Waits'
      BY <1>1, <2>1, <2>2, <2>3, WaitsKept, Zenon
    <2>5. Ends'
      <3>1. \A d \in Channel : holder'[d] = {} <=> holder[d] = {}
        BY <1>2, <1>3, <1>4
      <3> QED BY <1>1, <1>2, <2>1, <3>1 DEF Ends
    <2>6. Closed'
      BY <1>1, <2>1, Zenon DEF Closed
    <2> QED BY <2>4, <2>5, <2>6 DEF EndKept
  <1>5. CASE holder[c] = {t}
    <2> DEFINE last == \A d \in Channel \ {c} : file[d] = "none"
               p == Partner(c)
    <2>1. /\ file' = [file EXCEPT ![c] = "none"]
          /\ refer' = [refer EXCEPT ![c] = IF @ > 0 THEN @ - 1 ELSE @]
          /\ setup' = IF last THEN "no" ELSE setup
          /\ refer[c] = 1 => ReleaseRequests(c, last)
      BY <1>5, Zenon DEF Close, IfClunk
    <2>2. refer[c] = 1
      BY <1>1, <1>2, <1>5 DEF Ends
    <2>3. /\ readers' = [d \in Channel |-> IF last \/ d = p THEN <<>> ELSE readers[d]]
          /\ writers' = [d \in Channel |-> IF last \/ d = c THEN <<>> ELSE writers[d]]
          /\ waiting' = waiting \ (Tids(readers[p]) \cup Tids(writers[c]))
      BY <2>1, <2>2 DEF ReleaseRequests
    <2>4. p \in Channel /\ Partner(p) = c /\ p # c /\ \A d \in Channel : d = c \/ d = p
      BY DEF Partner, Channel
    <2> HIDE DEF p, last
    <2>5. /\ List(c, "read") = readers[c] /\ List(p, "write") = writers[p]
          /\ List(p, "read") = readers[p] /\ List(c, "write") = writers[c]
          /\ EndOf(c, "read") = c /\ EndOf(p, "write") = c
          /\ "read" \in Kind /\ "write" \in Kind /\ \A k \in Kind : k = "read" \/ k = "write"
      BY <2>4, Zenon DEF List, EndOf, Kind
    <2>6. readers[c] = <<>> /\ writers[p] = <<>>
      <3>1. holder[c] \cap waiting = {}
        BY <1>2, <1>5
      <3> QED BY <1>1, <2>4, <2>5, <3>1, NobodyAsks
    <2>7. waiting' = {}
      <3> SUFFICES ASSUME NEW x \in waiting PROVE x \in Tids(readers[p]) \/ x \in Tids(writers[c])
        BY <2>3
      <3>1. PICK d \in Channel, k \in Kind : x \in Tids(List(d, k))
        BY <1>1, Zenon DEF Waits
      <3>2. x \notin Tids(readers[c]) /\ x \notin Tids(writers[p])
        BY <2>6, NoRequests
      <3> QED BY <2>4, <2>5, <3>1, <3>2
    <2>8. \A d \in Channel : readers'[d] = <<>> /\ writers'[d] = <<>>
      BY <2>3, <2>4, <2>6
    <2>9. Waits' /\ Closed'
      BY <2>7, <2>8, NoneWait
    <2>10. Ends'
      <3>1. /\ holder'[c] = {} /\ refer'[c] = 0 /\ file'[c] = "none"
            /\ \A d \in Channel \ {c} : refer'[d] = refer[d] /\ file'[d] = file[d]
        <4>1. refer \in [Channel -> Nat] /\ file \in [Channel -> {"none", "root", "walked", "open"}]
          BY <1>1, Zenon DEF CtlType
        <4>2. refer'[c] = 0 /\ file'[c] = "none"
          BY <2>1, <2>2, <4>1
        <4>3. \A d \in Channel \ {c} : refer'[d] = refer[d] /\ file'[d] = file[d]
          BY <2>1, <4>1, Zenon
        <4>4. holder'[c] = {}
          BY <1>3, <1>5, Zenon
        <4> QED BY <4>2, <4>3, <4>4, Zenon
      <3>2. CASE last
        <4>1. setup' = "no"
          BY <2>1, <3>2
        <4>2. \A d \in Channel \ {c} : holder[d] = {}
          BY <1>1, <1>2, <3>2 DEF Ends, last
        <4>3. \A d \in Channel : holder'[d] = {}
          BY <1>3, <3>1, <4>2, Zenon
        <4> QED BY <4>1, <4>3, Zenon DEF Ends
      <3>3. CASE ~last
        <4>1. setup' = "done"
          BY <1>2, <2>1, <3>3
        <4>2. ASSUME NEW d \in Channel
              PROVE  IF holder'[d] = {} THEN refer'[d] = 0 /\ file'[d] = "none"
                                        ELSE refer'[d] = 1 /\ file'[d] = "open"
          <5>1. CASE d = c
            BY <3>1, <5>1
          <5>2. CASE d # c
            BY <1>1, <1>2, <1>3, <3>1, <5>2 DEF Ends
          <5> QED BY <5>1, <5>2
        <4> QED BY <4>1, <4>2, Zenon DEF Ends
      <3> QED BY <3>2, <3>3
    <2> QED BY <2>9, <2>10 DEF EndKept
  <1> QED BY <1>4, <1>5

\* mm_pipe: until it is done nobody has a descriptor.
LEMMA SetupKept ==
  ASSUME EndInv, Attach \/ WalkFails \/ (\E c \in Channel : Walk(c) \/ Open(c))
  PROVE  EndKept
  <1>1. RingInv /\ Waits /\ Ends /\ Closed /\ CtlType /\ Requests
    BY Parts DEF EndInv
  <1>2. setup # "done" /\ waiting' = waiting
    BY DEF Attach, WalkFails, Walk, Open
  <1>3. \A c \in Channel : holder[c] = {}
    BY <1>1, <1>2 DEF Ends
  <1>4. waiting = {} /\ \A c \in Channel : readers[c] = <<>> /\ writers[c] = <<>>
    BY <1>1, <1>3, NobodyWaits, ListsAsk
  <1>5. \A c \in Channel : readers'[c] = <<>> /\ writers'[c] = <<>>
    BY <1>4 DEF Attach, WalkFails, Walk, Open
  <1>6. Waits' /\ Closed'
    BY <1>2, <1>4, <1>5, NoneWait
  <1>7. CASE Attach
    <2>1. setup' = "attached" /\ holder' = holder /\ refer' = [c \in Channel |-> 0]
      BY <1>7 DEF Attach
    <2> QED BY <1>3, <1>6, <2>1 DEF Ends, EndKept
  <1>8. CASE WalkFails
    BY <1>3, <1>6, <1>8 DEF WalkFails, Ends, EndKept
  <1>9. ASSUME NEW c \in Channel, Walk(c) PROVE EndKept
    <2>1. /\ file' = [file EXCEPT ![c] = "walked"] /\ refer' = refer /\ holder' = holder
          /\ \/ c = 1 /\ setup = "attached" /\ setup' = "walked1"
             \/ c = 0 /\ setup = "opened1" /\ setup' = "walked"
      BY <1>9 DEF Walk
    <2>2. c = 0 => file'[1] = file[1]
      BY <1>1, <2>1 DEF CtlType, Channel
    <2>3. Ends'
      BY <1>1, <1>3, <2>1, <2>2 DEF Ends
    <2> QED BY <1>6, <2>3 DEF EndKept
  <1>10. ASSUME NEW c \in Channel, Open(c) PROVE EndKept
    <2>1. /\ file' = [file EXCEPT ![c] = "open"] /\ refer' = [refer EXCEPT ![c] = @ + 1]
          /\ \/ c = 1 /\ setup = "walked1" /\ setup' = "opened1" /\ holder' = holder
             \/ c = 0 /\ setup = "walked" /\ setup' = "done" /\ holder' = [d \in Channel |-> {First}]
      BY <1>10 DEF Open
    <2>2. /\ file'[c] = "open" /\ refer'[c] = refer[c] + 1
          /\ \A d \in Channel \ {c} : file'[d] = file[d] /\ refer'[d] = refer[d]
      BY <1>1, <2>1 DEF CtlType
    <2>3. CASE c = 1
      <3>1. refer[0] = 0 /\ refer[1] = 0
        BY <1>1, <2>1, <2>3 DEF Ends, Channel
      <3>2. refer'[0] = 0 /\ refer'[1] = 1 /\ file'[1] = "open"
        BY <2>2, <2>3, <3>1 DEF Channel
      <3>3. Ends'
        BY <1>3, <2>1, <2>3, <3>2 DEF Ends
      <3> QED BY <1>6, <3>3 DEF EndKept
    <2>4. CASE c = 0
      <3>1. refer[0] = 0 /\ refer[1] = 1 /\ file[1] = "open"
        BY <1>1, <2>1, <2>4 DEF Ends
      <3>2. \A d \in Channel : refer'[d] = 1 /\ file'[d] = "open"
        BY <2>2, <2>4, <3>1 DEF Channel
      <3>3. setup' = "done" /\ \A d \in Channel : holder'[d] = {First}
        BY <2>1, <2>4
      <3>4. Ends'
        BY <3>2, <3>3 DEF Ends
      <3> QED BY <1>6, <3>4 DEF EndKept
    <2> QED BY <2>3, <2>4 DEF Channel
  <1> QED BY <1>7, <1>8, <1>9, <1>10

\* process_destroy, mm_rfork, and mm_kill of a process that does not wait
LEMMA LifeKept ==
  ASSUME EndInv, ~KillWaiting,
         \/ \E t \in Thread : Destroy(t) \/ Kill(t)
         \/ \E t, u \in Thread : Fork(t, u)
  PROVE  EndKept
  <1>1. RingInv /\ Waits /\ Ends /\ Closed /\ CtlType /\ Requests
    BY Parts DEF EndInv
  <1>2. /\ readers' = readers /\ writers' = writers /\ waiting' = waiting
        /\ file' = file /\ refer' = refer /\ setup' = setup /\ phase' = phase /\ channel' = channel
    BY DEF Destroy, Kill, Fork, loopVars
  <1>3. \A d \in Channel, k \in Kind : Single(List(d, k)') /\ Tids(List(d, k)') = Tids(List(d, k))
    BY <1>1, <1>2 DEF List, Waits
  <1>4. Closed'
    BY <1>1, <1>2, Zenon DEF Closed
  <1>5. \A x \in waiting : life[x] = "live"
    BY <1>1, Zenon DEF Waits
  <1>6. ASSUME NEW t \in Thread, Destroy(t) \/ Kill(t) PROVE EndKept
    <2>1. holder' = holder /\ t \notin waiting
      BY <1>5, <1>6, Zenon DEF Destroy, Kill
    <2>2. life' = [life EXCEPT ![t] = "dead"] \/ life' = [life EXCEPT ![t] = "dying"]
      BY <1>6, Zenon DEF Destroy, Kill
    <2>3. \A x \in waiting : life'[x] = life[x]
      BY <1>1, <2>1, <2>2 DEF CtlType
    <2>4. Waits'
      BY <1>1, <1>2, <1>3, <2>1, <2>3, WaitsKept, Zenon
    <2> QED BY <1>1, <1>2, <1>4, <2>1, <2>4, EndsKept DEF EndKept
  <1>7. ASSUME NEW t \in Thread, NEW u \in Thread, Fork(t, u) PROVE EndKept
    <2>1. /\ setup = "done" /\ life[u] = "unborn" /\ life' = [life EXCEPT ![u] = "live"]
          /\ holder' = [c \in Channel |-> IF t \in holder[c] THEN holder[c] \cup {u} ELSE holder[c]]
      BY <1>7 DEF Fork
    <2>2. \A x \in waiting : life'[x] = life[x]
      BY <1>1, <1>5, <2>1 DEF CtlType
    <2>3. \A c \in Channel : holder[c] \subseteq holder'[c] /\ (holder'[c] = {} <=> holder[c] = {})
      BY <2>1, Zenon
    <2>4. Waits'
      BY <1>1, <1>2, <1>3, <2>2, <2>3, WaitsKept, Zenon
    <2>5. Ends'
      BY <1>1, <1>2, <2>1, <2>3, Zenon DEF Ends
    <2> QED BY <1>4, <2>4, <2>5 DEF EndKept
  <1> QED BY <1>6, <1>7

\* At first there is no pipe and nobody waits.
LEMMA EndInit ==
  ASSUME Init
  PROVE  EndInv
  <1>1. RingInv
    BY RingInit
  <1>2. \A c \in Channel, k \in Kind : List(c, k) = <<>>
    BY DEF Init, List
  <1>3. \A c \in Channel, k \in Kind : Single(List(c, k)) /\ Tids(List(c, k)) = {}
    BY <1>2, NoRequests
  <1>4. Waits
    BY <1>3 DEF Waits, Init
  <1>5. Ends /\ Closed
    BY DEF Init, Ends, Closed
  <1> QED BY <1>1, <1>4, <1>5 DEF EndInv

\* Every step keeps it when no process that waits is killed by postnote().
LEMMA EndNext ==
  ASSUME EndInv, [Next]_vars, ~KillWaiting
  PROVE  EndInv'
  <1>1. RingInv'
    BY RingNext DEF EndInv
  <1>2. CASE UNCHANGED vars
    <2>1. /\ readers' = readers /\ writers' = writers /\ waiting' = waiting /\ phase' = phase
          /\ channel' = channel /\ file' = file /\ refer' = refer /\ setup' = setup
          /\ holder' = holder /\ life' = life
      BY <1>2 DEF vars, loopVars, clientVars
    <2>2. \A d \in Channel, k \in Kind : Single(List(d, k)') /\ Tids(List(d, k)') = Tids(List(d, k))
      BY <2>1, Zenon DEF List, Waits, EndInv
    <2>3. Waits'
      BY <2>1, <2>2, WaitsKept, Zenon DEF EndInv
    <2>4. Closed'
      BY <2>1 DEF EndInv, Closed
    <2> QED BY <1>1, <2>1, <2>3, <2>4, EndsKept DEF EndInv
  <1>3. CASE Next
    <2>1. CASE Serve
      <3>1. PICK c \in Channel : ReadHead(c) \/ ReadEnd(c) \/ WriteHead(c) \/ WriteEnd(c)
        BY <2>1 DEF Serve
      <3> QED BY <1>1, <3>1, ReadHeadKept, WriteHeadKept, LoopEndKept DEF EndKept, EndInv
    <2>2. ASSUME NEW t \in Thread, NEW c \in Channel, NEW n \in Count, IfRead(t, c, n) \/ IfWrite(t, c, n)
          PROVE  EndInv'
      BY <1>1, <2>2, IfReadKept, IfWriteKept DEF EndKept, EndInv
    <2>3. ASSUME NEW t \in Thread, NEW c \in Channel, Close(t, c)
          PROVE  EndInv'
      BY <1>1, <2>3, CloseKept DEF EndKept, EndInv
    <2>4. CASE Attach \/ WalkFails \/ (\E c \in Channel : Walk(c) \/ Open(c))
      BY <1>1, <2>4, SetupKept DEF EndKept, EndInv
    <2>5. CASE \/ \E t \in Thread : Destroy(t) \/ Kill(t)
               \/ \E t, u \in Thread : Fork(t, u)
      BY <1>1, <2>5, LifeKept DEF EndKept, EndInv
    <2> QED BY <1>3, <2>1, <2>2, <2>3, <2>4, <2>5 DEF Next
  <1> QED BY <1>2, <1>3

\* As long as postnote() spares the processes that wait for the pipe, nobody who
\* lives waits for an end that is closed (_release_requests, the end of _read,
\* SIGPIPE in if_write), however many processes share the pipe and however they
\* close it, fork and die.
THEOREM NoWaitForClosedEnd ==
  ASSUME ~KillWaiting
  PROVE  Spec => []NobodyWaitsForClosedEnd
  <1>1. Init => EndInv
    BY EndInit
  <1>2. EndInv /\ [Next]_vars => EndInv'
    BY EndNext
  <1>3. ASSUME EndInv PROVE NobodyWaitsForClosedEnd
    <2>1. RingInv /\ Waits /\ Closed /\ CtlType
      BY <1>3, Parts DEF EndInv
    <2> SUFFICES ASSUME phase = "accept", NEW t \in waiting
                 PROVE  \E c \in Channel : \/ t \in Tids(readers[c]) /\ refer[Partner(c)] > 0
                                           \/ t \in Tids(writers[c]) /\ refer[c] > 0
      BY DEF NobodyWaitsForClosedEnd
    <2>2. PICK c \in Channel, k \in Kind : t \in Tids(List(c, k))
      BY <2>1 DEF Waits
    <2>3. List(c, k) # <<>>
      BY <2>2, NoRequests
    <2>4. CASE k = "read"
      <3>1. List(c, k) = readers[c] /\ Partner(c) \in Channel
        BY <2>4 DEF List, Partner, Channel
      <3>2. refer[Partner(c)] # 0
        BY <2>1, <2>3, <3>1 DEF Closed
      <3>3. refer[Partner(c)] > 0
        BY <2>1, <3>1, <3>2 DEF CtlType
      <3> QED BY <2>2, <3>1, <3>3
    <2>5. CASE k = "write"
      <3>1. List(c, k) = writers[c]
        BY <2>5 DEF List
      <3> QED BY <2>1, <2>2, <2>3, <3>1 DEF Closed
    <2> QED BY <2>4, <2>5 DEF Kind
  <1> QED BY <1>1, <1>2, <1>3, PTL DEF Spec
=============================================================================
