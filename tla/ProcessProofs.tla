--------------------------- MODULE ProcessProofs ---------------------------
(***************************************************************************)
(* The invariants of Process, proved for any sets of process and thread     *)
(* ids, as long as postnote() spares a process that is busy (with it the    *)
(* table can be damaged: ProcessKilled.cfg).                                *)
(***************************************************************************)
EXTENDS ProcessTableProofs

-----------------------------------------------------------------------------
(***************************************************************************)
(* process_duplicate and the ways it fails                                  *)
(***************************************************************************)

\* D is the table T with c being made, dead already, in group g.
Half(T, D, c, g) ==
  /\ D \in [Pid -> Frame]
  /\ D[c].status = "dead" /\ D[c].ppid = 0 /\ D[c].pgid = g /\ D[c].children = <<>>
  /\ D[c].members = {} /\ ~D[c].tag /\ D[c].thread = NoThread
  /\ \A q \in Pid \ {c} :
       /\ D[q].status = T[q].status /\ D[q].ppid = T[q].ppid /\ D[q].pgid = T[q].pgid
       /\ D[q].thread = T[q].thread /\ (D[q].tag <=> T[q].tag)
       /\ ListRemove(D[q].children, c) = T[q].children
       /\ D[q].members \ {c} = T[q].members
       /\ D[q].members = T[q].members \/ (q = g /\ T[q].status # "none")

\* process_destroy of a process without children gives nothing to init.
LEMMA NothingLeft ==
  ASSUME NEW D \in [Pid -> Frame], NEW c \in Pid \ {Init1}, D[c].children = <<>>,
         D[Init1].status = "active"
  PROVE  Bequeathed(D, c) = D
  <1> DEFINE U == Adopted(D, c)
  <1>1. Reversed(<<>>) = <<>> /\ Elems(<<>>) = {}
    <2> DEFINE e == <<>>
    <2>1. e \in Seq(Pid) /\ Len(e) = 0 /\ NoDup(e) /\ Elems(e) = {}
      BY EmptyList
    <2> HIDE DEF e
    <2>2. Reversed(e) \in Seq(Pid) /\ Len(Reversed(e)) = 0
      BY <2>1, ReversedList, Zenon
    <2>3. Reversed(e) = <<>>
      BY <2>2
    <2> QED BY <2>1, <2>3 DEF e
  <1>2. \A q \in Pid : D[q] \in Frame
    OBVIOUS
  <1>3. U = [q \in Pid |-> IF q = c THEN [D[q] EXCEPT !.children = <<>>]
                           ELSE IF q = Init1 THEN [D[q] EXCEPT !.children = <<>> \o D[q].children]
                           ELSE D[q]]
    BY <1>1, Zenon DEF Adopted
  <1>4. ASSUME NEW q \in Pid PROVE U[q] = D[q]
    <2> HIDE DEF U
    <2>1. CASE q = c
      <3>1. U[q] = [D[q] EXCEPT !.children = D[q].children]
        BY <1>3, <2>1
      <3> QED BY <1>2, <3>1 DEF Frame
    <2>2. CASE q = Init1
      <3>1. <<>> \o D[q].children = D[q].children
        <4>1. D[q].children \in Seq(Pid)
          BY <1>2 DEF Frame
        <4> QED BY <4>1
      <3>2. U[q] = [D[q] EXCEPT !.children = D[q].children]
        BY <1>3, <2>2, <3>1
      <3> QED BY <1>2, <3>2 DEF Frame
    <2>3. CASE q # c /\ q # Init1
      BY <1>3, <2>3
    <2> QED BY <2>1, <2>2, <2>3
  <1>5. U = D
    <2> HIDE DEF U
    <2> QED BY <1>3, <1>4
  <1>6. DeadChildren(D, c) = {}
    BY DEF DeadChildren
  <1> QED BY <1>5, <1>6 DEF Bequeathed, Exists

\* process_destroy takes back what process_duplicate had linked.
LEMMA Unmade ==
  ASSUME NEW T, Table(T), NEW c \in Pid, T[c].status = "none", T[Init1].status = "active",
         NEW g \in Pid \cup {0}, NEW D, Half(T, D, c, g)
  PROVE  Told(Bequeathed(D, c), c) = T
  <1> DEFINE R == DestroyFrame(D, c)
             U == [Unbrothered(D, c) EXCEPT ![c].tag = FALSE]
             V == [U EXCEPT ![g].members = @ \ {c}]
  <1>1. /\ T \in [Pid -> Frame] /\ D \in [Pid -> Frame] /\ DOMAIN D = Pid /\ Init1 \in Pid \ {c}
        /\ T[c] = NoFrame
    BY ProcessAssumption DEF Table, Frames, Half
  <1>2. Bequeathed(D, c) = D
    <2>1. D[Init1].status = "active" /\ D[c].children = <<>>
      BY <1>1 DEF Half
    <2> QED BY <1>1, <2>1, NothingLeft
  <1>3. Told(D, c) = R
    <2>1. D[c].ppid = 0
      BY DEF Half
    <2> QED BY <2>1 DEF Told
  <1>4. ASSUME NEW q \in Pid \ {c}
        PROVE  /\ D[q] \in Frame /\ T[q] \in Frame
               /\ D[q].status = T[q].status /\ D[q].ppid = T[q].ppid /\ D[q].pgid = T[q].pgid
               /\ D[q].thread = T[q].thread /\ (D[q].tag <=> T[q].tag)
               /\ ListRemove(D[q].children, c) = T[q].children
               /\ T[q].children \in Seq(Pid)
               /\ D[q].members \ {c} = T[q].members
               /\ D[q].members = T[q].members \/ (q = g /\ T[q].status # "none")
    BY <1>1 DEF Half, Frame
  <1>5. /\ U \in [Pid -> Frame]
        /\ \A q \in Pid \ {c} :
             /\ U[q].status = T[q].status /\ U[q].ppid = T[q].ppid /\ U[q].pgid = T[q].pgid
             /\ U[q].thread = T[q].thread /\ (U[q].tag <=> T[q].tag)
             /\ U[q].children = T[q].children /\ U[q].members = D[q].members
        /\ U[c].pgid = g /\ U[c].members = {}
    <2> DEFINE B == Unbrothered(D, c)
    <2>1. B = [q \in Pid |-> [D[q] EXCEPT !.children = ListRemove(D[q].children, c)]]
      BY <1>1 DEF Unbrothered
    <2>2. ASSUME NEW q \in Pid \ {c}
          PROVE  /\ B[q] \in Frame /\ B[q].children = T[q].children
                 /\ B[q].status = T[q].status /\ B[q].ppid = T[q].ppid
                 /\ B[q].pgid = T[q].pgid /\ B[q].thread = T[q].thread
                 /\ B[q].members = D[q].members /\ (B[q].tag <=> T[q].tag)
      <3>1. B[q] = [D[q] EXCEPT !.children = T[q].children]
        BY <1>4, <2>1
      <3> HIDE DEF B
      <3> QED BY <1>4, <3>1 DEF Frame
    <2>3. B[c] \in Frame /\ B[c].pgid = g /\ B[c].members = {}
      <3>1. D[c].children = <<>> /\ D[c] \in Frame /\ D[c].pgid = g /\ D[c].members = {}
        BY <1>1 DEF Half
      <3>2. ListRemove(<<>>, c) = <<>>
        BY EmptyList DEF ListRemove
      <3>3. B[c] = [D[c] EXCEPT !.children = <<>>]
        BY <2>1, <3>1, <3>2
      <3> HIDE DEF B
      <3> QED BY <3>1, <3>3 DEF Frame
    <2>4. B \in [Pid -> Frame]
      BY <2>1, <2>2, <2>3
    <2> HIDE DEF B
    <2> DEFINE F == [B[c] EXCEPT !.tag = FALSE]
    <2>5. F \in Frame /\ F.pgid = g /\ F.members = {}
      BY <2>3, Zenon DEF Frame
    <2> HIDE DEF F
    <2>6. U = [B EXCEPT ![c] = F]
      BY DEF B, F
    <2>7. U \in [Pid -> Frame] /\ U[c] = F /\ \A q \in Pid \ {c} : U[q] = B[q]
      BY <2>4, <2>5, <2>6, PutFrame, Zenon
    <2> HIDE DEF U
    <2> QED BY <2>2, <2>5, <2>7
  <1>6. NoFrame \in Frame
    BY DEF NoFrame, Frame, Statuses
  <1>7. ASSUME NEW W \in [Pid -> Frame], R = [W EXCEPT ![c] = NoFrame],
               \A q \in Pid \ {c} :
                 /\ W[q].status = T[q].status /\ W[q].ppid = T[q].ppid /\ W[q].pgid = T[q].pgid
                 /\ W[q].thread = T[q].thread /\ (W[q].tag <=> T[q].tag)
                 /\ W[q].children = T[q].children /\ W[q].members = T[q].members
        PROVE  R = T
    <2> HIDE DEF R
    <2>1. R \in [Pid -> Frame] /\ R[c] = NoFrame /\ \A q \in Pid \ {c} : R[q] = W[q]
      BY <1>6, <1>7, PutFrame
    <2>2. ASSUME NEW q \in Pid \ {c} PROVE W[q] = T[q]
      <3>1. W[q] \in Frame /\ T[q] \in Frame
        BY <1>1
      <3> QED BY <1>7, <3>1, SameFrame
    <2> QED BY <1>1, <2>1, <2>2
  <1>8. R = IF g = c THEN [U EXCEPT ![c] = NoFrame]
            ELSE IF g # 0 /\ Exists(U, g)
              THEN IF V[g].status = "group" /\ V[g].members = {}
                     THEN DestroyBody(DestroyBody(V, g), c) ELSE [V EXCEPT ![c] = NoFrame]
            ELSE [U EXCEPT ![c] = NoFrame]
    <2>1. R = IF U[c].pgid = c
                THEN IF U[c].members # {} THEN [U EXCEPT ![c].status = "group"]
                     ELSE DestroyBody(U, c)
              ELSE IF U[c].pgid # 0 /\ Exists(U, U[c].pgid)
                THEN LET W == [U EXCEPT ![U[c].pgid].members = @ \ {c}]
                     IN  IF W[U[c].pgid].status = "group" /\ W[U[c].pgid].members = {}
                           THEN DestroyBody(DestroyBody(W, U[c].pgid), c) ELSE DestroyBody(W, c)
              ELSE DestroyBody(U, c)
      BY DEF DestroyFrame, IsLeader
    <2>2. U[c].pgid = g /\ U[c].members = {}
      BY <1>5
    <2> HIDE DEF U, R
    <2> QED BY <2>1, <2>2 DEF DestroyBody
  <1> HIDE DEF R, U
  <1>9. CASE g = c \/ g = 0 \/ ~Exists(U, g)
    <2>1. R = [U EXCEPT ![c] = NoFrame]
      BY <1>8, <1>9
    <2>2. ASSUME NEW q \in Pid \ {c} PROVE U[q].members = T[q].members
      <3>1. q = g => U[q].status = T[q].status /\ T[q].status = "none"
        BY <1>5, <1>9, ProcessAssumption DEF Exists
      <3> QED BY <1>4, <1>5, <3>1
    <2>3. R = T
      BY <1>5, <1>7, <2>1, <2>2, Zenon
    <2> QED BY <1>2, <1>3, <2>3
  <1>10. CASE g # c /\ g # 0 /\ Exists(U, g)
    <2> DEFINE F == [U[g] EXCEPT !.members = @ \ {c}]
    <2>1. g \in Pid \ {c} /\ U[g] \in Frame /\ U[g].members \ {c} = T[g].members
          /\ T[g].members \in SUBSET Pid
      <3>1. g \in Pid \ {c}
        BY <1>10
      <3>2. U[g] \in Frame /\ U[g].members = D[g].members
        BY <1>5, <3>1
      <3>3. D[g].members \ {c} = T[g].members /\ T[g] \in Frame
        BY <1>4, <3>1
      <3>4. T[g].members \in SUBSET Pid
        BY <3>3 DEF Frame
      <3> QED BY <3>1, <3>2, <3>3, <3>4
    <2>2. F \in Frame /\ F.status = U[g].status /\ F.ppid = U[g].ppid /\ F.pgid = U[g].pgid
          /\ F.children = U[g].children /\ F.members = T[g].members /\ F.thread = U[g].thread
          /\ (F.tag <=> U[g].tag)
      BY <2>1 DEF Frame
    <2>3. V = [U EXCEPT ![g] = F]
      OBVIOUS
    <2> HIDE DEF F, V
    <2>4. V \in [Pid -> Frame] /\ V[g] = F /\ \A q \in Pid \ {g} : V[q] = U[q]
      BY <1>5, <2>1, <2>2, <2>3, PutFrame
    <2>5. ASSUME NEW q \in Pid \ {c}
          PROVE  /\ V[q].status = T[q].status /\ V[q].ppid = T[q].ppid /\ V[q].pgid = T[q].pgid
                 /\ V[q].thread = T[q].thread /\ (V[q].tag <=> T[q].tag)
                 /\ V[q].children = T[q].children /\ V[q].members = T[q].members
      <3>1. CASE q = g
        BY <1>5, <2>2, <2>4, <3>1
      <3>2. CASE q # g
        BY <1>4, <1>5, <2>4, <3>2
      <3> QED BY <3>1, <3>2
    <2>6. ~(V[g].status = "group" /\ V[g].members = {})
      BY <2>1, <2>5 DEF Table, Groups
    <2>7. R = [V EXCEPT ![c] = NoFrame]
      BY <1>8, <1>10, <2>6
    <2>8. R = T
      BY <1>7, <2>4, <2>5, <2>7, Zenon
    <2> QED BY <1>2, <1>3, <2>8
  <1> QED BY <1>9, <1>10

\* A frame, or that of a process that is being made.
Making == [status : Statuses \cup {"null"}, ppid : Pid \cup {0}, pgid : Pid \cup {0},
           children : Seq(Pid), members : SUBSET Pid, tag : BOOLEAN,
           thread : Tid \cup {NoThread}]

\* Writing one frame leaves the others.
LEMMA PutMaking ==
  ASSUME NEW T \in [Pid -> Making], NEW c \in Pid, NEW F \in Making,
         NEW R, R = [T EXCEPT ![c] = F]
  PROVE  R \in [Pid -> Making] /\ R[c] = F /\ \A q \in Pid \ {c} : R[q] = T[q]
  OBVIOUS

\* The table M when process_duplicate has linked c to its parent and its group.
Linked(T, M, p, c, nowait, g) ==
  /\ M \in [Pid -> Making]
  /\ M[c].status = "null" /\ M[c].ppid = (IF nowait THEN 0 ELSE p) /\ M[c].pgid = g
  /\ M[c].children = <<>> /\ M[c].members = {} /\ ~M[c].tag /\ M[c].thread = NoThread
  /\ \A q \in Pid \ {c} :
       /\ M[q].status = T[q].status /\ M[q].ppid = T[q].ppid /\ M[q].pgid = T[q].pgid
       /\ M[q].thread = T[q].thread /\ (M[q].tag <=> T[q].tag)
       /\ M[q].children = IF q = p /\ ~nowait THEN ListEnqueue(T[q].children, c) ELSE T[q].children
       /\ M[q].members = IF q = g THEN T[q].members \cup {c} ELSE T[q].members

\* process_duplicate finds the group of p, and links c.
LEMMA DuplicatedFields ==
  ASSUME Table(proc), NEW p \in Pid, NEW c \in Pid, Exists(proc, p), ~Exists(proc, c),
         NEW nowait \in BOOLEAN, NEW noteg \in BOOLEAN
  PROVE  LET g == GroupFor(p, c, noteg)
         IN  /\ g \in Pid
             /\ g = c \/ (g = proc[p].pgid /\ g # c /\ Exists(proc, g))
             /\ Linked(proc, Duplicated(p, c, nowait, noteg, g), p, c, nowait, g)
  <1> DEFINE g == GroupFor(p, c, noteg)
             X == [NoFrame EXCEPT !.status = "null", !.pgid = g, !.ppid = IF nowait THEN 0 ELSE p]
             K == [proc EXCEPT ![c] = X]
             k == IF nowait THEN proc[p].children ELSE ListEnqueue(proc[p].children, c)
             L == [K EXCEPT ![p].children = IF nowait THEN @ ELSE ListEnqueue(@, c)]
             M == Duplicated(p, c, nowait, noteg, g)
  <1>1. proc[p].pgid \in Pid /\ Exists(proc, proc[p].pgid) /\ proc[p].pgid # c /\ p # c
    BY DEF Table, Groups, Exists
  <1>2. g \in Pid /\ g # 0 /\ (g = c <=> noteg) /\ (g = c \/ (g = proc[p].pgid /\ g # c /\ Exists(proc, g)))
    BY <1>1, ProcessAssumption DEF GroupFor
  <1> HIDE DEF g
  <1>3. proc \in [Pid -> Making]
    <2>1. ASSUME NEW q \in Pid PROVE proc[q] \in Making
      <3>1. proc[q] \in Frame
        BY DEF Table, Frames
      <3> QED BY <3>1 DEF Frame, Making
    <2>2. proc \in [Pid -> Frame]
      BY DEF Table, Frames
    <2> QED BY <2>1, <2>2
  <1>4. X \in Making /\ X.status = "null" /\ X.ppid = (IF nowait THEN 0 ELSE p) /\ X.pgid = g
        /\ X.children = <<>> /\ X.members = {} /\ ~X.tag /\ X.thread = NoThread
    <2> DEFINE par == IF nowait THEN 0 ELSE p
    <2>1. par \in Pid \cup {0} /\ "null" \in Statuses \cup {"null"} /\ g \in Pid \cup {0}
      BY <1>2
    <2>2. NoFrame \in Making
      BY DEF NoFrame, Making, Statuses
    <2>3. NoFrame.children = <<>> /\ NoFrame.members = {} /\ ~NoFrame.tag
          /\ NoFrame.thread = NoThread
      BY DEF NoFrame
    <2> HIDE DEF par
    <2>4. X = [NoFrame EXCEPT !.status = "null", !.pgid = g, !.ppid = par]
      BY DEF par
    <2> HIDE DEF X
    <2>5. X \in Making /\ X.status = "null" /\ X.ppid = par /\ X.pgid = g
          /\ X.children = <<>> /\ X.members = {} /\ ~X.tag /\ X.thread = NoThread
      BY <2>1, <2>2, <2>3, <2>4, Zenon DEF Making
    <2> QED BY <2>5 DEF par
  <1> HIDE DEF X
  <1>5. K \in [Pid -> Making] /\ K[c] = X /\ \A q \in Pid \ {c} : K[q] = proc[q]
    BY <1>3, <1>4, PutMaking
  <1>6. proc[p] \in Making /\ k \in Seq(Pid)
    <2>1. proc[p] \in Making /\ proc[p].children \in Seq(Pid)
      BY <1>3 DEF Making
    <2> QED BY <2>1, EnqueueLinks
  <1>7. L = [K EXCEPT ![p] = [proc[p] EXCEPT !.children = k]]
    <2> HIDE DEF K
    <2>1. K[p] = proc[p]
      BY <1>1, <1>5
    <2>2. L = [K EXCEPT ![p] = [K[p] EXCEPT !.children =
                 IF nowait THEN K[p].children ELSE ListEnqueue(K[p].children, c)]]
      OBVIOUS
    <2> QED BY <2>1, <2>2
  <1> HIDE DEF K, k
  <1> DEFINE F == [proc[p] EXCEPT !.children = k]
  <1>8. F \in Making /\ F.status = proc[p].status /\ F.ppid = proc[p].ppid /\ F.pgid = proc[p].pgid
        /\ F.children = k /\ F.members = proc[p].members /\ F.thread = proc[p].thread
        /\ (F.tag <=> proc[p].tag)
    BY <1>6, Zenon DEF Making
  <1> HIDE DEF F, L
  <1>9. L \in [Pid -> Making] /\ L[p] = F /\ \A q \in Pid \ {p} : L[q] = K[q]
    BY <1>5, <1>7, <1>8, PutMaking DEF F
  <1>10. ASSUME NEW q \in Pid \ {c}
         PROVE  /\ L[q].status = proc[q].status /\ L[q].ppid = proc[q].ppid
                /\ L[q].pgid = proc[q].pgid /\ L[q].thread = proc[q].thread
                /\ (L[q].tag <=> proc[q].tag) /\ L[q].members = proc[q].members
                /\ L[q].children = IF q = p /\ ~nowait THEN ListEnqueue(proc[q].children, c)
                                   ELSE proc[q].children
    <2>1. CASE q = p
      BY <1>8, <1>9, <2>1 DEF k
    <2>2. CASE q # p
      BY <1>5, <1>9, <2>2
    <2> QED BY <2>1, <2>2
  <1>11. L[c] = X
    BY <1>1, <1>5, <1>9
  <1>12. M = IF noteg \/ g = 0 THEN L ELSE [L EXCEPT ![g].members = @ \cup {c}]
    BY Zenon DEF Duplicated, L, K, X
  <1> HIDE DEF M
  <1>13. CASE noteg
    <2>1. M = L /\ g = c
      BY <1>2, <1>12, <1>13
    <2>2. Linked(proc, M, p, c, nowait, g)
      BY <1>4, <1>9, <1>10, <1>11, <2>1 DEF Linked
    <2> QED BY <1>2, <2>2 DEF M, g
  <1>14. CASE ~noteg
    <2> DEFINE G == [L[g] EXCEPT !.members = L[g].members \cup {c}]
    <2>1. M = [L EXCEPT ![g] = G] /\ g # c
      BY <1>2, <1>12, <1>14
    <2>2. L[g] \in Making /\ L[g].members \cup {c} \in SUBSET Pid
      <3>1. L[g] \in Making
        BY <1>2, <1>9
      <3>2. L[g].members \in SUBSET Pid
        BY <3>1 DEF Making
      <3> QED BY <3>1, <3>2
    <2>3. G \in Making /\ G.status = L[g].status /\ G.ppid = L[g].ppid /\ G.pgid = L[g].pgid
          /\ G.children = L[g].children /\ G.members = L[g].members \cup {c}
          /\ G.thread = L[g].thread /\ (G.tag <=> L[g].tag)
      BY <2>2 DEF Making
    <2> HIDE DEF G
    <2>4. M \in [Pid -> Making] /\ M[g] = G /\ \A q \in Pid \ {g} : M[q] = L[q]
      BY <1>2, <1>9, <2>1, <2>3, PutMaking
    <2>5. M[c] = X
      BY <1>11, <2>1, <2>4
    <2>6. ASSUME NEW q \in Pid \ {c}
          PROVE  /\ M[q].status = proc[q].status /\ M[q].ppid = proc[q].ppid
                 /\ M[q].pgid = proc[q].pgid /\ M[q].thread = proc[q].thread
                 /\ (M[q].tag <=> proc[q].tag)
                 /\ M[q].members = IF q = g THEN proc[q].members \cup {c} ELSE proc[q].members
                 /\ M[q].children = IF q = p /\ ~nowait THEN ListEnqueue(proc[q].children, c)
                                    ELSE proc[q].children
      <3>1. CASE q = g
        BY <1>10, <2>3, <2>4, <3>1
      <3>2. CASE q # g
        BY <1>10, <2>4, <3>2
      <3> QED BY <3>1, <3>2
    <2>7. Linked(proc, M, p, c, nowait, g)
      BY <1>4, <2>4, <2>5, <2>6, Zenon DEF Linked
    <2> QED BY <1>2, <2>7 DEF M, g
  <1> QED BY <1>13, <1>14

\* mm_rfork that fails before or after c is linked leaves no trace.
LEMMA RforkFailsClean ==
  ASSUME Table(proc), InitStays(proc), NEW p \in Pid, NEW c \in Pid,
         proc[p].status = "active", ~Exists(proc, c)
  PROVE  /\ \A garbage \in Pid \cup {0} :
              ProcessDestroy([proc EXCEPT ![c] = [NoFrame EXCEPT !.status = "null",
                                                                 !.pgid = garbage]], c) = proc
         /\ \A nowait, noteg \in BOOLEAN :
              ProcessDestroy(Duplicated(p, c, nowait, noteg, GroupFor(p, c, noteg)), c) = proc
  <1>1. /\ proc[c].status = "none" /\ proc[Init1].status = "active" /\ Exists(proc, p)
        /\ proc \in [Pid -> Frame]
    BY DEF Exists, InitStays, Table, Frames
  <1>2. \A q \in Pid : proc[q].children \in Seq(Pid) /\ c \notin Elems(proc[q].children)
                       /\ c \notin proc[q].members
    <2> TAKE q \in Pid
    <2>1. c \notin Elems(proc[q].children)
      BY <1>1 DEF Table, Family, Kin
    <2>2. proc[c].pgid = 0
      BY <1>1 DEF Table, Frames, NoFrame
    <2>3. c \notin proc[q].members
      BY <2>2, ProcessAssumption DEF Table, Groups
    <2> QED BY <1>1, <2>1, <2>3 DEF Frame
  <1>3. \A q \in Pid : /\ ListRemove(proc[q].children, c) = proc[q].children
                       /\ ListRemove(ListEnqueue(proc[q].children, c), c) = proc[q].children
    BY <1>2, RemoveUndoes
  <1>4. ASSUME NEW M \in [Pid -> Making], NEW g \in Pid \cup {0},
               M[c].status = "null", M[c].pgid = g, M[c].children = <<>>, M[c].members = {},
               ~M[c].tag, M[c].thread = NoThread,
               \A q \in Pid \ {c} :
                 /\ M[q].status = proc[q].status /\ M[q].ppid = proc[q].ppid
                 /\ M[q].pgid = proc[q].pgid /\ M[q].thread = proc[q].thread
                 /\ (M[q].tag <=> proc[q].tag)
                 /\ \/ M[q].children = proc[q].children
                    \/ M[q].children = ListEnqueue(proc[q].children, c)
                 /\ \/ M[q].members = proc[q].members
                    \/ M[q].members = proc[q].members \cup {c} /\ q = g /\ Exists(proc, q)
        PROVE  ProcessDestroy(M, c) = proc
    <2> DEFINE D == Dead(M, c)
               F == [M[c] EXCEPT !.status = "dead", !.thread = NoThread, !.ppid = 0]
    <2>1. M[c] \in Making
      OBVIOUS
    <2>2. /\ F \in Making /\ F \in Frame
          /\ F.status = "dead" /\ F.ppid = 0 /\ F.pgid = g /\ F.children = <<>>
          /\ F.members = {} /\ ~F.tag /\ F.thread = NoThread
      BY <1>4, <2>1, Zenon DEF Making, Frame, Statuses
    <2>3. D = [M EXCEPT ![c] = F]
      <3>1. M[c].status = "null"
        BY <1>4
      <3> QED BY <3>1, Zenon DEF Dead
    <2> HIDE DEF F, D
    <2>4. D \in [Pid -> Making] /\ D[c] = F /\ \A q \in Pid \ {c} : D[q] = M[q]
      BY <2>2, <2>3, PutMaking
    <2>5. ASSUME NEW q \in Pid PROVE D[q] \in Frame
      <3>1. CASE q = c
        BY <2>2, <2>4, <3>1
      <3>2. CASE q # c
        <4>1. D[q] \in Making
          BY <2>4
        <4>2. D[q].status \in Statuses
          <5>1. D[q].status = proc[q].status /\ proc[q] \in Frame
            BY <1>1, <1>4, <2>4, <3>2
          <5> QED BY <5>1 DEF Frame
        <4> QED BY <4>1, <4>2 DEF Making, Frame
      <3> QED BY <3>1, <3>2
    <2>6. ASSUME NEW q \in Pid \ {c}
          PROVE  /\ ListRemove(D[q].children, c) = proc[q].children
                 /\ D[q].members \ {c} = proc[q].members
                 /\ D[q].members = proc[q].members \/ (q = g /\ proc[q].status # "none")
      <3>1. D[q].children = proc[q].children \/ D[q].children = ListEnqueue(proc[q].children, c)
        BY <1>4, <2>4
      <3>2. \/ D[q].members = proc[q].members
            \/ D[q].members = proc[q].members \cup {c} /\ q = g /\ Exists(proc, q)
        BY <1>4, <2>4
      <3>3. c \notin proc[q].members
        BY <1>2
      <3>4. D[q].members \ {c} = proc[q].members
        BY <3>2, <3>3
      <3> QED BY <1>3, <3>1, <3>2, <3>4 DEF Exists
    <2>7. D \in [Pid -> Frame]
      BY <2>4, <2>5
    <2>8. Half(proc, D, c, g)
      BY <1>4, <2>2, <2>4, <2>6, <2>7 DEF Half
    <2>9. Told(Bequeathed(D, c), c) = proc
      BY <1>1, <2>8, Unmade, Zenon
    <2> QED BY <2>9 DEF ProcessDestroy, D
  <1>5. ASSUME NEW garbage \in Pid \cup {0}
        PROVE  ProcessDestroy([proc EXCEPT ![c] = [NoFrame EXCEPT !.status = "null",
                                                                  !.pgid = garbage]], c) = proc
    <2> DEFINE X == [NoFrame EXCEPT !.status = "null", !.pgid = garbage]
               M == [proc EXCEPT ![c] = X]
    <2>1. NoFrame \in Making
      BY DEF NoFrame, Making, Statuses
    <2>2. NoFrame.children = <<>> /\ NoFrame.members = {} /\ ~NoFrame.tag
          /\ NoFrame.thread = NoThread
      BY DEF NoFrame
    <2>3. X \in Making /\ X.status = "null" /\ X.pgid = garbage
          /\ X.children = <<>> /\ X.members = {} /\ ~X.tag /\ X.thread = NoThread
      BY <2>1, <2>2, Zenon DEF Making
    <2>4. proc \in [Pid -> Making]
      <3>1. ASSUME NEW q \in Pid PROVE proc[q] \in Making
        <4>1. proc[q] \in Frame
          BY <1>1
        <4> QED BY <4>1 DEF Frame, Making
      <3> QED BY <1>1, <3>1
    <2> HIDE DEF X
    <2>5. M \in [Pid -> Making] /\ M[c] = X /\ \A q \in Pid \ {c} : M[q] = proc[q]
      BY <2>3, <2>4, PutMaking
    <2> HIDE DEF M
    <2>6. ProcessDestroy(M, c) = proc
      BY <1>4, <2>3, <2>5
    <2> QED BY <2>6 DEF M, X
  <1>6. ASSUME NEW nowait \in BOOLEAN, NEW noteg \in BOOLEAN
        PROVE  ProcessDestroy(Duplicated(p, c, nowait, noteg, GroupFor(p, c, noteg)), c) = proc
    <2> DEFINE g == GroupFor(p, c, noteg)
               M == Duplicated(p, c, nowait, noteg, g)
    <2>1. g \in Pid /\ (g = c \/ Exists(proc, g)) /\ Linked(proc, M, p, c, nowait, g)
      BY <1>1, DuplicatedFields
    <2> HIDE DEF M, g
    <2>2. /\ M \in [Pid -> Making] /\ M[c].status = "null" /\ M[c].pgid = g
          /\ M[c].children = <<>> /\ M[c].members = {} /\ ~M[c].tag /\ M[c].thread = NoThread
      BY <2>1 DEF Linked
    <2>3. ASSUME NEW q \in Pid \ {c}
          PROVE  /\ M[q].status = proc[q].status /\ M[q].ppid = proc[q].ppid
                 /\ M[q].pgid = proc[q].pgid /\ M[q].thread = proc[q].thread
                 /\ (M[q].tag <=> proc[q].tag)
                 /\ \/ M[q].children = proc[q].children
                    \/ M[q].children = ListEnqueue(proc[q].children, c)
                 /\ \/ M[q].members = proc[q].members
                    \/ M[q].members = proc[q].members \cup {c} /\ q = g /\ Exists(proc, q)
      BY <2>1, Zenon DEF Linked
    <2>4. ProcessDestroy(M, c) = proc
      BY <1>4, <2>1, <2>2, <2>3
    <2> QED BY <2>4 DEF M, g
  <1> QED BY <1>5, <1>6, Zenon

\* The table after mm_rfork.
Forked(p, c, t, nowait, noteg) ==
  [Duplicated(p, c, nowait, noteg, GroupFor(p, c, noteg)) EXCEPT
     ![c].status = "active", ![c].thread = t]

\* R is the table T with a new process c that runs thread t.
Added(T, R, c, t) ==
  /\ Table(R) /\ InitStays(R) /\ Waits(R)
  /\ R[c].status = "active" /\ R[c].thread = t
  /\ \A q \in Pid \ {c} : /\ R[q].status = T[q].status /\ R[q].thread = T[q].thread
                         /\ (R[q].tag <=> T[q].tag)

\* mm_rfork: the new process is in the family and the group it should be in.
LEMMA ForkKept ==
  ASSUME Table(proc), InitStays(proc), Waits(proc), NEW p \in Pid, NEW c \in Pid, NEW t \in Tid,
         proc[p].status = "active", ~proc[p].tag, ~Exists(proc, c),
         NEW nowait \in BOOLEAN, NEW noteg \in BOOLEAN
  PROVE  Added(proc, Forked(p, c, t, nowait, noteg), c, t)
  <1> DEFINE T == proc
             g == GroupFor(p, c, noteg)
             M == Duplicated(p, c, nowait, noteg, g)
             R == [M EXCEPT ![c].status = "active", ![c].thread = t]
             F == [M[c] EXCEPT !.status = "active", !.thread = t]
             par == IF nowait THEN 0 ELSE p
  <1>1. /\ T[c].status = "none" /\ T[Init1].status = "active" /\ Exists(T, p) /\ p # c /\ Init1 # c
        /\ T \in [Pid -> Frame] /\ T[c] = NoFrame /\ Init1 \in Pid
    BY ProcessAssumption DEF Exists, InitStays, Table, Frames
  <1>2. /\ g \in Pid /\ (g = c \/ (g = T[p].pgid /\ g # c /\ Exists(T, g)))
        /\ Linked(T, M, p, c, nowait, g)
    BY <1>1, DuplicatedFields
  <1>3. R = [M EXCEPT ![c] = F]
    <2>1. M \in [Pid -> Making]
      BY <1>2, Zenon DEF Linked
    <2> HIDE DEF M
    <2> QED BY <2>1, Zenon
  <1> HIDE DEF M, g, R
  <1>4. M \in [Pid -> Making] /\ M[c] \in Making /\ par \in Pid \cup {0}
        /\ M[c].ppid = par /\ M[c].pgid = g
        /\ M[c].children = <<>> /\ M[c].members = {} /\ ~M[c].tag
    BY <1>2 DEF Linked
  <1> HIDE DEF par
  <1>5. F \in Making /\ F \in Frame /\ F.status = "active" /\ F.thread = t /\ F.ppid = par /\ F.pgid = g
        /\ F.children = <<>> /\ F.members = {} /\ ~F.tag
    BY <1>4, Zenon DEF Making, Frame, Statuses
  <1> HIDE DEF F
  <1>6. R \in [Pid -> Making] /\ R[c] = F /\ \A q \in Pid \ {c} : R[q] = M[q]
    BY <1>3, <1>4, <1>5, PutMaking
  <1>7. ASSUME NEW q \in Pid \ {c}
        PROVE  /\ R[q].status = T[q].status /\ R[q].ppid = T[q].ppid /\ R[q].pgid = T[q].pgid
               /\ R[q].thread = T[q].thread /\ (R[q].tag <=> T[q].tag)
               /\ R[q].children = IF q = p /\ par = p THEN ListEnqueue(T[q].children, c)
                                  ELSE T[q].children
               /\ R[q].members = IF q = g THEN T[q].members \cup {c} ELSE T[q].members
    <2>1. R[q] = M[q]
      BY <1>6
    <2>2. (nowait => par = 0 /\ par # p) /\ (~nowait => par = p)
      BY ProcessAssumption DEF par
    <2>3. /\ M[q].status = T[q].status /\ M[q].ppid = T[q].ppid /\ M[q].pgid = T[q].pgid
          /\ M[q].thread = T[q].thread /\ (M[q].tag <=> T[q].tag)
          /\ M[q].members = IF q = g THEN T[q].members \cup {c} ELSE T[q].members
      BY <1>2, Zenon DEF Linked
    <2>4. M[q].children = IF q = p /\ ~nowait THEN ListEnqueue(T[q].children, c)
                          ELSE T[q].children
      BY <1>2, Zenon DEF Linked
    <2>5. M[q].children = IF q = p /\ par = p THEN ListEnqueue(T[q].children, c)
                          ELSE T[q].children
      BY <2>2, <2>4
    <2> QED BY <2>1, <2>3, <2>5
  <1>8. ASSUME NEW q \in Pid
        PROVE  T[q].children \in Seq(Pid) /\ c \notin Elems(T[q].children) /\ NoDup(T[q].children)
               /\ (T[q].status \in Kin => T[q].ppid # c) /\ T[q].pgid # c
    <2>1. T[q].children \in Seq(Pid) /\ NoDup(T[q].children)
      BY <1>1 DEF Frame, Table, Family
    <2>2. c \notin Elems(T[q].children)
      BY <1>1 DEF Table, Family, Kin
    <2>3. T[c].children = <<>> /\ T[c].pgid = 0
      BY <1>1 DEF NoFrame
    <2>4. T[q].status \in Kin => T[q].ppid # c
      BY <2>3, EmptyList DEF Table, Family
    <2>5. T[q].pgid # c
      <3>1. Exists(T, q) => Exists(T, T[q].pgid)
        BY DEF Table, Groups
      <3>2. ~Exists(T, q) => T[q].pgid = 0
        BY DEF Table, Frames, Exists, NoFrame
      <3> QED BY <3>1, <3>2, ProcessAssumption
    <2> QED BY <2>1, <2>2, <2>4, <2>5
  <1>9. R[c].status = "active" /\ R[c].thread = t /\ R[c].ppid = par /\ R[c].pgid = g
        /\ R[c].children = <<>> /\ R[c].members = {} /\ ~R[c].tag
    BY <1>5, <1>6
  <1>10. ASSUME NEW q \in Pid \ {c}
         PROVE  /\ Elems(R[q].children) = IF q = par THEN Elems(T[q].children) \cup {c}
                                          ELSE Elems(T[q].children)
                /\ NoDup(R[q].children) /\ R[q].children \in Seq(Pid)
    <2>1. CASE q = par
      <3>1. par = p /\ q = p
        BY <2>1, ProcessAssumption DEF par
      <3>2. R[q].children = ListEnqueue(T[q].children, c)
        BY <1>7, <3>1, Zenon
      <3>3. T[q].children \in Seq(Pid) /\ c \notin Elems(T[q].children) /\ NoDup(T[q].children)
        BY <1>8
      <3>4. /\ ListEnqueue(T[q].children, c) \in Seq(Pid)
            /\ Elems(ListEnqueue(T[q].children, c)) = Elems(T[q].children) \cup {c}
            /\ NoDup(ListEnqueue(T[q].children, c))
        <4> DEFINE s == T[q].children
        <4>1. s \in Seq(Pid) /\ c \notin Elems(s) /\ NoDup(s) /\ c \in Pid
          BY <3>3
        <4> HIDE DEF s
        <4>2. /\ ListEnqueue(s, c) \in Seq(Pid) /\ Elems(ListEnqueue(s, c)) = Elems(s) \cup {c}
              /\ NoDup(ListEnqueue(s, c))
          BY <4>1, EnqueueLinks, ZenonT(30)
        <4> QED BY <4>2 DEF s
      <3> QED BY <2>1, <3>2, <3>4
    <2>2. CASE q # par
      <3>1. R[q].children = T[q].children
        BY <1>7, <2>2, Zenon
      <3> QED BY <1>8, <2>2, <3>1
    <2> QED BY <2>1, <2>2
  <1>11. par = 0 \/ par = p
    BY DEF par
  <1>12. \A q \in Pid : R[q] \in Frame
    <2> SUFFICES ASSUME NEW q \in Pid PROVE R[q] \in Frame
      OBVIOUS
    <2>1. CASE q = c
      BY <1>5, <1>6, <2>1
    <2>2. CASE q # c
      <3>1. R[q] \in Making
        BY <1>6
      <3>2. R[q].status \in Statuses
        BY <1>1, <1>7, <2>2, Zenon DEF Frame
      <3> QED BY <3>1, <3>2 DEF Making, Frame
    <2> QED BY <2>1, <2>2
  <1>13. Frames(R)
    <2>1. R \in [Pid -> Frame]
      BY <1>6, <1>12
    <2> SUFFICES ASSUME NEW q \in Pid
                 PROVE  /\ R[q].status = "none" => R[q] = NoFrame
                        /\ R[q].thread # NoThread => R[q].status \in Living
                        /\ R[q].ppid # q
      BY <2>1 DEF Frames
    <2>2. CASE q = c
      BY <1>1, <1>9, <1>11, <2>2, ProcessAssumption DEF Living
    <2>3. CASE q # c
      <3>1. R[q].thread # NoThread => R[q].status \in Living
        <4>1. R[q].thread = T[q].thread /\ R[q].status = T[q].status
          BY <1>7, <2>3, Zenon
        <4> QED BY <4>1 DEF Table, Frames
      <3>2. R[q].ppid # q
        <4>1. R[q].ppid = T[q].ppid
          BY <1>7, <2>3, Zenon
        <4> QED BY <4>1 DEF Table, Frames
      <3>3. ASSUME R[q].status = "none" PROVE R[q] = NoFrame
        <4>1. T[q].status = "none"
          BY <1>7, <2>3, <3>3, Zenon
        <4>2. T[q] = NoFrame /\ q # p /\ q # g
          BY <1>1, <1>2, <2>3, <4>1 DEF Table, Frames, Exists
        <4>3. R[q].children = T[q].children /\ R[q].members = T[q].members
          BY <1>7, <2>3, <4>2, Zenon
        <4>4. R[q] \in Frame /\ T[q] \in Frame
          BY <1>1, <1>12
        <4> QED BY <1>7, <2>3, <4>2, <4>3, <4>4, SameFrame, Zenon
      <3> QED BY <3>1, <3>2, <3>3
    <2> QED BY <2>2, <2>3
  <1>14. Family(R)
    <2> SUFFICES ASSUME NEW x \in Pid, NEW q \in Pid
                 PROVE  /\ x \in Elems(R[q].children) <=> (R[x].status \in Kin /\ R[x].ppid = q)
                        /\ NoDup(R[q].children)
                        /\ R[q].children # <<>> => R[q].status \in Living
      BY DEF Family
    <2>1. x \in Elems(T[q].children) <=> (T[x].status \in Kin /\ T[x].ppid = q)
      BY DEF Table, Family
    <2>2. CASE q = c
      <3>1. ~(R[x].status \in Kin /\ R[x].ppid = q)
        <4>1. CASE x = c
          BY <1>1, <1>9, <1>11, <2>2, <4>1, ProcessAssumption
        <4>2. CASE x # c
          BY <1>7, <1>8, <2>2, <4>2, Zenon
        <4> QED BY <4>1, <4>2
      <3> QED BY <1>9, <2>2, <3>1, EmptyList
    <2>3. CASE q # c
      <3>1. x \in Elems(R[q].children) <=> (R[x].status \in Kin /\ R[x].ppid = q)
        <4>1. CASE x = c
          BY <1>8, <1>9, <1>10, <2>3, <4>1, Zenon DEF Kin
        <4>2. CASE x # c
          <5>1. R[x].status = T[x].status /\ R[x].ppid = T[x].ppid
            BY <1>7, <4>2, Zenon
          <5>2. x \in Elems(R[q].children) <=> x \in Elems(T[q].children)
            BY <1>10, <2>3, <4>2, Zenon
          <5> QED BY <2>1, <5>1, <5>2
        <4> QED BY <4>1, <4>2
      <3>2. R[q].children # <<>> => R[q].status \in Living
        <4>1. CASE q = p
          BY <1>7, <2>3, <4>1, Zenon DEF Living
        <4>2. CASE q # p
          BY <1>7, <2>3, <4>2, Zenon DEF Table, Family
        <4> QED BY <4>1, <4>2
      <3> QED BY <1>10, <2>3, <3>1, <3>2, Zenon
    <2> QED BY <2>2, <2>3
  <1>15. Groups(R)
    <2> SUFFICES ASSUME NEW l \in Pid
                 PROVE  /\ Exists(R, l) => R[l].pgid \in Pid /\ Exists(R, R[l].pgid) /\ IsLeader(R, R[l].pgid)
                        /\ R[l].members = {q \in Pid \ {l} : R[q].pgid = l}
                        /\ R[l].status = "group" => R[l].members # {} /\ R[l].children = <<>>
      BY DEF Groups
    <2>1. T[l].members = {q \in Pid \ {l} : T[q].pgid = l}
      BY DEF Table, Groups
    <2>2. \A q \in Pid \ {c} : R[q].pgid = T[q].pgid
      BY <1>7, Zenon
    <2>3. R[l].members = {q \in Pid \ {l} : R[q].pgid = l}
      <3>1. CASE l = c
        BY <1>8, <1>9, <2>2, <3>1
      <3>2. CASE l # c
        <4>1. R[l].members = IF l = g THEN T[l].members \cup {c} ELSE T[l].members
          BY <1>7, <3>2
        <4>2. c \notin T[l].members
          <5>1. T[c].pgid # l
            BY <1>1, ProcessAssumption DEF NoFrame
          <5> QED BY <2>1, <5>1
        <4>3. R[c].pgid = g
          BY <1>9
        <4> QED BY <2>1, <2>2, <3>2, <4>1, <4>2, <4>3
      <3> QED BY <3>1, <3>2
    <2>4. ASSUME Exists(R, l)
          PROVE  R[l].pgid \in Pid /\ Exists(R, R[l].pgid) /\ IsLeader(R, R[l].pgid)
      <3>1. \A q \in Pid : Exists(T, q) => T[q].pgid \in Pid \ {c} /\ T[T[q].pgid].status # "none"
                                         /\ T[T[q].pgid].pgid = T[q].pgid
        BY <1>8 DEF Table, Groups, Exists, IsLeader
      <3>2. CASE l = c /\ g = c
        BY <1>9, <3>2 DEF Exists, IsLeader
      <3>3. CASE l = c /\ g # c
        <4>1. g = T[p].pgid /\ g \in Pid \ {c} /\ T[g].status # "none" /\ T[g].pgid = g
          BY <1>1, <1>2, <3>1, <3>3
        <4>2. R[g].status # "none" /\ R[g].pgid = g
          BY <1>7, <4>1, Zenon
        <4> QED BY <1>9, <3>3, <4>1, <4>2 DEF Exists, IsLeader
      <3>4. CASE l # c
        <4> DEFINE m == T[l].pgid
        <4>1. Exists(T, l) /\ R[l].pgid = m
          BY <1>7, <2>4, <3>4, Zenon DEF Exists
        <4>2. m \in Pid \ {c} /\ T[m].status # "none" /\ T[m].pgid = m
          BY <3>1, <4>1
        <4> HIDE DEF m
        <4>3. R[m].status # "none" /\ R[m].pgid = m
          BY <1>7, <4>2, Zenon
        <4> QED BY <4>1, <4>2, <4>3 DEF Exists, IsLeader
      <3> QED BY <3>2, <3>3, <3>4
    <2>5. ASSUME R[l].status = "group" PROVE R[l].members # {} /\ R[l].children = <<>>
      <3>1. l # c /\ T[l].status = "group" /\ l # p
        BY <1>7, <1>9, <2>5, Zenon
      <3>2. T[l].members # {} /\ T[l].children = <<>>
        BY <3>1 DEF Table, Groups
      <3>3. T[l].members \subseteq R[l].members /\ R[l].children = T[l].children
        BY <1>7, <3>1, Zenon
      <3> QED BY <3>2, <3>3
    <2> QED BY <2>3, <2>4, <2>5
  <1>16. InitStays(R)
    BY <1>1, <1>7, Zenon DEF InitStays
  <1>17. Waits(R)
    <2>1. ASSUME NEW x \in Pid, R[x].status = "dead"
          PROVE  \E q \in Pid : x \in Elems(R[q].children) /\ R[q].status \in Living /\ ~R[q].tag
      <3>1. T[x].status = "dead"
        BY <1>7, <1>9, <2>1, Zenon
      <3>2. PICK q \in Pid : x \in Elems(T[q].children) /\ T[q].status \in Living /\ ~T[q].tag
        BY <3>1 DEF Waits
      <3>3. q # c
        BY <1>1, <3>2 DEF Living
      <3>4. R[q].status = T[q].status /\ (R[q].tag <=> T[q].tag)
        BY <1>7, <3>3, Zenon
      <3>5. x \in Elems(R[q].children)
        BY <1>10, <3>2, <3>3, Zenon
      <3> QED BY <3>2, <3>4, <3>5
    <2>2. ASSUME NEW x \in Pid, R[x].tag, R[x].status = "active" PROVE R[x].children # <<>>
      <3>1. x # c
        BY <1>9, <2>2
      <3>2. T[x].tag /\ T[x].status = "active" /\ x # p
        BY <1>7, <2>2, <3>1, Zenon
      <3>3. R[x].children = T[x].children
        BY <1>7, <3>1, <3>2, Zenon
      <3> QED BY <3>2, <3>3 DEF Waits
    <2> QED BY <2>1, <2>2 DEF Waits
  <1>18. Table(R) /\ \A q \in Pid \ {c} : R[q].status = T[q].status /\ R[q].thread = T[q].thread
                                         /\ (R[q].tag <=> T[q].tag)
    BY <1>7, <1>13, <1>14, <1>15, Zenon DEF Table
  <1>19. R = Forked(p, c, t, nowait, noteg)
    BY DEF R, M, g, Forked
  <1>20. Added(T, R, c, t)
    BY <1>9, <1>16, <1>17, <1>18 DEF Added
  <1> QED BY <1>19, <1>20

-----------------------------------------------------------------------------
(***************************************************************************)
(* The end of a process begins, and mm_wait                                 *)
(***************************************************************************)

\* R is T, but the process p is dying, with its thread or without.
Dies(T, R, p) ==
  /\ R \in [Pid -> Frame] /\ \A q \in Pid \ {p} : R[q] = T[q]
  /\ R[p].status = "dying" /\ R[p].ppid = T[p].ppid /\ R[p].pgid = T[p].pgid
  /\ R[p].children = T[p].children /\ R[p].members = T[p].members /\ (R[p].tag <=> T[p].tag)
  /\ R[p].thread \in {T[p].thread, NoThread}

\* A process that is dying is where it was in its family and its group.
LEMMA DyingKept ==
  ASSUME NEW T, Table(T), InitStays(T), Waits(T), NEW p \in Pid, T[p].status = "active",
         p = Init1 => \A q \in Pid \ {Init1} : T[q].status = "none",
         NEW R, Dies(T, R, p)
  PROVE  Table(R) /\ InitStays(R) /\ Waits(R)
  <1>1. T \in [Pid -> Frame]
    BY DEF Table, Frames
  <1>2. /\ R \in [Pid -> Frame] /\ \A q \in Pid \ {p} : R[q] = T[q]
        /\ R[p].status = "dying" /\ R[p].ppid = T[p].ppid /\ R[p].pgid = T[p].pgid
        /\ R[p].children = T[p].children /\ R[p].members = T[p].members /\ (R[p].tag <=> T[p].tag)
    BY DEF Dies
  <1>3. ASSUME NEW q \in Pid
        PROVE  /\ R[q].ppid = T[q].ppid /\ R[q].pgid = T[q].pgid /\ R[q].children = T[q].children
               /\ R[q].members = T[q].members /\ (R[q].tag <=> T[q].tag)
               /\ R[q].status = IF q = p THEN "dying" ELSE T[q].status
    <2>1. CASE q = p
      BY <1>2, <2>1
    <2>2. CASE q # p
      BY <1>2, <2>2
    <2> QED BY <2>1, <2>2
  <1>4. Frames(R)
    <2> SUFFICES ASSUME NEW q \in Pid
                 PROVE  /\ R[q].status = "none" => R[q] = NoFrame
                        /\ R[q].thread # NoThread => R[q].status \in Living
                        /\ R[q].ppid # q
      BY <1>2 DEF Frames
    <2>1. R[q].ppid # q
      BY <1>3 DEF Table, Frames
    <2>2. CASE q = p
      BY <1>2, <2>1, <2>2 DEF Living
    <2>3. CASE q # p
      BY <1>2, <2>1, <2>3 DEF Table, Frames
    <2> QED BY <2>2, <2>3
  <1>5. \A q \in Pid : /\ R[q].status \in Kin <=> T[q].status \in Kin
                       /\ R[q].status \in Living <=> T[q].status \in Living
                       /\ R[q].status = "none" <=> T[q].status = "none"
                       /\ R[q].status = "dead" <=> T[q].status = "dead"
                       /\ R[q].status = "group" <=> T[q].status = "group"
                       /\ R[q].status = "active" => T[q].status = "active"
    BY <1>3 DEF Kin, Living
  <1>6. \A q \in Pid : R[q].ppid = T[q].ppid /\ R[q].pgid = T[q].pgid
                       /\ R[q].children = T[q].children /\ R[q].members = T[q].members
    BY <1>3
  <1>7. Family(R)
    BY <1>5, <1>6 DEF Table, Family
  <1>8. Groups(R)
    BY <1>5, <1>6 DEF Table, Groups, Exists, IsLeader
  <1>9. InitStays(R)
    <2>1. Init1 \in Pid
      BY ProcessAssumption
    <2>2. CASE p = Init1
      BY <1>2, <1>6, <2>1, <2>2 DEF InitStays
    <2>3. CASE p # Init1
      <3>1. T[Init1].status = "active"
        BY <2>3 DEF InitStays
      <3> QED BY <1>2, <2>1, <2>3, <3>1 DEF InitStays
    <2> QED BY <2>2, <2>3
  <1>10. \A q \in Pid : R[q].tag <=> T[q].tag
    BY <1>3
  <1>11. Waits(R)
    <2>1. ASSUME NEW x \in Pid, R[x].status = "dead"
          PROVE  \E q \in Pid : x \in Elems(R[q].children) /\ R[q].status \in Living /\ ~R[q].tag
      <3>1. PICK q \in Pid : x \in Elems(T[q].children) /\ T[q].status \in Living /\ ~T[q].tag
        BY <1>5, <2>1 DEF Waits
      <3> QED BY <1>5, <1>6, <1>10, <3>1
    <2>2. ASSUME NEW x \in Pid, R[x].tag, R[x].status = "active" PROVE R[x].children # <<>>
      <3>1. T[x].tag /\ T[x].status = "active" /\ R[x].children = T[x].children
        BY <1>5, <1>6, <1>10, <2>2
      <3> QED BY <3>1 DEF Waits
    <2> QED BY <2>1, <2>2 DEF Waits
  <1> QED BY <1>2, <1>4, <1>7, <1>8, <1>9, <1>11 DEF Table

\* The table that mm_wait leaves to a caller p that has a child
Waited(T, p) == ReleaseBody([T EXCEPT ![p].tag = TRUE], p)

\* mm_wait takes a dead child at once, or waits for one.
LEMMA WaitKept ==
  ASSUME NEW T, Table(T), InitStays(T), Waits(T), NEW p \in Pid, T[p].status = "active",
         ~T[p].tag, T[p].children # <<>>
  PROVE  LET R == Waited(T, p)
         IN  /\ Table(R) /\ InitStays(R) /\ Waits(R)
             /\ \A q \in Pid :
                  /\ T[q].status \in Living => R[q].status = T[q].status /\ R[q].thread = T[q].thread
                                               /\ (q # p => (R[q].tag => T[q].tag))
                  /\ R[q].status \in Living => T[q].status \in Living
  <1> DEFINE U == [T EXCEPT ![p].tag = TRUE]
             F == [T[p] EXCEPT !.tag = TRUE]
             R == ReleaseBody(U, p)
  <1>1. T \in [Pid -> Frame] /\ T[p] \in Frame /\ Init1 \in Pid
    BY ProcessAssumption DEF Table, Frames
  <1>2. F \in Frame /\ F.status = T[p].status /\ F.ppid = T[p].ppid /\ F.pgid = T[p].pgid
        /\ F.children = T[p].children /\ F.members = T[p].members /\ F.thread = T[p].thread
        /\ F.tag
    BY <1>1, Zenon DEF Frame
  <1> HIDE DEF F
  <1>3. U \in [Pid -> Frame] /\ U[p] = F /\ \A q \in Pid \ {p} : U[q] = T[q]
    BY <1>1, <1>2, PutFrame DEF F
  <1> HIDE DEF U
  <1>4. \A q \in Pid :
          /\ U[q].status = T[q].status /\ U[q].ppid = T[q].ppid /\ U[q].pgid = T[q].pgid
          /\ U[q].children = T[q].children /\ U[q].members = T[q].members
          /\ U[q].thread = T[q].thread /\ (U[q].tag <=> q = p \/ T[q].tag)
    BY <1>2, <1>3
  <1>5. Frames(U)
    <2> SUFFICES ASSUME NEW q \in Pid
                 PROVE  /\ U[q].status = "none" => U[q] = NoFrame
                        /\ U[q].thread # NoThread => U[q].status \in Living
                        /\ U[q].ppid # q
      BY <1>3 DEF Frames
    <2>1. U[q].status = T[q].status /\ U[q].thread = T[q].thread /\ U[q].ppid = T[q].ppid
      BY <1>4
    <2>2. T[q].status = "none" => q # p
      OBVIOUS
    <2> QED BY <1>3, <2>1, <2>2 DEF Table, Frames
  <1>6. Family(U)
    BY <1>4 DEF Table, Family
  <1>7. Groups(U)
    BY <1>4 DEF Table, Groups, Exists, IsLeader
  <1>8. Table(U)
    BY <1>5, <1>6, <1>7 DEF Table
  <1>9. \A q \in Pid : U[q].status = T[q].status /\ U[q].children = T[q].children
                       /\ U[q].thread = T[q].thread
    BY <1>4
  <1>10. CASE DeadChildren(U, p) = {}
    <2>1. R = U
      BY <1>10 DEF ReleaseBody
    <2>2. ASSUME NEW x \in Pid, U[x].status = "dead"
          PROVE  \E q \in Pid : x \in Elems(U[q].children) /\ U[q].status \in Living /\ ~U[q].tag
      <3>1. PICK q \in Pid : x \in Elems(T[q].children) /\ T[q].status \in Living /\ ~T[q].tag
        BY <1>9, <2>2 DEF Waits
      <3>2. ASSUME q = p PROVE FALSE
        <4>1. PICK i \in 1..Len(U[p].children) : U[p].children[i] = x
          BY <1>9, <3>1, <3>2 DEF Elems
        <4>2. i \in DeadChildren(U, p)
          BY <2>2, <4>1 DEF DeadChildren
        <4> QED BY <1>10, <4>2
      <3> QED BY <1>4, <3>1, <3>2
    <2>3. ASSUME NEW x \in Pid, U[x].tag, U[x].status = "active" PROVE U[x].children # <<>>
      <3>1. U[x].children = T[x].children /\ T[x].status = "active"
        BY <1>9, <2>3
      <3>2. CASE x = p
        BY <3>1, <3>2
      <3>3. CASE x # p
        <4>1. T[x].tag
          BY <1>4, <2>3, <3>3
        <4> QED BY <3>1, <4>1 DEF Waits
      <3> QED BY <3>2, <3>3
    <2>4. Waits(U)
      BY <2>2, <2>3 DEF Waits
    <2>5. InitStays(U)
      BY <1>1, <1>4 DEF InitStays
    <2>6. \A q \in Pid : q # p => (U[q].tag => T[q].tag)
      BY <1>4
    <2> QED BY <1>8, <1>9, <2>1, <2>4, <2>5, <2>6, Zenon DEF U, Waited
  <1>11. CASE DeadChildren(U, p) # {}
    <2> DEFINE c == FirstDead(U, p)
    <2>1. Table(R) /\ Taken(U, R, c, p)
      BY <1>8, <1>11, Released
    <2>2. c \in Pid \ {p} /\ U[c].status = "dead" /\ c \in Elems(U[p].children)
      BY <1>8, <1>11, FirstFound
    <2> HIDE DEF R, c
    <2>3. T[c].status = "dead"
      BY <1>9, <2>2
    <2>4. ASSUME NEW q \in Pid, q # c
          PROVE  /\ R[q].status = T[q].status \/ (T[q].status = "group" /\ R[q].status = "none")
                 /\ T[q].status # "group" =>
                      /\ R[q].ppid = T[q].ppid /\ R[q].pgid = T[q].pgid
                      /\ R[q].thread = T[q].thread /\ (R[q].tag <=> q # p /\ T[q].tag)
                      /\ Elems(R[q].children) = Elems(T[q].children) \ {c}
      <3>1. /\ U[q].status = T[q].status /\ U[q].ppid = T[q].ppid /\ U[q].pgid = T[q].pgid
            /\ U[q].children = T[q].children
            /\ U[q].thread = T[q].thread /\ (U[q].tag <=> q = p \/ T[q].tag)
        BY <1>4
      <3>2. /\ R[q].status = U[q].status \/ (U[q].status = "group" /\ R[q].status = "none")
            /\ U[q].status # "group" =>
                 /\ R[q].ppid = U[q].ppid /\ R[q].pgid = U[q].pgid
                 /\ R[q].thread = U[q].thread /\ (R[q].tag <=> q # p /\ U[q].tag)
                 /\ Elems(R[q].children) = Elems(U[q].children) \ {c}
        BY <2>1, <2>4 DEF Taken
      <3> QED BY <3>1, <3>2
    <2>5. R[c].status \in {"none", "group"}
      BY <2>1 DEF Taken
    <2>6. ASSUME NEW x \in Pid, R[x].status = "dead"
          PROVE  \E q \in Pid : x \in Elems(R[q].children) /\ R[q].status \in Living /\ ~R[q].tag
      <3>1. x # c
        BY <2>5, <2>6
      <3>2. T[x].status = "dead"
        BY <2>4, <2>6, <3>1
      <3>3. PICK q \in Pid : x \in Elems(T[q].children) /\ T[q].status \in Living /\ ~T[q].tag
        BY <3>2 DEF Waits
      <3>4. q # c
        BY <2>3, <3>3 DEF Living
      <3>5. x \in Elems(R[q].children) /\ R[q].status \in Living /\ ~R[q].tag
        BY <2>4, <3>1, <3>3, <3>4 DEF Living
      <3> QED BY <3>5
    <2>7. ASSUME NEW x \in Pid, R[x].tag, R[x].status = "active" PROVE R[x].children # <<>>
      <3>1. x # c
        BY <2>5, <2>7
      <3>2. x # p /\ T[x].status = "active" /\ T[x].tag
            /\ Elems(R[x].children) = Elems(T[x].children) \ {c}
        BY <2>4, <2>7, <3>1
      <3>3. T[x].children # <<>> /\ T[x].children \in Seq(Pid)
        BY <1>1, <3>2 DEF Waits, Frame
      <3>4. Elems(T[x].children) # {}
        BY <3>3, NoElems
      <3>5. c \notin Elems(T[x].children)
        <4>1. c \in Elems(T[p].children)
          BY <1>9, <2>2
        <4> QED BY <2>2, <3>2, <4>1 DEF Table, Family
      <3> QED BY <3>2, <3>4, <3>5, EmptyList
    <2>8. Waits(R)
      BY <2>6, <2>7 DEF Waits
    <2>9. ASSUME NEW q \in Pid
          PROVE  /\ T[q].status \in Living => R[q].status = T[q].status /\ R[q].thread = T[q].thread
                                              /\ (R[q].tag => T[q].tag) /\ R[q].ppid = T[q].ppid
                                              /\ R[q].pgid = T[q].pgid
                 /\ R[q].status \in Living => T[q].status \in Living
      <3>1. CASE q = c
        BY <2>3, <2>5, <3>1 DEF Living
      <3>2. CASE q # c
        BY <2>4, <3>2 DEF Living
      <3> QED BY <3>1, <3>2
    <2>10. InitStays(R)
      <3>1. T[Init1].status = "active" /\ T[Init1].ppid = 0 /\ T[Init1].pgid = Init1
        BY DEF InitStays
      <3>2. R[Init1].status = "active" /\ R[Init1].ppid = 0 /\ R[Init1].pgid = Init1
        BY <1>1, <2>9, <3>1 DEF Living
      <3> QED BY <3>2 DEF InitStays
    <2> QED BY <2>1, <2>8, <2>9, <2>10, Zenon DEF R, U, Waited
  <1> QED BY <1>10, <1>11, Zenon

-----------------------------------------------------------------------------
(***************************************************************************)
(* The inductive invariant                                                  *)
(***************************************************************************)

\* A process that faulted, or executes a program, is alive and does not wait.
Busy ==
  \A p \in Pid : doing[p] \in {"exec", "load", "fault"} =>
    proc[p].status = "active" /\ ~proc[p].tag /\ p # Init1

\* A message to kill is about a process that faulted and is still there.
Faulted ==
  \A t \in pending : \E p \in Pid : proc[p].thread = t /\ doing[p] = "fault"

Inv ==
  /\ TypeOK
  /\ Table(proc) /\ Waits(proc) /\ InitStays(proc)
  /\ ThreadsAccounted /\ DestroyedOnce
  /\ Busy /\ Faulted

\* spawn makes init, alone.
LEMMA InitInv == Init => Inv
  <1> SUFFICES ASSUME Init PROVE Inv
    OBVIOUS
  <1> DEFINE F == [NoFrame EXCEPT !.status = "active", !.pgid = Init1, !.thread = InitThread]
  <1>1. Init1 \in Pid /\ InitThread \in Tid /\ InitThread # NoThread
    BY ProcessAssumption DEF NoThread
  <1>2. NoFrame \in Frame /\ NoFrame.status = "none" /\ NoFrame.ppid = 0 /\ NoFrame.pgid = 0
        /\ NoFrame.children = <<>> /\ NoFrame.members = {} /\ ~NoFrame.tag
        /\ NoFrame.thread = NoThread
    BY DEF NoFrame, Frame, Statuses
  <1>3. F \in Frame /\ F.status = "active" /\ F.ppid = 0 /\ F.pgid = Init1
        /\ F.children = <<>> /\ F.members = {} /\ ~F.tag /\ F.thread = InitThread
    BY <1>1, <1>2, Zenon DEF Frame, Statuses
  <1>4. proc = [p \in Pid |-> IF p = Init1 THEN F ELSE NoFrame]
    BY DEF Init
  <1> HIDE DEF F
  <1>5. proc \in [Pid -> Frame] /\ proc[Init1] = F /\ \A q \in Pid \ {Init1} : proc[q] = NoFrame
    BY <1>1, <1>2, <1>3, <1>4
  <1>6. \A q \in Pid : /\ proc[q].children = <<>> /\ proc[q].members = {} /\ proc[q].ppid = 0
                       /\ ~proc[q].tag
                       /\ proc[q].status = IF q = Init1 THEN "active" ELSE "none"
                       /\ proc[q].pgid = IF q = Init1 THEN Init1 ELSE 0
                       /\ proc[q].thread = IF q = Init1 THEN InitThread ELSE NoThread
    BY <1>2, <1>3, <1>5
  <1>7. TypeOK
    BY <1>5, Zenon DEF Init, TypeOK
  <1>8. Frames(proc)
    <2> SUFFICES ASSUME NEW q \in Pid
                 PROVE  /\ proc[q].status = "none" => proc[q] = NoFrame
                        /\ proc[q].thread # NoThread => proc[q].status \in Living
                        /\ proc[q].ppid # q
      BY <1>5 DEF Frames
    <2>1. CASE q = Init1
      BY <1>6, <2>1, ProcessAssumption DEF Living
    <2>2. CASE q # Init1
      BY <1>5, <1>6, <2>2, ProcessAssumption
    <2> QED BY <2>1, <2>2
  <1>9. Family(proc)
    BY <1>6, EmptyList, ProcessAssumption DEF Family
  <1>10. Groups(proc)
    <2> SUFFICES ASSUME NEW l \in Pid
                 PROVE  /\ Exists(proc, l) => /\ proc[l].pgid \in Pid /\ Exists(proc, proc[l].pgid)
                                              /\ IsLeader(proc, proc[l].pgid)
                        /\ proc[l].members = {q \in Pid \ {l} : proc[q].pgid = l}
                        /\ proc[l].status = "group" => proc[l].members # {} /\ proc[l].children = <<>>
      BY DEF Groups
    <2>1. Exists(proc, l) => l = Init1
      BY <1>6 DEF Exists
    <2>2. ASSUME NEW q \in Pid \ {l} PROVE proc[q].pgid # l
      BY <1>6, <2>2, ProcessAssumption
    <2>3. proc[l].members = {} /\ proc[l].status # "group"
      BY <1>6
    <2>4. Exists(proc, l) => /\ proc[l].pgid \in Pid /\ Exists(proc, proc[l].pgid)
                             /\ IsLeader(proc, proc[l].pgid)
      BY <1>1, <1>6, <2>1 DEF Exists, IsLeader
    <2> QED BY <2>2, <2>3, <2>4
  <1>11. Waits(proc)
    BY <1>6 DEF Waits
  <1>12. InitStays(proc)
    BY <1>1, <1>6 DEF InitStays
  <1>13. freeTid = Tid \ {InitThread} /\ pending = {} /\ ~stale
         /\ \A p \in Pid : doing[p] = "user" /\ closing[p] = 0
    BY DEF Init
  <1>14. ThreadsAccounted
    <2>1. \A q \in Pid : proc[q].thread # NoThread => /\ q = Init1 /\ proc[q].status = "active"
                                                     /\ proc[q].thread \notin freeTid
      BY <1>6, <1>13
    <2>2. \A q \in Pid : proc[q].status = "active" => proc[q].thread # NoThread
      BY <1>1, <1>6
    <2> QED BY <2>1, <2>2 DEF ThreadsAccounted, Alive
  <1>15. DestroyedOnce
    BY <1>6, <1>13 DEF DestroyedOnce
  <1>16. Busy /\ Faulted
    BY <1>13 DEF Busy, Faulted
  <1> QED BY <1>7, <1>8, <1>9, <1>10, <1>11, <1>12, <1>14, <1>15, <1>16 DEF Inv, Table

\* The end of p begins: Closes, and process_replace that fails.
LEMMA Ending ==
  ASSUME Inv, NEW p \in Pid, proc[p].status = "active",
         p = Init1 => \A q \in Pid \ {Init1} : proc[q].status = "none",
         Dies(proc, proc', p),
         doing' = [doing EXCEPT ![p] = "close"],
         closing' = [closing EXCEPT ![p] = @ + 1],
         freeTid' = freeTid, stale' = stale, pending' \subseteq pending,
         \A t \in pending' : t # proc[p].thread
  PROVE  Inv'
  <1>1. Table(proc) /\ InitStays(proc) /\ Waits(proc)
    BY DEF Inv
  <1>2. Table(proc') /\ InitStays(proc') /\ Waits(proc')
    BY <1>1, DyingKept
  <1>5. /\ \A q \in Pid \ {p} : proc'[q] = proc[q]
        /\ proc'[p].status = "dying" /\ proc'[p].thread \in {proc[p].thread, NoThread}
    BY DEF Dies
  <1>6. /\ doing \in [Pid -> {"user", "fault", "exec", "load", "close"}]
        /\ closing \in [Pid -> Nat] /\ freeTid \subseteq Tid /\ pending \subseteq Tid
        /\ stale \in BOOLEAN
    BY DEF Inv, TypeOK
  <1>7. TypeOK'
    BY <1>2, <1>6 DEF TypeOK, Table, Frames
  <1>8. ThreadsAccounted'
    <2> SUFFICES ASSUME NEW q \in Pid
                 PROVE  /\ proc'[q].thread # NoThread =>
                             /\ proc'[q].status \in {"active", "dying"}
                             /\ proc'[q].thread \notin freeTid'
                        /\ proc'[q].status = "active" => proc'[q].thread # NoThread
                        /\ \A x \in Pid \ {q} : proc'[q].thread # NoThread =>
                             proc'[x].thread # proc'[q].thread
      BY DEF ThreadsAccounted, Alive
    <2>1. \A x \in Pid :
            /\ proc[x].thread # NoThread => /\ proc[x].status \in {"active", "dying"}
                                            /\ proc[x].thread \notin freeTid
            /\ proc[x].status = "active" => proc[x].thread # NoThread
            /\ \A y \in Pid \ {x} : proc[x].thread # NoThread => proc[y].thread # proc[x].thread
      BY DEF Inv, ThreadsAccounted, Alive
    <2>2. \A x \in Pid : /\ proc'[x].thread # NoThread => proc'[x].thread = proc[x].thread
                         /\ proc'[x].status = IF x = p THEN "dying" ELSE proc[x].status
                         /\ x # p => proc'[x].thread = proc[x].thread
      BY <1>5
    <2> QED BY <2>1, <2>2
  <1>9. DestroyedOnce'
    <2>1. ~stale /\ \A q \in Pid : closing[q] = IF proc[q].status = "dying" THEN 1 ELSE 0
      BY DEF Inv, DestroyedOnce
    <2>2. closing'[p] = 1 /\ \A q \in Pid \ {p} : closing'[q] = closing[q]
      BY <1>6, <2>1
    <2>3. \A q \in Pid : closing'[q] = IF proc'[q].status = "dying" THEN 1 ELSE 0
      BY <1>5, <2>1, <2>2
    <2>4. ~stale'
      BY <2>1
    <2> QED BY <2>3, <2>4 DEF DestroyedOnce
  <1>10. doing'[p] = "close" /\ \A q \in Pid \ {p} : doing'[q] = doing[q]
    BY <1>6
  <1>11. Busy'
    <2> SUFFICES ASSUME NEW q \in Pid, doing'[q] \in {"exec", "load", "fault"}
                 PROVE  proc'[q].status = "active" /\ ~proc'[q].tag /\ q # Init1
      BY DEF Busy
    <2>1. q # p /\ doing[q] \in {"exec", "load", "fault"}
      BY <1>10
    <2> QED BY <1>5, <2>1 DEF Inv, Busy
  <1>12. Faulted'
    <2> SUFFICES ASSUME NEW t \in pending'
                 PROVE  \E q \in Pid : proc'[q].thread = t /\ doing'[q] = "fault"
      BY DEF Faulted
    <2>1. PICK q \in Pid : proc[q].thread = t /\ doing[q] = "fault"
      BY DEF Inv, Faulted
    <2>2. q # p
      BY <2>1
    <2> QED BY <1>5, <1>10, <2>1, <2>2
  <1> QED BY <1>2, <1>7, <1>8, <1>9, <1>11, <1>12 DEF Inv

\* Closes, and process_replace that fails, only write the status and the thread.
LEMMA DiesByWrite ==
  ASSUME Table(proc), NEW p \in Pid
  PROVE  /\ Dies(proc, [proc EXCEPT ![p].status = "dying"], p)
         /\ Dies(proc, [proc EXCEPT ![p].thread = NoThread, ![p].status = "dying"], p)
  <1> DEFINE F == [proc[p] EXCEPT !.status = "dying"]
             G == [proc[p] EXCEPT !.thread = NoThread, !.status = "dying"]
             R == [proc EXCEPT ![p].status = "dying"]
             S == [proc EXCEPT ![p].thread = NoThread, ![p].status = "dying"]
  <1>1. proc \in [Pid -> Frame] /\ proc[p] \in Frame /\ "dying" \in Statuses
    BY DEF Table, Frames, Statuses
  <1>2. F \in Frame /\ F.status = "dying" /\ F.ppid = proc[p].ppid /\ F.pgid = proc[p].pgid
        /\ F.children = proc[p].children /\ F.members = proc[p].members /\ (F.tag <=> proc[p].tag)
        /\ F.thread = proc[p].thread
    BY <1>1 DEF Frame
  <1>3. G \in Frame /\ G.status = "dying" /\ G.ppid = proc[p].ppid /\ G.pgid = proc[p].pgid
        /\ G.children = proc[p].children /\ G.members = proc[p].members /\ (G.tag <=> proc[p].tag)
        /\ G.thread = NoThread
    BY <1>1, Zenon DEF Frame
  <1>4. R = [proc EXCEPT ![p] = F] /\ S = [proc EXCEPT ![p] = G]
    BY <1>1, Zenon
  <1> HIDE DEF F, G, R, S
  <1>5. R \in [Pid -> Frame] /\ R[p] = F /\ \A q \in Pid \ {p} : R[q] = proc[q]
    BY <1>1, <1>2, <1>4, PutFrame
  <1>6. S \in [Pid -> Frame] /\ S[p] = G /\ \A q \in Pid \ {p} : S[q] = proc[q]
    BY <1>1, <1>3, <1>4, PutFrame
  <1>7. Dies(proc, R, p)
    BY <1>2, <1>5 DEF Dies
  <1>8. Dies(proc, S, p)
    BY <1>3, <1>6 DEF Dies
  <1> QED BY <1>7, <1>8 DEF R, S

\* What the requests of an active process rely on.
LEMMA ThreadsKnown ==
  ASSUME Inv, NEW p \in Pid
  PROVE  /\ proc[p].status = "active" => proc[p].thread \in Tid
         /\ proc[p].thread \in Tid => /\ proc[p].status \in Living /\ proc[p].thread \notin freeTid
                                      /\ \A q \in Pid : proc[q].thread = proc[p].thread => q = p
  <1>1. proc[p].thread \in Tid \cup {NoThread} /\ NoThread \notin Tid
    BY ProcessAssumption DEF Inv, TypeOK, Frame, NoThread
  <1> QED BY <1>1 DEF Inv, ThreadsAccounted, Alive, Living

\* mm_exit, mm_kill of a fault, postnote() and an exec that cannot load: Closes.
LEMMA ClosesInv ==
  ASSUME Inv, NEW p \in Pid, proc[p].status = "active",
         p = Init1 => \A q \in Pid \ {Init1} : proc[q].status = "none",
         Closes(p), freeTid' = freeTid, stale' = stale, pending' \subseteq pending,
         \A t \in pending' : t # proc[p].thread
  PROVE  Inv'
  <1>1. Dies(proc, proc', p)
    BY DiesByWrite, Zenon DEF Inv, Closes
  <1> QED BY <1>1, Ending, Zenon DEF Closes

\* A process that has not faulted is named by no message to kill.
LEMMA NotNamed ==
  ASSUME Inv, NEW p \in Pid, proc[p].status = "active", doing[p] # "fault"
  PROVE  \A t \in pending : t # proc[p].thread
  <1> SUFFICES ASSUME NEW t \in pending, t = proc[p].thread PROVE FALSE
    OBVIOUS
  <1>1. PICK q \in Pid : proc[q].thread = t /\ doing[q] = "fault"
    BY DEF Inv, Faulted
  <1>2. q = p
    BY <1>1, ThreadsKnown
  <1> QED BY <1>1, <1>2

\* The steps of a fault and of exec that leave the table alone.
LEMMA DoingInv ==
  ASSUME Inv, NEW p \in Pid, proc[p].status = "active", ~proc[p].tag, p # Init1,
         NEW what \in {"user", "exec", "load", "fault"}, doing' = [doing EXCEPT ![p] = what],
         proc' = proc, freeTid' = freeTid, closing' = closing, stale' = stale,
         \/ doing[p] # "fault" /\ pending' = pending
         \/ what = "fault" /\ pending' = pending \cup {proc[p].thread}
  PROVE  Inv'
  <1>1. /\ doing \in [Pid -> {"user", "fault", "exec", "load", "close"}]
        /\ closing \in [Pid -> Nat] /\ freeTid \subseteq Tid /\ pending \subseteq Tid
        /\ stale \in BOOLEAN /\ proc \in [Pid -> Frame]
    BY DEF Inv, TypeOK
  <1>2. doing'[p] = what /\ \A q \in Pid \ {p} : doing'[q] = doing[q]
    BY <1>1
  <1>3. proc[p].thread \in Tid
    BY ThreadsKnown
  <1>4. pending' \subseteq Tid
    BY <1>1, <1>3
  <1>5. TypeOK'
    BY <1>1, <1>4 DEF TypeOK
  <1>6. Table(proc') /\ Waits(proc') /\ InitStays(proc')
    BY DEF Inv
  <1>7. ThreadsAccounted' /\ DestroyedOnce'
    BY DEF Inv, ThreadsAccounted, DestroyedOnce, Alive
  <1>8. Busy'
    BY <1>2 DEF Inv, Busy
  <1>9. Faulted'
    <2> SUFFICES ASSUME NEW t \in pending'
                 PROVE  \E q \in Pid : proc[q].thread = t /\ doing'[q] = "fault"
      BY DEF Faulted
    <2>1. CASE t \in pending
      <3>1. PICK q \in Pid : proc[q].thread = t /\ doing[q] = "fault"
        BY <2>1 DEF Inv, Faulted
      <3>2. CASE q = p
        BY <1>2, <3>1, <3>2
      <3>3. CASE q # p
        BY <1>2, <3>1, <3>3
      <3> QED BY <3>2, <3>3
    <2>2. CASE t \notin pending
      BY <1>2, <2>2
    <2> QED BY <2>1, <2>2
  <1> QED BY <1>5, <1>6, <1>7, <1>8, <1>9 DEF Inv

\* mm_rfork
LEMMA RforkInv ==
  ASSUME Inv, NEW p \in Pid, NEW c \in Pid, NEW t \in Tid,
         NEW nowait \in BOOLEAN, NEW noteg \in BOOLEAN, Rfork(p, c, t, nowait, noteg)
  PROVE  Inv'
  <1>1. /\ proc[p].status = "active" /\ ~proc[p].tag /\ ~Exists(proc, c) /\ t \in freeTid
        /\ freeTid' = freeTid \ {t} /\ doing' = [doing EXCEPT ![c] = "user"]
        /\ closing' = closing /\ pending' = pending /\ stale' = stale
    BY DEF Rfork, Asks
  <1>2. /\ Table(proc') /\ InitStays(proc') /\ Waits(proc')
        /\ proc'[c].status = "active" /\ proc'[c].thread = t
        /\ \A q \in Pid \ {c} : /\ proc'[q].status = proc[q].status
                               /\ proc'[q].thread = proc[q].thread
                               /\ (proc'[q].tag <=> proc[q].tag)
    <2>1. Table(proc) /\ InitStays(proc) /\ Waits(proc)
      BY DEF Inv
    <2>2. proc' = Forked(p, c, t, nowait, noteg)
      BY DEF Rfork, Forked
    <2>3. proc[p].status = "active" /\ ~proc[p].tag /\ ~Exists(proc, c)
      BY <1>1
    <2>4. Added(proc, Forked(p, c, t, nowait, noteg), c, t)
      BY <2>1, <2>3, ForkKept
    <2> QED BY <2>2, <2>4 DEF Added
  <1>3. /\ doing \in [Pid -> {"user", "fault", "exec", "load", "close"}]
        /\ closing \in [Pid -> Nat] /\ freeTid \subseteq Tid /\ pending \subseteq Tid
        /\ stale \in BOOLEAN
    BY DEF Inv, TypeOK
  <1>4. TypeOK'
    BY <1>1, <1>2, <1>3 DEF TypeOK, Table, Frames
  <1>5. doing'[c] = "user" /\ \A q \in Pid \ {c} : doing'[q] = doing[q]
    BY <1>1, <1>3
  <1>6. proc[c].status = "none"
    BY <1>1 DEF Exists
  <1>7. t # NoThread
    BY ProcessAssumption DEF NoThread
  <1>8. \A x \in Pid :
          /\ proc[x].thread # NoThread => /\ proc[x].status \in {"active", "dying"}
                                          /\ proc[x].thread \notin freeTid
          /\ proc[x].status = "active" => proc[x].thread # NoThread
          /\ \A y \in Pid \ {x} : proc[x].thread # NoThread => proc[y].thread # proc[x].thread
    BY DEF Inv, ThreadsAccounted, Alive
  <1>9. ThreadsAccounted'
    <2> SUFFICES ASSUME NEW q \in Pid
                 PROVE  /\ proc'[q].thread # NoThread =>
                             /\ proc'[q].status \in {"active", "dying"}
                             /\ proc'[q].thread \notin freeTid'
                        /\ proc'[q].status = "active" => proc'[q].thread # NoThread
                        /\ \A x \in Pid \ {q} : proc'[q].thread # NoThread =>
                             proc'[x].thread # proc'[q].thread
      BY DEF ThreadsAccounted, Alive
    <2>1. CASE q = c
      <3>1. \A x \in Pid \ {c} : proc'[x].thread # t
        BY <1>1, <1>2, <1>7, <1>8
      <3> QED BY <1>1, <1>2, <1>7, <2>1, <3>1
    <2>2. CASE q # c
      <3>1. proc'[q].thread = proc[q].thread /\ proc'[q].status = proc[q].status
        BY <1>2, <2>2
      <3>2. \A x \in Pid \ {q} : proc'[q].thread # NoThread => proc'[x].thread # proc'[q].thread
        BY <1>1, <1>2, <1>8, <2>2, <3>1
      <3> QED BY <1>1, <1>8, <3>1, <3>2
    <2> QED BY <2>1, <2>2
  <1>10. DestroyedOnce'
    <2>1. ~stale /\ \A q \in Pid : closing[q] = IF proc[q].status = "dying" THEN 1 ELSE 0
      BY DEF Inv, DestroyedOnce
    <2>2. \A q \in Pid : closing'[q] = IF proc'[q].status = "dying" THEN 1 ELSE 0
      BY <1>1, <1>2, <1>6, <2>1
    <2>3. ~stale'
      BY <1>1, <2>1
    <2> QED BY <2>2, <2>3 DEF DestroyedOnce
  <1>11. Busy'
    <2> SUFFICES ASSUME NEW q \in Pid, doing'[q] \in {"exec", "load", "fault"}
                 PROVE  proc'[q].status = "active" /\ ~proc'[q].tag /\ q # Init1
      BY DEF Busy
    <2>1. q # c /\ doing[q] \in {"exec", "load", "fault"}
      BY <1>5
    <2>2. proc[q].status = "active" /\ ~proc[q].tag /\ q # Init1
      BY <2>1 DEF Inv, Busy
    <2> QED BY <1>2, <2>1, <2>2
  <1>12. Faulted'
    <2> SUFFICES ASSUME NEW u \in pending
                 PROVE  \E q \in Pid : proc'[q].thread = u /\ doing'[q] = "fault"
      BY <1>1 DEF Faulted
    <2>1. PICK q \in Pid : proc[q].thread = u /\ doing[q] = "fault"
      BY DEF Inv, Faulted
    <2>2. q # c
      BY <1>6, <2>1 DEF Inv, Busy
    <2> QED BY <1>2, <1>5, <2>1, <2>2
  <1> QED BY <1>2, <1>4, <1>9, <1>10, <1>11, <1>12 DEF Inv

\* mm_wait
LEMMA WaitInv ==
  ASSUME Inv, NEW p \in Pid, MmWait(p)
  PROVE  Inv'
  <1>1. /\ proc[p].status = "active" /\ ~proc[p].tag /\ proc[p].children # <<>> /\ doing[p] = "user"
        /\ freeTid' = freeTid /\ doing' = doing /\ closing' = closing /\ pending' = pending
        /\ stale' = stale
    BY DEF MmWait, Asks
  <1>2. /\ Table(proc') /\ InitStays(proc') /\ Waits(proc')
        /\ \A q \in Pid :
             /\ proc[q].status \in Living => /\ proc'[q].status = proc[q].status
                                             /\ proc'[q].thread = proc[q].thread
                                             /\ (q # p => (proc'[q].tag => proc[q].tag))
             /\ proc'[q].status \in Living => proc[q].status \in Living
    <2>1. Table(proc) /\ InitStays(proc) /\ Waits(proc)
      BY DEF Inv
    <2> DEFINE R == Waited(proc, p)
    <2>2. /\ Table(R) /\ InitStays(R) /\ Waits(R)
          /\ \A q \in Pid :
               /\ proc[q].status \in Living => /\ R[q].status = proc[q].status
                                               /\ R[q].thread = proc[q].thread
                                               /\ (q # p => (R[q].tag => proc[q].tag))
               /\ R[q].status \in Living => proc[q].status \in Living
      BY <1>1, <2>1, WaitKept
    <2>3. proc' = R
      BY DEF MmWait, Waited
    <2> HIDE DEF R
    <2> QED BY <2>2, <2>3
  <1>3. TypeOK'
    BY <1>1, <1>2 DEF Inv, TypeOK, Table, Frames
  <1>4. \A q \in Pid : proc'[q].thread # NoThread => proc'[q].status \in Living
    BY <1>2 DEF Table, Frames
  <1>5. ThreadsAccounted'
    <2>1. \A x \in Pid :
            /\ proc[x].thread # NoThread => proc[x].thread \notin freeTid
            /\ proc[x].status = "active" => proc[x].thread # NoThread
            /\ \A y \in Pid \ {x} : proc[x].thread # NoThread => proc[y].thread # proc[x].thread
      BY DEF Inv, ThreadsAccounted
    <2>2. \A x \in Pid : /\ proc'[x].thread # NoThread => proc'[x].thread = proc[x].thread
                         /\ proc'[x].status = "active" =>
                              proc[x].status = "active" /\ proc'[x].thread = proc[x].thread
      BY <1>2, <1>4 DEF Living
    <2> SUFFICES ASSUME NEW q \in Pid
                 PROVE  /\ proc'[q].thread # NoThread =>
                             /\ proc'[q].status \in {"active", "dying"}
                             /\ proc'[q].thread \notin freeTid'
                        /\ proc'[q].status = "active" => proc'[q].thread # NoThread
                        /\ \A x \in Pid \ {q} : proc'[q].thread # NoThread =>
                             proc'[x].thread # proc'[q].thread
      BY DEF ThreadsAccounted, Alive
    <2> QED BY <1>1, <1>4, <2>1, <2>2, Zenon DEF Living
  <1>6. DestroyedOnce'
    <2>1. ~stale /\ \A q \in Pid : closing[q] = IF proc[q].status = "dying" THEN 1 ELSE 0
      BY DEF Inv, DestroyedOnce
    <2>2. \A q \in Pid : proc'[q].status = "dying" <=> proc[q].status = "dying"
      BY <1>2 DEF Living
    <2>3. \A q \in Pid : closing'[q] = IF proc'[q].status = "dying" THEN 1 ELSE 0
      BY <1>1, <2>1, <2>2
    <2>4. ~stale'
      BY <1>1, <2>1
    <2> QED BY <2>3, <2>4 DEF DestroyedOnce
  <1>7. \A q \in Pid : doing[q] \in {"exec", "load", "fault"} =>
          /\ proc'[q].status = "active" /\ ~proc'[q].tag /\ q # Init1
          /\ proc'[q].thread = proc[q].thread
    <2> SUFFICES ASSUME NEW q \in Pid, doing[q] \in {"exec", "load", "fault"}
                 PROVE  /\ proc'[q].status = "active" /\ ~proc'[q].tag /\ q # Init1
                        /\ proc'[q].thread = proc[q].thread
      OBVIOUS
    <2>1. proc[q].status = "active" /\ ~proc[q].tag /\ q # Init1
      BY DEF Inv, Busy
    <2>2. q # p
      BY <1>1
    <2> QED BY <1>2, <2>1, <2>2 DEF Living
  <1>8. Busy' /\ Faulted'
    BY <1>1, <1>7 DEF Inv, Busy, Faulted
  <1> QED BY <1>2, <1>3, <1>5, <1>6, <1>8 DEF Inv

\* process_destroy, by the one fiber that closed the process
LEMMA DestroyInv ==
  ASSUME Inv, NEW p \in Pid, Destroy(p)
  PROVE  Inv'
  <1>1. /\ closing[p] > 0 /\ closing' = [closing EXCEPT ![p] = @ - 1]
        /\ proc' = ProcessDestroy(proc, p)
        /\ freeTid' = freeTid \cup ({proc[p].thread} \ {NoThread})
        /\ stale' = (stale \/ ~Exists(proc, p) \/ ~Exists(Bequeathed(Dead(proc, p), p), p))
        /\ doing' = doing /\ pending' = pending
    BY DEF Destroy
  <1>2. ~stale /\ \A q \in Pid : closing[q] = IF proc[q].status = "dying" THEN 1 ELSE 0
    BY DEF Inv, DestroyedOnce
  <1>3. proc[p].status = "dying" /\ closing[p] = 1
    BY <1>1, <1>2
  <1>4. /\ Table(proc') /\ InitStays(proc') /\ Waits(proc') /\ Outlived(proc, proc', p)
        /\ Exists(Bequeathed(Dead(proc, p), p), p)
    <2>1. Table(proc) /\ InitStays(proc) /\ Waits(proc)
      BY DEF Inv
    <2> DEFINE R == ProcessDestroy(proc, p)
    <2>2. /\ Table(R) /\ InitStays(R) /\ Waits(R) /\ Outlived(proc, R, p)
          /\ Exists(Bequeathed(Dead(proc, p), p), p)
      BY <1>3, <2>1, DestroyKept, Zenon
    <2>3. proc' = R
      BY <1>1
    <2> HIDE DEF R
    <2> QED BY <2>2, <2>3
  <1>5. \A q \in Pid :
          /\ q # p /\ proc[q].status \in Living =>
               /\ proc'[q].status = proc[q].status /\ proc'[q].thread = proc[q].thread
               /\ (proc'[q].tag => proc[q].tag)
          /\ proc'[q].status \in Living => q # p /\ proc[q].status \in Living
    BY <1>4 DEF Outlived
  <1>6. ~stale'
    <2>1. Exists(proc, p)
      BY <1>3 DEF Exists
    <2> QED BY <1>1, <1>2, <1>4, <2>1, Zenon
  <1>7. /\ doing \in [Pid -> {"user", "fault", "exec", "load", "close"}]
        /\ closing \in [Pid -> Nat] /\ freeTid \subseteq Tid /\ pending \subseteq Tid
        /\ proc[p].thread \in Tid \cup {NoThread}
    BY DEF Inv, TypeOK, Frame
  <1>8. closing'[p] = 0 /\ (\A q \in Pid \ {p} : closing'[q] = closing[q]) /\ closing' \in [Pid -> Nat]
    BY <1>1, <1>3, <1>7
  <1>9. TypeOK'
    <2>1. stale' \in BOOLEAN
      BY <1>1, Zenon
    <2>2. proc' \in [Pid -> Frame]
      BY <1>4 DEF Table, Frames
    <2>3. freeTid' \subseteq Tid
      BY <1>1, <1>7
    <2> QED BY <1>1, <1>7, <1>8, <2>1, <2>2, <2>3 DEF TypeOK
  <1>10. \A q \in Pid : proc'[q].thread # NoThread => proc'[q].status \in Living
    BY <1>4 DEF Table, Frames
  <1>11. ThreadsAccounted'
    <2>1. \A x \in Pid :
            /\ proc[x].thread # NoThread => proc[x].thread \notin freeTid
            /\ proc[x].status = "active" => proc[x].thread # NoThread
            /\ \A y \in Pid \ {x} : proc[x].thread # NoThread => proc[y].thread # proc[x].thread
      BY DEF Inv, ThreadsAccounted
    <2>2. \A x \in Pid : /\ proc'[x].thread # NoThread => proc'[x].thread = proc[x].thread /\ x # p
                         /\ proc'[x].status = "active" =>
                              proc[x].status = "active" /\ proc'[x].thread = proc[x].thread
      BY <1>5, <1>10 DEF Living
    <2> SUFFICES ASSUME NEW q \in Pid
                 PROVE  /\ proc'[q].thread # NoThread =>
                             /\ proc'[q].status \in {"active", "dying"}
                             /\ proc'[q].thread \notin freeTid'
                        /\ proc'[q].status = "active" => proc'[q].thread # NoThread
                        /\ \A x \in Pid \ {q} : proc'[q].thread # NoThread =>
                             proc'[x].thread # proc'[q].thread
      BY DEF ThreadsAccounted, Alive
    <2>3. proc'[q].thread # NoThread => proc'[q].thread \notin freeTid'
      BY <1>1, <2>1, <2>2
    <2>4. proc'[q].thread # NoThread => proc'[q].status \in {"active", "dying"}
      BY <1>10 DEF Living
    <2>5. proc'[q].status = "active" => proc'[q].thread # NoThread
      BY <2>1, <2>2
    <2>6. ASSUME NEW x \in Pid \ {q}, proc'[q].thread # NoThread
          PROVE  proc'[x].thread # proc'[q].thread
      BY <2>1, <2>2, <2>6
    <2> QED BY <2>3, <2>4, <2>5, <2>6
  <1>12. DestroyedOnce'
    <2>1. \A q \in Pid : proc'[q].status = "dying" <=> q # p /\ proc[q].status = "dying"
      BY <1>5 DEF Living
    <2>2. \A q \in Pid : closing'[q] = IF proc'[q].status = "dying" THEN 1 ELSE 0
      BY <1>2, <1>8, <2>1
    <2> QED BY <1>6, <2>2 DEF DestroyedOnce
  <1>13. \A q \in Pid : doing[q] \in {"exec", "load", "fault"} =>
           /\ proc'[q].status = "active" /\ ~proc'[q].tag /\ q # Init1
           /\ proc'[q].thread = proc[q].thread
    <2> SUFFICES ASSUME NEW q \in Pid, doing[q] \in {"exec", "load", "fault"}
                 PROVE  /\ proc'[q].status = "active" /\ ~proc'[q].tag /\ q # Init1
                        /\ proc'[q].thread = proc[q].thread
      OBVIOUS
    <2>1. proc[q].status = "active" /\ ~proc[q].tag /\ q # Init1
      BY DEF Inv, Busy
    <2>2. q # p
      BY <1>3, <2>1
    <2> QED BY <1>5, <2>1, <2>2 DEF Living
  <1>14. Busy' /\ Faulted'
    BY <1>1, <1>13 DEF Inv, Busy, Faulted
  <1> QED BY <1>4, <1>9, <1>11, <1>12, <1>14 DEF Inv

\* Every step of Process keeps the invariant, if postnote() spares the busy.
LEMMA NextInv ==
  ASSUME ~PostnoteBusy, Inv, [Next]_vars
  PROVE  Inv'
  <1>1. ASSUME UNCHANGED vars PROVE Inv'
    BY <1>1 DEF vars, Inv, TypeOK, ThreadsAccounted, Alive, DestroyedOnce, Busy, Faulted
  <1>2. ASSUME NEW p \in Pid, NEW c \in Pid, NEW nowait \in BOOLEAN, NEW noteg \in BOOLEAN,
               RforkFailsLate(p, c, nowait, noteg)
        PROVE  Inv'
    <2>1. proc[p].status = "active" /\ ~Exists(proc, c) /\ Table(proc) /\ InitStays(proc)
      BY <1>2, Zenon DEF RforkFailsLate, Asks, Inv
    <2>2. ProcessDestroy(Duplicated(p, c, nowait, noteg, GroupFor(p, c, noteg)), c) = proc
      BY <2>1, RforkFailsClean, Zenon
    <2>3. UNCHANGED vars
      BY <1>2, <2>2 DEF RforkFailsLate, vars
    <2> QED BY <1>1, <2>3
  <1>3. ASSUME NEW p \in Pid, NEW c \in Pid, NEW g \in Pid \cup {0}, RforkFailsEarly(p, c, g)
        PROVE  Inv'
    <2>1. proc[p].status = "active" /\ ~Exists(proc, c) /\ Table(proc) /\ InitStays(proc)
      BY <1>3 DEF RforkFailsEarly, Asks, Inv
    <2>2. ProcessDestroy([proc EXCEPT ![c] = [NoFrame EXCEPT !.status = "null",
                                                             !.pgid = g]], c) = proc
      BY <2>1, RforkFailsClean, Zenon
    <2>3. UNCHANGED vars
      BY <1>3, <2>2 DEF RforkFailsEarly, vars
    <2> QED BY <1>1, <2>3
  <1>4. ASSUME NEW p \in Pid, MmExit(p) PROVE Inv'
    <2>1. /\ proc[p].status = "active" /\ doing[p] # "fault" /\ Closes(p)
          /\ (p = Init1 => \A q \in Pid \ {Init1} : proc[q].status = "none")
          /\ freeTid' = freeTid /\ stale' = stale /\ pending' = pending
      BY <1>4 DEF MmExit, Asks, Exists
    <2>2. \A t \in pending' : t # proc[p].thread
      BY <2>1, NotNamed
    <2> QED BY <2>1, <2>2, ClosesInv
  <1>5. ASSUME NEW p \in Pid, NEW q \in Pid, MmPostnote(p, q) PROVE Inv'
    <2>1. /\ proc[q].status = "active" /\ doing[q] # "fault" /\ Closes(q) /\ q # Init1
          /\ freeTid' = freeTid /\ stale' = stale /\ pending' = pending
      BY <1>5 DEF MmPostnote
    <2>2. \A t \in pending' : t # proc[q].thread
      BY <2>1, NotNamed
    <2> QED BY <2>1, <2>2, ClosesInv
  <1>6. ASSUME NEW p \in Pid, LoadFails(p) PROVE Inv'
    <2>1. /\ doing[p] = "load" /\ Closes(p)
          /\ freeTid' = freeTid /\ stale' = stale /\ pending' = pending
      BY <1>6 DEF LoadFails
    <2>2. proc[p].status = "active" /\ p # Init1
      BY <2>1 DEF Inv, Busy
    <2>3. \A t \in pending' : t # proc[p].thread
      BY <2>1, <2>2, NotNamed
    <2> QED BY <2>1, <2>2, <2>3, ClosesInv
  <1>7. ASSUME NEW p \in Pid, ReplaceFails(p) PROVE Inv'
    <2>1. /\ doing[p] = "exec" /\ doing' = [doing EXCEPT ![p] = "close"]
          /\ closing' = [closing EXCEPT ![p] = @ + 1]
          /\ freeTid' = freeTid /\ stale' = stale /\ pending' = pending
      BY <1>7 DEF ReplaceFails
    <2>2. proc[p].status = "active" /\ p # Init1
      BY <2>1 DEF Inv, Busy
    <2>3. \A t \in pending' : t # proc[p].thread
      BY <2>1, <2>2, NotNamed
    <2>4. Dies(proc, proc', p)
      BY <1>7, DiesByWrite, Zenon DEF ReplaceFails, Inv
    <2> QED BY <2>1, <2>2, <2>3, <2>4, Ending, Zenon
  <1>8. ASSUME NEW t \in Tid, MmKill(t) PROVE Inv'
    <2>1. PICK p \in Pid : proc[p].thread = t /\ doing[p] = "fault"
      BY <1>8 DEF MmKill, Inv, Faulted
    <2>2. proc[p].status = "active" /\ p # Init1 /\ \A q \in Pid : proc[q].thread = t => q = p
      BY <2>1, ThreadsKnown DEF Inv, Busy
    <2>3. /\ Closes(p) /\ freeTid' = freeTid /\ stale' = stale /\ pending' = pending \ {t}
      BY <1>8, <2>1, <2>2 DEF MmKill
    <2> QED BY <2>1, <2>2, <2>3, ClosesInv
  <1>9. ASSUME NEW p \in Pid, Fault(p) \/ MmExec(p) \/ ExecFails(p) \/ ProcessReplace(p) \/ ExecStarts(p)
        PROVE  Inv'
    <2>1. CASE Fault(p) \/ MmExec(p)
      <3>1. proc[p].status = "active" /\ ~proc[p].tag /\ p # Init1 /\ doing[p] = "user"
        BY <2>1 DEF Fault, MmExec, Asks
      <3>2. CASE Fault(p)
        BY <3>1, <3>2, DoingInv, Zenon DEF Fault
      <3>3. CASE MmExec(p)
        BY <3>1, <3>3, DoingInv, Zenon DEF MmExec
      <3> QED BY <2>1, <3>2, <3>3
    <2>2. CASE ExecFails(p) \/ ProcessReplace(p) \/ ExecStarts(p)
      <3>1. doing[p] \in {"exec", "load"}
        BY <2>2 DEF ExecFails, ProcessReplace, ExecStarts
      <3>2. proc[p].status = "active" /\ ~proc[p].tag /\ p # Init1
        BY <3>1 DEF Inv, Busy
      <3>3. CASE ExecFails(p)
        BY <3>1, <3>2, <3>3, DoingInv, Zenon DEF ExecFails
      <3>4. CASE ProcessReplace(p)
        BY <3>1, <3>2, <3>4, DoingInv, Zenon DEF ProcessReplace
      <3>5. CASE ExecStarts(p)
        BY <3>1, <3>2, <3>5, DoingInv, Zenon DEF ExecStarts
      <3> QED BY <2>2, <3>3, <3>4, <3>5
    <2> QED BY <1>9, <2>1, <2>2
  <1> QED BY <1>1, <1>2, <1>3, <1>4, <1>5, <1>6, <1>7, <1>8, <1>9, RforkInv, WaitInv, DestroyInv DEF Next

-----------------------------------------------------------------------------
\* The invariant of process.c, for any number of processes and threads.
THEOREM Invariance == ASSUME ~PostnoteBusy PROVE Spec => []Inv
  <1>1. Inv /\ [Next]_vars => Inv'
    BY NextInv
  <1> QED BY <1>1, InitInv, PTL DEF Spec

\* Families and groups agree with what every frame says of them, whatever forks,
\* ends and failures of mm_rfork, mm_exec and mm_exit come together.
THEOREM RelationsStayExact == ASSUME ~PostnoteBusy PROVE Spec => []RelationsExact
  <1>1. ASSUME Inv PROVE RelationsExact
    <2>1. TypeOK
      BY <1>1 DEF Inv
    <2>2. FamilyExact
      BY <1>1 DEF Inv, Table, Family, FamilyExact, Alive, Kin, Living
    <2>3. GroupsExact
      BY <1>1 DEF Inv, Table, Groups, GroupsExact
    <2> QED BY <2>1, <2>2, <2>3 DEF RelationsExact
  <1>2. Inv => RelationsExact
    BY <1>1
  <1> QED BY <1>2, Invariance, PTL

\* No end of a process is missed by a parent that waits in mm_wait, and nobody
\* waits without a child.
THEOREM EndsNoticed == ASSUME ~PostnoteBusy PROVE Spec => []NoExitMissed
  <1>1. Inv => NoExitMissed
    BY DEF Inv, Waits, NoExitMissed, Alive, Living
  <1> QED BY <1>1, Invariance, PTL

\* process_destroy runs once for a process, and never on one that is freed.
THEOREM EndsOnce == ASSUME ~PostnoteBusy PROVE Spec => []DestroyedOnce
  <1>1. Inv => DestroyedOnce
    BY DEF Inv
  <1> QED BY <1>1, Invariance, PTL

\* thread_sequence never hands out the id of a thread that a process has.
THEOREM ThreadsNeverShared == ASSUME ~PostnoteBusy PROVE Spec => []ThreadsAccounted
  <1>1. Inv => ThreadsAccounted
    BY DEF Inv
  <1> QED BY <1>1, Invariance, PTL
=============================================================================
