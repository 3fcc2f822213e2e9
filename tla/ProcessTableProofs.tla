------------------------ MODULE ProcessTableProofs ------------------------
(***************************************************************************)
(* What holds of the process table between two requests, and that           *)
(* process_destroy, with all it calls, keeps it.                            *)
(***************************************************************************)
EXTENDS Process, ListsProofs, WellFoundedInduction

Living == {"active", "dying"}
Kin == {"active", "dying", "dead"}

(***************************************************************************)
(* The invariant of the table, stated for any table T so that it also       *)
(* speaks of the tables process_destroy goes through.                       *)
(***************************************************************************)
Frames(T) ==
  /\ T \in [Pid -> Frame]
  /\ \A p \in Pid :
       /\ T[p].status = "none" => T[p] = NoFrame
       /\ T[p].thread # NoThread => T[p].status \in Living
       /\ T[p].ppid # p

Family(T) ==
  \A p, q \in Pid :
    /\ p \in Elems(T[q].children) <=> (T[p].status \in Kin /\ T[p].ppid = q)
    /\ NoDup(T[q].children)
    /\ T[q].children # <<>> => T[q].status \in Living

Groups(T) ==
  \A g \in Pid :
    /\ Exists(T, g) => T[g].pgid \in Pid /\ Exists(T, T[g].pgid) /\ IsLeader(T, T[g].pgid)
    /\ T[g].members = {p \in Pid \ {g} : T[p].pgid = g}
    /\ T[g].status = "group" => T[g].members # {} /\ T[g].children = <<>>

Table(T) == Frames(T) /\ Family(T) /\ Groups(T)

\* Who waits has a child, and no dead one; the dead have a parent.
Waits(T) ==
  \A p \in Pid :
    /\ T[p].status = "dead" =>
         \E q \in Pid : p \in Elems(T[q].children) /\ T[q].status \in Living /\ ~T[q].tag
    /\ T[p].tag /\ T[p].status = "active" => T[p].children # <<>>

\* init is there as long as anybody is.
InitStays(T) ==
  /\ T[Init1].status \in {"none", "active", "dying"}
  /\ T[Init1].status # "none" => T[Init1].ppid = 0 /\ T[Init1].pgid = Init1
  /\ T[Init1].status # "active" => \A q \in Pid \ {Init1} : T[q].status = "none"

-----------------------------------------------------------------------------
(***************************************************************************)
(* Tables                                                                   *)
(***************************************************************************)
\* Writing one frame leaves the others.
LEMMA PutFrame ==
  ASSUME NEW T \in [Pid -> Frame], NEW c \in Pid, NEW F \in Frame,
         NEW R, R = [T EXCEPT ![c] = F]
  PROVE  R \in [Pid -> Frame] /\ R[c] = F /\ \A q \in Pid \ {c} : R[q] = T[q]
  OBVIOUS

\* Two frames with the same fields are the same.
LEMMA SameFrame ==
  ASSUME NEW F \in Frame, NEW G \in Frame,
         F.status = G.status, F.ppid = G.ppid, F.pgid = G.pgid, F.children = G.children,
         F.members = G.members, F.tag <=> G.tag, F.thread = G.thread
  PROVE  F = G
  <1>1. F.tag = G.tag
    <2>1. F.tag \in BOOLEAN /\ G.tag \in BOOLEAN
      BY DEF Frame
    <2> QED BY <2>1
  <1> QED BY <1>1 DEF Frame

(***************************************************************************)
(* _process_destroy_frame                                                   *)
(***************************************************************************)

\* What is left of a frame when c has been taken out of lists and groups.
Left(T, R, c, gone) ==
  \A q \in Pid :
    /\ q \in gone => R[q] = NoFrame
    /\ q \notin gone =>
         /\ R[q] \in Frame
         /\ R[q].status = IF q = c THEN "group" ELSE T[q].status
         /\ R[q].ppid = T[q].ppid /\ R[q].pgid = T[q].pgid /\ R[q].thread = T[q].thread
         /\ R[q].children = ListRemove(T[q].children, c)
         /\ R[q].members = T[q].members \ {c}
         /\ (R[q].tag <=> q # c /\ T[q].tag)

\* _process_destroy_frame of a dead process: its frame goes, unless it leads a
\* group that has members, and so does that of a leader that only waited for it.
LEMMA FrameLeft ==
  ASSUME NEW T, Table(T), NEW c \in Pid, T[c].status = "dead"
  PROVE  LET g == T[c].pgid
             R == DestroyFrame(T, c)
         IN  /\ R \in [Pid -> Frame]
             /\ g \in Pid
             /\ \E gone \in SUBSET Pid :
                  /\ Left(T, R, c, gone)
                  /\ c \in gone <=> ~(g = c /\ T[c].members # {})
                  /\ \A q \in Pid \ {c} : q \in gone <=>
                       q = g /\ T[g].status = "group" /\ T[g].members = {c}
  <1> DEFINE g == T[c].pgid
             R == DestroyFrame(T, c)
             U == [Unbrothered(T, c) EXCEPT ![c].tag = FALSE]
             V == [U EXCEPT ![g].members = @ \ {c}]
  <1>1. T \in [Pid -> Frame] /\ DOMAIN T = Pid
    BY DEF Table, Frames
  <1>2. g \in Pid /\ T[g].status # "none" /\ T[g].pgid = g
    BY DEF Table, Groups, Exists, IsLeader
  <1>3. \A q \in Pid : c \in T[q].members <=> (q # c /\ q = g)
    BY DEF Table, Groups
  <1>4. \A q \in Pid : ListRemove(T[q].children, c) \in Seq(Pid)
    BY <1>1, RemoveUnlinks DEF Table, Family, Frame
  <1>5. /\ U \in [Pid -> Frame]
        /\ \A q \in Pid :
             /\ U[q].status = T[q].status /\ U[q].ppid = T[q].ppid /\ U[q].pgid = T[q].pgid
             /\ U[q].thread = T[q].thread /\ U[q].members = T[q].members
             /\ U[q].children = ListRemove(T[q].children, c)
             /\ (U[q].tag <=> q # c /\ T[q].tag)
    <2> DEFINE B == Unbrothered(T, c)
    <2>1. B = [q \in Pid |-> [T[q] EXCEPT !.children = ListRemove(T[q].children, c)]]
      BY <1>1 DEF Unbrothered
    <2>2. ASSUME NEW q \in Pid
          PROVE  /\ B[q] \in Frame /\ B[q].children = ListRemove(T[q].children, c)
                 /\ B[q].status = T[q].status /\ B[q].ppid = T[q].ppid
                 /\ B[q].pgid = T[q].pgid /\ B[q].thread = T[q].thread
                 /\ B[q].members = T[q].members /\ (B[q].tag <=> T[q].tag)
      <3>1. T[q] \in Frame /\ ListRemove(T[q].children, c) \in Seq(Pid)
        BY <1>1, <1>4
      <3>2. B[q] = [T[q] EXCEPT !.children = ListRemove(T[q].children, c)]
        BY <2>1
      <3> HIDE DEF B
      <3> QED BY <3>1, <3>2 DEF Frame
    <2>3. B \in [Pid -> Frame]
      BY <2>1, <2>2
    <2> HIDE DEF B
    <2>4. U = [B EXCEPT ![c].tag = FALSE]
      BY DEF B
    <2> HIDE DEF U
    <2> DEFINE F == [B[c] EXCEPT !.tag = FALSE]
    <2>5. B[c] \in Frame /\ F = [B[c] EXCEPT !.tag = FALSE] /\ FALSE \in BOOLEAN
      BY <2>2
    <2> HIDE DEF F
    <2>6. F \in Frame /\ ~F.tag /\ F.ppid = B[c].ppid /\ F.pgid = B[c].pgid
          /\ F.status = B[c].status /\ F.children = B[c].children
          /\ F.members = B[c].members /\ F.thread = B[c].thread
      BY <2>5, Zenon DEF Frame
    <2>7. U \in [Pid -> Frame] /\ U[c] = F /\ \A q \in Pid \ {c} : U[q] = B[q]
      BY <2>3, <2>4, <2>6, PutFrame DEF F
    <2> QED BY <2>2, <2>6, <2>7
  <1>6. /\ V \in [Pid -> Frame]
        /\ \A q \in Pid :
             /\ V[q].status = T[q].status /\ V[q].ppid = T[q].ppid /\ V[q].pgid = T[q].pgid
             /\ V[q].thread = T[q].thread
             /\ V[q].members = IF q = g THEN T[q].members \ {c} ELSE T[q].members
             /\ V[q].children = ListRemove(T[q].children, c)
             /\ (V[q].tag <=> q # c /\ T[q].tag)
    <2> HIDE DEF U
    <2> DEFINE F == [U[g] EXCEPT !.members = U[g].members \ {c}]
    <2>1. U[g] \in Frame /\ U[g].members \ {c} \in SUBSET Pid
      BY <1>2, <1>5 DEF Frame
    <2> HIDE DEF F
    <2>2. F \in Frame /\ F.members = U[g].members \ {c} /\ F.ppid = U[g].ppid
          /\ F.pgid = U[g].pgid /\ F.status = U[g].status
          /\ F.children = U[g].children /\ (F.tag <=> U[g].tag) /\ F.thread = U[g].thread
      BY <2>1 DEF F, Frame
    <2>3. V \in [Pid -> Frame] /\ V[g] = F /\ \A q \in Pid \ {g} : V[q] = U[q]
      BY <1>2, <1>5, <2>2, PutFrame, Zenon DEF F
    <2> HIDE DEF V
    <2>4. ASSUME NEW q \in Pid
          PROVE  /\ V[q].status = T[q].status /\ V[q].ppid = T[q].ppid /\ V[q].pgid = T[q].pgid
                 /\ V[q].thread = T[q].thread
                 /\ V[q].members = IF q = g THEN T[q].members \ {c} ELSE T[q].members
                 /\ V[q].children = ListRemove(T[q].children, c)
                 /\ (V[q].tag <=> q # c /\ T[q].tag)
      <3>1. CASE q = g
        BY <1>5, <2>2, <2>3, <3>1
      <3>2. CASE q # g
        <4>1. V[q] = U[q]
          BY <2>3, <3>2
        <4> QED BY <1>5, <3>2, <4>1
      <3> QED BY <3>1, <3>2
    <2> QED BY <2>3, <2>4, Zenon
  <1>7. NoFrame \in Frame
    BY DEF NoFrame, Frame, Statuses
  <1>8. \A q \in Pid : T[q].members \ {c} = IF q # c /\ q = g THEN T[q].members \ {c} ELSE T[q].members
    BY <1>3
  <1> HIDE DEF U, V
  <1>9. CASE g = c /\ T[c].members # {}
    <2>1. R = [U EXCEPT ![c].status = "group"]
      BY <1>5, <1>9 DEF DestroyFrame, IsLeader, U
    <2> HIDE DEF R
    <2> DEFINE F == [U[c] EXCEPT !.status = "group"]
    <2>2. U[c] \in Frame /\ "group" \in Statuses
      BY <1>5 DEF Statuses
    <2>3. F \in Frame /\ F.status = "group" /\ F.ppid = U[c].ppid /\ F.pgid = U[c].pgid
          /\ F.children = U[c].children /\ F.members = U[c].members
          /\ (F.tag <=> U[c].tag) /\ F.thread = U[c].thread
      BY <2>2 DEF Frame
    <2> HIDE DEF F
    <2>4. R \in [Pid -> Frame] /\ R[c] = F /\ \A q \in Pid \ {c} : R[q] = U[q]
      BY <1>5, <2>1, <2>3, PutFrame DEF F
    <2>5. Left(T, R, c, {})
      <3> SUFFICES ASSUME NEW q \in Pid
                   PROVE  /\ R[q] \in Frame
                          /\ R[q].status = IF q = c THEN "group" ELSE T[q].status
                          /\ R[q].ppid = T[q].ppid /\ R[q].pgid = T[q].pgid
                          /\ R[q].thread = T[q].thread
                          /\ R[q].children = ListRemove(T[q].children, c)
                          /\ R[q].members = T[q].members \ {c}
                          /\ (R[q].tag <=> q # c /\ T[q].tag)
        BY DEF Left
      <3> QED BY <1>5, <1>8, <1>9, <2>3, <2>4
    <2> QED BY <1>2, <1>9, <2>4, <2>5 DEF R
  <1>10. CASE g = c /\ T[c].members = {}
    <2>1. R = [U EXCEPT ![c] = NoFrame]
      BY <1>5, <1>10 DEF DestroyFrame, IsLeader, U, DestroyBody
    <2> HIDE DEF R
    <2>2. R \in [Pid -> Frame] /\ R[c] = NoFrame /\ \A q \in Pid \ {c} : R[q] = U[q]
      BY <1>5, <1>7, <2>1
    <2>3. Left(T, R, c, {c})
      BY <1>5, <1>8, <1>10, <2>2 DEF Left
    <2> QED BY <1>2, <1>10, <2>2, <2>3 DEF R
  <1>11. CASE g # c
    <2>1. g # 0 /\ Exists(U, g) /\ ~IsLeader(U, c) /\ U[c].pgid = g
      BY <1>2, <1>5, <1>11, ProcessAssumption DEF Exists, IsLeader
    <2>2. CASE V[g].status = "group" /\ V[g].members = {}
      <3>1. R = [[V EXCEPT ![g] = NoFrame] EXCEPT ![c] = NoFrame]
        BY <2>1, <2>2, Zenon DEF DestroyFrame, U, V, DestroyBody
      <3> HIDE DEF R
      <3>2. R \in [Pid -> Frame] /\ R[c] = NoFrame /\ R[g] = NoFrame
            /\ \A q \in Pid \ {c, g} : R[q] = V[q]
        BY <1>2, <1>6, <1>7, <3>1
      <3>3. Left(T, R, c, {c, g})
        <4>1. ASSUME NEW q \in Pid \ {c, g}
              PROVE  R[q] \in Frame /\ R[q] = V[q] /\ T[q].members \ {c} = T[q].members
          BY <1>8, <3>2
        <4> QED BY <1>6, <3>2, <4>1 DEF Left
      <3>4. T[g].status = "group" /\ T[g].members = {c}
        BY <1>2, <1>3, <1>6, <1>11, <2>2, Zenon
      <3> QED BY <1>2, <1>11, <3>2, <3>3, <3>4 DEF R
    <2>3. CASE ~(V[g].status = "group" /\ V[g].members = {})
      <3>1. R = [V EXCEPT ![c] = NoFrame]
        BY <2>1, <2>3, Zenon DEF DestroyFrame, U, V, DestroyBody
      <3> HIDE DEF R
      <3>2. R \in [Pid -> Frame] /\ R[c] = NoFrame /\ \A q \in Pid \ {c} : R[q] = V[q]
        BY <1>6, <1>7, <3>1
      <3>3. Left(T, R, c, {c})
        <4>1. ASSUME NEW q \in Pid \ {c}
              PROVE  R[q] \in Frame /\ R[q] = V[q]
                     /\ V[q].members = T[q].members \ {c}
          BY <1>6, <1>8, <3>2, Zenon
        <4> QED BY <1>6, <3>2, <4>1 DEF Left
      <3>4. ~(T[g].status = "group" /\ T[g].members = {c})
        BY <1>2, <1>6, <2>3, Zenon
      <3> QED BY <1>2, <1>11, <3>2, <3>3, <3>4 DEF R
    <2> QED BY <2>2, <2>3
  <1> QED BY <1>9, <1>10, <1>11

\* The dead process c is gone, but for a frame that its group needs, and the answer
\* to w, if somebody waited, is on the way; of the others only leaders that were
\* gone already are concerned.
Taken(T, R, c, w) ==
  /\ R[c].status \in {"none", "group"}
  /\ \A q \in Pid \ {c} :
       /\ R[q].status = T[q].status \/ (T[q].status = "group" /\ R[q].status = "none")
       /\ T[q].status # "group" =>
            /\ R[q].ppid = T[q].ppid /\ R[q].pgid = T[q].pgid
            /\ R[q].thread = T[q].thread /\ (R[q].tag <=> q # w /\ T[q].tag)
            /\ Elems(R[q].children) = Elems(T[q].children) \ {c}

\* _process_destroy_frame keeps families and groups exact.
LEMMA FrameGone ==
  ASSUME NEW T, Table(T), NEW c \in Pid, T[c].status = "dead"
  PROVE  Table(DestroyFrame(T, c)) /\ Taken(T, DestroyFrame(T, c), c, 0)
  <1> DEFINE g == T[c].pgid
             R == DestroyFrame(T, c)
  <1>1. PICK gone \in SUBSET Pid :
          /\ Left(T, R, c, gone)
          /\ c \in gone <=> ~(g = c /\ T[c].members # {})
          /\ \A q \in Pid \ {c} : q \in gone <=>
               q = g /\ T[g].status = "group" /\ T[g].members = {c}
    BY FrameLeft
  <1>2. R \in [Pid -> Frame] /\ g \in Pid
    BY FrameLeft
  <1> HIDE DEF R
  <1>3. T \in [Pid -> Frame]
    BY DEF Table, Frames
  <1>4. T[c].children = <<>> /\ T[c].thread = NoThread
    BY DEF Table, Frames, Family, Living
  <1>5. /\ NoFrame.status = "none" /\ NoFrame.children = <<>> /\ NoFrame.members = {}
        /\ NoFrame.pgid = 0 /\ NoFrame.ppid = 0 /\ NoFrame.thread = NoThread
        /\ ~NoFrame.tag
    BY DEF NoFrame
  <1>6. \A q \in Pid : /\ Elems(ListRemove(T[q].children, c)) = Elems(T[q].children) \ {c}
                       /\ NoDup(ListRemove(T[q].children, c))
                       /\ T[q].children = <<>> => ListRemove(T[q].children, c) = <<>>
    <2> TAKE q \in Pid
    <2>1. T[q].children \in Seq(Pid) /\ NoDup(T[q].children)
      BY <1>3 DEF Table, Family, Frame
    <2>2. T[q].children = <<>> => ListRemove(T[q].children, c) = <<>>
      BY EmptyList DEF ListRemove
    <2> QED BY <2>1, <2>2, RemoveUnlinks
  <1>7. \A q \in gone : q # c => T[q].children = <<>> /\ T[q].status = "group"
    BY <1>1, <1>2 DEF Table, Groups
  <1>8. Frames(R)
    <2> SUFFICES ASSUME NEW p \in Pid
                 PROVE  /\ R[p].status = "none" => R[p] = NoFrame
                        /\ R[p].thread # NoThread => R[p].status \in Living
                        /\ R[p].ppid # p
      BY <1>2 DEF Frames
    <2>1. CASE p \in gone
      BY <1>1, <1>5, <2>1, ProcessAssumption DEF Left
    <2>2. CASE p \notin gone /\ p # c
      <3>1. /\ R[p] \in Frame /\ R[p].status = T[p].status
            /\ R[p].ppid = T[p].ppid /\ R[p].pgid = T[p].pgid /\ R[p].thread = T[p].thread
            /\ R[p].children = ListRemove(T[p].children, c)
            /\ R[p].members = T[p].members \ {c} /\ (R[p].tag <=> T[p].tag)
        BY <1>1, <2>2 DEF Left
      <3>2. ASSUME T[p].status = "none" PROVE R[p] = NoFrame
        <4>1. T[p] = NoFrame
          BY <3>2 DEF Table, Frames
        <4>2. R[p].children = <<>> /\ R[p].members = {} /\ ~R[p].tag
          BY <1>5, <1>6, <3>1, <4>1
        <4>3. R[p].tag = FALSE
          <5>1. R[p].tag \in BOOLEAN
            BY <3>1 DEF Frame
          <5> QED BY <4>2, <5>1
        <4> QED BY <1>5, <3>1, <4>1, <4>2, <4>3, Zenon DEF Frame, NoFrame
      <3> QED BY <3>1, <3>2 DEF Table, Frames
    <2>3. CASE p \notin gone /\ p = c
      BY <1>1, <1>4, <2>3 DEF Left, Table, Frames
    <2> QED BY <2>1, <2>2, <2>3
  <1>9. Family(R)
    <2> SUFFICES ASSUME NEW p \in Pid, NEW q \in Pid
                 PROVE  /\ p \in Elems(R[q].children) <=> (R[p].status \in Kin /\ R[p].ppid = q)
                        /\ NoDup(R[q].children)
                        /\ R[q].children # <<>> => R[q].status \in Living
      BY DEF Family
    <2>1. p \in Elems(T[q].children) <=> (T[p].status \in Kin /\ T[p].ppid = q)
      BY DEF Table, Family
    <2>2. T[q].children # <<>> => T[q].status \in Living
      BY DEF Table, Family
    <2>3. CASE q \in gone
      <3>1. R[q].children = <<>> /\ T[q].children = <<>>
        BY <1>1, <1>4, <1>5, <1>7, <2>3 DEF Left
      <3>2. ~(T[p].status \in Kin /\ T[p].ppid = q)
        BY <2>1, <3>1, EmptyList
      <3>3. ~(R[p].status \in Kin /\ R[p].ppid = q)
        BY <1>1, <1>5, <3>2 DEF Left, Kin
      <3> QED BY <3>1, <3>3, EmptyList
    <2>4. CASE q \notin gone
      <3>1. /\ R[q].children = ListRemove(T[q].children, c)
            /\ R[q].status = IF q = c THEN "group" ELSE T[q].status
        BY <1>1, <2>4 DEF Left
      <3>2. Elems(R[q].children) = Elems(T[q].children) \ {c} /\ NoDup(R[q].children)
        BY <1>6, <3>1
      <3>3. R[q].children # <<>> => R[q].status \in Living
        BY <1>4, <1>6, <2>2, <3>1
      <3>4. CASE p \in gone \/ p = c
        <4>1. R[p].status \notin Kin
          BY <1>1, <1>5, <3>4 DEF Left, Kin
        <4>2. p # c => T[p].status \notin Kin
          BY <1>7, <3>4 DEF Kin
        <4> QED BY <2>1, <3>2, <3>3, <4>1, <4>2
      <3>5. CASE p \notin gone /\ p # c
        <4>1. R[p].status = T[p].status /\ R[p].ppid = T[p].ppid
          BY <1>1, <3>5 DEF Left
        <4> QED BY <2>1, <3>2, <3>3, <3>5, <4>1
      <3> QED BY <3>4, <3>5
    <2> QED BY <2>3, <2>4
  <1>10. Groups(R)
    <2>1. \A p \in Pid : T[p].pgid \in Pid => Exists(T, p)
      BY <1>5, ProcessAssumption DEF Table, Frames, Exists
    <2>2. \A p \in gone : p # c => p = g /\ T[p].members = {c} /\ T[p].pgid = p
      BY <1>1, <1>2 DEF Table, Groups, IsLeader, Exists
    <2>3. \A p, l \in Pid : p # l /\ T[p].pgid = l => p \in T[l].members /\ T[l].pgid = l
      BY <2>1 DEF Table, Groups, IsLeader, Exists
    <2> SUFFICES ASSUME NEW l \in Pid
                 PROVE  /\ Exists(R, l) => R[l].pgid \in Pid /\ Exists(R, R[l].pgid) /\ IsLeader(R, R[l].pgid)
                        /\ R[l].members = {p \in Pid \ {l} : R[p].pgid = l}
                        /\ R[l].status = "group" => R[l].members # {} /\ R[l].children = <<>>
      BY DEF Groups
    <2>4. T[l].members = {p \in Pid \ {l} : T[p].pgid = l}
      BY DEF Table, Groups
    <2>5. l \in gone => T[l].members \subseteq {c} /\ (c \in T[l].members => c \in gone)
      <3>1. CASE l = c
        BY <1>1, <2>3, <2>4, <3>1
      <3>2. CASE l # c
        BY <1>1, <2>2, <3>2
      <3> QED BY <3>1, <3>2
    <2>6. \A p \in Pid : R[p].pgid = l <=> p \notin gone /\ T[p].pgid = l
      BY <1>1, <1>5, ProcessAssumption DEF Left
    <2>7. R[l].members = {p \in Pid \ {l} : R[p].pgid = l}
      <3>1. CASE l \in gone
        <4>1. R[l].members = {}
          BY <1>1, <1>5, <3>1 DEF Left
        <4>2. ASSUME NEW p \in Pid \ {l}, R[p].pgid = l PROVE FALSE
          BY <2>4, <2>5, <2>6, <3>1, <4>2
        <4> QED BY <4>1, <4>2
      <3>2. CASE l \notin gone
        <4>1. R[l].members = T[l].members \ {c}
          BY <1>1, <3>2 DEF Left
        <4>2. ASSUME NEW p \in Pid \ {l}, T[p].pgid = l
              PROVE  p \in gone <=> p = c
          BY <1>1, <2>2, <4>2
        <4> QED BY <2>4, <2>6, <4>1, <4>2
      <3> QED BY <3>1, <3>2
    <2>8. ASSUME Exists(R, l)
          PROVE  R[l].pgid \in Pid /\ Exists(R, R[l].pgid) /\ IsLeader(R, R[l].pgid)
      <3>1. l \notin gone /\ R[l].pgid = T[l].pgid /\ T[l].status # "none"
        BY <1>1, <1>5, <2>8 DEF Left, Exists
      <3> DEFINE m == T[l].pgid
      <3>2. m \in Pid /\ T[m].status # "none" /\ T[m].pgid = m
        BY <3>1 DEF Table, Groups, Exists, IsLeader
      <3>3. m \notin gone
        <4>1. CASE l = m
          BY <3>1, <4>1
        <4>2. CASE l # m
          <5>1. l \in T[m].members
            BY <2>3, <3>2, <4>2
          <5>2. CASE m = c
            BY <1>1, <3>2, <5>1, <5>2
          <5>3. CASE m # c
            BY <1>1, <2>2, <3>1, <5>1, <5>3
          <5> QED BY <5>2, <5>3
        <4> QED BY <4>1, <4>2
      <3>4. R[m].pgid = m /\ R[m].status # "none"
        BY <1>1, <3>2, <3>3 DEF Left
      <3> QED BY <3>1, <3>2, <3>4 DEF Exists, IsLeader
    <2>9. ASSUME R[l].status = "group" PROVE R[l].members # {} /\ R[l].children = <<>>
      <3>1. l \notin gone
        BY <1>1, <1>5, <2>9 DEF Left
      <3>2. R[l].members = T[l].members \ {c} /\ R[l].children = ListRemove(T[l].children, c)
            /\ (l # c => T[l].status = "group")
        BY <1>1, <2>9, <3>1 DEF Left
      <3>3. CASE l = c
        BY <1>1, <1>4, <1>6, <2>4, <3>1, <3>2, <3>3
      <3>4. CASE l # c
        <4>1. T[l].members # {} /\ T[l].children = <<>>
          BY <3>2, <3>4 DEF Table, Groups
        <4>2. T[l].members # {c}
          BY <1>1, <2>4, <3>1, <3>2, <3>4
        <4> QED BY <1>6, <3>2, <4>1, <4>2
      <3> QED BY <3>3, <3>4
    <2> QED BY <2>7, <2>8, <2>9
  <1>11. R[c].status \in {"none", "group"}
    BY <1>1, <1>5 DEF Left
  <1>12. ASSUME NEW q \in Pid \ {c}
         PROVE  /\ R[q].status = T[q].status \/ (T[q].status = "group" /\ R[q].status = "none")
                /\ T[q].status # "group" =>
                     /\ R[q].ppid = T[q].ppid /\ R[q].pgid = T[q].pgid
                     /\ R[q].thread = T[q].thread /\ (R[q].tag <=> q # 0 /\ T[q].tag)
                     /\ Elems(R[q].children) = Elems(T[q].children) \ {c}
    <2>1. CASE q \in gone
      BY <1>1, <1>5, <1>7, <2>1 DEF Left
    <2>2. CASE q \notin gone
      BY <1>1, <1>6, <2>2, ProcessAssumption DEF Left
    <2> QED BY <2>1, <2>2
  <1>13. Table(R) /\ Taken(T, R, c, 0)
    BY <1>8, <1>9, <1>10, <1>11, <1>12 DEF Table, Taken
  <1> QED BY <1>13 DEF R

-----------------------------------------------------------------------------
(***************************************************************************)
(* process_release_body                                                     *)
(***************************************************************************)

\* A set of numbers has a smallest one.
LEMMA Smallest ==
  ASSUME NEW S, S \subseteq Nat, S # {}
  PROVE  \E i \in S : \A j \in S : i <= j
  <1> DEFINE L == {ss \in Nat \X Nat : ss[1] < ss[2]}
  <1>1. IsWellFoundedOn(L, Nat)
    BY NatLessThanWellFounded DEF OpToRel
  <1> HIDE DEF L
  <1>2. PICK i \in S : \A j \in S : ~(<<j, i>> \in L)
    BY <1>1, WFMin, Zenon
  <1>3. ASSUME NEW j \in S PROVE i <= j
    <2>1. i \in Nat /\ j \in Nat
      OBVIOUS
    <2>2. j < i => <<j, i>> \in L
      BY <2>1 DEF L
    <2> QED BY <1>2, <2>1, <2>2
  <1> QED BY <1>3

\* The loop of process_release_body finds the first dead child.
LEMMA FirstFound ==
  ASSUME NEW T, Table(T), NEW w \in Pid, DeadChildren(T, w) # {}
  PROVE  /\ \E i \in DeadChildren(T, w) :
              FirstDead(T, w) = T[w].children[i] /\ \A j \in DeadChildren(T, w) : i <= j
         /\ FirstDead(T, w) \in Pid \ {w} /\ T[FirstDead(T, w)].status = "dead"
         /\ FirstDead(T, w) \in Elems(T[w].children) /\ T[w].status \in Living
  <1> DEFINE D == DeadChildren(T, w)
             i == CHOOSE k \in D : \A j \in D : k <= j
  <1>1. T[w].children \in Seq(Pid) /\ Len(T[w].children) \in Nat
    BY DEF Table, Frames, Frame
  <1>2. D \subseteq 1 .. Len(T[w].children) /\ D \subseteq Nat
    BY <1>1 DEF DeadChildren
  <1>3. i \in D /\ \A j \in D : i <= j
    <2> HIDE DEF D
    <2>1. \E k \in D : \A j \in D : k <= j
      BY <1>2, Smallest DEF D
    <2> QED BY <2>1
  <1>4. FirstDead(T, w) = T[w].children[i]
    BY DEF FirstDead
  <1> HIDE DEF i
  <1>5. FirstDead(T, w) \in Pid /\ T[FirstDead(T, w)].status = "dead"
        /\ FirstDead(T, w) \in Elems(T[w].children)
    BY <1>1, <1>2, <1>3, <1>4 DEF DeadChildren, Elems
  <1>6. T[w].status \in Living
    BY <1>5, EmptyList DEF Table, Family
  <1>7. FirstDead(T, w) # w
    BY <1>5, <1>6 DEF Living
  <1> QED BY <1>3, <1>4, <1>5, <1>6, <1>7

\* process_release_body takes the first dead child of w, and w waits no more.
LEMMA Released ==
  ASSUME NEW T, Table(T), NEW w \in Pid, DeadChildren(T, w) # {}
  PROVE  Table(ReleaseBody(T, w)) /\ Taken(T, ReleaseBody(T, w), FirstDead(T, w), w)
  <1> DEFINE c == FirstDead(T, w)
             U == [T EXCEPT ![w].tag = FALSE]
             R == DestroyFrame(U, c)
  <1>1. c \in Pid \ {w} /\ T[c].status = "dead" /\ T[w].status \in Living
    BY FirstFound
  <1>2. T \in [Pid -> Frame] /\ T[w] \in Frame
    BY DEF Table, Frames
  <1> DEFINE F == [T[w] EXCEPT !.tag = FALSE]
  <1>3. F \in Frame /\ F.status = T[w].status /\ F.ppid = T[w].ppid /\ F.pgid = T[w].pgid
        /\ F.children = T[w].children /\ F.members = T[w].members /\ F.thread = T[w].thread
        /\ ~F.tag
    BY <1>2, Zenon DEF Frame
  <1> HIDE DEF F
  <1>4. U \in [Pid -> Frame] /\ U[w] = F /\ \A q \in Pid \ {w} : U[q] = T[q]
    BY <1>2, <1>3, PutFrame DEF F
  <1> HIDE DEF U
  <1>5. \A q \in Pid :
          /\ U[q].status = T[q].status /\ U[q].ppid = T[q].ppid /\ U[q].pgid = T[q].pgid
          /\ U[q].children = T[q].children /\ U[q].members = T[q].members
          /\ U[q].thread = T[q].thread /\ (U[q].tag <=> q # w /\ T[q].tag)
    BY <1>3, <1>4
  <1>6. Frames(U)
    <2>1. T[w].status # "none"
      BY <1>1 DEF Living
    <2> QED BY <1>4, <1>5, <2>1 DEF Table, Frames
  <1>7. Family(U)
    BY <1>5 DEF Table, Family
  <1>8. Groups(U)
    BY <1>5 DEF Table, Groups, Exists, IsLeader
  <1>9. Table(R) /\ Taken(U, R, c, 0)
    BY <1>1, <1>5, <1>6, <1>7, <1>8, FrameGone DEF Table
  <1>10. R = ReleaseBody(T, w)
    BY DEF R, U, ReleaseBody
  <1> HIDE DEF R, c
  <1>11. Taken(T, R, c, w)
    BY <1>1, <1>5, <1>9, ProcessAssumption DEF Taken
  <1> QED BY <1>9, <1>10, <1>11 DEF c

-----------------------------------------------------------------------------
(***************************************************************************)
(* process_destroy, up to the adoption of the children                      *)
(***************************************************************************)

\* list_prepend of one child after the other reverses them.
LEMMA ReversedList ==
  ASSUME NEW S, NEW s \in Seq(S), NoDup(s)
  PROVE  /\ Reversed(s) \in Seq(S) /\ Len(Reversed(s)) = Len(s)
         /\ Elems(Reversed(s)) = Elems(s) /\ NoDup(Reversed(s))
  <1> DEFINE r == Reversed(s)
             n == Len(s)
  <1>1. n \in Nat /\ DOMAIN s = 1..n
    OBVIOUS
  <1>2. r = [i \in 1..n |-> s[n + 1 - i]]
    BY <1>1 DEF Reversed
  <1>3. \A i \in 1..n : n + 1 - i \in 1..n
    BY <1>1
  <1>4. r \in Seq(S) /\ Len(r) = n
    <2> HIDE DEF r
    <2>1. \A i \in 1..n : s[n + 1 - i] \in S
      BY <1>3
    <2>2. r \in [1..n -> S]
      BY <1>2, <2>1
    <2> QED BY <1>1, <2>2
  <1> HIDE DEF r
  <1>5. \A i \in 1..n : r[i] = s[n + 1 - i]
    BY <1>2
  <1> HIDE DEF n
  <1>6. Elems(r) = Elems(s)
    <2>1. ASSUME NEW i \in 1..n PROVE r[i] \in Elems(s)
      BY <1>3, <1>5 DEF Elems, n
    <2>2. ASSUME NEW i \in 1..n PROVE s[i] \in Elems(r)
      <3>1. n + 1 - i \in 1..n /\ n + 1 - (n + 1 - i) = i
        BY <1>1
      <3> QED BY <1>4, <1>5, <3>1 DEF Elems
    <2> QED BY <1>4, <2>1, <2>2, Zenon DEF Elems, n
  <1>7. NoDup(r)
    <2> SUFFICES ASSUME NEW i \in 1..n, NEW j \in 1..n, r[i] = r[j] PROVE i = j
      BY <1>4 DEF NoDup
    <2>1. n + 1 - i = n + 1 - j
      BY <1>3, <1>5, Zenon DEF NoDup, n
    <2> QED BY <1>1, <2>1
  <1> QED BY <1>4, <1>6, <1>7 DEF r, n

\* process_destroy: the thread is gone and the status is dead.
LEMMA DeadFields ==
  ASSUME NEW T, Table(T), NEW p \in Pid, T[p].status = "dying"
  PROVE  LET D == Dead(T, p)
         IN  /\ D \in [Pid -> Frame] /\ \A q \in Pid \ {p} : D[q] = T[q]
             /\ D[p] \in Frame /\ D[p].status = "dead" /\ D[p].ppid = T[p].ppid
             /\ D[p].pgid = T[p].pgid /\ D[p].children = T[p].children
             /\ D[p].members = T[p].members /\ D[p].thread = NoThread /\ (D[p].tag <=> T[p].tag)
  <1> DEFINE D == Dead(T, p)
             F == [T[p] EXCEPT !.status = "dead", !.thread = NoThread]
  <1>1. T \in [Pid -> Frame] /\ T[p] \in Frame /\ "dead" \in Statuses
    BY DEF Table, Frames, Statuses
  <1>2. F \in Frame /\ F.status = "dead" /\ F.ppid = T[p].ppid /\ F.pgid = T[p].pgid
        /\ F.children = T[p].children /\ F.members = T[p].members /\ F.thread = NoThread
        /\ (F.tag <=> T[p].tag)
    BY <1>1, Zenon DEF Frame
  <1>3. D = [T EXCEPT ![p] = F]
    <2>1. [F EXCEPT !.ppid = T[p].ppid] = F
      BY <1>1, Zenon DEF Frame
    <2> QED BY <1>1, <2>1, Zenon DEF Dead
  <1> HIDE DEF F
  <1>4. D \in [Pid -> Frame] /\ D[p] = F /\ \A q \in Pid \ {p} : D[q] = T[q]
    BY <1>1, <1>2, <1>3, PutFrame
  <1> QED BY <1>2, <1>4

\* The table when p has died and its children are those of init.
Inherited(T, U, p) ==
  \A q \in Pid :
    /\ U[q].status = IF q = p THEN "dead" ELSE T[q].status
    /\ U[q].thread = IF q = p THEN NoThread ELSE T[q].thread
    /\ U[q].ppid = IF q \in Elems(T[p].children) THEN Init1 ELSE T[q].ppid
    /\ U[q].pgid = T[q].pgid /\ U[q].members = T[q].members /\ (U[q].tag <=> T[q].tag)
    /\ U[q].children = IF q = p THEN <<>>
                       ELSE IF q = Init1 THEN Reversed(T[p].children) \o T[q].children
                       ELSE T[q].children

\* The loop of process_destroy over the children, when init is there.
LEMMA AdoptedFields ==
  ASSUME NEW T, Table(T), InitStays(T), NEW p \in Pid \ {Init1}, T[p].status = "dying"
  PROVE  LET U == Adopted(Dead(T, p), p)
         IN  U \in [Pid -> Frame] /\ Inherited(T, U, p)
  <1> DEFINE D == Dead(T, p)
             U == Adopted(D, p)
             F == D[p]
  <1>1. T \in [Pid -> Frame] /\ T[p] \in Frame
    BY DEF Table, Frames
  <1>2. F \in Frame /\ F.status = "dead" /\ F.ppid = T[p].ppid /\ F.pgid = T[p].pgid
        /\ F.children = T[p].children /\ F.members = T[p].members /\ F.thread = NoThread
        /\ (F.tag <=> T[p].tag)
    BY DeadFields
  <1>4. D \in [Pid -> Frame] /\ D[p] = F /\ \A q \in Pid \ {p} : D[q] = T[q]
    BY DeadFields
  <1> HIDE DEF F, D
  <1>5. /\ Init1 \in Pid /\ Init1 \notin Elems(T[p].children) /\ p \notin Elems(T[p].children)
        /\ T[p].children \in Seq(Pid) /\ NoDup(T[p].children) /\ T[Init1].children \in Seq(Pid)
    BY <1>1, ProcessAssumption DEF InitStays, Table, Family, Frames, Frame, Kin
  <1>6. Reversed(T[p].children) \o T[Init1].children \in Seq(Pid)
    BY <1>5, ReversedList, JoinedLists
  <1>7. U = [q \in Pid |->
          IF q = p THEN [D[q] EXCEPT !.children = <<>>]
          ELSE IF q = Init1 THEN [D[q] EXCEPT !.children = Reversed(T[p].children) \o T[Init1].children]
          ELSE IF q \in Elems(T[p].children) THEN [D[q] EXCEPT !.ppid = Init1]
          ELSE D[q]]
    BY <1>2, <1>4, <1>5, Zenon DEF Adopted
  <1> HIDE DEF U
  <1>8. ASSUME NEW q \in Pid
        PROVE  /\ U[q] \in Frame
               /\ U[q].status = IF q = p THEN "dead" ELSE T[q].status
               /\ U[q].thread = IF q = p THEN NoThread ELSE T[q].thread
               /\ U[q].ppid = IF q \in Elems(T[p].children) THEN Init1 ELSE T[q].ppid
               /\ U[q].pgid = T[q].pgid /\ U[q].members = T[q].members /\ (U[q].tag <=> T[q].tag)
               /\ U[q].children = IF q = p THEN <<>>
                                  ELSE IF q = Init1 THEN Reversed(T[p].children) \o T[q].children
                                  ELSE T[q].children
    <2>1. D[q] \in Frame /\ <<>> \in Seq(Pid)
      BY <1>4
    <2>2. CASE q = p
      <3>1. U[p] = [F EXCEPT !.children = <<>>]
        BY <1>4, <1>7
      <3> QED BY <1>2, <1>5, <2>1, <2>2, <3>1, Zenon DEF Frame
    <2>3. CASE q = Init1
      <3>1. U[q] = [T[q] EXCEPT !.children = Reversed(T[p].children) \o T[Init1].children]
        BY <1>4, <1>5, <1>7, <2>3, Zenon
      <3> QED BY <1>1, <1>5, <1>6, <2>3, <3>1, Zenon DEF Frame
    <2>4. CASE q \in Elems(T[p].children)
      <3>1. U[q] = [T[q] EXCEPT !.ppid = Init1] /\ q # p /\ q # Init1
        BY <1>4, <1>5, <1>7, <2>4
      <3> QED BY <1>1, <1>5, <2>4, <3>1, Zenon DEF Frame
    <2>5. CASE q # p /\ q # Init1 /\ q \notin Elems(T[p].children)
      <3>1. U[q] = T[q]
        BY <1>4, <1>7, <2>5
      <3> QED BY <1>1, <2>5, <3>1
    <2> QED BY <2>2, <2>3, <2>4, <2>5
  <1>9. U \in [Pid -> Frame]
    BY <1>7, <1>8, Zenon
  <1>10. Inherited(T, U, p)
    BY <1>8 DEF Inherited
  <1> QED BY <1>9, <1>10 DEF U, D

\* After the adoption families and groups are exact again.
LEMMA AdoptedKept ==
  ASSUME NEW T, Table(T), InitStays(T), NEW p \in Pid \ {Init1}, T[p].status = "dying"
  PROVE  LET U == Adopted(Dead(T, p), p)
         IN  /\ Table(U) /\ Inherited(T, U, p)
             /\ \A q \in Pid : Elems(U[q].children) =
                  IF q = p THEN {} ELSE IF q = Init1 THEN Elems(T[p].children) \cup Elems(T[q].children)
                  ELSE Elems(T[q].children)
  <1> DEFINE U == Adopted(Dead(T, p), p)
             kids == T[p].children
  <1>1. U \in [Pid -> Frame] /\ Inherited(T, U, p)
    BY AdoptedFields
  <1> HIDE DEF U
  <1>2. T \in [Pid -> Frame]
    BY DEF Table, Frames
  <1>3. /\ Init1 \in Pid /\ Init1 \notin Elems(kids) /\ p \notin Elems(kids)
        /\ T[Init1].status = "active"
        /\ \A q \in Pid : T[q].children \in Seq(Pid) /\ NoDup(T[q].children)
    BY <1>2, ProcessAssumption DEF InitStays, Table, Family, Frames, Frame, Kin
  <1>4. Elems(kids) \cap Elems(T[Init1].children) = {}
    <2>1. ASSUME NEW x \in Elems(kids) \cap Elems(T[Init1].children) PROVE FALSE
      <3>1. x \in Pid
        BY <1>3 DEF Elems
      <3> QED BY <1>3, <2>1, <3>1 DEF Table, Family
    <2> QED BY <2>1
  <1> DEFINE both == Reversed(kids) \o T[Init1].children
  <1>5. both \in Seq(Pid) /\ Elems(both) = Elems(kids) \cup Elems(T[Init1].children) /\ NoDup(both)
    <2>1. /\ Reversed(kids) \in Seq(Pid) /\ Elems(Reversed(kids)) = Elems(kids)
          /\ NoDup(Reversed(kids))
      BY <1>3, ReversedList
    <2> QED BY <1>3, <1>4, <2>1, JoinedLists
  <1>6. U[Init1].children = both
    BY <1>1, <1>3, Zenon DEF Inherited
  <1> HIDE DEF both
  <1>7. ASSUME NEW q \in Pid
        PROVE  /\ NoDup(U[q].children)
               /\ Elems(U[q].children) =
                    IF q = p THEN {} ELSE IF q = Init1 THEN Elems(T[p].children) \cup Elems(T[q].children)
                    ELSE Elems(T[q].children)
    <2>1. CASE q = p
      BY <1>1, <2>1, EmptyList DEF Inherited
    <2>2. CASE q = Init1
      BY <1>5, <1>6, <2>2, Zenon
    <2>3. CASE q # p /\ q # Init1
      <3>1. U[q].children = T[q].children
        BY <1>1, <2>3 DEF Inherited
      <3> QED BY <1>3, <2>3, <3>1
    <2> QED BY <2>1, <2>2, <2>3
  <1>8. Frames(U)
    <2> SUFFICES ASSUME NEW q \in Pid
                 PROVE  /\ U[q].status = "none" => U[q] = NoFrame
                        /\ U[q].thread # NoThread => U[q].status \in Living
                        /\ U[q].ppid # q
      BY <1>1 DEF Frames
    <2>1. ASSUME U[q].status = "none" PROVE U[q] = NoFrame
      <3>1. T[q].status = "none" /\ q # p /\ q # Init1
        BY <1>1, <1>3, <2>1 DEF Inherited
      <3>2. q \notin Elems(kids)
        BY <3>1 DEF Table, Family, Kin
      <3>3. T[q] = NoFrame
        BY <3>1 DEF Table, Frames
      <3>4. /\ U[q].status = T[q].status /\ U[q].thread = T[q].thread /\ U[q].ppid = T[q].ppid
            /\ U[q].pgid = T[q].pgid /\ U[q].members = T[q].members /\ U[q].children = T[q].children
            /\ (U[q].tag <=> T[q].tag) /\ U[q] \in Frame /\ T[q] \in Frame
        BY <1>1, <1>2, <3>1, <3>2 DEF Inherited
      <3> QED BY <3>3, <3>4, SameFrame
    <2>2. U[q].thread # NoThread => U[q].status \in Living
      BY <1>1 DEF Inherited, Table, Frames
    <2>3. U[q].ppid # q
      BY <1>1, <1>3 DEF Inherited, Table, Frames
    <2> QED BY <2>1, <2>2, <2>3
  <1>9. Family(U)
    <2> SUFFICES ASSUME NEW x \in Pid, NEW q \in Pid
                 PROVE  /\ x \in Elems(U[q].children) <=> (U[x].status \in Kin /\ U[x].ppid = q)
                        /\ U[q].children # <<>> => U[q].status \in Living
      BY <1>7, Zenon DEF Family
    <2>1. \A y \in Pid : x \in Elems(T[y].children) <=> (T[x].status \in Kin /\ T[x].ppid = y)
      BY DEF Table, Family
    <2>2. T[q].children # <<>> => T[q].status \in Living
      BY DEF Table, Family
    <2>3. U[x].status \in Kin <=> T[x].status \in Kin
      BY <1>1 DEF Inherited, Kin
    <2>4. U[x].ppid = IF x \in Elems(T[p].children) THEN Init1 ELSE T[x].ppid
      BY <1>1 DEF Inherited
    <2>5. x \in Elems(U[q].children) <=> (U[x].status \in Kin /\ U[x].ppid = q)
      <3>1. CASE q = p
        BY <1>3, <1>7, <2>1, <2>3, <2>4, <3>1, Zenon
      <3>2. CASE q = Init1
        <4>1. Elems(U[q].children) = Elems(T[p].children) \cup Elems(T[q].children)
          BY <1>7, <3>2, Zenon
        <4> QED BY <1>3, <2>1, <2>3, <2>4, <3>2, <4>1
      <3>3. CASE q # p /\ q # Init1
        <4>1. Elems(U[q].children) = Elems(T[q].children)
          BY <1>7, <3>3, Zenon
        <4> QED BY <1>3, <2>1, <2>3, <2>4, <3>3, <4>1
      <3> QED BY <3>1, <3>2, <3>3
    <2>6. U[q].children # <<>> => U[q].status \in Living
      BY <1>1, <1>3, <2>2 DEF Inherited, Living
    <2> QED BY <2>5, <2>6
  <1>10. Groups(U)
    <2> SUFFICES ASSUME NEW l \in Pid
                 PROVE  /\ Exists(U, l) => U[l].pgid \in Pid /\ Exists(U, U[l].pgid) /\ IsLeader(U, U[l].pgid)
                        /\ U[l].members = {q \in Pid \ {l} : U[q].pgid = l}
                        /\ U[l].status = "group" => U[l].members # {} /\ U[l].children = <<>>
      BY DEF Groups
    <2>1. \A q \in Pid : /\ U[q].pgid = T[q].pgid /\ U[q].members = T[q].members
                         /\ Exists(U, q) <=> Exists(T, q)
      BY <1>1 DEF Inherited, Exists
    <2>2. U[l].status = "group" => T[l].status = "group" /\ U[l].children = T[l].children
      BY <1>1, <1>3 DEF Inherited
    <2> QED BY <2>1, <2>2 DEF Table, Groups, IsLeader
  <1> QED BY <1>1, <1>7, <1>8, <1>9, <1>10, Zenon DEF Table, U

\* Who outlives the end of p keeps running as before, and nobody else runs.
Outlived(T, R, p) ==
  \A q \in Pid :
    /\ q # p /\ T[q].status \in Living =>
         /\ R[q].status = T[q].status /\ R[q].thread = T[q].thread
         /\ R[q].pgid = T[q].pgid /\ (R[q].tag => T[q].tag)
    /\ R[q].status \in Living => q # p /\ T[q].status \in Living

\* Waits, when nobody has been told of the end of p.
WaitsBut(T, p) ==
  \A x \in Pid :
    /\ x # p /\ T[x].status = "dead" =>
         \E q \in Pid : x \in Elems(T[q].children) /\ T[q].status \in Living /\ ~T[q].tag
    /\ T[x].tag /\ T[x].status = "active" => T[x].children # <<>>

\* If init waits, it takes a dead child of p, not p itself.
LEMMA HeirTaken ==
  ASSUME NEW T, Table(T), InitStays(T), NEW p \in Pid \ {Init1}, T[p].status = "dying",
         DeadChildren(Dead(T, p), p) # {}
  PROVE  LET U == Adopted(Dead(T, p), p)
         IN  /\ DeadChildren(U, Init1) # {}
             /\ FirstDead(U, Init1) \in Elems(T[p].children)
             /\ FirstDead(U, Init1) # p
  <1> DEFINE D == Dead(T, p)
             U == Adopted(D, p)
             kids == T[p].children
             r == Reversed(kids)
             s == T[Init1].children
  <1>1. Table(U) /\ Inherited(T, U, p)
    BY AdoptedKept, Zenon
  <1>2. /\ \A q \in Pid \ {p} : D[q] = T[q]
        /\ D[p].children = kids
    BY DeadFields
  <1> HIDE DEF D, U
  <1>3. /\ Init1 \in Pid /\ kids \in Seq(Pid) /\ NoDup(kids) /\ s \in Seq(Pid)
        /\ p \notin Elems(kids)
    BY ProcessAssumption DEF Table, Frames, Frame, Family
  <1>4. /\ r \in Seq(Pid) /\ Len(r) = Len(kids) /\ Elems(r) = Elems(kids)
    BY <1>3, ReversedList
  <1>5. \A i \in 1..Len(kids) : r[i] = kids[Len(kids) + 1 - i]
    BY <1>3 DEF Reversed
  <1>6. U[Init1].children = r \o s
    BY <1>1, <1>3, Zenon DEF Inherited
  <1>7. PICK k \in 1..Len(kids) : T[kids[k]].status = "dead"
    <2>1. PICK k \in 1..Len(kids) : D[kids[k]].status = "dead"
      BY <1>2 DEF DeadChildren, D
    <2>2. kids[k] \in Pid \ {p}
      BY <1>3 DEF Elems
    <2> QED BY <1>2, <2>1, <2>2
  <1> DEFINE m == Len(kids) + 1 - k
  <1> HIDE DEF r, s, kids
  <1>8. m \in 1..Len(r) /\ r[m] = kids[k] /\ Len(r) \in Nat
    <2>1. Len(kids) \in Nat /\ k \in 1..Len(kids)
      BY <1>3
    <2>2. m \in 1..Len(kids) /\ Len(kids) + 1 - m = k
      BY <2>1
    <2> QED BY <1>4, <1>5, <2>1, <2>2
  <1> HIDE DEF m
  <1>9. /\ Len(r \o s) = Len(r) + Len(s) /\ Len(s) \in Nat
        /\ \A i \in 1..Len(r) : (r \o s)[i] = r[i]
    BY <1>3, <1>4
  <1>10. m \in DeadChildren(U, Init1)
    <2>1. U[kids[k]].status = "dead"
      <3>1. kids[k] \in Pid
        BY <1>3, <1>7
      <3> QED BY <1>1, <1>7, <3>1 DEF Inherited
    <2>2. m \in 1..Len(r \o s)
      BY <1>8, <1>9
    <2> QED BY <1>6, <1>8, <1>9, <2>1, <2>2 DEF DeadChildren
  <1>11. PICK i \in DeadChildren(U, Init1) :
           FirstDead(U, Init1) = U[Init1].children[i] /\ \A j \in DeadChildren(U, Init1) : i <= j
    BY <1>1, <1>3, <1>10, FirstFound
  <1>12. i \in 1..Len(r)
    <2>1. i \in 1..Len(r \o s) /\ i <= m
      BY <1>6, <1>10, <1>11 DEF DeadChildren
    <2> QED BY <1>8, <1>9, <2>1
  <1>13. FirstDead(U, Init1) \in Elems(kids)
    BY <1>4, <1>6, <1>9, <1>11, <1>12, Zenon DEF Elems
  <1> QED BY <1>3, <1>10, <1>13 DEF U, D, kids

\* process_destroy, up to the use of process->ppid: p is still there, and of
\* the dead only p may be one that somebody waits for.
LEMMA BequestKept ==
  ASSUME NEW T, Table(T), InitStays(T), Waits(T),
         NEW p \in Pid \ {Init1}, T[p].status = "dying"
  PROVE  LET B == Bequeathed(Dead(T, p), p)
         IN  /\ Table(B) /\ WaitsBut(B, p) /\ Outlived(T, B, p)
             /\ B[p].status = "dead" /\ B[p].ppid = T[p].ppid /\ B[Init1].ppid = 0
  <1> DEFINE D == Dead(T, p)
             U == Adopted(D, p)
             B == Bequeathed(D, p)
             kids == T[p].children
  <1>1. /\ Table(U) /\ Inherited(T, U, p)
        /\ \A q \in Pid : Elems(U[q].children) =
             IF q = p THEN {} ELSE IF q = Init1 THEN Elems(kids) \cup Elems(T[q].children)
             ELSE Elems(T[q].children)
    BY AdoptedKept, Zenon
  <1>2. \A q \in Pid \ {p} : D[q] = T[q]
    BY DeadFields
  <1>3. /\ Init1 \in Pid /\ Init1 # p /\ T[Init1].status = "active" /\ T[Init1].ppid = 0
        /\ p \notin Elems(kids) /\ Init1 \notin Elems(kids)
        /\ \A q \in Pid : T[q].children \in Seq(Pid)
    BY ProcessAssumption DEF InitStays, Table, Frames, Frame, Family
  <1>4. B = IF DeadChildren(D, p) # {} /\ U[Init1].tag THEN ReleaseBody(U, Init1) ELSE U
    <2>1. Exists(D, Init1)
      BY <1>2, <1>3 DEF Exists
    <2> QED BY <1>3, <2>1 DEF Bequeathed
  <1>5. ASSUME NEW x \in Pid, x # p, T[x].status = "dead"
        PROVE  T[x].ppid \in Pid /\ T[T[x].ppid].status \in Living /\ ~T[T[x].ppid].tag
               /\ (T[x].ppid = p <=> x \in Elems(kids))
    BY <1>5 DEF Waits, Table, Family, Kin
  <1>6. ASSUME NEW x \in Pid, T[x].tag, T[x].status = "active"
        PROVE  \E y \in Pid : y \in Elems(T[x].children)
    <2>1. T[x].children # <<>>
      BY <1>6 DEF Waits
    <2>2. PICK y : y \in Elems(T[x].children)
      BY <1>3, <2>1, NoElems, Zenon
    <2> QED BY <1>3, <2>2 DEF Elems
  <1> HIDE DEF U, D
  <1>10. \A q \in Pid :
           /\ U[q].status = IF q = p THEN "dead" ELSE T[q].status
           /\ U[q].ppid = IF q \in Elems(kids) THEN Init1 ELSE T[q].ppid
           /\ U[q].pgid = T[q].pgid /\ (U[q].tag <=> T[q].tag)
           /\ q # p => U[q].thread = T[q].thread
    BY <1>1, Zenon DEF Inherited
  <1>7. ASSUME NEW x \in Pid, U[x].tag, U[x].status = "active"
        PROVE  Elems(T[x].children) # {} /\ Elems(T[x].children) \subseteq Elems(U[x].children)
    <2>1. T[x].tag /\ T[x].status = "active" /\ x # p
      BY <1>1, <1>7, Zenon DEF Inherited
    <2> QED BY <1>1, <1>6, <2>1, Zenon
  <1>8. CASE DeadChildren(D, p) # {} /\ U[Init1].tag
    <2> DEFINE c == FirstDead(U, Init1)
    <2>1. DeadChildren(U, Init1) # {} /\ c \in Elems(kids) /\ c # p
      BY <1>8, HeirTaken DEF U, D
    <2>2. B = ReleaseBody(U, Init1)
      BY <1>4, <1>8
    <2>3. Table(B) /\ Taken(U, B, c, Init1)
      <3>1. Table(ReleaseBody(U, Init1)) /\ Taken(U, ReleaseBody(U, Init1), c, Init1)
        <4> HIDE DEF kids
        <4> QED BY <1>1, <1>3, <2>1, Released, Zenon
      <3> QED BY <2>2, <3>1
    <2>4. c \in Pid /\ U[c].status = "dead"
      BY <1>1, <1>3, <2>1, FirstFound, Zenon
    <2> HIDE DEF B, c, kids
    <2>10. ASSUME NEW q \in Pid, q # c
           PROVE  /\ B[q].status = U[q].status \/ (U[q].status = "group" /\ B[q].status = "none")
                  /\ U[q].status # "group" =>
                       /\ B[q].ppid = U[q].ppid /\ B[q].pgid = U[q].pgid
                       /\ B[q].thread = U[q].thread /\ (B[q].tag <=> q # Init1 /\ U[q].tag)
                       /\ Elems(B[q].children) = Elems(U[q].children) \ {c}
      BY <2>3, <2>10 DEF Taken
    <2>11. B[c].status \in {"none", "group"}
      BY <2>3 DEF Taken
    <2>5. B[p].status = "dead" /\ B[p].ppid = T[p].ppid /\ B[Init1].ppid = 0
      <3>1. U[p].status = "dead" /\ U[p].ppid = T[p].ppid /\ U[Init1].status = "active"
            /\ U[Init1].ppid = 0 /\ Init1 # c
        BY <1>3, <1>10, <2>1
      <3> QED BY <1>3, <2>1, <2>10, <3>1
    <2>6. Outlived(T, B, p)
      <3> SUFFICES ASSUME NEW q \in Pid
                   PROVE  /\ q # p /\ T[q].status \in Living =>
                               /\ B[q].status = T[q].status /\ B[q].thread = T[q].thread
                               /\ B[q].pgid = T[q].pgid /\ (B[q].tag => T[q].tag)
                          /\ B[q].status \in Living => q # p /\ T[q].status \in Living
        BY DEF Outlived
      <3>1. CASE q = c
        <4>1. T[q].status \notin Living /\ B[q].status \notin Living
          BY <1>10, <2>1, <2>4, <2>11, <3>1 DEF Living
        <4> QED BY <4>1
      <3>2. CASE q # c
        <4>1. q # p => U[q].status = T[q].status /\ U[q].thread = T[q].thread
              /\ U[q].pgid = T[q].pgid /\ (U[q].tag <=> T[q].tag)
          BY <1>10
        <4>2. q = p => U[q].status = "dead"
          BY <1>10
        <4> QED BY <2>10, <3>2, <4>1, <4>2 DEF Living
      <3> QED BY <3>1, <3>2
    <2>7. ASSUME NEW x \in Pid, x # p, B[x].status = "dead"
          PROVE  \E q \in Pid : x \in Elems(B[q].children) /\ B[q].status \in Living /\ ~B[q].tag
      <3>1. x # c /\ U[x].status = "dead" /\ T[x].status = "dead"
        <4>1. x # c
          BY <2>7, <2>11
        <4>2. U[x].status = "dead"
          BY <2>7, <2>10, <4>1
        <4> QED BY <1>10, <2>7, <4>1, <4>2
      <3>2. CASE x \in Elems(kids)
        <4>1. x \in Elems(U[Init1].children) /\ U[Init1].status = "active" /\ Init1 # c
          BY <1>1, <1>3, <2>4, <3>2, Zenon DEF Inherited
        <4>2. x \in Elems(B[Init1].children) /\ B[Init1].status = "active" /\ ~B[Init1].tag
          BY <1>3, <2>10, <3>1, <4>1, Zenon
        <4> QED BY <1>3, <4>2 DEF Living
      <3>3. CASE x \notin Elems(kids)
        <4> DEFINE q == T[x].ppid
        <4>1. q \in Pid \ {p} /\ T[q].status \in Living /\ ~T[q].tag
          BY <1>5, <2>7, <3>1, <3>3
        <4>2. x \in Elems(T[q].children)
          BY <3>1, <4>1 DEF Table, Family, Kin
        <4> HIDE DEF q
        <4>3. x \in Elems(U[q].children) /\ U[q].status \in Living /\ ~U[q].tag /\ q # c
          BY <1>1, <2>4, <4>1, <4>2, Zenon DEF Inherited, Living
        <4>4. x \in Elems(B[q].children) /\ B[q].status \in Living /\ ~B[q].tag
          BY <2>10, <3>1, <4>1, <4>3 DEF Living
        <4> QED BY <4>1, <4>4
      <3> QED BY <3>2, <3>3
    <2>8. ASSUME NEW x \in Pid, B[x].tag, B[x].status = "active"
          PROVE  B[x].children # <<>>
      <3>1. x # c /\ x # Init1 /\ U[x].status = "active" /\ U[x].tag
            /\ Elems(B[x].children) = Elems(U[x].children) \ {c}
        BY <2>3, <2>8 DEF Taken
      <3>2. Elems(T[x].children) # {} /\ Elems(T[x].children) \subseteq Elems(U[x].children)
        BY <1>7, <3>1
      <3>3. c \notin Elems(T[x].children) \/ x = p
        BY <2>1, <2>4 DEF Table, Family, kids
      <3>4. x # p
        BY <2>5, <2>8
      <3> QED BY <3>1, <3>2, <3>3, <3>4, EmptyList
    <2>9. WaitsBut(B, p)
      BY <2>7, <2>8 DEF WaitsBut
    <2> QED BY <2>3, <2>5, <2>6, <2>9 DEF B, D
  <1>9. CASE ~(DeadChildren(D, p) # {} /\ U[Init1].tag)
    <2>1. B = U
      BY <1>4, <1>9
    <2>2. U[p].status = "dead" /\ U[p].ppid = T[p].ppid /\ U[Init1].ppid = 0
      BY <1>1, <1>3, Zenon DEF Inherited
    <2>3. Outlived(T, U, p)
      BY <1>1, Zenon DEF Inherited, Outlived, Living
    <2>4. ASSUME NEW x \in Pid, x # p, U[x].status = "dead"
          PROVE  \E q \in Pid : x \in Elems(U[q].children) /\ U[q].status \in Living /\ ~U[q].tag
      <3>1. T[x].status = "dead"
        BY <1>1, <2>4, Zenon DEF Inherited
      <3>2. CASE x \in Elems(kids)
        <4>1. DeadChildren(D, p) # {}
          <5>1. PICK i \in 1..Len(kids) : x = kids[i]
            BY <3>2 DEF Elems
          <5>2. D[p].children = kids
            BY DeadFields DEF D
          <5>3. i \in DeadChildren(D, p)
            BY <1>2, <2>4, <3>1, <5>1, <5>2 DEF DeadChildren
          <5> QED BY <5>3
        <4>2. x \in Elems(U[Init1].children) /\ U[Init1].status = "active" /\ ~U[Init1].tag
          BY <1>1, <1>3, <1>9, <3>2, <4>1, Zenon DEF Inherited
        <4> QED BY <1>3, <4>2 DEF Living
      <3>3. CASE x \notin Elems(kids)
        <4> DEFINE q == T[x].ppid
        <4>1. q \in Pid \ {p} /\ T[q].status \in Living /\ ~T[q].tag
          BY <1>5, <2>4, <3>1, <3>3
        <4>2. x \in Elems(T[q].children)
          BY <3>1, <4>1 DEF Table, Family, Kin
        <4> HIDE DEF q
        <4>3. x \in Elems(U[q].children) /\ U[q].status \in Living /\ ~U[q].tag
          BY <1>1, <4>1, <4>2, Zenon DEF Inherited, Living
        <4> QED BY <4>1, <4>3
      <3> QED BY <3>2, <3>3
    <2>5. WaitsBut(U, p)
      BY <1>7, <2>4, EmptyList DEF WaitsBut
    <2> QED BY <1>1, <2>1, <2>2, <2>3, <2>5, Zenon DEF D
  <1> QED BY <1>8, <1>9

-----------------------------------------------------------------------------
(***************************************************************************)
(* process_destroy                                                          *)
(***************************************************************************)

\* process_destroy from the use of process->ppid on: a parent that waits takes
\* p, and without a parent p goes.
LEMMA ToldKept ==
  ASSUME NEW B, Table(B), NEW p \in Pid, WaitsBut(B, p), B[p].status = "dead"
  PROVE  LET R == Told(B, p)
         IN  /\ Table(R) /\ Waits(R) /\ Outlived(B, R, p)
             /\ \A q \in Pid : B[q].status \in Living => R[q].ppid = B[q].ppid
  <1> DEFINE R == Told(B, p)
             w == B[p].ppid
  <1>1. w \in Pid => p \in Elems(B[w].children) /\ B[w].status \in Living /\ Exists(B, w)
    <2> SUFFICES ASSUME w \in Pid
                 PROVE  p \in Elems(B[w].children) /\ B[w].status \in Living /\ Exists(B, w)
      OBVIOUS
    <2>1. p \in Elems(B[w].children) /\ (B[w].children # <<>> => B[w].status \in Living)
      BY DEF Table, Family, Kin
    <2> QED BY <2>1, EmptyList DEF Exists, Living
  <1>2. w \in Pid \cup {0}
    BY DEF Table, Frames, Frame
  <1>3. R = IF w \in Pid THEN IF B[w].tag THEN ReleaseBody(B, w) ELSE B
            ELSE DestroyFrame(B, p)
    BY <1>1, <1>2, ProcessAssumption DEF Told
  <1>4. ASSUME NEW v, v \in {0, w}, v \in Pid <=> w \in Pid, NEW S, Table(S), Taken(B, S, p, v)
        PROVE  /\ Waits(S) /\ Outlived(B, S, p)
               /\ \A q \in Pid : B[q].status \in Living => S[q].ppid = B[q].ppid
    <2>1. ASSUME NEW q \in Pid, q # p
          PROVE  /\ S[q].status = B[q].status \/ (B[q].status = "group" /\ S[q].status = "none")
                 /\ B[q].status # "group" =>
                      /\ S[q].ppid = B[q].ppid /\ S[q].pgid = B[q].pgid
                      /\ S[q].thread = B[q].thread /\ (S[q].tag <=> q # v /\ B[q].tag)
                      /\ Elems(S[q].children) = Elems(B[q].children) \ {p}
      BY <1>4, <2>1 DEF Taken
    <2>2. S[p].status \in {"none", "group"}
      BY <1>4 DEF Taken
    <2>3. Outlived(B, S, p)
      <3> SUFFICES ASSUME NEW q \in Pid
                   PROVE  /\ q # p /\ B[q].status \in Living =>
                               /\ S[q].status = B[q].status /\ S[q].thread = B[q].thread
                               /\ S[q].pgid = B[q].pgid /\ (S[q].tag => B[q].tag)
                          /\ S[q].status \in Living => q # p /\ B[q].status \in Living
        BY DEF Outlived
      <3> QED BY <2>1, <2>2 DEF Living
    <2>4. \A q \in Pid : B[q].status \in Living => S[q].ppid = B[q].ppid
      BY <2>1 DEF Living
    <2>5. ASSUME NEW x \in Pid, S[x].status = "dead"
          PROVE  \E q \in Pid : x \in Elems(S[q].children) /\ S[q].status \in Living /\ ~S[q].tag
      <3>1. x # p /\ B[x].status = "dead"
        BY <2>1, <2>2, <2>5
      <3>2. PICK q \in Pid : x \in Elems(B[q].children) /\ B[q].status \in Living /\ ~B[q].tag
        BY <3>1 DEF WaitsBut
      <3>3. q # p
        BY <3>2 DEF Living
      <3>4. x \in Elems(S[q].children) /\ S[q].status \in Living /\ ~S[q].tag
        BY <2>1, <3>1, <3>2, <3>3 DEF Living
      <3> QED BY <3>4
    <2>6. ASSUME NEW x \in Pid, S[x].tag, S[x].status = "active" PROVE S[x].children # <<>>
      <3>1. x # p /\ B[x].status = "active" /\ B[x].tag /\ x # v
            /\ Elems(S[x].children) = Elems(B[x].children) \ {p}
        BY <2>1, <2>2, <2>6
      <3>2. B[x].children # <<>> /\ B[x].children \in Seq(Pid)
        BY <3>1 DEF WaitsBut, Table, Frames, Frame
      <3>3. Elems(B[x].children) # {}
        BY <3>2, NoElems
      <3>4. x # w
        BY <1>4, <3>1, ProcessAssumption
      <3>5. p \notin Elems(B[x].children)
        BY <3>4 DEF Table, Family
      <3> QED BY <3>1, <3>3, <3>5, EmptyList
    <2> QED BY <2>3, <2>4, <2>5, <2>6 DEF Waits
  <1>5. CASE w \in Pid /\ B[w].tag
    <2>1. R = ReleaseBody(B, w)
      BY <1>3, <1>5
    <2>2. DeadChildren(B, w) # {}
      <3>1. PICK i \in 1..Len(B[w].children) : p = B[w].children[i]
        BY <1>1, <1>5 DEF Elems
      <3>2. i \in DeadChildren(B, w)
        BY <3>1 DEF DeadChildren
      <3> QED BY <3>2
    <2>3. FirstDead(B, w) = p
      <3> DEFINE c == FirstDead(B, w)
      <3>1. c \in Pid /\ B[c].status = "dead" /\ c \in Elems(B[w].children)
        BY <1>5, <2>2, FirstFound
      <3> HIDE DEF c
      <3>2. ASSUME c # p PROVE FALSE
        <4>1. PICK q \in Pid : c \in Elems(B[q].children) /\ ~B[q].tag
          BY <3>1, <3>2 DEF WaitsBut
        <4>2. q = w
          BY <1>5, <3>1, <4>1 DEF Table, Family
        <4> QED BY <1>5, <4>1, <4>2
      <3> QED BY <3>2 DEF c
    <2>4. Table(ReleaseBody(B, w)) /\ Taken(B, ReleaseBody(B, w), FirstDead(B, w), w)
      BY <1>5, <2>2, Released
    <2> HIDE DEF w, R
    <2> QED BY <1>4, <2>1, <2>3, <2>4 DEF R
  <1>6. CASE w \in Pid /\ ~B[w].tag
    <2>1. R = B
      BY <1>3, <1>6
    <2>2. Waits(B)
      BY <1>1, <1>6 DEF WaitsBut, Waits
    <2>3. Outlived(B, B, p)
      BY DEF Outlived, Living
    <2> QED BY <2>1, <2>2, <2>3
  <1>7. CASE w \notin Pid
    <2>1. R = DestroyFrame(B, p)
      BY <1>3, <1>7
    <2>2. Table(DestroyFrame(B, p)) /\ Taken(B, DestroyFrame(B, p), p, 0)
      BY FrameGone
    <2> HIDE DEF w, R
    <2> QED BY <1>4, <1>7, <2>1, <2>2, ProcessAssumption DEF R
  <1> QED BY <1>5, <1>6, <1>7

\* init ends alone: nothing is left.
LEMMA InitGone ==
  ASSUME NEW T, Table(T), InitStays(T), T[Init1].status = "dying"
  PROVE  LET B == Bequeathed(Dead(T, Init1), Init1)
             R == ProcessDestroy(T, Init1)
         IN  B[Init1].status = "dead" /\ Table(R) /\ \A q \in Pid : R[q].status = "none"
  <1> DEFINE D == Dead(T, Init1)
             B == Bequeathed(D, Init1)
             R == ProcessDestroy(T, Init1)
  <1>1. Init1 \in Pid /\ T \in [Pid -> Frame] /\ T[Init1].ppid = 0 /\ T[Init1].pgid = Init1
        /\ \A q \in Pid \ {Init1} : T[q].status = "none" /\ T[q] = NoFrame
    BY ProcessAssumption DEF InitStays, Table, Frames
  <1>2. NoFrame.pgid = 0 /\ NoFrame.children = <<>> /\ NoFrame.members = {} /\ NoFrame.ppid = 0
        /\ NoFrame.thread = NoThread /\ ~NoFrame.tag /\ NoFrame.status = "none"
    BY DEF NoFrame
  <1>3. T[Init1].children = <<>> /\ T[Init1].members = {}
    <2>1. T[Init1].children \in Seq(Pid)
      BY <1>1 DEF Frame
    <2>2. ASSUME NEW x \in Elems(T[Init1].children) PROVE FALSE
      <3>1. x \in Pid
        BY <2>1 DEF Elems
      <3>2. T[x].status \in Kin /\ T[x].ppid = Init1
        BY <1>1, <3>1 DEF Table, Family
      <3> QED BY <1>1, <3>1, <3>2, ProcessAssumption DEF Kin
    <2>3. T[Init1].children = <<>>
      BY <2>1, <2>2, NoElems
    <2>4. T[Init1].members = {q \in Pid \ {Init1} : T[q].pgid = Init1}
      BY <1>1 DEF Table, Groups
    <2> QED BY <1>1, <1>2, <2>3, <2>4, ProcessAssumption
  <1> DEFINE F == D[Init1]
  <1>4. /\ D \in [Pid -> Frame] /\ \A q \in Pid \ {Init1} : D[q] = T[q]
        /\ F \in Frame /\ F.status = "dead" /\ F.ppid = 0 /\ F.pgid = Init1
        /\ F.children = <<>> /\ F.members = {} /\ F.thread = NoThread
    BY <1>1, <1>3, DeadFields
  <1>5. B = [D EXCEPT ![Init1].children = <<>>]
    BY DEF Bequeathed, Orphaned
  <1>6. B = D
    <2> HIDE DEF D, B
    <2>1. [F EXCEPT !.children = <<>>] = F
      <3> HIDE DEF F
      <3> QED BY <1>4 DEF Frame
    <2>2. B = [D EXCEPT ![Init1] = [F EXCEPT !.children = <<>>]]
      BY <1>5
    <2> QED BY <1>1, <1>4, <2>1, <2>2
  <1> HIDE DEF D, B
  <1>7. D[Init1].status = "dead" /\ D[Init1].ppid = 0 /\ D[Init1].pgid = Init1
        /\ D[Init1].children = <<>> /\ D[Init1].members = {} /\ D[Init1].thread = NoThread
        /\ \A q \in Pid \ {Init1} : D[q] = NoFrame
    BY <1>1, <1>4
  <1>8. Frames(D)
    <2> SUFFICES ASSUME NEW q \in Pid
                 PROVE  /\ D[q].status = "none" => D[q] = NoFrame
                        /\ D[q].thread # NoThread => D[q].status \in Living
                        /\ D[q].ppid # q
      BY <1>4 DEF Frames
    <2> QED BY <1>2, <1>7, ProcessAssumption
  <1>9. Family(D)
    <2> SUFFICES ASSUME NEW x \in Pid, NEW q \in Pid
                 PROVE  /\ x \in Elems(D[q].children) <=> (D[x].status \in Kin /\ D[x].ppid = q)
                        /\ NoDup(D[q].children)
                        /\ D[q].children # <<>> => D[q].status \in Living
      BY DEF Family
    <2>1. D[q].children = <<>>
      BY <1>2, <1>7
    <2>2. ~(D[x].status \in Kin /\ D[x].ppid = q)
      BY <1>2, <1>7, ProcessAssumption
    <2> QED BY <2>1, <2>2, EmptyList
  <1>10. Groups(D)
    <2> SUFFICES ASSUME NEW l \in Pid
                 PROVE  /\ Exists(D, l) => D[l].pgid \in Pid /\ Exists(D, D[l].pgid) /\ IsLeader(D, D[l].pgid)
                        /\ D[l].members = {p \in Pid \ {l} : D[p].pgid = l}
                        /\ D[l].status = "group" => D[l].members # {} /\ D[l].children = <<>>
      BY DEF Groups
    <2>1. D[l].members = {}
      BY <1>2, <1>7
    <2>2. ASSUME NEW p \in Pid \ {l}, D[p].pgid = l PROVE FALSE
      <3>1. CASE p = Init1
        BY <1>7, <2>2, <3>1
      <3>2. CASE p # Init1
        BY <1>2, <1>7, <2>2, <3>2, ProcessAssumption
      <3> QED BY <3>1, <3>2
    <2>3. D[l].status # "group"
      BY <1>2, <1>7
    <2>4. Exists(D, l) => l = Init1
      BY <1>2, <1>7 DEF Exists
    <2>5. Exists(D, l) => D[l].pgid \in Pid /\ Exists(D, D[l].pgid) /\ IsLeader(D, D[l].pgid)
      BY <1>1, <1>7, <2>4 DEF Exists, IsLeader
    <2> QED BY <2>1, <2>2, <2>3, <2>5
  <1>11. Table(D)
    BY <1>8, <1>9, <1>10 DEF Table
  <1>12. R = DestroyFrame(D, Init1)
    BY <1>6, <1>7 DEF ProcessDestroy, Told, B, D
  <1>13. Table(R)
    BY <1>1, <1>7, <1>11, <1>12, FrameGone
  <1>14. PICK gone \in SUBSET Pid : Left(D, R, Init1, gone) /\ Init1 \in gone
    <2>1. \E gone \in SUBSET Pid :
            /\ Left(D, DestroyFrame(D, Init1), Init1, gone)
            /\ Init1 \in gone <=> ~(D[Init1].pgid = Init1 /\ D[Init1].members # {})
      BY <1>1, <1>7, <1>11, FrameLeft
    <2> QED BY <1>7, <1>12, <2>1
  <1> HIDE DEF R
  <1>15. \A q \in Pid : R[q].status = "none"
    BY <1>2, <1>7, <1>14 DEF Left
  <1> QED BY <1>6, <1>7, <1>13, <1>15 DEF B, D, R

\* process_destroy of a process that nobody else destroys.
LEMMA DestroyKept ==
  ASSUME NEW T, Table(T), InitStays(T), Waits(T), NEW p \in Pid, T[p].status = "dying"
  PROVE  LET R == ProcessDestroy(T, p)
         IN  /\ Table(R) /\ InitStays(R) /\ Waits(R) /\ Outlived(T, R, p)
             /\ Exists(Bequeathed(Dead(T, p), p), p)
  <1> DEFINE B == Bequeathed(Dead(T, p), p)
             R == ProcessDestroy(T, p)
  <1>1. CASE p = Init1
    <2>1. B[p].status = "dead" /\ Table(R) /\ \A q \in Pid : R[q].status = "none"
      BY <1>1, InitGone
    <2>2. \A q \in Pid \ {p} : T[q].status = "none"
      BY <1>1 DEF InitStays
    <2> HIDE DEF B, R
    <2>3. InitStays(R) /\ Waits(R)
      BY <2>1, ProcessAssumption DEF InitStays, Waits
    <2>4. Outlived(T, R, p)
      BY <2>1, <2>2 DEF Outlived, Living
    <2> QED BY <2>1, <2>3, <2>4 DEF Exists, B, R
  <1>2. CASE p # Init1
    <2>1. /\ Table(B) /\ WaitsBut(B, p) /\ Outlived(T, B, p)
          /\ B[p].status = "dead" /\ B[p].ppid = T[p].ppid /\ B[Init1].ppid = 0
      BY <1>2, BequestKept
    <2>2. R = Told(B, p)
      BY DEF ProcessDestroy
    <2> HIDE DEF B
    <2>3. /\ Table(R) /\ Waits(R) /\ Outlived(B, R, p)
          /\ \A q \in Pid : B[q].status \in Living => R[q].ppid = B[q].ppid
      BY <2>1, <2>2, ToldKept
    <2> HIDE DEF R
    <2>4. Outlived(T, R, p)
      <3> SUFFICES ASSUME NEW q \in Pid
                   PROVE  /\ q # p /\ T[q].status \in Living =>
                               /\ R[q].status = T[q].status /\ R[q].thread = T[q].thread
                               /\ R[q].pgid = T[q].pgid /\ (R[q].tag => T[q].tag)
                          /\ R[q].status \in Living => q # p /\ T[q].status \in Living
        BY DEF Outlived
      <3>1. CASE q # p /\ T[q].status \in Living
        <4>1. B[q].status = T[q].status /\ B[q].thread = T[q].thread
              /\ B[q].pgid = T[q].pgid /\ (B[q].tag => T[q].tag)
          BY <2>1, <3>1 DEF Outlived
        <4>2. R[q].status = B[q].status /\ R[q].thread = B[q].thread
              /\ R[q].pgid = B[q].pgid /\ (R[q].tag => B[q].tag)
          BY <2>3, <3>1, <4>1 DEF Outlived
        <4> QED BY <3>1, <4>1, <4>2
      <3>2. CASE ~(q # p /\ T[q].status \in Living)
        BY <2>1, <2>3, <3>2 DEF Outlived
      <3> QED BY <3>1, <3>2
    <2>5. InitStays(R)
      <3>1. Init1 \in Pid /\ T[Init1].status = "active" /\ T[Init1].pgid = Init1
        BY <1>2, ProcessAssumption DEF InitStays
      <3>2. R[Init1].status = "active" /\ R[Init1].pgid = Init1
        BY <1>2, <2>4, <3>1 DEF Outlived, Living
      <3>3. B[Init1].status = "active"
        BY <1>2, <2>1, <3>1 DEF Outlived, Living
      <3>4. R[Init1].ppid = 0
        BY <2>1, <2>3, <3>1, <3>3 DEF Living
      <3> QED BY <3>2, <3>4 DEF InitStays
    <2> QED BY <2>1, <2>3, <2>4, <2>5 DEF Exists, B, R
  <1> QED BY <1>1, <1>2

=============================================================================
