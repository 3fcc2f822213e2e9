-------------------------- MODULE KernelIpcProofs --------------------------
(***************************************************************************)
(* The inductive invariant of Kernel, what it says of the lists, the steps  *)
(* of leaving, opening and closing that preserve it, and those of sending,  *)
(* listening, notifying and calling (kernel/ipc.c).                         *)
(***************************************************************************)
EXTENDS Kernel, ListsProofs

Runnable == {"RDY", "RUN"}
Statuses == {"NON", "DMT", "RDY", "RUN", "WAI", "SUS", "WAS"}
WaitTypes == {"none", "call", "send", "reply", "receive", "flag"}

-----------------------------------------------------------------------------
(***************************************************************************)
(* The ready queues r are exact for the status st.                          *)
(***************************************************************************)
RX(r, st) ==
  /\ r \in [Priority -> Seq(Thread)]
  /\ st \in [Thread -> Statuses]
  /\ \A p \in Priority : NoDup(r[p])
  /\ \A p \in Priority, t \in Thread :
       t \in Elems(r[p]) <=> p = Prio[t] /\ st[t] \in Runnable

\* ready_enqueue of a thread that becomes runnable keeps the queues exact.
LEMMA EnreadyExact ==
  ASSUME NEW r, NEW st, RX(r, st), NEW t \in Thread, NEW s \in Runnable,
         st[t] \notin Runnable
  PROVE  RX(Enready(r, t), [st EXCEPT ![t] = s])
  <1> DEFINE p0 == Prio[t]  q0 == ListEnqueue(r[p0], t)
  <1>1. p0 \in Priority /\ r[p0] \in Seq(Thread)
    BY PrioAssumption, ZenonT(30) DEF RX
  <1>2. t \notin Elems(r[p0]) /\ NoDup(r[p0])
    BY <1>1 DEF RX
  <1>3. q0 \in Seq(Thread) /\ Elems(q0) = Elems(r[p0]) \cup {t} /\ NoDup(q0)
    BY <1>1, <1>2, EnqueueLinks
  <1>4. Enready(r, t) = [r EXCEPT ![p0] = q0]
    BY DEF Enready
  <1> HIDE DEF q0
  <1> QED BY <1>1, <1>3, <1>4 DEF RX, Runnable, Statuses

\* list_remove(&queue) of a thread that stops being runnable, too.
LEMMA UnreadyExact ==
  ASSUME NEW r, NEW st, RX(r, st), NEW t \in Thread, NEW s \in Statuses \ Runnable
  PROVE  RX(Unready(r, t), [st EXCEPT ![t] = s])
  <1> DEFINE p0 == Prio[t]  q0 == ListRemove(r[p0], t)
  <1>1. p0 \in Priority /\ r[p0] \in Seq(Thread) /\ NoDup(r[p0])
    BY PrioAssumption, ZenonT(30) DEF RX
  <1>3. q0 \in Seq(Thread) /\ Elems(q0) = Elems(r[p0]) \ {t} /\ NoDup(q0)
    BY <1>1, RemoveUnlinks
  <1>4. Unready(r, t) = [r EXCEPT ![p0] = q0]
    BY DEF Unready
  <1> HIDE DEF q0
  <1> QED BY <1>1, <1>3, <1>4 DEF RX, Runnable

\* A change of status between runnable ones or between the others needs none.
LEMMA SameExact ==
  ASSUME NEW r, NEW st, RX(r, st), NEW t \in Thread, NEW s \in Statuses,
         s \in Runnable <=> st[t] \in Runnable
  PROVE  RX(r, [st EXCEPT ![t] = s])
  BY DEF RX

\* release() of a thread that waits keeps the queues exact.
LEMMA WokenExact ==
  ASSUME NEW r, NEW st, RX(r, st), NEW t \in Thread, st[t] \in {"WAI", "WAS"}
  PROVE  RX(WokenReady(st, r, t), Woken(st, t))
  <1>1. CASE st[t] = "WAI"
    <2>1. Woken(st, t) = [st EXCEPT ![t] = "RDY"]
      BY <1>1 DEF Woken, RX
    <2>2. WokenReady(st, r, t) = Enready(r, t)
      BY <1>1 DEF WokenReady
    <2>3. st[t] \notin Runnable /\ "RDY" \in Runnable
      BY <1>1 DEF Runnable
    <2>4. RX(Enready(r, t), [st EXCEPT ![t] = "RDY"])
      BY <2>3, EnreadyExact
    <2> QED BY <2>1, <2>2, <2>4
  <1>2. CASE st[t] = "WAS"
    <2>1. Woken(st, t) = [st EXCEPT ![t] = "SUS"]
      BY <1>2 DEF Woken, RX
    <2>2. WokenReady(st, r, t) = r
      BY <1>2 DEF WokenReady
    <2>3. "SUS" \in Statuses /\ "SUS" \notin Runnable /\ st[t] \notin Runnable
      BY <1>2 DEF Runnable, Statuses
    <2>4. RX(r, [st EXCEPT ![t] = "SUS"])
      BY <2>3, SameExact
    <2> QED BY <2>1, <2>2, <2>4
  <1> QED BY <1>1, <1>2

\* ready_dequeue finds a thread that is runnable when some thread is.
LEMMA HighestRunnable ==
  ASSUME NEW r, NEW st, RX(r, st), st[Idle] \in Runnable
  PROVE  Highest(r) \in Thread /\ st[Highest(r)] \in Runnable
  <1> DEFINE S == {p \in Priority : r[p] # <<>>}
             P(p) == r[p] # <<>> /\ \A q \in Priority : q < p => r[q] = <<>>
             p1 == CHOOSE p \in Priority : P(p)
  <1>1. Prio[Idle] \in Priority /\ Idle \in Elems(r[Prio[Idle]])
    BY PrioAssumption, ZenonT(30) DEF RX, Thread
  <1>2. Prio[Idle] \in S
    BY <1>1, EmptyList
  <1>3. \E p \in Priority : P(p)
    <2>1. PICK p \in S : \A q \in S : p <= q
      BY <1>2, PrioAssumption, ZenonT(30)
    <2>2. p \in Priority /\ r[p] # <<>>
      BY <2>1
    <2>3. ASSUME NEW q \in Priority, q < p PROVE r[q] = <<>>
      BY <2>1, <2>2, <2>3, PrioAssumption
    <2> QED BY <2>2, <2>3
  <1>4. p1 \in Priority /\ P(p1)
    BY <1>3
  <1>5. Highest(r) = Head(r[p1])
    BY DEF Highest
  <1> HIDE DEF p1
  <1>6. r[p1] \in Seq(Thread) /\ r[p1] # <<>>
    BY <1>4 DEF RX
  <1>7. Head(r[p1]) \in Thread /\ Head(r[p1]) \in Elems(r[p1])
    BY <1>6, DequeueUnlinks
  <1> QED BY <1>4, <1>5, <1>7 DEF RX

-----------------------------------------------------------------------------
(***************************************************************************)
(* The queues of callers c, and of receivers rc, are exact for the wait     *)
(* types wt.                                                                *)
(***************************************************************************)
CQ(c, wt) ==
  /\ c \in [Thread -> Seq(Thread)]
  /\ wt \in [Thread -> WaitTypes]
  /\ \A p \in Thread : NoDup(c[p])
  /\ \A t, p \in Thread : t \in Elems(c[p]) => wt[t] \in {"call", "send"}
  /\ \A t \in Thread : wt[t] \in {"call", "send"} => \E p \in Thread : t \in Elems(c[p])
  /\ \A t, p, q \in Thread : t \in Elems(c[p]) /\ t \in Elems(c[q]) => p = q

RQ(rc, wt) ==
  /\ rc \in [Thread -> Seq(Thread)]
  /\ wt \in [Thread -> WaitTypes]
  /\ \A p \in Thread : NoDup(rc[p])
  /\ \A t, p \in Thread : t \in Elems(rc[p]) => t = p /\ wt[t] = "receive"
  /\ \A t \in Thread : wt[t] = "receive" => t \in Elems(rc[t])

\* A thread that joins the callers of p with a call or a send.
LEMMA CallerEnqueued ==
  ASSUME NEW c, NEW wt, CQ(c, wt), NEW p \in Thread, NEW t \in Thread,
         NEW w \in {"call", "send"}, wt[t] \notin {"call", "send"}
  PROVE  CQ([c EXCEPT ![p] = ListEnqueue(@, t)], [wt EXCEPT ![t] = w])
  <1> DEFINE q == ListEnqueue(c[p], t)
  <1>1. c[p] \in Seq(Thread) /\ NoDup(c[p]) /\ \A x \in Thread : t \notin Elems(c[x])
    BY DEF CQ
  <1>2. q \in Seq(Thread) /\ Elems(q) = Elems(c[p]) \cup {t} /\ NoDup(q)
    BY <1>1, EnqueueLinks
  <1> HIDE DEF q
  <1>3. SUFFICES CQ([c EXCEPT ![p] = q], [wt EXCEPT ![t] = w])
    BY DEF q
  <1> DEFINE c2 == [c EXCEPT ![p] = q]
             wt2 == [wt EXCEPT ![t] = w]
  <1>4. /\ c2 \in [Thread -> Seq(Thread)] /\ wt2 \in [Thread -> WaitTypes]
        /\ c2[p] = q /\ \A x \in Thread \ {p} : c2[x] = c[x]
        /\ wt2[t] = w /\ \A x \in Thread \ {t} : wt2[x] = wt[x]
    BY <1>1, <1>2 DEF CQ, WaitTypes
  <1> HIDE DEF c2, wt2
  <1>5. \A x \in Thread : NoDup(c2[x])
    BY <1>1, <1>2, <1>4, ZenonT(30) DEF CQ
  <1>6. \A x, y \in Thread : x \in Elems(c2[y]) => wt2[x] \in {"call", "send"}
    BY <1>1, <1>2, <1>4, ZenonT(30) DEF CQ
  <1>7. \A x \in Thread : wt2[x] \in {"call", "send"} => \E y \in Thread : x \in Elems(c2[y])
    BY <1>1, <1>2, <1>4, ZenonT(30) DEF CQ
  <1>8. \A x, y, z \in Thread : x \in Elems(c2[y]) /\ x \in Elems(c2[z]) => y = z
    BY <1>1, <1>2, <1>4, ZenonT(30) DEF CQ
  <1>9. CQ(c2, wt2)
    BY <1>4, <1>5, <1>6, <1>7, <1>8 DEF CQ
  <1> QED BY <1>9 DEF c2, wt2

\* A caller of p that is unlinked, and whose wait type says so.
LEMMA CallerReplaced ==
  ASSUME NEW c, NEW wt, CQ(c, wt), NEW p \in Thread, NEW t \in Elems(c[p]),
         NEW w \in WaitTypes \ {"call", "send"}, NEW q \in Seq(Thread),
         NoDup(q), Elems(q) = Elems(c[p]) \ {t}
  PROVE  t \in Thread /\ CQ([c EXCEPT ![p] = q], [wt EXCEPT ![t] = w])
  <1>1. t \in Thread
    BY DEF CQ, Elems
  <1> DEFINE c2 == [c EXCEPT ![p] = q]
             wt2 == [wt EXCEPT ![t] = w]
  <1>4. /\ c2 \in [Thread -> Seq(Thread)] /\ wt2 \in [Thread -> WaitTypes]
        /\ c2[p] = q /\ \A x \in Thread \ {p} : c2[x] = c[x]
        /\ wt2[t] = w /\ \A x \in Thread \ {t} : wt2[x] = wt[x]
    BY <1>1 DEF CQ, WaitTypes
  <1> HIDE DEF c2, wt2
  <1>5. \A x \in Thread : NoDup(c2[x])
    BY <1>1, <1>4, ZenonT(30) DEF CQ
  <1>6. \A x, y \in Thread : x \in Elems(c2[y]) => wt2[x] \in {"call", "send"}
    BY <1>1, <1>4, ZenonT(30) DEF CQ
  <1>7. \A x \in Thread : wt2[x] \in {"call", "send"} => \E y \in Thread : x \in Elems(c2[y])
    BY <1>1, <1>4, ZenonT(30) DEF CQ
  <1>8. \A x, y, z \in Thread : x \in Elems(c2[y]) /\ x \in Elems(c2[z]) => y = z
    BY <1>1, <1>4, ZenonT(30) DEF CQ
  <1>9. CQ(c2, wt2)
    BY <1>4, <1>5, <1>6, <1>7, <1>8 DEF CQ
  <1> QED BY <1>1, <1>9 DEF c2, wt2

\* ipc_receive unlinks a caller of p by list_remove.
LEMMA CallerRemoved ==
  ASSUME NEW c, NEW wt, CQ(c, wt), NEW p \in Thread, NEW t \in Elems(c[p]),
         NEW w \in WaitTypes \ {"call", "send"}
  PROVE  t \in Thread /\ CQ([c EXCEPT ![p] = ListRemove(@, t)], [wt EXCEPT ![t] = w])
  <1>1. c[p] \in Seq(Thread) /\ NoDup(c[p])
    BY DEF CQ
  <1>2. /\ ListRemove(c[p], t) \in Seq(Thread) /\ NoDup(ListRemove(c[p], t))
        /\ Elems(ListRemove(c[p], t)) = Elems(c[p]) \ {t}
    BY <1>1, RemoveUnlinks
  <1> QED BY <1>2, CallerReplaced

\* release_all unlinks the first caller of p.
LEMMA CallerDequeued ==
  ASSUME NEW c, NEW wt, CQ(c, wt), NEW p \in Thread, c[p] # <<>>,
         NEW w \in WaitTypes \ {"call", "send"}
  PROVE  /\ Head(c[p]) \in Thread
         /\ CQ([c EXCEPT ![p] = ListDequeue(@)], [wt EXCEPT ![Head(c[p])] = w])
  <1>1. c[p] \in Seq(Thread) /\ NoDup(c[p])
    BY DEF CQ
  <1>2. /\ ListDequeue(c[p]) \in Seq(Thread) /\ NoDup(ListDequeue(c[p]))
        /\ Elems(ListDequeue(c[p])) = Elems(c[p]) \ {Head(c[p])}
        /\ Head(c[p]) \in Elems(c[p])
    BY <1>1, DequeueUnlinks
  <1> QED BY <1>2, CallerReplaced

\* A thread that is unlinked from wherever it is (thread_terminate).
LEMMA CallerUnlinked ==
  ASSUME NEW c, NEW wt, CQ(c, wt), NEW t \in Thread,
         NEW w \in WaitTypes \ {"call", "send"}
  PROVE  CQ([p \in Thread |-> ListRemove(c[p], t)], [wt EXCEPT ![t] = w])
  <1> DEFINE d == [p \in Thread |-> ListRemove(c[p], t)]
  <1>1. ASSUME NEW p \in Thread
        PROVE  d[p] \in Seq(Thread) /\ NoDup(d[p]) /\ Elems(d[p]) = Elems(c[p]) \ {t}
    <2>1. c[p] \in Seq(Thread) /\ NoDup(c[p])
      BY DEF CQ
    <2> QED BY <2>1, RemoveUnlinks
  <1>2. d \in [Thread -> Seq(Thread)]
    BY <1>1
  <1> HIDE DEF d
  <1>3. SUFFICES CQ(d, [wt EXCEPT ![t] = w])
    BY DEF d
  <1> QED BY <1>1, <1>2 DEF CQ

\* A wait type that has nothing to do with the callers does not matter.
LEMMA CallerSame ==
  ASSUME NEW c, NEW wt, CQ(c, wt), NEW t \in Thread, wt[t] \notin {"call", "send"},
         NEW w \in WaitTypes \ {"call", "send"}
  PROVE  CQ(c, [wt EXCEPT ![t] = w])
  BY DEF CQ

\* The same for the receivers; a server only receives from its own port.
LEMMA ReceiverEnqueued ==
  ASSUME NEW rc, NEW wt, RQ(rc, wt), NEW t \in Thread, wt[t] # "receive"
  PROVE  RQ([rc EXCEPT ![t] = ListEnqueue(@, t)], [wt EXCEPT ![t] = "receive"])
  <1> DEFINE q == ListEnqueue(rc[t], t)
  <1>1. rc[t] \in Seq(Thread) /\ NoDup(rc[t]) /\ t \notin Elems(rc[t])
    BY DEF RQ
  <1>2. q \in Seq(Thread) /\ Elems(q) = Elems(rc[t]) \cup {t} /\ NoDup(q)
    BY <1>1, EnqueueLinks
  <1> HIDE DEF q
  <1>3. SUFFICES RQ([rc EXCEPT ![t] = q], [wt EXCEPT ![t] = "receive"])
    BY DEF q
  <1> QED BY <1>1, <1>2 DEF RQ, WaitTypes

\* The owner of a port that stops waiting in ipc_receive is unlinked.
LEMMA ReceiverRemoved ==
  ASSUME NEW rc, NEW wt, RQ(rc, wt), NEW t \in Thread, NEW w \in WaitTypes \ {"receive"}
  PROVE  RQ([rc EXCEPT ![t] = ListRemove(@, t)], [wt EXCEPT ![t] = w])
  <1> DEFINE q == ListRemove(rc[t], t)
  <1>1. rc[t] \in Seq(Thread) /\ NoDup(rc[t])
    BY DEF RQ
  <1>2. q \in Seq(Thread) /\ Elems(q) = Elems(rc[t]) \ {t} /\ NoDup(q)
    BY <1>1, RemoveUnlinks
  <1> HIDE DEF q
  <1>3. SUFFICES RQ([rc EXCEPT ![t] = q], [wt EXCEPT ![t] = w])
    BY DEF q
  <1> QED BY <1>1, <1>2 DEF RQ

\* Whoever waits first at a port waits in ipc_receive, and is its owner.
LEMMA ReceiverIsOwner ==
  ASSUME NEW rc, NEW wt, RQ(rc, wt), NEW p \in Thread, rc[p] # <<>>
  PROVE  Head(rc[p]) = p /\ wt[p] = "receive" /\ ListDequeue(rc[p]) = ListRemove(rc[p], p)
  <1>1. rc[p] \in Seq(Thread) /\ NoDup(rc[p])
    BY DEF RQ
  <1>2. Head(rc[p]) \in Elems(rc[p]) /\ Head(rc[p]) \in Thread
    BY <1>1, DequeueUnlinks
  <1>3. Head(rc[p]) = p /\ wt[p] = "receive"
    BY <1>2 DEF RQ
  <1>4. Elems(rc[p]) \subseteq {p}
    <2>1. ASSUME NEW i \in 1..Len(rc[p]) PROVE rc[p][i] = p
      BY <1>1, <2>1 DEF RQ, Elems
    <2> QED BY <2>1 DEF Elems
  <1>5. ListDequeue(rc[p]) \in Seq(Thread) /\ Elems(ListDequeue(rc[p])) = {}
    BY <1>1, <1>3, <1>4, DequeueUnlinks
  <1>6. ListRemove(rc[p], p) \in Seq(Thread) /\ Elems(ListRemove(rc[p], p)) = {}
    BY <1>1, <1>4, RemoveUnlinks
  <1> QED BY <1>3, <1>5, <1>6, NoElems

\* A wait type other than wait_receive does not matter to the receivers.
LEMMA ReceiverSame ==
  ASSUME NEW rc, NEW wt, RQ(rc, wt), NEW t \in Thread, wt[t] # "receive",
         NEW w \in WaitTypes \ {"receive"}
  PROVE  RQ(rc, [wt EXCEPT ![t] = w])
  BY DEF RQ

-----------------------------------------------------------------------------
(***************************************************************************)
(* The inductive invariant                                                  *)
(***************************************************************************)

\* The wait type is set exactly while the status has its waiting bit.
WaitInv == \A t \in Thread : (waitType[t] # "none") <=> status[t] \in {"WAI", "WAS"}

\* A port belongs to a living server; a closed one is empty but while its
\* owner closes it; a message and a receiver never wait together.
PortInv ==
  /\ \A p \in Thread : opened[p] => p \in Server /\ status[p] \notin {"NON", "DMT"}
  /\ ClosedPortEmpty
  /\ NoMissedRendezvous

\* Without a request to dispatch the running thread may run on.
RunnerInv ==
  /\ mode # "leave" => noRequest
  /\ noRequest => status[running] \in Runnable /\ ~delayStart
  /\ \A t \in Thread : status[t] = "RUN" => t = running
  /\ status[Idle] \in Runnable
  /\ waitType[Delay] \in {"none", "flag", "send"}

\* A call that has not met its server, or that was deleted before it did.
Pending(t) == callKey[t] # NoKey /\ waitType[t] # "reply"

KeyInv ==
  /\ \A t \in Thread : waitType[t] \in {"call", "reply"} => callKey[t] # NoKey
  /\ \A t \in Thread : waitType[t] \in {"send", "receive", "flag"} => callKey[t] = NoKey
  /\ \A t \in Thread : Pending(t) =>
       /\ callKey[t] \in used
       /\ \A s \in Server, u \in Thread : <<callKey[t], u>> \notin held[s]
       /\ \A u \in Thread : Pending(u) /\ callKey[u] = callKey[t] => u = t
  /\ \A k \in used : rcaller[k] # NoThread =>
       waitType[rcaller[k]] = "reply" /\ callKey[rcaller[k]] = k
  /\ ReplyToCallerOnly

\* The part of TypeOK that RX, CQ and RQ do not say.
TypeRest ==
  /\ boot \in Seq({Delay} \cup Server)
  /\ running \in Thread
  /\ mode \in {"thread", "leave", "close"}
  /\ noRequest \in BOOLEAN
  /\ delayStart \in BOOLEAN
  /\ kqueue \in Seq(DelayedCall)
  /\ callKey \in [Thread -> Key \cup {NoKey}]
  /\ opened \in [Thread -> BOOLEAN]
  /\ flag \in [Thread -> BOOLEAN]
  /\ used \subseteq Key
  /\ rcaller \in [Key -> Thread \cup {NoThread}]
  /\ held \in [Server -> SUBSET Tag]

Inv ==
  /\ TypeRest
  /\ RX(ready, status)
  /\ CQ(caller, waitType)
  /\ RQ(receiver, waitType)
  /\ WaitInv
  /\ PortInv
  /\ RunnerInv
  /\ KeyInv

\* The initial state satisfies it.
LEMMA InitInv == Init => Inv
  <1> SUFFICES ASSUME Init PROVE Inv
    OBVIOUS
  <1>1. Idle \in Thread /\ Delay \in Thread /\ Idle # Delay /\ Prio[Idle] \in Priority
    BY ThreadAssumption, PrioAssumption DEF Thread
  <1>2. TypeRest
    <2>1. boot \in Seq({Delay} \cup Server) /\ kqueue \in Seq(DelayedCall)
      BY BootAssumption DEF Init
    <2>2. /\ running \in Thread /\ mode \in {"thread", "leave", "close"}
          /\ noRequest \in BOOLEAN /\ delayStart \in BOOLEAN /\ used \subseteq Key
      BY <1>1, ZenonT(30) DEF Init
    <2>3. callKey \in [Thread -> Key \cup {NoKey}] /\ rcaller \in [Key -> Thread \cup {NoThread}]
      BY DEF Init
    <2>4. opened \in [Thread -> BOOLEAN] /\ flag \in [Thread -> BOOLEAN]
      BY DEF Init
    <2>5. held \in [Server -> SUBSET Tag]
      BY DEF Init
    <2> QED BY <2>1, <2>2, <2>3, <2>4, <2>5 DEF TypeRest
  <1>3. RX(ready, status)
    <2>1. /\ <<Idle>> \in Seq(Thread) /\ Elems(<<Idle>>) = {Idle} /\ NoDup(<<Idle>>)
          /\ <<>> \in Seq(Thread)
      BY <1>1 DEF Elems, NoDup
    <2>2. /\ ready \in [Priority -> Seq(Thread)] /\ status \in [Thread -> Statuses]
          /\ \A p \in Priority : ready[p] = IF p = Prio[Idle] THEN <<Idle>> ELSE <<>>
          /\ \A t \in Thread : status[t] = IF t = Idle THEN "RUN" ELSE "NON"
      BY <1>1, <2>1 DEF Init, Statuses
    <2> QED BY <2>1, <2>2, EmptyList DEF RX, Runnable
  <1>4. CQ(caller, waitType) /\ RQ(receiver, waitType)
    BY EmptyList DEF Init, CQ, RQ, WaitTypes
  <1>5. WaitInv /\ PortInv
    BY <1>1 DEF Init, WaitInv, PortInv, ClosedPortEmpty, NoMissedRendezvous
  <1>6. RunnerInv
    BY <1>1 DEF Init, RunnerInv, Runnable
  <1>7. KeyInv
    BY <1>1 DEF Init, KeyInv, Pending, ReplyToCallerOnly
  <1> QED BY <1>2, <1>3, <1>4, <1>5, <1>6, <1>7 DEF Inv

-----------------------------------------------------------------------------
(***************************************************************************)
(* Every step preserves it.                                                 *)
(***************************************************************************)
USE DEF threadVars, syncVars, delayVars, portVars, replyVars

\* What is known of a thread that executes its own code.
LEMMA RunsFacts ==
  ASSUME Inv, NEW t \in Thread, Runs(t)
  PROVE  /\ mode = "thread" /\ running = t /\ callKey[t] = NoKey
         /\ status[t] \in Runnable /\ waitType[t] = "none"
         /\ noRequest /\ ~delayStart
  <1>1. mode = "thread" /\ running = t /\ callKey[t] = NoKey
    BY DEF Runs
  <1>2. noRequest /\ ~delayStart /\ status[t] \in Runnable
    BY <1>1 DEF Inv, RunnerInv
  <1>3. waitType[t] = "none"
    BY <1>2 DEF Inv, WaitInv, Runnable
  <1> QED BY <1>1, <1>2, <1>3

\* The keys do not depend on waits that are not calls, nor on a call that is
\* deleted.
LEMMA KeyFrame ==
  ASSUME Inv, UNCHANGED replyVars,
         \A t \in Thread : \/ waitType'[t] = waitType[t]
                           \/ callKey[t] = NoKey /\ waitType'[t] \notin {"call", "reply"}
                           \/ waitType[t] = "call" /\ waitType'[t] = "none"
  PROVE  KeyInv'
  <1>1. \A t \in Thread : Pending(t)' <=> Pending(t)
    BY DEF Inv, KeyInv, Pending
  <1>2. \A t \in Thread : waitType'[t] = "reply" <=> waitType[t] = "reply"
    BY DEF Inv, KeyInv
  <1>3. \A k \in used : rcaller[k] # NoThread => rcaller[k] \in Thread
    BY DEF Inv, TypeRest
  <1>4. /\ \A t \in Thread : waitType'[t] \in {"call", "reply"} => callKey'[t] # NoKey
        /\ \A t \in Thread : waitType'[t] \in {"send", "receive", "flag"} => callKey'[t] = NoKey
    BY DEF Inv, KeyInv
  <1>5. ReplyToCallerOnly'
    BY DEF Inv, KeyInv, ReplyToCallerOnly
  <1> QED BY <1>1, <1>2, <1>3, <1>4, <1>5 DEF Inv, KeyInv

\* Steps that only leave the kernel, or enter it with an error.
LEMMA ErrorStep ==
  ASSUME Inv, NEW t \in Thread, KernelError(t)
  PROVE  Inv'
  <1>1. /\ Runs(t) /\ Leave
        /\ UNCHANGED <<boot, threadVars, delayVars, portVars, flag, replyVars>>
    BY DEF KernelError
  <1>2. /\ mode = "thread" /\ noRequest /\ ~delayStart /\ mode' = "leave"
        /\ UNCHANGED <<running, noRequest>>
    BY <1>1, RunsFacts DEF Leave
  <1>3. TypeRest'
    BY <1>1, <1>2 DEF Inv, TypeRest
  <1>4. RX(ready, status)' /\ CQ(caller, waitType)' /\ RQ(receiver, waitType)'
    BY <1>1 DEF Inv, RX, CQ, RQ
  <1>5. WaitInv' /\ RunnerInv'
    BY <1>1, <1>2 DEF Inv, WaitInv, RunnerInv
  <1>6. PortInv'
    BY <1>1, <1>2 DEF Inv, PortInv, ClosedPortEmpty, NoMissedRendezvous
  <1>7. KeyInv'
    BY <1>1, KeyFrame
  <1> QED BY <1>3, <1>4, <1>5, <1>6, <1>7 DEF Inv

\* leave_serialize without a request to dispatch.
LEMMA SkipStep ==
  ASSUME Inv, SkipDispatch
  PROVE  Inv'
  <1>1. /\ mode = "leave" /\ noRequest /\ mode' = "thread"
        /\ UNCHANGED <<boot, threadVars, running, noRequest, delayVars, portVars, flag,
                       replyVars>>
    BY DEF SkipDispatch
  <1>3. TypeRest'
    BY <1>1 DEF Inv, TypeRest
  <1>4. RX(ready, status)' /\ CQ(caller, waitType)' /\ RQ(receiver, waitType)'
    BY <1>1 DEF Inv, RX, CQ, RQ
  <1>5. WaitInv' /\ RunnerInv'
    BY <1>1 DEF Inv, WaitInv, RunnerInv
  <1>6. PortInv'
    BY <1>1 DEF Inv, PortInv, ClosedPortEmpty, NoMissedRendezvous
  <1>7. KeyInv'
    BY <1>1, KeyFrame
  <1> QED BY <1>3, <1>4, <1>5, <1>6, <1>7 DEF Inv

\* ipc_open: the port of a server that has none is empty.
LEMMA OpenStep ==
  ASSUME Inv, NEW t \in Server, IpcOpen(t)
  PROVE  Inv'
  <1>1. t \in Thread /\ Runs(t) /\ ~opened[t] /\ Leave
    BY DEF IpcOpen, Thread
  <1>2. /\ mode = "thread" /\ running = t /\ noRequest /\ ~delayStart /\ mode' = "leave"
        /\ status[t] \in Runnable /\ UNCHANGED <<running, noRequest>>
    BY <1>1, RunsFacts DEF Leave
  <1>3. caller[t] = <<>> /\ receiver[t] = <<>>
    BY <1>1, <1>2 DEF Inv, PortInv, ClosedPortEmpty
  <1>4. /\ UNCHANGED <<caller, receiver>>
        /\ opened' = [opened EXCEPT ![t] = TRUE]
        /\ UNCHANGED <<boot, threadVars, delayVars, flag, replyVars>>
    <2>1. caller \in [Thread -> Seq(Thread)] /\ receiver \in [Thread -> Seq(Thread)]
      BY DEF Inv, CQ, RQ
    <2> QED BY <1>3, <2>1 DEF IpcOpen
  <1>5. TypeRest'
    BY <1>1, <1>2, <1>4 DEF Inv, TypeRest
  <1>6. RX(ready, status)' /\ CQ(caller, waitType)' /\ RQ(receiver, waitType)'
    BY <1>4 DEF Inv, RX, CQ, RQ
  <1>7. WaitInv' /\ RunnerInv'
    BY <1>2, <1>4 DEF Inv, WaitInv, RunnerInv
  <1>8. PortInv'
    BY <1>1, <1>2, <1>3, <1>4 DEF Inv, TypeRest, PortInv, ClosedPortEmpty,
                                  NoMissedRendezvous, Runnable
  <1>9. KeyInv'
    BY <1>4, KeyFrame
  <1> QED BY <1>5, <1>6, <1>7, <1>8, <1>9 DEF Inv

\* ipc_close up to the loops that release those who wait.
LEMMA CloseStep ==
  ASSUME Inv, NEW t \in Server, IpcClose(t)
  PROVE  Inv'
  <1>1. t \in Thread /\ Runs(t)
    BY DEF IpcClose, Thread
  <1>2. mode = "thread" /\ running = t /\ noRequest /\ ~delayStart
    BY <1>1, RunsFacts
  <1>3. /\ mode' = "close" /\ opened' = [opened EXCEPT ![t] = FALSE]
        /\ UNCHANGED <<boot, threadVars, running, noRequest, delayVars, caller, receiver,
                       flag, replyVars>>
    BY DEF IpcClose
  <1>5. TypeRest'
    BY <1>1, <1>3 DEF Inv, TypeRest
  <1>6. RX(ready, status)' /\ CQ(caller, waitType)' /\ RQ(receiver, waitType)'
    BY <1>3 DEF Inv, RX, CQ, RQ
  <1>7. WaitInv' /\ RunnerInv'
    BY <1>2, <1>3 DEF Inv, WaitInv, RunnerInv
  <1>8. PortInv'
    BY <1>1, <1>2, <1>3 DEF Inv, TypeRest, PortInv, ClosedPortEmpty, NoMissedRendezvous
  <1>9. KeyInv'
    BY <1>3, KeyFrame
  <1> QED BY <1>5, <1>6, <1>7, <1>8, <1>9 DEF Inv

\* One round of release_all, or its end.
LEMMA ReleaseAllStep ==
  ASSUME Inv, NEW t \in Server, ReleaseAll(t)
  PROVE  Inv'
  <1>1. /\ t \in Thread /\ mode = "close" /\ running = t
        /\ UNCHANGED <<boot, delayVars, opened, receiver, flag, replyVars>>
    BY DEF ReleaseAll, Thread
  <1>2. noRequest /\ ~delayStart /\ status[t] \in Runnable
    BY <1>1 DEF Inv, RunnerInv
  <1>3. receiver[t] = <<>>
    <2>1. SUFFICES ASSUME receiver[t] # <<>> PROVE FALSE
      OBVIOUS
    <2>2. waitType[t] = "receive"
      BY <1>1, <2>1, ReceiverIsOwner DEF Inv
    <2> QED BY <1>1, <1>2, <2>2 DEF Inv, WaitInv, Runnable
  <1>4. CASE caller[t] # <<>>
    <2> DEFINE h == Head(caller[t])
    <2>1. /\ status' = Woken(status, h) /\ ready' = WokenReady(status, ready, h)
          /\ waitType' = [waitType EXCEPT ![h] = "none"]
          /\ caller' = [caller EXCEPT ![t] = ListDequeue(@)]
          /\ UNCHANGED syncVars
      BY <1>4 DEF ReleaseAll, Release
    <2>2. h \in Thread /\ CQ(caller, waitType)'
      BY <1>1, <1>4, <2>1, CallerDequeued, ZenonT(30) DEF Inv, WaitTypes
    <2>3. waitType[h] \in {"call", "send"} /\ status[h] \in {"WAI", "WAS"}
      <3>1. caller[t] \in Seq(Thread) /\ waitType \in [Thread -> WaitTypes]
        BY <1>1 DEF Inv, CQ
      <3>2. h \in Elems(caller[t])
        BY <1>4, <3>1, DequeueUnlinks
      <3> QED BY <1>1, <2>2, <3>2 DEF Inv, CQ, WaitInv
    <2> HIDE DEF h
    <2>4. RX(ready, status)'
      BY <2>1, <2>2, <2>3, WokenExact DEF Inv
    <2>5. RQ(receiver, waitType)'
      <3>1. waitType[h] # "receive" /\ "none" \in WaitTypes \ {"receive"}
        BY <2>3 DEF WaitTypes
      <3> QED BY <1>1, <2>1, <2>2, <3>1, ReceiverSame, ZenonT(30) DEF Inv
    <2>6. TypeRest'
      BY <1>1, <2>1 DEF Inv, TypeRest
    <2>7. status' = [status EXCEPT ![h] = IF status[h] = "WAI" THEN "RDY" ELSE "SUS"]
      BY <2>1 DEF Woken
    <2>8. WaitInv'
      BY <2>1, <2>2, <2>3, <2>7, SMTT(30) DEF Inv, RX, CQ, WaitInv
    <2>9. RunnerInv'
      BY <1>1, <1>2, <2>1, <2>2, <2>3, <2>7 DEF Inv, RX, CQ, RunnerInv, Runnable
    <2>10. PortInv'
      BY <1>1, <1>3, <2>1, <2>2, <2>3, <2>7 DEF Inv, RX, CQ, PortInv, ClosedPortEmpty,
                                           NoMissedRendezvous
    <2>11. KeyInv'
      <3>1. \A x \in Thread : \/ waitType'[x] = waitType[x]
                              \/ callKey[x] = NoKey /\ waitType'[x] \notin {"call", "reply"}
                              \/ waitType[x] = "call" /\ waitType'[x] = "none"
        <4>1. waitType \in [Thread -> WaitTypes] /\ waitType' = [waitType EXCEPT ![h] = "none"]
          BY <2>1 DEF Inv, CQ
        <4>2. waitType[h] = "send" => callKey[h] = NoKey
          BY <2>2, Zenon DEF Inv, KeyInv
        <4> QED BY <2>2, <2>3, <4>1, <4>2
      <3> QED BY <1>1, <3>1, KeyFrame
    <2> QED BY <2>2, <2>4, <2>5, <2>6, <2>8, <2>9, <2>10, <2>11 DEF Inv
  <1>5. CASE caller[t] = <<>>
    <2>1. /\ mode' = "leave" /\ noRequest' = FALSE /\ UNCHANGED running
          /\ UNCHANGED <<threadVars, caller>>
      BY <1>5 DEF ReleaseAll, LeaveAndDispatch
    <2>3. TypeRest'
      BY <1>1, <2>1, ZenonT(30) DEF Inv, TypeRest
    <2>4. RX(ready, status)' /\ CQ(caller, waitType)' /\ RQ(receiver, waitType)'
      BY <1>1, <2>1 DEF Inv, RX, CQ, RQ
    <2>5. WaitInv' /\ RunnerInv'
      BY <1>1, <2>1 DEF Inv, WaitInv, RunnerInv
    <2>6. PortInv'
      BY <1>1, <1>3, <1>5, <2>1 DEF Inv, PortInv, ClosedPortEmpty, NoMissedRendezvous
    <2>7. KeyInv'
      BY <1>1, <2>1, KeyFrame
    <2> QED BY <2>3, <2>4, <2>5, <2>6, <2>7 DEF Inv
  <1> QED BY <1>4, <1>5

\* An ipc_call that was deleted gives its key back.
LEMMA CallDeletedStep ==
  ASSUME Inv, NEW t \in Server \cup User, IpcCallDeleted(t)
  PROVE  Inv'
  <1>1. /\ t \in Thread /\ mode = "thread" /\ running = t /\ callKey[t] # NoKey
        /\ used' = used \ {callKey[t]} /\ callKey' = [callKey EXCEPT ![t] = NoKey]
        /\ mode' = "leave" /\ UNCHANGED <<running, noRequest>>
        /\ UNCHANGED <<boot, threadVars, delayVars, portVars, flag, rcaller, held>>
    BY DEF IpcCallDeleted, Thread, Leave
  <1>2. noRequest /\ ~delayStart /\ status[t] \in Runnable /\ waitType[t] = "none"
    <2>1. noRequest /\ ~delayStart /\ status[t] \in Runnable
      BY <1>1 DEF Inv, RunnerInv
    <2> QED BY <1>1, <2>1 DEF Inv, WaitInv, Runnable
  <1>3. TypeRest'
    BY <1>1 DEF Inv, TypeRest
  <1>4. RX(ready, status)' /\ CQ(caller, waitType)' /\ RQ(receiver, waitType)'
    BY <1>1 DEF Inv, RX, CQ, RQ
  <1>5. WaitInv' /\ RunnerInv'
    BY <1>1, <1>2, ZenonT(30) DEF Inv, WaitInv, RunnerInv
  <1>6. PortInv'
    BY <1>1 DEF Inv, PortInv, ClosedPortEmpty, NoMissedRendezvous
  <1>7. KeyInv'
    <2>1. callKey \in [Thread -> Key \cup {NoKey}]
      BY DEF Inv, TypeRest
    <2>2. Pending(t) /\ \A u \in Thread : Pending(u)' <=> Pending(u) /\ u # t
      BY <1>1, <1>2, <2>1 DEF Pending
    <2>3. \A s \in Server : \A x \in held[s] : x[1] # callKey[t]
      <3>1. SUFFICES ASSUME NEW s \in Server, NEW x \in held[s], x[1] = callKey[t]
                     PROVE  FALSE
        OBVIOUS
      <3>2. x \in Key \X Thread
        BY DEF Inv, TypeRest, Tag
      <3>3. x = <<callKey[t], x[2]>> /\ x[2] \in Thread
        BY <3>1, <3>2
      <3> QED BY <1>1, <2>2, <3>3 DEF Inv, KeyInv
    <2>4. ReplyToCallerOnly'
      BY <1>1, <2>3 DEF Inv, KeyInv, ReplyToCallerOnly
    <2>5. \A k \in used' : rcaller[k] # NoThread =>
             waitType[rcaller[k]] = "reply" /\ callKey'[rcaller[k]] = k
      BY <1>1, <1>2, <2>1 DEF Inv, TypeRest, KeyInv
    <2>6. \A u \in Thread : Pending(u)' =>
            /\ callKey'[u] \in used'
            /\ \A s \in Server, v \in Thread : <<callKey'[u], v>> \notin held'[s]
            /\ \A v \in Thread : Pending(v)' /\ callKey'[v] = callKey'[u] => v = u
      BY <1>1, <2>1, <2>2 DEF Inv, KeyInv
    <2>7. /\ \A u \in Thread : waitType'[u] \in {"call", "reply"} => callKey'[u] # NoKey
          /\ \A u \in Thread : waitType'[u] \in {"send", "receive", "flag"} => callKey'[u] = NoKey
      BY <1>1, <1>2, <2>1 DEF Inv, KeyInv
    <2> QED BY <1>1, <2>4, <2>5, <2>6, <2>7, Zenon DEF KeyInv
  <1> QED BY <1>3, <1>4, <1>5, <1>6, <1>7 DEF Inv

\* What wait() and release() need of the status st they start from.
StatusOK(st) ==
  /\ \A t \in Thread : (waitType[t] # "none") <=> st[t] \in {"WAI", "WAS"}
  /\ \A t \in Thread : st[t] = "RUN" => t = running
  /\ \A t \in Thread : status[t] \notin {"NON", "DMT"} => st[t] \notin {"NON", "DMT"}
  /\ st[Idle] \in Runnable

\* The current status is such a status.
LEMMA StatusIsOK == Inv => StatusOK(status)
  BY DEF Inv, WaitInv, RunnerInv, StatusOK

\* wait() of the running thread.
LEMMA WaitKeeps ==
  ASSUME Inv, NEW st, NEW r, RX(r, st), StatusOK(st), NEW t \in Thread \ {Idle},
         running = t, waitType[t] = "none", NEW w \in WaitTypes \ {"none"},
         t = Delay => w \in {"flag", "send"}, Wait(st, r, t, w)
  PROVE  /\ RX(ready, status)' /\ WaitInv' /\ RunnerInv'
         /\ \A x \in Thread : status[x] \notin {"NON", "DMT"} => status'[x] \notin {"NON", "DMT"}
         /\ mode' = "leave" /\ noRequest' = FALSE /\ running' = running
  <1>1. /\ status' = [st EXCEPT ![t] = "WAI"] /\ ready' = Unready(r, t)
        /\ waitType' = [waitType EXCEPT ![t] = w]
        /\ mode' = "leave" /\ noRequest' = FALSE /\ running' = running
    BY DEF Wait, LeaveAndDispatch
  <1>2. st \in [Thread -> Statuses] /\ waitType \in [Thread -> WaitTypes] /\ Delay \in Thread
    BY ZenonT(30) DEF RX, Inv, CQ, Thread
  <1>3. "WAI" \in Statuses \ Runnable
    BY DEF Statuses, Runnable
  <1>4. RX(ready, status)'
    BY <1>1, <1>3, UnreadyExact, ZenonT(30)
  <1>5. WaitInv'
    BY <1>1, <1>2 DEF StatusOK, WaitInv
  <1>6. RunnerInv'
    BY <1>1, <1>2, SMTT(30) DEF Inv, StatusOK, RunnerInv
  <1>7. \A x \in Thread : status[x] \notin {"NON", "DMT"} => status'[x] \notin {"NON", "DMT"}
    BY <1>1, <1>2 DEF StatusOK
  <1> QED BY <1>1, <1>4, <1>5, <1>6, <1>7

\* release() of a thread that waits.
LEMMA ReleaseKeeps ==
  ASSUME Inv, NEW st, NEW r, RX(r, st), StatusOK(st), NEW h \in Thread,
         waitType[h] # "none", Release(st, r, h)
  PROVE  /\ RX(ready, status)' /\ WaitInv'
         /\ \A x \in Thread : status'[x] = "RUN" => x = running
         /\ \A x \in Thread : st[x] \in Runnable => status'[x] = st[x]
         /\ \A x \in Thread : status[x] \notin {"NON", "DMT"} => status'[x] \notin {"NON", "DMT"}
         /\ waitType'[Delay] \in {"none", "flag", "send"}
         /\ waitType' = [waitType EXCEPT ![h] = "none"]
  <1>1. /\ status' = Woken(st, h) /\ ready' = WokenReady(st, r, h)
        /\ waitType' = [waitType EXCEPT ![h] = "none"]
    BY DEF Release
  <1>2. st \in [Thread -> Statuses] /\ waitType \in [Thread -> WaitTypes] /\ Delay \in Thread
    BY ZenonT(30) DEF RX, Inv, CQ, Thread
  <1>3. st[h] \in {"WAI", "WAS"}
    BY DEF StatusOK
  <1>4. RX(ready, status)'
    BY <1>1, <1>3, WokenExact
  <1>5. status' = [st EXCEPT ![h] = IF st[h] = "WAI" THEN "RDY" ELSE "SUS"]
    BY <1>1 DEF Woken
  <1>6. WaitInv'
    BY <1>1, <1>2, <1>5 DEF StatusOK, WaitInv
  <1>7. /\ \A x \in Thread : status'[x] = "RUN" => x = running
        /\ \A x \in Thread : st[x] \in Runnable => status'[x] = st[x]
        /\ \A x \in Thread : status[x] \notin {"NON", "DMT"} => status'[x] \notin {"NON", "DMT"}
    BY <1>2, <1>3, <1>5 DEF StatusOK, Runnable
  <1>8. waitType'[Delay] \in {"none", "flag", "send"}
    BY <1>1, <1>2 DEF Inv, RunnerInv
  <1> QED BY <1>1, <1>4, <1>6, <1>7, <1>8, Zenon

-----------------------------------------------------------------------------
(* Message passing *)

\* _send, by a server or by the delay thread.
LEMMA SendKeeps ==
  ASSUME Inv, NEW st, NEW r, RX(r, st), StatusOK(st), NEW t \in Thread \ {Idle},
         Runs(t), st[t] \in Runnable, NEW p \in Server, p # t, opened[p],
         Send(st, r, t, p), UNCHANGED <<delayStart, opened, replyVars>>
  PROVE  /\ RX(ready, status)' /\ CQ(caller, waitType)' /\ RQ(receiver, waitType)'
         /\ WaitInv' /\ PortInv' /\ RunnerInv' /\ KeyInv'
         /\ mode' = "leave" /\ noRequest' \in BOOLEAN /\ running' = running
  <1>1. p \in Thread /\ Idle \in Thread
    BY DEF Thread
  <1>2. /\ mode = "thread" /\ running = t /\ callKey[t] = NoKey /\ waitType[t] = "none"
        /\ noRequest /\ ~delayStart
    BY RunsFacts
  <1>3. waitType \in [Thread -> WaitTypes]
    BY DEF Inv, CQ
  <1>4. CASE receiver[p] # <<>>
    <2>1. /\ receiver' = [receiver EXCEPT ![p] = ListRemove(@, Head(@))]
          /\ Release(st, r, Head(receiver[p]))
          /\ mode' = "leave" /\ UNCHANGED <<running, noRequest>> /\ UNCHANGED caller
      BY <1>4, Zenon DEF Send, Leave
    <2>2. Head(receiver[p]) = p /\ waitType[p] = "receive"
      BY <1>1, <1>4, ReceiverIsOwner, Zenon DEF Inv
    <2>3. receiver' = [receiver EXCEPT ![p] = ListRemove(@, p)] /\ Release(st, r, p)
      BY <2>1, <2>2, ZenonT(30)
    <2>4. /\ RX(ready, status)' /\ WaitInv'
          /\ \A x \in Thread : status'[x] = "RUN" => x = running
          /\ \A x \in Thread : st[x] \in Runnable => status'[x] = st[x]
          /\ \A x \in Thread : status[x] \notin {"NON", "DMT"} => status'[x] \notin {"NON", "DMT"}
          /\ waitType'[Delay] \in {"none", "flag", "send"}
          /\ waitType' = [waitType EXCEPT ![p] = "none"]
      BY <1>1, <2>2, <2>3, ReleaseKeeps, Zenon
    <2>5. "none" \in WaitTypes \ {"receive"} /\ "none" \in WaitTypes \ {"call", "send"}
      BY DEF WaitTypes
    <2>6. RQ(receiver, waitType)'
      BY <1>1, <2>3, <2>4, <2>5, ReceiverRemoved, ZenonT(30) DEF Inv
    <2>7. CQ(caller, waitType)'
      BY <1>1, <2>1, <2>2, <2>4, <2>5, CallerSame, ZenonT(30) DEF Inv
    <2>8. RunnerInv'
      BY <1>1, <1>2, <2>1, <2>4, Zenon DEF RunnerInv, StatusOK
    <2>9. caller[p] = <<>> /\ receiver \in [Thread -> Seq(Thread)]
      BY <1>1, <1>4, Zenon DEF Inv, PortInv, NoMissedRendezvous, RQ
    <2>10. PortInv'
      BY <1>1, <1>2, <2>1, <2>3, <2>4, <2>9, Zenon
         DEF Inv, PortInv, ClosedPortEmpty, NoMissedRendezvous
    <2>11. KeyInv'
      <3>1. \A x \in Thread : x # p => waitType'[x] = waitType[x]
        BY <1>1, <1>3, <2>4, Zenon
      <3>2. callKey[p] = NoKey /\ waitType'[p] \notin {"call", "reply"}
        BY <1>1, <1>3, <2>2, <2>4, Zenon DEF Inv, KeyInv
      <3>3. \A x \in Thread : \/ waitType'[x] = waitType[x]
                              \/ callKey[x] = NoKey /\ waitType'[x] \notin {"call", "reply"}
                              \/ waitType[x] = "call" /\ waitType'[x] = "none"
        BY <3>1, <3>2, Zenon
      <3>4. UNCHANGED replyVars
        OBVIOUS
      <3> QED BY <3>3, <3>4, KeyFrame, Zenon
    <2> QED BY <2>1, <2>4, <2>6, <2>7, <2>8, <2>10, <2>11 DEF Inv, TypeRest
  <1>5. CASE receiver[p] = <<>>
    <2>1. /\ caller' = [caller EXCEPT ![p] = ListEnqueue(@, t)]
          /\ Wait(st, r, t, "send") /\ UNCHANGED receiver
      BY <1>5, Zenon DEF Send
    <2>2. /\ "send" \in WaitTypes \ {"none"} /\ "send" \in WaitTypes \ {"receive"}
          /\ "send" \in {"flag", "send"} /\ "send" \in {"call", "send"}
      BY DEF WaitTypes
    <2>3. /\ RX(ready, status)' /\ WaitInv' /\ RunnerInv'
          /\ \A x \in Thread : status[x] \notin {"NON", "DMT"} => status'[x] \notin {"NON", "DMT"}
          /\ mode' = "leave" /\ noRequest' = FALSE /\ running' = running
      BY <1>2, <2>1, <2>2, WaitKeeps, ZenonT(30)
    <2>4. waitType' = [waitType EXCEPT ![t] = "send"]
      BY <2>1 DEF Wait
    <2>5. CQ(caller, waitType)'
      BY <1>1, <1>2, <2>1, <2>2, <2>4, CallerEnqueued, ZenonT(30) DEF Inv
    <2>6. RQ(receiver, waitType)'
      BY <1>2, <2>1, <2>2, <2>4, ReceiverSame, ZenonT(30) DEF Inv
    <2>7. caller \in [Thread -> Seq(Thread)]
      BY Zenon DEF Inv, CQ
    <2>8. PortInv'
      BY <1>1, <1>2, <1>5, <2>1, <2>3, <2>7, Zenon
         DEF Inv, PortInv, ClosedPortEmpty, NoMissedRendezvous
    <2>9. KeyInv'
      BY <1>2, <1>3, <2>4, KeyFrame, Zenon
    <2> QED BY <2>3, <2>5, <2>6, <2>8, <2>9, ZenonT(30)
  <1> QED BY <1>4, <1>5, Zenon

\* ipc_send to a port.
LEMMA SendStep ==
  ASSUME Inv, NEW t \in Server, NEW p \in Server, IpcSend(t, p)
  PROVE  Inv'
  <1>1. /\ t \in Thread \ {Idle} /\ Runs(t) /\ p # t /\ opened[p]
        /\ Send(status, ready, t, p)
        /\ UNCHANGED <<boot, delayVars, opened, flag, replyVars>>
    BY ThreadAssumption DEF IpcSend, Thread
  <1>2. StatusOK(status) /\ status[t] \in Runnable /\ RX(ready, status)
    BY <1>1, StatusIsOK, RunsFacts, Zenon DEF Inv
  <1>3. /\ RX(ready, status)' /\ CQ(caller, waitType)' /\ RQ(receiver, waitType)'
        /\ WaitInv' /\ PortInv' /\ RunnerInv' /\ KeyInv'
        /\ mode' = "leave" /\ noRequest' \in BOOLEAN /\ running' = running
    BY <1>1, <1>2, SendKeeps, Zenon
  <1>4. TypeRest'
    BY <1>1, <1>3 DEF Inv, TypeRest
  <1> QED BY <1>3, <1>4 DEF Inv

\* ipc_listen, by a server or by the delay thread.
LEMMA ListenStep ==
  ASSUME Inv, NEW t \in Thread \ {Idle}, IpcListen(t)
  PROVE  Inv'
  <1>1. Runs(t) /\ UNCHANGED <<boot, delayStart, kqueue, portVars, replyVars>>
    BY DEF IpcListen
  <1>2. /\ mode = "thread" /\ running = t /\ callKey[t] = NoKey /\ waitType[t] = "none"
        /\ noRequest /\ ~delayStart /\ status[t] \in Runnable
    BY <1>1, RunsFacts, Zenon
  <1>3. CASE flag[t]
    <2>1. /\ flag' = [flag EXCEPT ![t] = FALSE] /\ mode' = "leave"
          /\ UNCHANGED <<running, noRequest>> /\ UNCHANGED threadVars
      BY <1>3 DEF IpcListen, Leave
    <2>2. flag' \in [Thread -> BOOLEAN]
      BY <2>1 DEF Inv, TypeRest
    <2>3. TypeRest'
      BY <1>1, <2>1, <2>2 DEF Inv, TypeRest
    <2>4. RX(ready, status)' /\ CQ(caller, waitType)' /\ RQ(receiver, waitType)'
      BY <1>1, <2>1, Zenon DEF Inv, RX, CQ, RQ
    <2>5. WaitInv' /\ RunnerInv'
      BY <1>1, <1>2, <2>1, Zenon DEF Inv, WaitInv, RunnerInv
    <2>6. PortInv'
      BY <1>1, <1>2, <2>1, Zenon DEF Inv, PortInv, ClosedPortEmpty, NoMissedRendezvous
    <2>7. KeyInv'
      BY <1>1, <2>1, KeyFrame, Zenon
    <2> QED BY <2>3, <2>4, <2>5, <2>6, <2>7 DEF Inv
  <1>4. CASE ~flag[t]
    <2>1. Wait(status, ready, t, "flag") /\ UNCHANGED flag
      BY <1>4 DEF IpcListen
    <2>2. /\ "flag" \in WaitTypes \ {"none"} /\ "flag" \in WaitTypes \ {"receive"}
          /\ "flag" \in {"flag", "send"} /\ "flag" \in WaitTypes \ {"call", "send"}
      BY DEF WaitTypes
    <2>3. StatusOK(status) /\ RX(ready, status)
      BY StatusIsOK DEF Inv
    <2>4. /\ RX(ready, status)' /\ WaitInv' /\ RunnerInv'
          /\ \A x \in Thread : status[x] \notin {"NON", "DMT"} => status'[x] \notin {"NON", "DMT"}
          /\ mode' = "leave" /\ noRequest' = FALSE /\ running' = running
      BY <1>2, <2>1, <2>2, <2>3, WaitKeeps, ZenonT(30)
    <2>5. waitType' = [waitType EXCEPT ![t] = "flag"] /\ waitType \in [Thread -> WaitTypes]
      BY <2>1 DEF Wait, Inv, CQ
    <2>6. CQ(caller, waitType)'
      BY <1>1, <1>2, <2>2, <2>5, CallerSame, ZenonT(30) DEF Inv
    <2>7. RQ(receiver, waitType)'
      BY <1>1, <1>2, <2>2, <2>5, ReceiverSame, ZenonT(30) DEF Inv
    <2>8. PortInv'
      BY <1>1, <1>2, <2>4, Zenon DEF Inv, PortInv, ClosedPortEmpty, NoMissedRendezvous
    <2>9. KeyInv'
      BY <1>1, <1>2, <2>5, KeyFrame, Zenon
    <2>10. TypeRest'
      BY <1>1, <2>1, <2>4, ZenonT(30) DEF Inv, TypeRest
    <2> QED BY <2>4, <2>6, <2>7, <2>8, <2>9, <2>10 DEF Inv
  <1> QED BY <1>3, <1>4

\* ipc_notify, by a server or by the delay thread.
LEMMA NotifyKeeps ==
  ASSUME Inv, NEW t \in Thread, Runs(t), NEW p \in Thread, Notify(p), Leave,
         UNCHANGED <<delayStart, opened, caller, replyVars>>
  PROVE  /\ RX(ready, status)' /\ CQ(caller, waitType)' /\ RQ(receiver, waitType)'
         /\ WaitInv' /\ PortInv' /\ RunnerInv' /\ KeyInv' /\ flag' \in [Thread -> BOOLEAN]
         /\ mode' = "leave" /\ UNCHANGED <<running, noRequest>>
  <1>1. /\ mode = "thread" /\ running = t /\ callKey[t] = NoKey /\ waitType[t] = "none"
        /\ noRequest /\ ~delayStart /\ status[t] \in Runnable
    BY RunsFacts
  <1>2. mode' = "leave" /\ UNCHANGED <<running, noRequest>>
    BY DEF Leave
  <1>3. flag \in [Thread -> BOOLEAN] /\ waitType \in [Thread -> WaitTypes] /\ Idle \in Thread
    BY DEF Inv, TypeRest, CQ, Thread
  <1>4. CASE Listens(p)
    <2>1. /\ flag' = [flag EXCEPT ![p] = FALSE]
          /\ receiver' = [receiver EXCEPT ![p] = ListRemove(@, p)]
          /\ Release(status, ready, p)
      BY <1>4 DEF Notify
    <2>2. waitType[p] \in {"flag", "receive"}
      BY <1>4 DEF Listens
    <2>3. StatusOK(status) /\ RX(ready, status)
      BY StatusIsOK DEF Inv
    <2>4. /\ RX(ready, status)' /\ WaitInv'
          /\ \A x \in Thread : status'[x] = "RUN" => x = running
          /\ \A x \in Thread : status[x] \in Runnable => status'[x] = status[x]
          /\ \A x \in Thread : status[x] \notin {"NON", "DMT"} => status'[x] \notin {"NON", "DMT"}
          /\ waitType'[Delay] \in {"none", "flag", "send"}
          /\ waitType' = [waitType EXCEPT ![p] = "none"]
      BY <2>1, <2>2, <2>3, ReleaseKeeps
    <2>5. "none" \in WaitTypes \ {"receive"} /\ "none" \in WaitTypes \ {"call", "send"}
      BY DEF WaitTypes
    <2>6. RQ(receiver, waitType)'
      BY <2>1, <2>4, <2>5, ReceiverRemoved, ZenonT(30) DEF Inv
    <2>7. CQ(caller, waitType)'
      BY <2>2, <2>4, <2>5, CallerSame, ZenonT(30) DEF Inv
    <2>8. RunnerInv'
      BY <1>1, <1>2, <1>3, <2>3, <2>4 DEF RunnerInv, StatusOK
    <2>9. receiver[p] = <<>> => receiver'[p] = <<>>
      <3>1. SUFFICES ASSUME receiver[p] = <<>> PROVE receiver'[p] = <<>>
        OBVIOUS
      <3>2. receiver \in [Thread -> Seq(Thread)] /\ NoDup(receiver[p])
        BY DEF Inv, RQ
      <3>3. ListRemove(receiver[p], p) \in Seq(Thread) /\ Elems(ListRemove(receiver[p], p)) = {}
        BY <3>1, <3>2, RemoveUnlinks, EmptyList
      <3> QED BY <2>1, <3>2, <3>3, NoElems
    <2>10. \A x \in Thread : receiver[x] = <<>> => receiver'[x] = <<>>
      BY <2>1, <2>9 DEF Inv, RQ
    <2>11. PortInv'
      BY <1>1, <1>2, <2>4, <2>10, Zenon DEF Inv, PortInv, ClosedPortEmpty, NoMissedRendezvous
    <2>12. KeyInv'
      BY <1>3, <2>2, <2>4, KeyFrame, ZenonT(30) DEF Inv, KeyInv
    <2>13. flag' \in [Thread -> BOOLEAN]
      BY <1>3, <2>1
    <2> QED BY <1>2, <2>4, <2>6, <2>7, <2>8, <2>11, <2>12, <2>13, Zenon
  <1>5. CASE ~Listens(p)
    <2>1. /\ flag' = [flag EXCEPT ![p] = @ \/ status[p] \notin {"NON", "DMT"}]
          /\ UNCHANGED <<threadVars, receiver>>
      BY <1>5 DEF Notify
    <2>2. flag' \in [Thread -> BOOLEAN]
      BY <1>3, <2>1
    <2>4. RX(ready, status)' /\ CQ(caller, waitType)' /\ RQ(receiver, waitType)'
      BY <2>1, Zenon DEF Inv, RX, CQ, RQ
    <2>5. WaitInv' /\ RunnerInv'
      BY <1>1, <1>2, <2>1, ZenonT(30) DEF Inv, WaitInv, RunnerInv
    <2>6. PortInv'
      BY <1>1, <1>2, <2>1, Zenon DEF Inv, PortInv, ClosedPortEmpty, NoMissedRendezvous
    <2>7. KeyInv'
      BY <2>1, KeyFrame, Zenon
    <2> QED BY <1>2, <2>2, <2>4, <2>5, <2>6, <2>7
  <1> QED BY <1>4, <1>5

\* ipc_notify as a system call.
LEMMA NotifyStep ==
  ASSUME Inv, NEW t \in Server, NEW p \in Server, IpcNotify(t, p)
  PROVE  Inv'
  <1>1. /\ t \in Thread /\ p \in Thread /\ Runs(t) /\ Notify(p) /\ Leave
        /\ UNCHANGED <<boot, delayVars, opened, caller, replyVars>>
    BY DEF IpcNotify, Thread
  <1>2. /\ RX(ready, status)' /\ CQ(caller, waitType)' /\ RQ(receiver, waitType)'
        /\ WaitInv' /\ PortInv' /\ RunnerInv' /\ KeyInv' /\ flag' \in [Thread -> BOOLEAN]
        /\ mode' = "leave" /\ UNCHANGED <<running, noRequest>>
    BY <1>1, NotifyKeeps
  <1>3. TypeRest'
    BY <1>1, <1>2 DEF Inv, TypeRest
  <1> QED BY <1>2, <1>3 DEF Inv


\* A key that is not in reply_tree belongs to no call and to no tag.
LEMMA FreeKey ==
  ASSUME Inv, NEW k \in Key, k \notin used
  PROVE  /\ \A s \in Server : \A x \in held[s] : x[1] # k
         /\ \A s \in Server, u \in Thread : <<k, u>> \notin held[s]
         /\ \A u \in Thread : Pending(u) => callKey[u] # k
  <1>1. \A s \in Server : \A x \in held[s] : x[1] # k
    BY DEF Inv, KeyInv, ReplyToCallerOnly
  <1>2. \A s \in Server, u \in Thread : <<k, u>> \notin held[s]
    BY <1>1
  <1> QED BY <1>1, <1>2 DEF Inv, KeyInv

\* ipc_call to a server that is busy.
LEMMA CallQueueKeeps ==
  ASSUME Inv, NEW t \in Thread \ {Idle, Delay}, NEW p \in Server, NEW k \in Key,
         IpcCall(t, p, k), receiver[p] = <<>>
  PROVE  Inv'
  <1>1. /\ Runs(t) /\ p # t /\ opened[p] /\ k \notin used /\ used' = used \cup {k}
        /\ callKey' = [callKey EXCEPT ![t] = k]
        /\ caller' = [caller EXCEPT ![p] = ListEnqueue(@, t)]
        /\ rcaller' = [rcaller EXCEPT ![k] = NoThread]
        /\ Wait(status, ready, t, "call") /\ waitType' = [waitType EXCEPT ![t] = "call"]
        /\ UNCHANGED <<boot, delayVars, opened, flag, receiver, held>>
    BY Zenon DEF IpcCall, CallQueue, Wait
  <1>2. /\ mode = "thread" /\ running = t /\ callKey[t] = NoKey /\ waitType[t] = "none"
    BY <1>1, RunsFacts, Zenon
  <1>3. /\ "call" \in WaitTypes \ {"none"} /\ "call" \in WaitTypes \ {"receive"}
        /\ "call" \in {"call", "send"}
    BY DEF WaitTypes
  <1>4. StatusOK(status) /\ RX(ready, status) /\ p \in Thread /\ t \in Thread /\ t # Delay
    BY StatusIsOK DEF Inv, Thread
  <1>5. /\ RX(ready, status)' /\ WaitInv' /\ RunnerInv'
        /\ \A x \in Thread : status[x] \notin {"NON", "DMT"} => status'[x] \notin {"NON", "DMT"}
        /\ mode' = "leave" /\ noRequest' = FALSE /\ running' = running
    BY <1>1, <1>2, <1>3, <1>4, WaitKeeps, ZenonT(30)
  <1>6. CQ(caller, waitType)'
    BY <1>1, <1>2, <1>3, <1>4, CallerEnqueued, ZenonT(30) DEF Inv
  <1>7. RQ(receiver, waitType)'
    BY <1>1, <1>2, <1>3, <1>4, ReceiverSame, ZenonT(30) DEF Inv
  <1>8. /\ caller \in [Thread -> Seq(Thread)] /\ callKey \in [Thread -> Key \cup {NoKey}]
        /\ rcaller \in [Key -> Thread \cup {NoThread}] /\ waitType \in [Thread -> WaitTypes]
    BY Zenon DEF Inv, CQ, TypeRest
  <1>9. PortInv'
    BY <1>1, <1>2, <1>4, <1>5, <1>8, Zenon DEF Inv, PortInv, ClosedPortEmpty, NoMissedRendezvous
  <1>10. TypeRest'
    <2>1. callKey' \in [Thread -> Key \cup {NoKey}] /\ rcaller' \in [Key -> Thread \cup {NoThread}]
      BY <1>1, <1>8, Zenon
    <2> QED BY <1>1, <1>5, <2>1, ZenonT(30) DEF Inv, TypeRest
  <1>11. KeyInv'
    <2>1. \A x \in Thread \ {t} : waitType'[x] = waitType[x] /\ callKey'[x] = callKey[x]
      BY <1>1, <1>8, Zenon
    <2>2. waitType'[t] = "call" /\ callKey'[t] = k /\ k # NoKey
      BY <1>1, <1>4, <1>8, KeyAssumption, Zenon
    <2>3. \A x \in Thread : Pending(x)' <=> Pending(x) \/ x = t
      BY <2>1, <2>2 DEF Pending
    <2>4. /\ \A s \in Server : \A x \in held[s] : x[1] # k
          /\ \A s \in Server, u \in Thread : <<k, u>> \notin held[s]
          /\ \A u \in Thread : Pending(u) => callKey[u] # k
      BY <1>1, FreeKey, Zenon
    <2>5. ReplyToCallerOnly'
      <3>1. \A s \in Server : \A x \in held[s] : x[1] \in used
        BY Zenon DEF Inv, KeyInv, ReplyToCallerOnly
      <3>2. \A j \in Key \ {k} : rcaller'[j] = rcaller[j]
        BY <1>1, <1>8, Zenon
      <3>3. used \subseteq Key
        BY Zenon DEF Inv, TypeRest
      <3> QED BY <1>1, <2>4, <3>1, <3>2, <3>3 DEF Inv, KeyInv, ReplyToCallerOnly
    <2>6. \A j \in used' : rcaller'[j] # NoThread =>
             waitType'[rcaller'[j]] = "reply" /\ callKey'[rcaller'[j]] = j
      <3>1. SUFFICES ASSUME NEW j \in used', rcaller'[j] # NoThread
                     PROVE  waitType'[rcaller'[j]] = "reply" /\ callKey'[rcaller'[j]] = j
        OBVIOUS
      <3>2. j \in used /\ j \in Key /\ j # k /\ rcaller'[j] = rcaller[j]
        BY <1>1, <1>8, <3>1, Zenon DEF Inv, TypeRest
      <3>3. waitType[rcaller[j]] = "reply" /\ callKey[rcaller[j]] = j /\ rcaller[j] \in Thread
        <4>1. rcaller[j] # NoThread
          BY <3>1, <3>2
        <4>2. waitType[rcaller[j]] = "reply" /\ callKey[rcaller[j]] = j
          BY <3>2, <4>1, Zenon DEF Inv, KeyInv
        <4>3. rcaller[j] \in Thread
          BY <3>2, <4>1, Zenon DEF Inv, TypeRest
        <4> QED BY <4>2, <4>3
      <3> QED BY <1>2, <2>1, <3>2, <3>3, Zenon
    <2>7. /\ \A x \in Thread : waitType'[x] \in {"call", "reply"} => callKey'[x] # NoKey
          /\ \A x \in Thread : waitType'[x] \in {"send", "receive", "flag"} => callKey'[x] = NoKey
      BY <2>1, <2>2, Zenon DEF Inv, KeyInv
    <2>8. \A x \in Thread : Pending(x)' =>
            /\ callKey'[x] \in used'
            /\ \A s \in Server, v \in Thread : <<callKey'[x], v>> \notin held'[s]
            /\ \A v \in Thread : Pending(v)' /\ callKey'[v] = callKey'[x] => v = x
      <3>1. \A s \in Server, v \in Thread : <<k, v>> \notin held'[s]
        BY <1>1, <2>4, Zenon
      <3>2. \A x \in Thread : Pending(x) =>
              /\ callKey[x] \in used
              /\ \A s \in Server, v \in Thread : <<callKey[x], v>> \notin held[s]
              /\ \A v \in Thread : Pending(v) /\ callKey[v] = callKey[x] => v = x
        BY Zenon DEF Inv, KeyInv
      <3>3. used' = used \cup {k} /\ held' = held /\ ~Pending(t)
        BY <1>1, <1>2, Zenon DEF Pending
      <3>4. \A x \in Thread : Pending(x) => callKey'[x] = callKey[x] /\ callKey[x] # k
        BY <2>1, <2>4, <3>3, Zenon
      <3>5. SUFFICES ASSUME NEW x \in Thread, Pending(x)'
                     PROVE  /\ callKey'[x] \in used'
                            /\ \A s \in Server, v \in Thread : <<callKey'[x], v>> \notin held'[s]
                            /\ \A v \in Thread : Pending(v)' /\ callKey'[v] = callKey'[x] => v = x
        BY Zenon
      <3>6. CASE x = t
        <4>1. callKey'[x] = k
          BY <2>2, <3>6, Zenon
        <4>2. \A v \in Thread : Pending(v)' /\ callKey'[v] = k => v = x
          BY <2>3, <3>4, <3>6, Zenon
        <4> QED BY <3>1, <3>3, <4>1, <4>2, Zenon
      <3>7. CASE x # t
        <4>1. Pending(x) /\ callKey'[x] = callKey[x] /\ callKey[x] # k
          BY <2>3, <3>4, <3>5, <3>7, Zenon
        <4>2. \A v \in Thread : Pending(v)' /\ callKey'[v] = callKey[x] => v = x
          BY <2>2, <2>3, <3>2, <3>4, <4>1, Zenon
        <4> QED BY <3>2, <3>3, <4>1, <4>2, Zenon
      <3> QED BY <3>6, <3>7, Zenon
    <2> QED BY <2>5, <2>6, <2>7, <2>8 DEF KeyInv
  <1> QED BY <1>5, <1>6, <1>7, <1>9, <1>10, <1>11, Zenon DEF Inv
=============================================================================
