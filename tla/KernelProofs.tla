--------------------------- MODULE KernelProofs ----------------------------
(***************************************************************************)
(* The invariants of Kernel, proved for any sets of servers, users, keys    *)
(* and priorities.                                                          *)
(***************************************************************************)
EXTENDS KernelThreadProofs

USE DEF threadVars, syncVars, delayVars, portVars, replyVars

(***************************************************************************)
(* The delay server                                                         *)
(***************************************************************************)

\* ready_rotate moves a thread to the end of its own ready queue.
LEMMA RotatedExact ==
  ASSUME Inv, NEW t \in Thread
  PROVE  RX(Rotated(t), status)
  <1> DEFINE p == Prio[t]
             q == ListEnqueue(ListDequeue(ready[p]), t)
  <1>1. p \in Priority /\ ready[p] \in Seq(Thread) /\ NoDup(ready[p])
    BY PrioAssumption, ZenonT(30) DEF Inv, RX
  <1>2. CASE ready[p] # <<>> /\ Head(ready[p]) = t
    <2>1. /\ ListDequeue(ready[p]) \in Seq(Thread) /\ NoDup(ListDequeue(ready[p]))
          /\ Elems(ListDequeue(ready[p])) = Elems(ready[p]) \ {t} /\ t \in Elems(ready[p])
      BY <1>1, <1>2, DequeueUnlinks
    <2>2. q \in Seq(Thread) /\ Elems(q) = Elems(ready[p]) /\ NoDup(q)
      <3> DEFINE d == ListDequeue(ready[p])
      <3>1. d \in Seq(Thread) /\ NoDup(d) /\ t \notin Elems(d) /\ Elems(d) \cup {t} = Elems(ready[p])
        BY <2>1
      <3> HIDE DEF d
      <3>2. /\ ListEnqueue(d, t) \in Seq(Thread) /\ NoDup(ListEnqueue(d, t))
            /\ Elems(ListEnqueue(d, t)) = Elems(d) \cup {t}
        BY <3>1, EnqueueLinks
      <3> QED BY <3>1, <3>2 DEF d
    <2>3. Rotated(t) \in {ready, [ready EXCEPT ![p] = q]}
      BY DEF Rotated
    <2> HIDE DEF q
    <2>4. RX([ready EXCEPT ![p] = q], status)
      BY <1>1, <2>2 DEF Inv, RX
    <2> QED BY <2>3, <2>4 DEF Inv
  <1>3. CASE ~(ready[p] # <<>> /\ Head(ready[p]) = t)
    BY <1>3 DEF Rotated, Inv
  <1> QED BY <1>2, <1>3

\* Delayed calls.
LEMMA DelayStep ==
  ASSUME Inv, DelayProcess
  PROVE  Inv'
  <1> DEFINE c == Head(kqueue)
  <1>1. /\ Runs(Delay) /\ kqueue # <<>> /\ kqueue' = Tail(kqueue)
        /\ UNCHANGED <<boot, delayStart, opened, replyVars>>
    BY DEF DelayProcess
  <1>2. kqueue' \in Seq(DelayedCall) /\ c \in DelayedCall
    BY <1>1 DEF Inv, TypeRest
  <1>3. /\ Delay \in Thread /\ Delay # Idle /\ Manager \in Thread /\ Manager # Delay
        /\ User \subseteq Thread \ {Idle, Delay} /\ Server \subseteq Thread \ {Idle, Delay}
        /\ Listener \subseteq Server
    BY ThreadAssumption DEF Thread
  <1>4. /\ mode = "thread" /\ running = Delay /\ noRequest /\ ~delayStart
        /\ status[Delay] \in Runnable /\ waitType[Delay] = "none"
    BY <1>1, <1>3, RunsFacts
  <1>5. CASE c[1] = "thread_destroy" /\ Destroyed(c[2]) /\ Leave
             /\ UNCHANGED <<ready, waitType, flag, caller, receiver>>
    <2>1. c[2] \in Server
      BY <1>2, <1>5 DEF DelayedCall
    <2>2. c[2] \in Thread \ {Idle} /\ c[2] # Delay
      BY <1>3, <2>1
    <2>3. UNCHANGED <<boot, ready, waitType, delayStart, portVars, flag, replyVars>>
      BY <1>1, <1>5
    <2> QED BY <1>1, <1>2, <1>3, <1>5, <2>2, <2>3, DestroyKeeps, ZenonT(30)
  <1>6. CASE c[1] = "ready_rotate" /\ ready' = Rotated(c[2]) /\ Leave
             /\ UNCHANGED <<status, waitType, flag, caller, receiver>>
    <2>1. c[2] \in Thread /\ mode' = "leave" /\ UNCHANGED <<running, noRequest>>
      BY <1>2, <1>3, <1>6 DEF DelayedCall, Leave
    <2>2. RX(ready, status)'
      BY <1>6, <2>1, RotatedExact
    <2>3. TypeRest'
      BY <1>1, <1>2, <1>6, <2>1 DEF Inv, TypeRest
    <2>4. CQ(caller, waitType)' /\ RQ(receiver, waitType)'
      BY <1>6 DEF Inv, CQ, RQ
    <2>5. WaitInv' /\ RunnerInv'
      BY <1>1, <1>4, <1>6, <2>1 DEF Inv, WaitInv, RunnerInv
    <2>6. PortInv'
      BY <1>1, <1>4, <1>6, ZenonT(30) DEF Inv, PortInv, ClosedPortEmpty, NoMissedRendezvous
    <2>7. KeyInv'
      BY <1>1, <1>6, KeyFrame
    <2> QED BY <2>2, <2>3, <2>4, <2>5, <2>6, <2>7 DEF Inv
  <1>7. CASE c[1] = "ipc_notify" /\ Notify(c[2]) /\ Leave /\ UNCHANGED caller
    <2>1. c[2] \in Thread
      BY <1>2, <1>3, <1>7 DEF DelayedCall
    <2>2. /\ RX(ready, status)' /\ CQ(caller, waitType)' /\ RQ(receiver, waitType)'
          /\ WaitInv' /\ PortInv' /\ RunnerInv' /\ KeyInv' /\ flag' \in [Thread -> BOOLEAN]
          /\ mode' = "leave" /\ UNCHANGED <<running, noRequest>>
      BY <1>1, <1>3, <1>7, <2>1, NotifyKeeps
    <2>3. TypeRest'
      BY <1>1, <1>2, <2>2 DEF Inv, TypeRest
    <2> QED BY <2>2, <2>3 DEF Inv
  <1>8. CASE c[1] = "kill" /\ Kill(c[2]) /\ UNCHANGED flag
    <2> DEFINE u == c[2]
    <2>1. u \in Thread \ {Idle, Delay}
      BY <1>2, <1>3, <1>8 DEF DelayedCall
    <2>2. Kill(u) /\ u \in Thread \ {Idle}
      BY <1>8, <2>1
    <2> HIDE DEF u
    <2>3. /\ RX(SuspendedReady(u), Suspended(u)) /\ StatusOK(Suspended(u))
          /\ \A x \in Thread \ {u} : Suspended(u)[x] = status[x]
      BY <2>2, SuspendKeeps
    <2>4. Suspended(u)[Delay] = status[Delay]
      BY <1>3, <2>1, <2>3
    <2>5. CASE opened[Manager]
      <3>1. Send(Suspended(u), SuspendedReady(u), Delay, Manager)
        BY <2>2, <2>5 DEF Kill
      <3>2. Manager \in Server /\ Delay \in Thread \ {Idle}
        BY <1>3, ThreadAssumption
      <3>3. UNCHANGED <<delayStart, opened, replyVars>>
        BY <1>1
      <3>4. /\ RX(ready, status)' /\ CQ(caller, waitType)' /\ RQ(receiver, waitType)'
            /\ WaitInv' /\ PortInv' /\ RunnerInv' /\ KeyInv'
            /\ mode' = "leave" /\ noRequest' \in BOOLEAN /\ running' = running
        BY <1>1, <1>3, <1>4, <2>3, <2>4, <2>5, <3>1, <3>2, <3>3, SendKeeps, Zenon
      <3>5. TypeRest'
        BY <1>1, <1>2, <1>8, <3>4 DEF Inv, TypeRest
      <3> QED BY <3>4, <3>5 DEF Inv
    <2>6. CASE ~opened[Manager]
      <3>1. /\ status' = Suspended(u) /\ ready' = SuspendedReady(u)
            /\ mode' = "leave" /\ UNCHANGED <<running, noRequest>>
            /\ UNCHANGED <<waitType, caller, receiver>>
        BY <2>2, <2>6 DEF Kill, Leave
      <3>2. RX(ready, status)'
        BY <2>3, <3>1
      <3>3. TypeRest'
        BY <1>1, <1>2, <1>8, <3>1 DEF Inv, TypeRest
      <3>4. CQ(caller, waitType)' /\ RQ(receiver, waitType)'
        BY <3>1 DEF Inv, CQ, RQ
      <3>5. WaitInv'
        BY <2>3, <3>1, ZenonT(30) DEF WaitInv, StatusOK
      <3>6. RunnerInv'
        BY <1>1, <1>3, <1>4, <2>3, <2>4, <3>1 DEF Inv, RunnerInv, StatusOK
      <3>7. PortInv'
        <4>1. \A x \in Thread : status[x] \notin {"NON", "DMT"} => status'[x] \notin {"NON", "DMT"}
          BY <2>3, <3>1 DEF StatusOK
        <4> QED BY <1>1, <1>4, <3>1, <4>1 DEF Inv, PortInv, ClosedPortEmpty, NoMissedRendezvous
      <3>8. KeyInv'
        BY <1>1, <3>1, KeyFrame
      <3> QED BY <3>2, <3>3, <3>4, <3>5, <3>6, <3>7, <3>8 DEF Inv
    <2> QED BY <2>5, <2>6
  <1>9. \/ c[1] = "thread_destroy" /\ Destroyed(c[2]) /\ Leave
             /\ UNCHANGED <<ready, waitType, flag, caller, receiver>>
        \/ c[1] = "ready_rotate" /\ ready' = Rotated(c[2]) /\ Leave
             /\ UNCHANGED <<status, waitType, flag, caller, receiver>>
        \/ c[1] = "ipc_notify" /\ Notify(c[2]) /\ Leave /\ UNCHANGED caller
        \/ c[1] = "kill" /\ Kill(c[2]) /\ UNCHANGED flag
    BY DEF DelayProcess
  <1> QED BY <1>5, <1>6, <1>7, <1>8, <1>9

(***************************************************************************)
(* The theorems                                                             *)
(***************************************************************************)

\* Inv does not depend on drained.
LEMMA FrameStep ==
  ASSUME Inv,
         UNCHANGED <<boot, threadVars, syncVars, delayStart, kqueue, portVars, flag, replyVars>>
  PROVE  Inv'
  <1>1. TypeRest'
    BY DEF Inv, TypeRest
  <1>2. RX(ready, status)' /\ CQ(caller, waitType)' /\ RQ(receiver, waitType)'
    BY DEF Inv, RX, CQ, RQ
  <1>3. WaitInv' /\ RunnerInv'
    BY DEF Inv, WaitInv, RunnerInv
  <1>4. PortInv'
    BY DEF Inv, PortInv, ClosedPortEmpty, NoMissedRendezvous
  <1>5. KeyInv'
    BY KeyFrame
  <1> QED BY <1>1, <1>2, <1>3, <1>4, <1>5 DEF Inv

\* Every step of the kernel, of a thread or of a device preserves Inv.
LEMMA NextInv == Inv /\ [Next]_vars => Inv'
  <1> SUFFICES ASSUME Inv, [Next]_vars PROVE Inv'
    OBVIOUS
  <1>1. Server \cup User \subseteq Thread /\ Delay \in Thread \ {Idle}
        /\ Server \subseteq Thread \ {Idle}
    BY ThreadAssumption DEF Thread
  <1>2. CASE KernelStep
    <2>1. CASE \E t \in Server : ReleaseAll(t)
      BY <2>1, ReleaseAllStep
    <2>2. CASE IpcListen(Delay)
      BY <1>1, <2>2, ListenStep
    <2>3. CASE DelayDrained
      BY <2>3, FrameStep DEF DelayDrained
    <2> QED BY <1>2, <2>1, <2>2, <2>3, SkipStep, DispatchStep, DelayStep DEF KernelStep
  <1>3. CASE BootCreate
    BY <1>3, BootStep
  <1>4. ASSUME NEW t \in Server, ServerStep(t) \/ IpcListen(t) PROVE Inv'
    <2>1. CASE IpcListen(t)
      BY <1>1, <2>1, ListenStep
    <2>2. CASE \E tag \in held[t] : IpcReply(t, tag)
      BY <2>2, ReplyStep
    <2>3. CASE \E p \in Server : IpcSend(t, p)
      BY <2>3, SendStep
    <2>4. CASE \E p \in Server : IpcNotify(t, p)
      BY <2>4, NotifyStep
    <2> QED BY <1>4, <2>1, <2>2, <2>3, <2>4, OpenStep, CloseStep, ReceiveStep, EndStep
            DEF ServerStep
  <1>5. ASSUME NEW t \in Server \cup User,
               \/ KernelError(t)
               \/ IpcCallDeleted(t)
               \/ \E p \in Server, k \in Key : IpcCall(t, p, k)
        PROVE Inv'
    <2>1. t \in Thread
      BY <1>1
    <2> QED BY <1>5, <2>1, ErrorStep, CallDeletedStep, CallStep
  <1>6. ASSUME NEW u \in User, ManagerStep(u) PROVE Inv'
    BY <1>6, CreateStep, StartStep, DestroyStep, TerminateStep, SuspendStep, ResumeStep
       DEF ManagerStep
  <1>7. CASE Interrupt
    BY <1>7, InterruptStep
  <1>8. CASE UNCHANGED vars
    BY <1>8, FrameStep DEF vars
  <1> QED BY <1>2, <1>3, <1>4, <1>5, <1>6, <1>7, <1>8 DEF Next

\* Inv holds in every state the kernel reaches.
THEOREM Invariance == Spec => []Inv
  BY InitInv, NextInv, PTL DEF Spec

\* Only delay_process and its ipc_listen change what delay_process has found.
LEMMA DrainedStep ==
  ASSUME drained \in BOOLEAN, [Next]_vars
  PROVE  drained' \in BOOLEAN
  <1>1. CASE KernelStep
    BY <1>1, Zenon DEF KernelStep, SkipDispatch, Dispatch, ReleaseAll, DelayProcess, DelayDrained,
                IpcListen
  <1>2. CASE BootCreate
    BY <1>2 DEF BootCreate, Created
  <1>3. ASSUME NEW t \in Server, ServerStep(t) \/ IpcListen(t) PROVE drained' \in BOOLEAN
    BY <1>3, Zenon DEF ServerStep, IpcOpen, IpcClose, IpcReceive, IpcReply, IpcSend, IpcNotify,
                ThreadEndAndDestroy, Queued, IpcListen
  <1>4. ASSUME NEW t \in Server \cup User,
               \/ KernelError(t)
               \/ IpcCallDeleted(t)
               \/ \E p \in Server, k \in Key : IpcCall(t, p, k)
        PROVE drained' \in BOOLEAN
    BY <1>4 DEF KernelError, IpcCallDeleted, IpcCall
  <1>5. ASSUME NEW u \in User, ManagerStep(u) PROVE drained' \in BOOLEAN
    BY <1>5 DEF ManagerStep, ThreadCreate, Created, ThreadStart, ThreadDestroy,
                ThreadTerminate, ThreadSuspend, ThreadResume
  <1>6. CASE Interrupt
    BY <1>6 DEF Interrupt, Queued
  <1>7. CASE UNCHANGED vars
    BY <1>7 DEF vars
  <1> QED BY <1>1, <1>2, <1>3, <1>4, <1>5, <1>6, <1>7 DEF Next

\* The state of the kernel keeps its type.
THEOREM TypeCorrect == Spec => []TypeOK
  <1>1. ASSUME Inv, drained \in BOOLEAN PROVE TypeOK
    BY <1>1 DEF Inv, TypeRest, RX, CQ, RQ, TypeOK, Statuses, WaitTypes
  <1>2. Init => drained \in BOOLEAN
    BY Zenon DEF Init
  <1>3. (drained \in BOOLEAN) /\ [Next]_vars => (drained \in BOOLEAN)'
    BY DrainedStep
  <1> QED BY <1>1, <1>2, <1>3, Invariance, PTL DEF Spec

\* The ready queues hold exactly the threads that can run: ready_enqueue and
\* list_remove(&queue) are called in the right places.
THEOREM ReadyQueuesExact == Spec => []ReadyExact
  <1>1. Inv => ReadyExact
    BY DEF Inv, RX, ReadyExact, Runnable
  <1> QED BY <1>1, Invariance, PTL

\* wait.type and the lists of the ports agree: list_remove(&wait.waiting) never
\* meets a thread that is not linked where the type says.
THEOREM WaitsLinked == Spec => []WaitLinked
  <1>1. ASSUME Inv PROVE WaitLinked
    <2>1. \A p \in Thread : NoDup(caller[p]) /\ NoDup(receiver[p])
      BY <1>1, Zenon DEF Inv, CQ, RQ
    <2>2. \A t \in Thread : (waitType[t] # "none") = Waits(t)
      BY <1>1 DEF Inv, WaitInv, Waits
    <2>3. \A t \in Thread :
            waitType[t] \in {"call", "send"} <=> \E p \in Thread : t \in Elems(caller[p])
      BY <1>1 DEF Inv, CQ
    <2>4. \A t \in Thread :
            waitType[t] = "receive" <=> \E p \in Thread : t \in Elems(receiver[p])
      BY <1>1 DEF Inv, RQ
    <2>5. \A t, p, q \in Thread :
            /\ t \in Elems(caller[p]) /\ t \in Elems(caller[q]) => p = q
            /\ t \in Elems(receiver[p]) => t = p
      BY <1>1, Zenon DEF Inv, CQ, RQ
    <2> QED BY <2>1, <2>2, <2>3, <2>4, <2>5 DEF WaitLinked
  <1> QED BY <1>1, Invariance, PTL

\* ipc_receive, ipc_call and ipc_send never leave a message and its receiver
\* waiting for each other.
THEOREM NothingMissed == Spec => []NoMissedRendezvous
  <1>1. Inv => NoMissedRendezvous
    BY DEF Inv, PortInv
  <1> QED BY <1>1, Invariance, PTL

\* Nobody is left in a list of a port that is closed: ipc_close, _release_all and
\* the end of a thread leave it empty.
THEOREM ClosedPortsEmpty == Spec => []ClosedPortEmpty
  <1>1. Inv => ClosedPortEmpty
    BY DEF Inv, PortInv
  <1> QED BY <1>1, Invariance, PTL

\* A thread that executes is one that can run, and no dispatch is owed to
\* anybody: leave_serialize serves every request before it returns.
THEOREM RunnerRunnable == Spec => []RunnerIsRunnable
  <1>1. Inv => RunnerIsRunnable
    BY DEF Inv, TypeRest, RunnerInv, RunnerIsRunnable, Runnable
  <1> QED BY <1>1, Invariance, PTL

\* A reply goes to the caller of its tag or to nobody, although keys are used
\* again, callers are terminated and replies fail half-way.
THEOREM RepliesReachCaller == Spec => []ReplyToCallerOnly
  <1>1. Inv => ReplyToCallerOnly
    BY DEF Inv, KeyInv
  <1> QED BY <1>1, Invariance, PTL

\* ipc_receive finds the record of every queued call in reply_tree.
THEOREM QueuedCallsHaveRecords == Spec => []QueuedCallHasRecord
  <1>1. ASSUME Inv PROVE QueuedCallHasRecord
    <2>1. \A t \in Thread : waitType[t] = "call" => Pending(t)
      BY <1>1 DEF Inv, KeyInv, Pending
    <2> QED BY <1>1, <2>1 DEF Inv, KeyInv, QueuedCallHasRecord
  <1> QED BY <1>1, Invariance, PTL

-----------------------------------------------------------------------------
(***************************************************************************)
(* Delayed calls                                                            *)
(***************************************************************************)

\* NoLostDelayedCall is inductive together with this: the delay thread is never
\* suspended nor ended, and a call that was queued after delay_process found kqueue
\* empty is announced by the flag, or by a dispatch that is still to come.
DelayInv ==
  /\ drained \in BOOLEAN
  /\ status[Delay] \in {"NON", "RDY", "RUN", "WAI"}
  /\ NoLostDelayedCall
  /\ drained => status[Delay] \in Runnable
  /\ drained /\ kqueue # <<>> => flag[Delay] \/ (delayStart /\ ~noRequest)

\* Steps that do not concern the delay thread.
LEMMA DelayFrame ==
  ASSUME DelayInv, UNCHANGED delayVars,
         status'[Delay] = status[Delay], waitType'[Delay] = waitType[Delay],
         flag'[Delay] = flag[Delay], noRequest' => noRequest
  PROVE  DelayInv'
  BY DEF DelayInv, NoLostDelayedCall, Runnable

\* Steps after which it can run.
LEMMA DelayRunnable ==
  ASSUME DelayInv, UNCHANGED delayVars, flag' = flag, status'[Delay] \in Runnable,
         noRequest' => noRequest
  PROVE  DelayInv'
  BY DEF DelayInv, NoLostDelayedCall, Runnable

\* A call is queued and a dispatch requested (an interrupt, thread_end_and_destroy).
LEMMA DelayQueued ==
  ASSUME Inv, DelayInv, NEW c \in DelayedCall, Queued(c), noRequest' = FALSE,
         status'[Delay] = status[Delay], waitType'[Delay] = waitType[Delay],
         flag' = flag
  PROVE  DelayInv'
  <1>1. CASE Len(kqueue) < KqueueSize
    <2>1. kqueue' = Append(kqueue, c) /\ delayStart' = TRUE /\ drained' = drained
      BY <1>1 DEF Queued
    <2> QED BY <2>1 DEF DelayInv, NoLostDelayedCall, Runnable
  <1>2. CASE ~(Len(kqueue) < KqueueSize)
    <2>1. UNCHANGED delayVars
      BY <1>2 DEF Queued
    <2> QED BY <2>1, DelayFrame
  <1> QED BY <1>1, <1>2

\* release() of the first caller or receiver of a server's port: when that is the
\* delay thread, it becomes ready, for it is never suspended.
LEMMA DelayReleased ==
  ASSUME Inv, DelayInv, NEW h \in Thread, waitType[h] # "none", Release(status, ready, h),
         UNCHANGED delayVars, flag' = flag, noRequest' => noRequest
  PROVE  DelayInv'
  <1>1. /\ status \in [Thread -> Statuses] /\ waitType \in [Thread -> WaitTypes]
        /\ Delay \in Thread
    BY ZenonT(30) DEF Inv, RX, CQ, Thread
  <1>2. /\ status' = [status EXCEPT ![h] = IF @ = "WAI" THEN "RDY" ELSE "SUS"]
        /\ waitType' = [waitType EXCEPT ![h] = "none"]
    BY DEF Release, Woken
  <1>3. CASE h = Delay
    <2>1. status[Delay] = "WAI"
      BY <1>1, <1>3 DEF DelayInv, Inv, WaitInv
    <2>2. status'[Delay] \in Runnable
      BY <1>1, <1>2, <1>3, <2>1 DEF Runnable
    <2> QED BY <2>2, DelayRunnable
  <1>4. CASE h # Delay
    <2>1. status'[Delay] = status[Delay] /\ waitType'[Delay] = waitType[Delay]
      BY <1>1, <1>2, <1>4
    <2> QED BY <2>1, DelayFrame
  <1> QED BY <1>3, <1>4

\* A server is not the delay thread, nor a user.
LEMMA DelayApart ==
  /\ Delay \in Thread /\ Delay \notin Server /\ Delay \notin User
  /\ Server \subseteq Thread /\ User \subseteq Thread /\ Listener \subseteq Server
  BY ThreadAssumption DEF Thread

\* What a server does wakes the delay thread at most: it is released when it waits
\* to send a signal to the port the server receives from.
LEMMA DelayServerStep ==
  ASSUME Inv, DelayInv, NEW t \in Server, ServerStep(t) \/ IpcListen(t)
  PROVE  DelayInv'
  <1>1. /\ status \in [Thread -> Statuses] /\ waitType \in [Thread -> WaitTypes]
        /\ ready \in [Priority -> Seq(Thread)] /\ flag \in [Thread -> BOOLEAN]
        /\ t \in Thread /\ t # Delay
    BY DelayApart, ZenonT(30) DEF Inv, RX, CQ, TypeRest
  <1>2. \A w : Wait(status, ready, t, w) =>
          /\ status'[Delay] = status[Delay] /\ waitType'[Delay] = waitType[Delay]
          /\ noRequest' = FALSE
    BY <1>1, DelayApart DEF Wait, LeaveAndDispatch
  <1>3. Leave => noRequest' = noRequest
    BY DEF Leave
  <1>4. \A p \in Server : receiver[p] # <<>> => Head(receiver[p]) = p /\ waitType[p] = "receive"
    BY DelayApart, ReceiverIsOwner DEF Inv
  <1>5. CASE IpcOpen(t) \/ IpcClose(t)
    BY <1>3, <1>5, DelayFrame DEF IpcOpen, IpcClose
  <1>6. CASE IpcReceive(t)
    <2>1. CASE flag[t] /\ flag' = [flag EXCEPT ![t] = FALSE] /\ Leave /\ UNCHANGED threadVars
      <3>1. flag'[Delay] = flag[Delay]
        BY <1>1, <2>1, DelayApart, Zenon
      <3> QED BY <1>3, <1>6, <2>1, <3>1, DelayFrame DEF IpcReceive
    <2>2. CASE caller[t] # <<>> /\ ReceiveQueued(t)
      <3>1. Head(caller[t]) \in Thread /\ Head(caller[t]) \in Elems(caller[t])
        BY <1>1, <2>2, DequeueUnlinks DEF Inv, CQ
      <3>2. waitType[Head(caller[t])] \in {"call", "send"}
        BY <1>1, <3>1 DEF Inv, CQ
      <3>3. Leave /\ flag' = flag /\ UNCHANGED delayVars
        BY <1>6, <2>2 DEF IpcReceive, ReceiveQueued
      <3>4. CASE waitType[Head(caller[t])] = "call"
        <4>1. Head(caller[t]) # Delay
          BY <3>4 DEF Inv, RunnerInv
        <4>2. status' = status /\ waitType' = [waitType EXCEPT ![Head(caller[t])] = "reply"]
          BY <2>2, <3>4 DEF ReceiveQueued
        <4>3. waitType'[Delay] = waitType[Delay]
          BY <1>1, <4>1, <4>2, DelayApart
        <4> QED BY <1>3, <3>3, <4>2, <4>3, DelayFrame
      <3>5. CASE waitType[Head(caller[t])] = "send"
        <4>1. Release(status, ready, Head(caller[t]))
          BY <2>2, <3>5 DEF ReceiveQueued
        <4> QED BY <1>3, <3>1, <3>3, <3>5, <4>1, DelayReleased
      <3> QED BY <3>2, <3>4, <3>5
    <2>3. CASE Wait(status, ready, t, "receive") /\ flag' = flag
      BY <1>1, <1>2, <1>6, <2>3, DelayFrame DEF IpcReceive
    <2> QED BY <1>6, <2>1, <2>2, <2>3 DEF IpcReceive
  <1>7. ASSUME NEW tag \in held[t], IpcReply(t, tag) PROVE DelayInv'
    <2> DEFINE k == tag[1]
    <2>1. UNCHANGED delayVars /\ flag' = flag
      BY <1>7 DEF IpcReply
    <2>2. CASE ReplyFails
      BY <1>3, <2>1, <2>2, DelayFrame DEF ReplyFails
    <2>3. CASE k \in used /\ ReplyDelivers(k)
      <3>1. noRequest' = FALSE
        BY <2>3 DEF ReplyDelivers, LeaveAndDispatch
      <3>2. CASE rcaller[k] = NoThread
        <4>1. UNCHANGED threadVars
          BY <2>3, <3>2 DEF ReplyDelivers
        <4> QED BY <2>1, <3>1, <4>1, DelayFrame
      <3>3. CASE rcaller[k] # NoThread
        <4>1. rcaller[k] \in Thread /\ waitType[rcaller[k]] = "reply"
          BY <2>3, <3>3 DEF Inv, TypeRest, KeyInv
        <4>2. Release(status, ready, rcaller[k])
          BY <2>3, <3>3 DEF ReplyDelivers
        <4> QED BY <2>1, <3>1, <4>1, <4>2, DelayReleased
      <3> QED BY <3>2, <3>3
    <2> QED BY <1>7, <2>2, <2>3 DEF IpcReply
  <1>8. ASSUME NEW p \in Server, IpcSend(t, p) PROVE DelayInv'
    <2>1. UNCHANGED delayVars /\ flag' = flag /\ Send(status, ready, t, p)
      BY <1>8 DEF IpcSend
    <2>2. CASE Wait(status, ready, t, "send")
      BY <1>1, <1>2, <2>1, <2>2, DelayFrame
    <2>3. CASE receiver[p] # <<>> /\ Release(status, ready, Head(receiver[p])) /\ Leave
      <3>1. Head(receiver[p]) \in Thread /\ waitType[Head(receiver[p])] # "none"
        BY <1>4, <2>3, DelayApart
      <3> QED BY <1>3, <2>1, <2>3, <3>1, DelayReleased
    <2> QED BY <2>1, <2>2, <2>3 DEF Send
  <1>9. ASSUME NEW p \in Server, IpcNotify(t, p) PROVE DelayInv'
    <2>1. UNCHANGED delayVars /\ Leave /\ Notify(p) /\ p \in Thread \ {Delay}
      BY <1>9, DelayApart DEF IpcNotify
    <2>2. /\ status'[Delay] = status[Delay] /\ waitType'[Delay] = waitType[Delay]
          /\ flag'[Delay] = flag[Delay]
      BY <1>1, <2>1, DelayApart DEF Notify, Release, Woken
    <2> QED BY <1>3, <2>1, <2>2, DelayFrame
  <1>10. CASE ThreadEndAndDestroy(t)
    <2> DEFINE c == <<"thread_destroy", t>>
    <2>1. c \in DelayedCall
      BY DEF DelayedCall
    <2>2. /\ Queued(c) /\ noRequest' = FALSE /\ flag' = flag
          /\ status' = [status EXCEPT ![t] = "DMT"] /\ waitType' = waitType
      BY <1>10 DEF ThreadEndAndDestroy, LeaveAndDispatch
    <2>3. status'[Delay] = status[Delay]
      BY <1>1, <2>2, DelayApart
    <2> HIDE DEF c
    <2> QED BY <2>1, <2>2, <2>3, DelayQueued, Zenon
  <1>11. CASE IpcListen(t)
    <2>1. UNCHANGED delayVars
      BY <1>1, <1>11 DEF IpcListen, DelayInv
    <2>2. CASE flag' = [flag EXCEPT ![t] = FALSE] /\ Leave /\ UNCHANGED threadVars
      <3>1. flag'[Delay] = flag[Delay]
        BY <1>1, <2>2, DelayApart, Zenon
      <3> QED BY <1>3, <2>1, <2>2, <3>1, DelayFrame
    <2>3. CASE Wait(status, ready, t, "flag") /\ flag' = flag
      BY <1>1, <1>2, <2>1, <2>3, DelayFrame, Zenon
    <2> QED BY <1>11, <2>2, <2>3 DEF IpcListen
  <1> QED BY <1>5, <1>6, <1>7, <1>8, <1>9, <1>10, <1>11 DEF ServerStep

\* dispatch() hands a pending wake-up to the delay thread, or keeps it in its flag.
LEMMA DelayDispatched ==
  ASSUME Inv, DelayInv, Dispatch
  PROVE  DelayInv'
  <1> DEFINE wake == delayStart /\ Listens(Delay)
             st   == IF wake THEN Woken(status, Delay) ELSE status
             r    == IF wake THEN WokenReady(status, ready, Delay) ELSE ready
             next == Highest(r)
  <1>1. /\ delayStart' = FALSE /\ kqueue' = kqueue /\ drained' = drained
        /\ flag' = [flag EXCEPT ![Delay] = DelayFlag(wake)]
        /\ waitType' = [waitType EXCEPT ![Delay] = IF wake THEN "none" ELSE @]
        /\ status' = IF next = running THEN st
                     ELSE [st EXCEPT ![running] = IF @ = "RUN" THEN "RDY" ELSE @,
                                     ![next] = "RUN"]
    BY DEF Dispatch
  <1>2. /\ status \in [Thread -> Statuses] /\ waitType \in [Thread -> WaitTypes]
        /\ running \in Thread /\ flag \in [Thread -> BOOLEAN] /\ delayStart \in BOOLEAN
        /\ Idle \in Thread /\ Delay \in Thread /\ Idle # Delay
    BY ThreadAssumption, ZenonT(30) DEF Inv, RX, CQ, TypeRest, Thread
  <1>3. wake => status[Delay] = "WAI"
    BY DEF Listens, DelayInv
  <1>4. RX(r, st)
    BY <1>2, <1>3, WokenExact DEF Inv
  <1>5. st = IF wake THEN [status EXCEPT ![Delay] = "RDY"] ELSE status
    BY <1>2, <1>3, Zenon DEF Woken
  <1>6. st[Idle] \in Runnable
    BY <1>2, <1>5, Zenon DEF Inv, RunnerInv
  <1>7. next \in Thread /\ st[next] \in Runnable
    BY <1>4, <1>6, HighestRunnable
  <1>8. st[Delay] \in {"NON", "RDY", "RUN", "WAI"} /\ (wake => st[Delay] = "RDY")
    BY <1>2, <1>5, Zenon DEF DelayInv
  <1>9. /\ flag'[Delay] = DelayFlag(wake)
        /\ waitType'[Delay] = IF wake THEN "none" ELSE waitType[Delay]
    BY <1>1, <1>2
  <1>10. st \in [Thread -> Statuses]
    BY <1>4 DEF RX
  <1> HIDE DEF next, st, r
  <1>11. /\ status'[Delay] \in {"NON", "RDY", "RUN", "WAI"}
         /\ st[Delay] \in Runnable => status'[Delay] \in Runnable
         /\ st[Delay] \notin Runnable => status'[Delay] = st[Delay]
    BY <1>1, <1>2, <1>7, <1>8, <1>10 DEF Runnable
  <1>12. drained => status'[Delay] \in Runnable /\ ~wake
    BY <1>5, <1>11 DEF DelayInv, Listens, Runnable
  <1>13. delayStart => wake \/ flag'[Delay]
    BY <1>9, Zenon DEF DelayFlag
  <1>14. ~delayStart => ~wake /\ flag'[Delay] = flag[Delay]
    BY <1>9 DEF DelayFlag
  <1>15. wake => status'[Delay] \in Runnable
    BY <1>8, <1>11 DEF Runnable
  <1>16. ~wake => st[Delay] = status[Delay] /\ waitType'[Delay] = waitType[Delay]
    BY <1>5, <1>9
  <1> HIDE DEF wake
  <1>17. NoLostDelayedCall'
    BY <1>1, <1>11, <1>13, <1>14, <1>15, <1>16 DEF NoLostDelayedCall, DelayInv, Runnable
  <1>18. drained' /\ kqueue' # <<>> => flag'[Delay]
    BY <1>1, <1>12, <1>13, <1>14 DEF DelayInv
  <1> QED BY <1>1, <1>11, <1>12, <1>17, <1>18 DEF DelayInv

\* delay_process: the delay thread makes a call and comes back, or waits for the
\* manager to receive a signal.
LEMMA DelayProcessed ==
  ASSUME Inv, DelayInv, DelayProcess
  PROVE  DelayInv'
  <1> DEFINE c == Head(kqueue)
  <1>1. Runs(Delay) /\ ~drained /\ drained' = drained /\ c \in DelayedCall
    BY DEF DelayProcess, Inv, TypeRest
  <1>2. status[Delay] \in Runnable
    BY <1>1, DelayApart, RunsFacts
  <1>3. status \in [Thread -> Statuses] /\ waitType \in [Thread -> WaitTypes]
    BY DEF Inv, RX, CQ
  <1>4. ASSUME status'[Delay] = status[Delay] PROVE DelayInv'
    BY <1>1, <1>2, <1>4 DEF DelayInv, NoLostDelayedCall, Runnable
  <1>5. CASE c[1] = "thread_destroy" /\ Destroyed(c[2])
    <2>1. c[2] \in Server
      BY <1>1, <1>5 DEF DelayedCall
    <2> QED BY <1>3, <1>4, <1>5, <2>1, DelayApart DEF Destroyed
  <1>6. CASE status' = status
    BY <1>4, <1>6
  <1>7. CASE c[1] = "ipc_notify" /\ Notify(c[2])
    <2>1. c[2] \in Listener
      BY <1>1, <1>7 DEF DelayedCall
    <2>2. c[2] \in Thread /\ c[2] # Delay
      BY <2>1, DelayApart
    <2> HIDE DEF c
    <2>3. status'[Delay] = status[Delay]
      BY <1>3, <1>7, <2>2, DelayApart DEF Notify, Release, Woken
    <2> QED BY <1>4, <2>3
  <1>8. CASE c[1] = "kill" /\ Kill(c[2])
    <2>1. c[2] \in User
      BY <1>1, <1>8 DEF DelayedCall
    <2>2. c[2] \in Thread /\ c[2] # Delay
      BY <2>1, DelayApart
    <2> HIDE DEF c
    <2>3. Suspended(c[2])[Delay] = status[Delay] /\ DOMAIN Suspended(c[2]) = Thread
      BY <1>3, <2>2, DelayApart DEF Suspended
    <2>4. CASE status' = Suspended(c[2])
      BY <1>4, <2>3, <2>4
    <2>5. CASE Send(Suspended(c[2]), SuspendedReady(c[2]), Delay, Manager)
      <3>1. CASE Wait(Suspended(c[2]), SuspendedReady(c[2]), Delay, "send")
        <4>1. status'[Delay] = "WAI" /\ waitType'[Delay] = "send"
          BY <1>3, <2>3, <3>1, DelayApart DEF Wait
        <4> QED BY <1>1, <4>1 DEF DelayInv, NoLostDelayedCall
      <3>2. CASE /\ receiver[Manager] # <<>>
                 /\ Release(Suspended(c[2]), SuspendedReady(c[2]), Head(receiver[Manager]))
        <4>1. Head(receiver[Manager]) = Manager /\ Manager # Delay
          BY <3>2, ThreadAssumption, DelayApart, ReceiverIsOwner DEF Inv
        <4>2. status'[Delay] = status[Delay]
          BY <2>3, <3>2, <4>1, DelayApart DEF Release, Woken
        <4> QED BY <1>4, <4>2
      <3> QED BY <2>5, <3>1, <3>2 DEF Send
    <2> QED BY <1>8, <2>4, <2>5 DEF Kill
  <1> QED BY <1>5, <1>6, <1>7, <1>8 DEF DelayProcess

\* Every step keeps the way of a delayed call to the delay thread open.
LEMMA DelayNext == Inv /\ DelayInv /\ [Next]_vars => DelayInv'
  <1> SUFFICES ASSUME Inv, DelayInv, [Next]_vars PROVE DelayInv'
    OBVIOUS
  <1>1. /\ status \in [Thread -> Statuses] /\ waitType \in [Thread -> WaitTypes]
        /\ flag \in [Thread -> BOOLEAN]
    BY DEF Inv, RX, CQ, TypeRest
  <1>2. Leave => noRequest' = noRequest
    BY DEF Leave
  <1>3. CASE KernelStep
    <2>1. CASE SkipDispatch
      BY <2>1, DelayFrame DEF SkipDispatch
    <2>2. ASSUME NEW t \in Server, ReleaseAll(t) PROVE DelayInv'
      <3>1. UNCHANGED delayVars /\ flag' = flag
        BY <2>2 DEF ReleaseAll
      <3>2. CASE caller[t] # <<>>
        <4>1. Head(caller[t]) \in Thread /\ Head(caller[t]) \in Elems(caller[t])
          BY <3>2, DelayApart, DequeueUnlinks DEF Inv, CQ
        <4>2. waitType[Head(caller[t])] # "none"
          BY <4>1, DelayApart, Zenon DEF Inv, CQ
        <4>3. Release(status, ready, Head(caller[t])) /\ noRequest' = noRequest
          BY <2>2, <3>2 DEF ReleaseAll
        <4> QED BY <3>1, <4>1, <4>2, <4>3, DelayReleased
      <3>3. CASE caller[t] = <<>>
        BY <2>2, <3>1, <3>3, DelayFrame DEF ReleaseAll, LeaveAndDispatch
      <3> QED BY <3>2, <3>3
    <2>3. CASE DelayDrained
      <3>1. status[Delay] \in Runnable
        BY <2>3, DelayApart, RunsFacts DEF DelayDrained
      <3> QED BY <2>3, <3>1 DEF DelayDrained, DelayInv, NoLostDelayedCall
    <2>4. CASE IpcListen(Delay)
      <3>1. /\ Runs(Delay) /\ drained /\ drained' = FALSE
            /\ kqueue' = kqueue /\ delayStart' = delayStart
        BY <2>4, DelayApart, Zenon DEF IpcListen
      <3>2. status[Delay] \in Runnable /\ noRequest
        BY <3>1, DelayApart, RunsFacts
      <3>3. CASE flag[Delay] /\ UNCHANGED threadVars
        BY <3>1, <3>2, <3>3, Zenon DEF DelayInv, NoLostDelayedCall, Runnable
      <3>4. CASE ~flag[Delay] /\ Wait(status, ready, Delay, "flag")
        <4>1. kqueue = <<>>
          BY <3>1, <3>2, <3>4 DEF DelayInv
        <4>2. status'[Delay] = "WAI"
          BY <1>1, <3>4, DelayApart DEF Wait
        <4> QED BY <3>1, <4>1, <4>2, Zenon DEF DelayInv, NoLostDelayedCall
      <3> QED BY <2>4, <3>3, <3>4 DEF IpcListen
    <2> QED BY <1>3, <2>1, <2>2, <2>3, <2>4, DelayDispatched, DelayProcessed DEF KernelStep
  <1>4. CASE BootCreate
    <2> DEFINE b == Head(boot)
    <2>1. /\ b \in {Delay} \cup Server /\ status[b] = "NON" /\ UNCHANGED delayVars
          /\ status' = [status EXCEPT ![b] = "RDY"] /\ flag' = [flag EXCEPT ![b] = FALSE]
          /\ waitType' = waitType /\ noRequest' = FALSE
      BY <1>4 DEF BootCreate, Created, LeaveAndDispatch, Inv, TypeRest
    <2> HIDE DEF b
    <2>2. CASE b = Delay
      <3>1. status'[Delay] = "RDY" /\ drained = FALSE
        BY <1>1, <2>1, <2>2, DelayApart DEF DelayInv, Runnable
      <3> QED BY <2>1, <3>1 DEF DelayInv, NoLostDelayedCall, Runnable
    <2>3. CASE b # Delay
      <3>1. status'[Delay] = status[Delay] /\ flag'[Delay] = flag[Delay]
        BY <1>1, <2>1, <2>3, DelayApart, Zenon
      <3> QED BY <2>1, <3>1, DelayFrame
    <2> QED BY <2>2, <2>3
  <1>5. ASSUME NEW t \in Server, ServerStep(t) \/ IpcListen(t) PROVE DelayInv'
    BY <1>5, DelayServerStep
  <1>6. ASSUME NEW t \in Server \cup User,
               \/ KernelError(t)
               \/ IpcCallDeleted(t)
               \/ \E p \in Server, k \in Key : IpcCall(t, p, k)
        PROVE DelayInv'
    <2>1. CASE KernelError(t) \/ IpcCallDeleted(t)
      BY <1>2, <2>1, DelayFrame DEF KernelError, IpcCallDeleted
    <2>2. ASSUME NEW p \in Server, NEW k \in Key, IpcCall(t, p, k) PROVE DelayInv'
      <3>1. t \in Thread /\ t # Delay /\ p \in Thread /\ p # Delay
        BY DelayApart
      <3>2. UNCHANGED delayVars /\ flag' = flag
        BY <2>2 DEF IpcCall
      <3>3. CASE CallQueue(t, p, k)
        <4>1. status'[Delay] = status[Delay] /\ waitType'[Delay] = waitType[Delay]
          BY <1>1, <3>1, <3>3, DelayApart DEF CallQueue, Wait
        <4>2. noRequest' = FALSE
          BY <3>3 DEF CallQueue, Wait, LeaveAndDispatch
        <4> QED BY <3>2, <4>1, <4>2, DelayFrame
      <3>4. CASE receiver[p] # <<>> /\ CallReceiver(t, p, k)
        <4>1. Head(receiver[p]) = p
          BY <3>1, <3>4, ReceiverIsOwner DEF Inv
        <4>2. /\ status' = [Woken(status, p) EXCEPT ![t] = "WAI"]
              /\ waitType' = [waitType EXCEPT ![p] = "none", ![t] = "reply"]
              /\ noRequest' = FALSE
          BY <3>4, <4>1, Zenon DEF CallReceiver, LeaveAndDispatch
        <4>3. status'[Delay] = status[Delay] /\ waitType'[Delay] = waitType[Delay]
          BY <1>1, <3>1, <4>2, DelayApart DEF Woken
        <4> QED BY <3>2, <4>2, <4>3, DelayFrame
      <3> QED BY <2>2, <3>3, <3>4 DEF IpcCall
    <2> QED BY <1>6, <2>1, <2>2
  <1>7. ASSUME NEW u \in User, ManagerStep(u) PROVE DelayInv'
    <2>1. u \in Thread /\ u # Delay /\ Delay \in Thread
      BY DelayApart
    <2>2. UNCHANGED delayVars /\ (noRequest' => noRequest)
      BY <1>7 DEF ManagerStep, ThreadCreate, ThreadStart, ThreadDestroy, ThreadTerminate,
                  ThreadSuspend, ThreadResume, Created, Leave, LeaveAndDispatch
    <2>3. status'[Delay] = status[Delay]
      BY <1>1, <1>7, <2>1
         DEF ManagerStep, ThreadCreate, ThreadStart, ThreadDestroy, ThreadTerminate,
             ThreadSuspend, ThreadResume, Created, Destroyed, Suspended
    <2>4. waitType'[Delay] = waitType[Delay] /\ flag'[Delay] = flag[Delay]
      BY <1>1, <1>7, <2>1
         DEF ManagerStep, ThreadCreate, ThreadStart, ThreadDestroy, ThreadTerminate,
             ThreadSuspend, ThreadResume, Created
    <2> QED BY <2>2, <2>3, <2>4, DelayFrame
  <1>8. CASE Interrupt
    <2>1. PICK c \in ({"ready_rotate", "kill"} \X (User \cap {running}))
                     \cup ({"ipc_notify"} \X Listener) : Queued(c)
      BY <1>8 DEF Interrupt
    <2>2. c \in DelayedCall
      BY DEF DelayedCall
    <2>3. noRequest' = FALSE /\ UNCHANGED <<threadVars, flag>>
      BY <1>8 DEF Interrupt
    <2> QED BY <2>1, <2>2, <2>3, DelayQueued, Zenon
  <1>9. CASE UNCHANGED vars
    BY <1>9, DelayFrame DEF vars
  <1> QED BY <1>3, <1>4, <1>5, <1>6, <1>7, <1>8, <1>9 DEF Next

\* A delayed call is never forgotten, whenever the interrupt that queued it came:
\* delay_process, ipc_listen and dispatch() hand the wake-up on to each other.
THEOREM DelayedCallsAnnounced == Spec => []NoLostDelayedCall
  <1>1. Init => DelayInv
    BY DelayApart, ThreadAssumption, Zenon DEF Init, DelayInv, NoLostDelayedCall
  <1>2. DelayInv => NoLostDelayedCall
    BY DEF DelayInv
  <1> QED BY <1>1, <1>2, DelayNext, Invariance, PTL DEF Spec

-----------------------------------------------------------------------------
(***************************************************************************)
(* Reply keys, step by step                                                 *)
(***************************************************************************)

\* The step of KeysLostOnlyWithThread ...
KeyStep ==
  \A k \in Key : LostKey(k)' /\ ~LostKey(k) =>
    \E t \in Thread : status[t] # "DMT" /\ status'[t] = "DMT"

\* ... and that of CallStaysAnswerable.
AnswerStep ==
  \A t \in Thread :
    waitType'[t] = "reply" /\ (waitType[t] = "reply" => Answerable(t)) =>
      \/ Answerable(t)'
      \/ \E s \in Server : <<callKey[t], t>> \in held[s] \ held'[s]
      \/ \E u \in User : /\ callKey[u] = callKey[t] /\ u # t
                         /\ waitType[u] = "reply" /\ ~Answerable(u)
                         /\ status'[u] = "DMT"

\* Steps that touch no key, and begin no wait for a reply.
LEMMA ReplyFrame ==
  ASSUME UNCHANGED replyVars,
         \A t \in Thread : waitType'[t] = "reply" => waitType[t] = "reply"
  PROVE  KeyStep /\ AnswerStep
  BY DEF KeyStep, AnswerStep, LostKey, Answerable

\* ipc_call: the key is new, and its record is linked when a server has the tag.
LEMMA ReplyCall ==
  ASSUME Inv, NEW t \in Server \cup User, NEW p \in Server, NEW k \in Key, IpcCall(t, p, k)
  PROVE  KeyStep /\ AnswerStep
  <1>1. /\ t \in Thread /\ p \in Thread /\ Runs(t) /\ k \notin used /\ used' = used \cup {k}
        /\ callKey' = [callKey EXCEPT ![t] = k]
        /\ IF receiver[p] # <<>> THEN CallReceiver(t, p, k) ELSE CallQueue(t, p, k)
    BY DelayApart, Zenon DEF IpcCall
  <1>2. callKey[t] = NoKey /\ waitType[t] = "none"
    BY <1>1, RunsFacts
  <1>3. /\ callKey \in [Thread -> Key \cup {NoKey}] /\ rcaller \in [Key -> Thread \cup {NoThread}]
        /\ held \in [Server -> SUBSET Tag] /\ waitType \in [Thread -> WaitTypes]
    BY DEF Inv, TypeRest, CQ
  <1>4. callKey'[t] = k /\ \A x \in Thread \ {t} : callKey'[x] = callKey[x]
    BY <1>1, <1>3
  <1>5. receiver[p] # <<>> => Head(receiver[p]) = p
    BY <1>1, ReceiverIsOwner DEF Inv
  <1>6. \A s \in Server : held[s] \subseteq held'[s]
    BY <1>1, <1>3, <1>5 DEF CallReceiver, CallQueue
  <1>7. \A x \in Key \ {k} : rcaller'[x] = rcaller[x]
    BY <1>1, <1>3 DEF CallReceiver, CallQueue
  <1>8. \A x \in Thread \ {t} : waitType'[x] = "reply" => waitType[x] = "reply"
    BY <1>1, <1>3, <1>5 DEF CallReceiver, CallQueue, Wait
  <1>9. KeyStep
    <2>1. ASSUME NEW x \in Key, LostKey(x)' PROVE LostKey(x)
      <3>1. x # k
        BY <1>1, <1>4, <2>1 DEF LostKey
      <3>2. x \in used /\ \A y \in Thread : callKey[y] # x
        BY <1>1, <1>2, <1>4, <2>1, <3>1, KeyAssumption DEF LostKey
      <3> QED BY <1>6, <2>1, <3>2 DEF LostKey
    <2> QED BY <2>1 DEF KeyStep
  <1>10. ASSUME NEW x \in Thread, waitType'[x] = "reply", waitType[x] = "reply" => Answerable(x)
         PROVE  Answerable(x)'
    <2>1. CASE x = t
      <3>1. receiver[p] # <<>>
        BY <1>1, <1>3, <1>10, <2>1 DEF CallQueue, Wait
      <3>2. rcaller'[k] = t /\ <<k, t>> \in held'[p]
        BY <1>1, <1>3, <1>5, <3>1 DEF CallReceiver
      <3> QED BY <1>1, <1>4, <2>1, <3>2 DEF Answerable
    <2>2. CASE x # t
      <3>1. Answerable(x) /\ callKey'[x] = callKey[x]
        BY <1>4, <1>8, <1>10, <2>2
      <3>2. callKey[x] # k /\ callKey[x] \in Key
        BY <1>1, <3>1, Zenon DEF Answerable, Inv, TypeRest
      <3> QED BY <1>1, <1>6, <1>7, <3>1, <3>2 DEF Answerable
    <2> QED BY <2>1, <2>2
  <1> QED BY <1>9, <1>10 DEF AnswerStep

\* The end of an ipc_call with E_DLT: no server holds a tag with the key.
LEMMA ReplyCallDeleted ==
  ASSUME Inv, NEW t \in Thread, IpcCallDeleted(t)
  PROVE  KeyStep /\ AnswerStep
  <1>1. /\ mode = "thread" /\ running = t /\ callKey[t] # NoKey
        /\ used' = used \ {callKey[t]} /\ callKey' = [callKey EXCEPT ![t] = NoKey]
        /\ UNCHANGED <<waitType, rcaller, held>>
    BY DEF IpcCallDeleted
  <1>2. callKey \in [Thread -> Key \cup {NoKey}]
    BY DEF Inv, TypeRest
  <1>3. waitType[t] = "none"
    BY <1>1 DEF Inv, RunnerInv, WaitInv, Runnable
  <1>4. \A s \in Server, u \in Thread : <<callKey[t], u>> \notin held[s]
    BY <1>1, <1>3 DEF Inv, KeyInv, Pending
  <1>5. KeyStep
    BY <1>1, <1>2 DEF KeyStep, LostKey
  <1>6. ASSUME NEW x \in Thread, waitType[x] = "reply", Answerable(x)
        PROVE  Answerable(x)'
    BY <1>1, <1>2, <1>3, <1>4, <1>6 DEF Answerable
  <1> QED BY <1>1, <1>5, <1>6, Zenon DEF AnswerStep

\* ipc_receive gives the server the tag of a queued call and links its record.
LEMMA ReplyReceive ==
  ASSUME Inv, NEW t \in Server, IpcReceive(t)
  PROVE  KeyStep /\ AnswerStep
  <1>1. t \in Thread /\ callKey' = callKey /\ used' = used
    BY DelayApart DEF IpcReceive
  <1>2. /\ callKey \in [Thread -> Key \cup {NoKey}] /\ rcaller \in [Key -> Thread \cup {NoThread}]
        /\ held \in [Server -> SUBSET Tag] /\ waitType \in [Thread -> WaitTypes]
    BY DEF Inv, TypeRest, CQ
  <1>3. CASE UNCHANGED <<rcaller, held>>
    <2>1. \A x \in Thread : waitType'[x] = "reply" => waitType[x] = "reply"
      <3>1. caller[t] # <<>> => Head(caller[t]) \in Thread
        BY <1>1, DequeueUnlinks DEF Inv, CQ
      <3>2. ReceiveQueued(t) /\ caller[t] # <<>> /\ waitType[Head(caller[t])] = "call" =>
              <<callKey[Head(caller[t])], Head(caller[t])>> \in held[t]
        BY <1>1, <1>2, <1>3 DEF ReceiveQueued
      <3>3. caller[t] # <<>> /\ waitType[Head(caller[t])] = "call" =>
              <<callKey[Head(caller[t])], Head(caller[t])>> \notin held[t]
        BY <3>1 DEF Inv, KeyInv, Pending
      <3> QED BY <1>2, <3>1, <3>2, <3>3 DEF IpcReceive, ReceiveQueued, Release, Wait
    <2> QED BY <1>1, <1>3, <2>1, ReplyFrame
  <1>4. CASE /\ caller[t] # <<>> /\ waitType[Head(caller[t])] = "call"
             /\ waitType' = [waitType EXCEPT ![Head(caller[t])] = "reply"]
             /\ rcaller' = [rcaller EXCEPT ![callKey[Head(caller[t])]] = Head(caller[t])]
             /\ held' = [held EXCEPT ![t] = @ \cup {<<callKey[Head(caller[t])], Head(caller[t])>>}]
    <2> DEFINE c == Head(caller[t])
    <2>1. c \in Thread
      BY <1>1, <1>4, DequeueUnlinks DEF Inv, CQ
    <2> HIDE DEF c
    <2>2. /\ waitType[c] = "call" /\ waitType' = [waitType EXCEPT ![c] = "reply"]
          /\ rcaller' = [rcaller EXCEPT ![callKey[c]] = c]
          /\ held' = [held EXCEPT ![t] = @ \cup {<<callKey[c], c>>}]
      BY <1>4 DEF c
    <2>3. /\ callKey[c] \in used /\ callKey[c] \in Key
          /\ \A s \in Server, u \in Thread : <<callKey[c], u>> \notin held[s]
      BY <2>1, <2>2 DEF Inv, TypeRest, KeyInv, Pending
    <2>4. \A s \in Server : held[s] \subseteq held'[s]
      BY <1>2, <2>2
    <2>5. KeyStep
      BY <1>1, <2>4 DEF KeyStep, LostKey
    <2>6. ASSUME NEW x \in Thread, waitType'[x] = "reply", waitType[x] = "reply" => Answerable(x)
          PROVE  Answerable(x)'
      <3>1. CASE x = c
        BY <1>1, <1>2, <2>1, <2>2, <2>3, <3>1 DEF Answerable
      <3>2. CASE x # c
        <4>1. Answerable(x)
          BY <1>2, <2>1, <2>2, <2>6, <3>2
        <4>2. callKey[x] # callKey[c] /\ callKey[x] \in Key
          BY <2>3, <4>1 DEF Answerable, Inv, TypeRest
        <4> QED BY <1>1, <1>2, <2>2, <2>4, <4>1, <4>2 DEF Answerable
      <3> QED BY <3>1, <3>2
    <2> QED BY <2>5, <2>6 DEF AnswerStep
  <1> QED BY <1>3, <1>4 DEF IpcReceive, ReceiveQueued

\* A reply, delivered or failed, concerns the caller of its tag only, and gives the
\* key of the tag back.
LEMMA ReplyReply ==
  ASSUME Inv, NEW t \in Server, NEW tag \in held[t], IpcReply(t, tag)
  PROVE  KeyStep /\ AnswerStep
  <1> DEFINE k == tag[1]
  <1>1. /\ callKey \in [Thread -> Key \cup {NoKey}] /\ rcaller \in [Key -> Thread \cup {NoThread}]
        /\ held \in [Server -> SUBSET Tag] /\ waitType \in [Thread -> WaitTypes]
    BY DEF Inv, TypeRest, CQ
  <1>2. tag = <<k, tag[2]>> /\ k \in Key /\ tag[2] \in Thread
    BY <1>1 DEF Tag
  <1>3. held' = [held EXCEPT ![t] = @ \ {tag}] /\ used' = used \ {k}
    BY DEF IpcReply
  <1>4. \A s \in Server : \A x \in held[s] : x # tag => x \in held'[s]
    BY <1>1, <1>3
  <1>5. ReplyFails \/ (k \in used /\ ReplyDelivers(k))
    BY DEF IpcReply
  <1>6. /\ \A x \in Key \ {k} : rcaller'[x] = rcaller[x]
        /\ \A x \in Thread : callKey'[x] # callKey[x] => callKey[x] = k
        /\ \A x \in Thread : waitType'[x] = "reply" => waitType[x] = "reply"
    <2>1. CASE UNCHANGED <<waitType, callKey, rcaller>>
      BY <2>1
    <2>2. CASE k \in used /\ rcaller[k] # NoThread /\ ReplyDelivers(k)
      <3>1. rcaller[k] \in Thread /\ callKey[rcaller[k]] = k
        BY <1>1, <1>2, <2>2 DEF Inv, KeyInv
      <3>2. /\ callKey' = [callKey EXCEPT ![rcaller[k]] = NoKey]
            /\ rcaller' = [rcaller EXCEPT ![k] = NoThread]
            /\ waitType' = [waitType EXCEPT ![rcaller[k]] = "none"]
        BY <2>2 DEF ReplyDelivers, Release
      <3> QED BY <1>1, <3>1, <3>2
    <2> QED BY <1>5, <2>1, <2>2, Zenon DEF ReplyFails, ReplyDelivers
  <1> HIDE DEF k
  <1>7. KeyStep
    <2>1. ASSUME NEW x \in Key, LostKey(x)' PROVE LostKey(x)
      <3>1. x \in used /\ x # k
        BY <1>3, <2>1 DEF LostKey
      <3>2. \A y \in Thread : callKey[y] # x
        BY <1>6, <2>1, <3>1 DEF LostKey
      <3>3. \A s \in Server, y \in Thread : <<x, y>> # tag
        BY <1>2, <3>1
      <3>4. \A s \in Server, y \in Thread : <<x, y>> \notin held[s]
        BY <1>4, <2>1, <3>3 DEF LostKey
      <3> QED BY <3>1, <3>2, <3>4 DEF LostKey
    <2> QED BY <2>1 DEF KeyStep
  <1>8. ASSUME NEW x \in Thread, waitType'[x] = "reply", waitType[x] = "reply" => Answerable(x)
        PROVE  Answerable(x)' \/ \E s \in Server : <<callKey[x], x>> \in held[s] \ held'[s]
    <2>1. Answerable(x)
      BY <1>6, <1>8
    <2>2. PICK s \in Server : <<callKey[x], x>> \in held[s]
      BY <2>1 DEF Answerable
    <2>3. CASE callKey[x] = k
      <3>1. <<callKey[x], x>>[1] = k
        BY <2>3
      <3>2. tag = <<callKey[x], x>> /\ s = t
        BY <1>2, <2>2, <3>1 DEF Inv, KeyInv, ReplyToCallerOnly, k
      <3>3. tag \notin held'[t]
        BY <1>1, <1>3
      <3> QED BY <2>2, <3>2, <3>3
    <2>4. CASE callKey[x] # k
      <3>1. callKey'[x] = callKey[x] /\ callKey[x] \in Key
        BY <1>6, <2>1, <2>4, Zenon DEF Answerable, Inv, TypeRest
      <3>2. rcaller'[callKey[x]] = x /\ callKey[x] \in used'
        BY <1>3, <1>6, <2>1, <2>4, <3>1 DEF Answerable
      <3>3. <<callKey[x], x>> \in held'[s]
        BY <1>2, <1>4, <2>2, <2>4
      <3> QED BY <3>1, <3>2, <3>3 DEF Answerable
    <2> QED BY <2>3, <2>4
  <1> QED BY <1>7, <1>8 DEF AnswerStep

\* A server that ends forgets the tags it holds; its thread becomes DORMANT.
LEMMA ReplyEnd ==
  ASSUME Inv, NEW t \in Server, ThreadEndAndDestroy(t)
  PROVE  KeyStep /\ AnswerStep
  <1>1. /\ Runs(t) /\ status' = [status EXCEPT ![t] = "DMT"]
        /\ held' = [held EXCEPT ![t] = {}] /\ UNCHANGED <<waitType, callKey, used, rcaller>>
    BY DEF ThreadEndAndDestroy
  <1>2. status \in [Thread -> Statuses] /\ held \in [Server -> SUBSET Tag] /\ t \in Thread
    BY DelayApart, ZenonT(30) DEF Inv, RX, TypeRest
  <1>3. status[t] # "DMT" /\ status'[t] = "DMT"
    BY <1>1, <1>2, RunsFacts DEF Runnable
  <1>4. AnswerStep
    BY <1>1, <1>2, Zenon DEF AnswerStep, Answerable
  <1> QED BY <1>2, <1>3, <1>4 DEF KeyStep

\* thread_terminate unlinks the record its victim waits for.  When that record has
\* been given to another call, the victim's own reply had failed.
LEMMA ReplyTerminate ==
  ASSUME Inv, NEW u \in User, ThreadTerminate(Manager, u)
  PROVE  KeyStep /\ AnswerStep
  <1>1. /\ status[u] \in {"RDY", "WAI", "WAS", "SUS"} /\ UnlinkWaiting(u)
        /\ waitType' = [waitType EXCEPT ![u] = "none"]
        /\ status' = [status EXCEPT ![u] = "DMT"]
        /\ callKey' = [callKey EXCEPT ![u] = NoKey]
        /\ used' = used /\ held' = held
    BY DEF ThreadTerminate
  <1>2. /\ status \in [Thread -> Statuses] /\ waitType \in [Thread -> WaitTypes]
        /\ callKey \in [Thread -> Key \cup {NoKey}] /\ rcaller \in [Key -> Thread \cup {NoThread}]
        /\ u \in Thread
    BY DelayApart, ZenonT(30) DEF Inv, RX, CQ, TypeRest
  <1>3. status[u] # "DMT" /\ status'[u] = "DMT"
    BY <1>1, <1>2
  <1>4. ASSUME NEW x \in Thread, waitType'[x] = "reply", waitType[x] = "reply" => Answerable(x)
        PROVE  \/ Answerable(x)'
               \/ /\ callKey[u] = callKey[x] /\ u # x
                  /\ waitType[u] = "reply" /\ ~Answerable(u)
    <2>1. x # u /\ Answerable(x) /\ callKey'[x] = callKey[x] /\ callKey[x] \in Key
      BY <1>1, <1>2, <1>4, Zenon DEF Answerable, Inv, TypeRest
    <2>2. CASE waitType[u] = "reply" /\ callKey[u] = callKey[x]
      BY <2>1, <2>2, Zenon DEF Answerable
    <2>3. CASE ~(waitType[u] = "reply" /\ callKey[u] = callKey[x])
      <3>1. rcaller'[callKey[x]] = rcaller[callKey[x]]
        BY <1>1, <1>2, <2>1, <2>3 DEF UnlinkWaiting
      <3>2. used' = used /\ held' = held
        BY <1>1, Zenon
      <3> QED BY <2>1, <3>1, <3>2, Zenon DEF Answerable
    <2> QED BY <2>2, <2>3
  <1> QED BY <1>2, <1>3, <1>4 DEF KeyStep, AnswerStep

\* Every step does with the keys what KeyStep and AnswerStep say.
LEMMA ReplyNext == Inv /\ [Next]_vars => KeyStep /\ AnswerStep
  <1> SUFFICES ASSUME Inv, [Next]_vars PROVE KeyStep /\ AnswerStep
    OBVIOUS
  <1>1. waitType \in [Thread -> WaitTypes]
    BY DEF Inv, CQ
  <1>2. CASE KernelStep
    <2>1. UNCHANGED replyVars
      BY <1>2, Zenon DEF KernelStep, SkipDispatch, Dispatch, ReleaseAll, DelayProcess, DelayDrained,
                  IpcListen
    <2>2. \A x \in Thread : waitType'[x] = "reply" => waitType[x] = "reply"
      BY <1>1, <1>2, Zenon DEF KernelStep, SkipDispatch, Dispatch, ReleaseAll, Release, DelayProcess,
                  DelayDrained, IpcListen, Wait, Notify, Kill, Send
    <2> QED BY <2>1, <2>2, ReplyFrame
  <1>3. CASE BootCreate
    BY <1>3, ReplyFrame DEF BootCreate, Created
  <1>4. ASSUME NEW t \in Server, ServerStep(t) \/ IpcListen(t) PROVE KeyStep /\ AnswerStep
    <2>1. CASE IpcOpen(t) \/ IpcClose(t)
      BY <2>1, ReplyFrame DEF IpcOpen, IpcClose
    <2>2. CASE IpcListen(t)
      <3>1. UNCHANGED replyVars /\ \A x \in Thread : waitType'[x] = "reply" => waitType[x] = "reply"
        BY <1>1, <2>2 DEF IpcListen, Wait
      <3> QED BY <3>1, ReplyFrame
    <2>3. ASSUME NEW p \in Server, IpcSend(t, p) \/ IpcNotify(t, p) PROVE KeyStep /\ AnswerStep
      <3>1. UNCHANGED replyVars /\ \A x \in Thread : waitType'[x] = "reply" => waitType[x] = "reply"
        BY <1>1, <2>3 DEF IpcSend, IpcNotify, Send, Notify, Wait, Release
      <3> QED BY <3>1, ReplyFrame
    <2> QED BY <1>4, <2>1, <2>2, <2>3, ReplyReceive, ReplyReply, ReplyEnd, Zenon DEF ServerStep
  <1>5. ASSUME NEW t \in Server \cup User,
               \/ KernelError(t)
               \/ IpcCallDeleted(t)
               \/ \E p \in Server, k \in Key : IpcCall(t, p, k)
        PROVE KeyStep /\ AnswerStep
    <2>1. CASE KernelError(t)
      BY <2>1, ReplyFrame DEF KernelError
    <2> QED BY <1>5, <2>1, DelayApart, ReplyCallDeleted, ReplyCall
  <1>6. ASSUME NEW u \in User, ManagerStep(u) PROVE KeyStep /\ AnswerStep
    <2>1. CASE ThreadTerminate(Manager, u)
      BY <2>1, ReplyTerminate
    <2>2. CASE ~ThreadTerminate(Manager, u)
      BY <1>6, <2>2, ReplyFrame
         DEF ManagerStep, ThreadCreate, Created, ThreadStart, ThreadDestroy, ThreadSuspend,
             ThreadResume
    <2> QED BY <2>1, <2>2
  <1>7. CASE Interrupt \/ UNCHANGED vars
    BY <1>7, ReplyFrame DEF Interrupt, vars
  <1> QED BY <1>2, <1>3, <1>4, <1>5, <1>6, <1>7 DEF Next

\* reply_tree loses a key only to a thread that ends: every other way out of an
\* ipc_call or an ipc_send gives the key back.
THEOREM KeysLostWithThreads == Spec => KeysLostOnlyWithThread
  <1>1. Inv /\ [Next]_vars => [KeyStep]_vars
    BY ReplyNext
  <1> QED BY <1>1, Invariance, PTL DEF Spec, KeysLostOnlyWithThread, KeyStep

\* Who waits for a reply can get one, until the server that holds its tag fails to
\* reply or ends, or a caller that was stranded before it with its key is terminated.
THEOREM CallsStayAnswerable == Spec => CallStaysAnswerable
  <1>1. Inv /\ [Next]_vars => [AnswerStep]_vars
    BY ReplyNext
  <1> QED BY <1>1, Invariance, PTL DEF Spec, CallStaysAnswerable, AnswerStep
=============================================================================
