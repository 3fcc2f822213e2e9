------------------------------- MODULE Kernel -------------------------------
(***************************************************************************)
(* The microkernel of kernel/: threads, the ready queues and the dispatcher,*)
(* and synchronous message passing over ports, with the delayed calls that  *)
(* interrupts leave to the delay thread (servers/interrupt/main.c).         *)
(*                                                                          *)
(* One processor runs one thread.  A kernel function runs between           *)
(* enter_serialize and leave_serialize, where no other thread can run, so   *)
(* its body is one step; leaving (mode "leave") is a step of its own,       *)
(* because an interrupt may come between the two.  The loop of release_all  *)
(* in ipc_close is one step per entry (mode "close").                       *)
(***************************************************************************)
EXTENDS Lists, FiniteSets

CONSTANTS
  Idle,        \* PORT_IDLE, the thread that is always ready
  Delay,       \* PORT_DELAY, the thread that runs the delayed calls
  Server,      \* kernel threads that own a port
  Manager,     \* PORT_MM: the server that manages the user threads
  Listener,    \* servers that wait in ipc_listen for a device (hmi, fs)
  User,        \* user threads: their only system call is ipc_call
  Priority,    \* MIN_PRIORITY .. MAX_PRIORITY
  Prio,        \* the priority each thread is created with
  Key,         \* what reply_sequence can hand out (it never hands out 0)
  KqueueSize,  \* the number of delayed calls kqueue has room for
  BootOrder    \* the threads the boot code creates, in its order

Thread == {Idle, Delay} \cup Server \cup User

\* The threads that get notifications.
Notified == Listener \cup {Manager}

NoKey == 0
NoThread == "no thread"

ASSUME ThreadAssumption ==
  /\ Idle # Delay
  /\ Server \cap User = {}
  /\ {Idle, Delay} \cap (Server \cup User) = {}
  /\ Manager \in Server
  /\ Listener \subseteq Server \ {Manager}
  /\ NoThread \notin Thread

\* Priorities are small numbers, 0 the most urgent: any set of them has a
\* first one.
ASSUME PrioAssumption ==
  /\ Priority \subseteq Int
  /\ \A S \in SUBSET Priority : S # {} => \E p \in S : \A q \in S : p <= q
  /\ Prio \in [Thread -> Priority]

ASSUME KeyAssumption == NoKey \notin Key

ASSUME KqueueAssumption == KqueueSize \in Nat

ASSUME BootAssumption == BootOrder \in Seq({Delay} \cup Server)

VARIABLES
  boot,        \* the threads the boot code has still to create
  status,      \* thread_t.status; "NON" when no thread has the id
  ready,       \* ready_task: a list of threads for each priority
  running,     \* the thread on the processor
  mode,        \* where running is: "thread", "leave" or "close"
  noRequest,   \* sync.state.no_request
  delayStart,  \* delay_thread_start
  kqueue,      \* the delayed calls, oldest first
  drained,     \* delay_process has found kqueue empty, and will listen
  waitType,    \* wait.type
  callKey,     \* the reply key of the ipc_call a thread is in, or NoKey
  opened,      \* port.opened
  flag,        \* port.flag # 0
  caller,      \* port.caller
  receiver,    \* port.receiver
  used,        \* the keys in reply_tree
  rcaller,     \* the thread linked to the caller list of a reply record
  held         \* the tags <<key, caller>> a server has received, not answered

threadVars == <<status, ready, waitType>>
syncVars == <<running, mode, noRequest>>
delayVars == <<delayStart, kqueue, drained>>
portVars == <<opened, caller, receiver>>
replyVars == <<callKey, used, rcaller, held>>
vars == <<boot, threadVars, syncVars, delayVars, portVars, flag, replyVars>>

Tag == Key \X Thread
DelayedCall ==
  ({"thread_destroy"} \X Server) \cup ({"ready_rotate", "kill"} \X User)
    \cup ({"ipc_notify"} \X Listener)

TypeOK ==
  /\ boot \in Seq({Delay} \cup Server)
  /\ status \in [Thread -> {"NON", "DMT", "RDY", "RUN", "WAI", "SUS", "WAS"}]
  /\ ready \in [Priority -> Seq(Thread)]
  /\ running \in Thread
  /\ mode \in {"thread", "leave", "close"}
  /\ noRequest \in BOOLEAN
  /\ delayStart \in BOOLEAN
  /\ kqueue \in Seq(DelayedCall)
  /\ drained \in BOOLEAN
  /\ waitType \in [Thread -> {"none", "call", "send", "reply", "receive", "flag"}]
  /\ callKey \in [Thread -> Key \cup {NoKey}]
  /\ opened \in [Thread -> BOOLEAN]
  /\ flag \in [Thread -> BOOLEAN]
  /\ caller \in [Thread -> Seq(Thread)]
  /\ receiver \in [Thread -> Seq(Thread)]
  /\ used \subseteq Key
  /\ rcaller \in [Key -> Thread \cup {NoThread}]
  /\ held \in [Server -> SUBSET Tag]

(***************************************************************************)
(* start() and create_idle_thread: the idle thread alone exists and runs    *)
(* the boot code.                                                           *)
(***************************************************************************)
Init ==
  /\ boot = BootOrder
  /\ status = [t \in Thread |-> IF t = Idle THEN "RUN" ELSE "NON"]
  /\ ready = [p \in Priority |-> IF p = Prio[Idle] THEN <<Idle>> ELSE <<>>]
  /\ running = Idle
  /\ mode = "thread"
  /\ noRequest = TRUE
  /\ delayStart = FALSE
  /\ kqueue = <<>>
  /\ drained = FALSE
  /\ waitType = [t \in Thread |-> "none"]
  /\ callKey = [t \in Thread |-> NoKey]
  /\ opened = [t \in Thread |-> FALSE]
  /\ flag = [t \in Thread |-> FALSE]
  /\ caller = [t \in Thread |-> <<>>]
  /\ receiver = [t \in Thread |-> <<>>]
  /\ used = {}
  /\ rcaller = [k \in Key |-> NoThread]
  /\ held = [s \in Server |-> {}]

-----------------------------------------------------------------------------
(***************************************************************************)
(* kernel/ready.c and kernel/sync.c                                         *)
(***************************************************************************)
Enready(r, t) == [r EXCEPT ![Prio[t]] = ListEnqueue(@, t)]
Unready(r, t) == [r EXCEPT ![Prio[t]] = ListRemove(@, t)]

\* ready_dequeue: the head of the first list that is not empty.  The entry
\* stays in the list; the list of Idle is never empty.
Highest(r) ==
  LET p == CHOOSE p \in Priority : /\ r[p] # <<>>
                                   /\ \A q \in Priority : q < p => r[q] = <<>>
  IN  Head(r[p])

\* leave_serialize and leave_serialize_and_dispatch
Leave == mode' = "leave" /\ UNCHANGED <<running, noRequest>>
LeaveAndDispatch == mode' = "leave" /\ noRequest' = FALSE /\ UNCHANGED running

\* Mutant: wait() makes no request to dispatch.
WaitOnly(st, r, t, w) ==
  /\ status' = [st EXCEPT ![t] = "WAI"]
  /\ ready' = Unready(r, t)
  /\ waitType' = [waitType EXCEPT ![t] = w]
  /\ Leave

\* wait(): the running thread blocks with wait type w.  (st and r are the
\* status and the ready queues at the call.)
Wait(st, r, t, w) ==
  /\ status' = [st EXCEPT ![t] = "WAI"]
  /\ ready' = Unready(r, t)
  /\ waitType' = [waitType EXCEPT ![t] = w]
  /\ LeaveAndDispatch

\* release(): the status of t without its waiting bit, and t in the ready
\* queue when no other bit is left.
Woken(st, t) == [st EXCEPT ![t] = IF @ = "WAI" THEN "RDY" ELSE "SUS"]
\* Mutant: release() queues a thread that is still suspended.
WokenAlways(st, r, t) == Enready(r, t)
WokenReady(st, r, t) == IF st[t] = "WAI" THEN Enready(r, t) ELSE r

Release(st, r, t) ==
  /\ status' = Woken(st, t)
  /\ ready' = WokenReady(st, r, t)
  /\ waitType' = [waitType EXCEPT ![t] = "none"]

\* The running thread t executes its own code, outside the kernel.
Runs(t) == mode = "thread" /\ running = t /\ callKey[t] = NoKey

\* A kernel function that returns an error changes nothing, and leaves.
KernelError(t) ==
  /\ Runs(t) /\ t \in Server \cup User
  /\ Leave
  /\ UNCHANGED <<boot, threadVars, delayVars, portVars, flag, replyVars>>

-----------------------------------------------------------------------------
(***************************************************************************)
(* kernel/ipc.c                                                             *)
(***************************************************************************)
IpcOpen(t) ==
  /\ Runs(t) /\ t \in Server
  /\ ~opened[t]
  /\ opened' = [opened EXCEPT ![t] = TRUE]
  /\ caller' = [caller EXCEPT ![t] = <<>>]
  /\ receiver' = [receiver EXCEPT ![t] = <<>>]
  /\ Leave
  /\ UNCHANGED <<boot, threadVars, delayVars, flag, replyVars>>

\* ipc_close up to its first release_all
IpcClose(t) ==
  /\ Runs(t) /\ t \in Server
  /\ opened[t]
  /\ opened' = [opened EXCEPT ![t] = FALSE]
  /\ mode' = "close"
  /\ UNCHANGED <<boot, threadVars, running, noRequest, delayVars, caller, receiver,
                 flag, replyVars>>

\* Mutant: ipc_close only releases the first caller.
ReleaseFirst(t) ==
  /\ mode = "close" /\ running = t
  /\ IF caller[t] # <<>>
       THEN /\ Release(status, ready, Head(caller[t]))
            /\ caller' = [caller EXCEPT ![t] = ListDequeue(@)]
       ELSE UNCHANGED <<threadVars, caller>>
  /\ LeaveAndDispatch
  /\ UNCHANGED <<boot, delayVars, opened, receiver, flag, replyVars>>

\* release_all(&port->caller), one thread a step.  A released caller of ipc_call
\* keeps its key: it will find E_DLT and give the key back itself.  (The loop
\* over port->receiver finds nobody: a server receives from its own port only,
\* and it is running.)
ReleaseAll(t) ==
  /\ mode = "close" /\ running = t
  /\ \/ /\ caller[t] # <<>>
        /\ Release(status, ready, Head(caller[t]))
        /\ caller' = [caller EXCEPT ![t] = ListDequeue(@)]
        /\ UNCHANGED syncVars
     \/ /\ caller[t] = <<>>
        /\ LeaveAndDispatch
        /\ UNCHANGED <<threadVars, caller>>
  /\ UNCHANGED <<boot, delayVars, opened, receiver, flag, replyVars>>

\* Mutant: the caller is not linked to its reply record.
CallNotLinked(t, p, k) ==
  LET r == Head(receiver[p])
  IN  /\ receiver' = [receiver EXCEPT ![p] = ListRemove(@, r)]
      /\ status' = [Woken(status, r) EXCEPT ![t] = "WAI"]
      /\ ready' = Unready(WokenReady(status, ready, r), t)
      /\ waitType' = [waitType EXCEPT ![r] = "none", ![t] = "reply"]
      /\ rcaller' = [rcaller EXCEPT ![k] = NoThread]
      /\ held' = [held EXCEPT ![r] = @ \cup {<<k, t>>}]
      /\ LeaveAndDispatch
      /\ UNCHANGED caller

\* ipc_call with the reply key k: to a thread that waits in ipc_receive ...
CallReceiver(t, p, k) ==
  LET r == Head(receiver[p])
  IN  /\ receiver' = [receiver EXCEPT ![p] = ListRemove(@, r)]
      /\ status' = [Woken(status, r) EXCEPT ![t] = "WAI"]
      /\ ready' = Unready(WokenReady(status, ready, r), t)
      /\ waitType' = [waitType EXCEPT ![r] = "none", ![t] = "reply"]
      /\ rcaller' = [rcaller EXCEPT ![k] = t]
      /\ held' = [held EXCEPT ![r] = @ \cup {<<k, t>>}]
      /\ LeaveAndDispatch
      /\ UNCHANGED caller

\* ... or into the queue of callers.
CallQueue(t, p, k) ==
  /\ caller' = [caller EXCEPT ![p] = ListEnqueue(@, t)]
  /\ rcaller' = [rcaller EXCEPT ![k] = NoThread]
  /\ Wait(status, ready, t, "call")
  /\ UNCHANGED <<receiver, held>>

\* Mutant: sequence_get hands out a key that is in use.
CallWithAnyKey(t, p, k) ==
  /\ Runs(t) /\ t \in Server \cup User /\ p # t
  /\ status[p] # "NON" /\ opened[p]
  /\ used' = used \cup {k}
  /\ callKey' = [callKey EXCEPT ![t] = k]
  /\ IF receiver[p] # <<>> THEN CallReceiver(t, p, k) ELSE CallQueue(t, p, k)
  /\ UNCHANGED <<boot, delayVars, opened, flag>>

IpcCall(t, p, k) ==
  /\ Runs(t) /\ t \in Server \cup User /\ p # t
  /\ status[p] # "NON" /\ opened[p]
  /\ k \notin used
  /\ used' = used \cup {k}
  /\ callKey' = [callKey EXCEPT ![t] = k]
  /\ IF receiver[p] # <<>> THEN CallReceiver(t, p, k) ELSE CallQueue(t, p, k)
  /\ UNCHANGED <<boot, delayVars, opened, flag>>

\* Mutant: an ipc_call that failed keeps its key.
CallDeletedKeepsKey(t) ==
  /\ mode = "thread" /\ running = t /\ callKey[t] # NoKey
  /\ callKey' = [callKey EXCEPT ![t] = NoKey]
  /\ Leave
  /\ UNCHANGED <<boot, threadVars, delayVars, portVars, flag, used, rcaller, held>>

\* The end of an ipc_call whose wait returned E_DLT: release_rendezvous.
IpcCallDeleted(t) ==
  /\ mode = "thread" /\ running = t /\ callKey[t] # NoKey
  /\ used' = used \ {callKey[t]}
  /\ callKey' = [callKey EXCEPT ![t] = NoKey]
  /\ Leave
  /\ UNCHANGED <<boot, threadVars, delayVars, portVars, flag, rcaller, held>>

\* ipc_receive on the server's own port: a pending notification comes first;
\* a queued call becomes a rendezvous, a queued send is over.
ReceiveQueued(t) ==
  LET c == Head(caller[t])
  IN  /\ caller' = [caller EXCEPT ![t] = ListRemove(@, c)]
      /\ \/ /\ waitType[c] = "call"
            /\ waitType' = [waitType EXCEPT ![c] = "reply"]
            /\ rcaller' = [rcaller EXCEPT ![callKey[c]] = c]
            /\ held' = [held EXCEPT ![t] = @ \cup {<<callKey[c], c>>}]
            /\ UNCHANGED <<status, ready>>
         \/ /\ waitType[c] = "send"
            /\ Release(status, ready, c)
            /\ UNCHANGED <<rcaller, held>>
      /\ Leave
      /\ UNCHANGED <<receiver, flag>>

IpcReceive(t) ==
  /\ Runs(t) /\ t \in Server
  /\ \/ /\ flag[t]
        /\ flag' = [flag EXCEPT ![t] = FALSE]
        /\ Leave
        /\ UNCHANGED <<threadVars, caller, receiver, rcaller, held>>
     \/ /\ ~flag[t] /\ opened[t] /\ caller[t] # <<>>
        /\ ReceiveQueued(t)
     \/ /\ ~flag[t] /\ opened[t] /\ caller[t] = <<>>
        /\ receiver' = [receiver EXCEPT ![t] = ListEnqueue(@, t)]
        /\ Wait(status, ready, t, "receive")
        /\ UNCHANGED <<caller, flag, rcaller, held>>
  /\ UNCHANGED <<boot, delayVars, opened, callKey, used>>

\* ipc_send to the tag of a call (_reply).  Without a record (E_OBJ) nothing
\* happens; when the reply is too long or copying it fails (E_PAR) the record
\* is given back while the caller stays linked to it.
ReplyFails ==
  /\ Leave
  /\ UNCHANGED <<threadVars, callKey, rcaller>>

\* Mutant: ipc_call gives the key back once more when it was answered.
ReplyKeepsKey(k) ==
  /\ IF rcaller[k] # NoThread
       THEN /\ Release(status, ready, rcaller[k])
            /\ rcaller' = [rcaller EXCEPT ![k] = NoThread]
       ELSE UNCHANGED <<threadVars, rcaller>>
  /\ LeaveAndDispatch
  /\ UNCHANGED callKey

ReplyDelivers(k) ==
  /\ IF rcaller[k] # NoThread
       THEN /\ Release(status, ready, rcaller[k])
            /\ callKey' = [callKey EXCEPT ![rcaller[k]] = NoKey]
            /\ rcaller' = [rcaller EXCEPT ![k] = NoThread]
       ELSE UNCHANGED <<threadVars, callKey, rcaller>>
  /\ LeaveAndDispatch

IpcReply(t, tag) ==
  LET k == tag[1]
  IN  /\ Runs(t) /\ t \in Server
      /\ tag \in held[t]
      /\ held' = [held EXCEPT ![t] = @ \ {tag}]
      /\ used' = used \ {k}
      /\ \/ ReplyFails
         \/ k \in used /\ ReplyDelivers(k)
      /\ UNCHANGED <<boot, delayVars, portVars, flag>>

\* Mutant: _send queues the sender without a look at the receivers.
SendQueues(st, r, t, p) ==
  /\ caller' = [caller EXCEPT ![p] = ListEnqueue(@, t)]
  /\ Wait(st, r, t, "send")
  /\ UNCHANGED receiver

\* ipc_send to a port (_send): no request to dispatch when it is delivered.
Send(st, r, t, p) ==
  \/ /\ receiver[p] # <<>>
     /\ receiver' = [receiver EXCEPT ![p] = ListRemove(@, Head(@))]
     /\ Release(st, r, Head(receiver[p]))
     /\ Leave
     /\ UNCHANGED caller
  \/ /\ receiver[p] = <<>>
     /\ caller' = [caller EXCEPT ![p] = ListEnqueue(@, t)]
     /\ Wait(st, r, t, "send")
     /\ UNCHANGED receiver

IpcSend(t, p) ==
  /\ Runs(t) /\ t \in Server /\ p # t
  /\ status[p] # "NON" /\ opened[p]
  /\ Send(status, ready, t, p)
  /\ UNCHANGED <<boot, delayVars, opened, flag, replyVars>>

IpcListen(t) ==
  /\ Runs(t)
  /\ t \in Listener \/ (t = Delay /\ drained)
  /\ drained' = (drained /\ t # Delay)
  /\ \/ /\ flag[t]
        /\ flag' = [flag EXCEPT ![t] = FALSE]
        /\ Leave
        /\ UNCHANGED threadVars
     \/ /\ ~flag[t]
        /\ Wait(status, ready, t, "flag")
        /\ UNCHANGED flag
  /\ UNCHANGED <<boot, delayStart, kqueue, portVars, replyVars>>

\* ipc_notify: ends the wait of p for a notification or for a message, and
\* is remembered in the port's flag when p waits for neither.
Listens(p) == status[p] \in {"WAI", "WAS"} /\ waitType[p] \in {"flag", "receive"}

\* Mutant: ipc_notify does not unlink the receiver it releases.
NotifyKeepsLink(p) ==
  IF Listens(p)
    THEN /\ flag' = [flag EXCEPT ![p] = FALSE]
         /\ Release(status, ready, p)
         /\ UNCHANGED receiver
    ELSE /\ flag' = [flag EXCEPT ![p] = @ \/ status[p] \notin {"NON", "DMT"}]
         /\ UNCHANGED <<threadVars, receiver>>

Notify(p) ==
  IF Listens(p)
    THEN /\ flag' = [flag EXCEPT ![p] = FALSE]
         /\ receiver' = [receiver EXCEPT ![p] = ListRemove(@, p)]
         /\ Release(status, ready, p)
    ELSE /\ flag' = [flag EXCEPT ![p] = @ \/ status[p] \notin {"NON", "DMT"}]
         /\ UNCHANGED <<threadVars, receiver>>

IpcNotify(t, p) ==
  /\ Runs(t) /\ t \in Server /\ p \in Notified
  /\ Notify(p)
  /\ Leave
  /\ UNCHANGED <<boot, delayVars, opened, caller, replyVars>>

-----------------------------------------------------------------------------
(***************************************************************************)
(* kernel/thread.c                                                          *)
(***************************************************************************)

\* setup(): the whole thread_t is cleared.
Created(t, st) ==
  /\ status' = [status EXCEPT ![t] = st]
  /\ flag' = [flag EXCEPT ![t] = FALSE]
  /\ opened' = [opened EXCEPT ![t] = FALSE]
  /\ UNCHANGED <<waitType, delayVars, caller, receiver, replyVars>>

\* thread_create with TA_ACT, by the boot code on the idle thread
BootCreate ==
  /\ Runs(Idle) /\ boot # <<>>
  /\ boot' = Tail(boot)
  /\ status[Head(boot)] = "NON"
  /\ Created(Head(boot), "RDY")
  /\ ready' = Enready(ready, Head(boot))
  /\ LeaveAndDispatch

\* thread_create of a user thread, without TA_ACT
ThreadCreate(t, u) ==
  /\ Runs(t) /\ t = Manager
  /\ status[u] = "NON"
  /\ Created(u, "DMT")
  /\ Leave
  /\ UNCHANGED <<boot, ready>>

\* thread_start (fire)
ThreadStart(t, u) ==
  /\ Runs(t) /\ t = Manager
  /\ status[u] = "DMT"
  /\ flag' = [flag EXCEPT ![u] = FALSE]
  /\ status' = [status EXCEPT ![u] = "RDY"]
  /\ ready' = Enready(ready, u)
  /\ LeaveAndDispatch
  /\ UNCHANGED <<boot, waitType, delayVars, portVars, replyVars>>

Destroyed(t) == status' = [status EXCEPT ![t] = IF @ = "DMT" THEN "NON" ELSE @]

ThreadDestroy(t, u) ==
  /\ Runs(t) /\ t = Manager
  /\ status[u] = "DMT"
  /\ Destroyed(u)
  /\ Leave
  /\ UNCHANGED <<boot, ready, waitType, delayVars, portVars, flag, replyVars>>

\* thread_end_and_destroy: a server leaves after it has closed its port.  The
\* result of queueing thread_destroy is not looked at.
\* Mutant: the call is queued and nobody is told.
QueuedSilently(c) ==
  /\ kqueue' = IF Len(kqueue) < KqueueSize THEN Append(kqueue, c) ELSE kqueue
  /\ UNCHANGED <<delayStart, drained>>

Queued(c) ==
  IF Len(kqueue) < KqueueSize
    THEN kqueue' = Append(kqueue, c) /\ delayStart' = TRUE /\ UNCHANGED drained
    ELSE UNCHANGED delayVars

ThreadEndAndDestroy(t) ==
  /\ Runs(t) /\ t \in Server \ {Manager}
  /\ ~opened[t]
  /\ Queued(<<"thread_destroy", t>>)
  /\ status' = [status EXCEPT ![t] = "DMT"]
  /\ ready' = Unready(ready, t)
  /\ held' = [held EXCEPT ![t] = {}]
  /\ LeaveAndDispatch
  /\ UNCHANGED <<boot, waitType, portVars, flag, callKey, used, rcaller>>

\* thread_terminate: a waiting thread is unlinked from the list it waits in.
UnlinkWaiting(u) ==
  /\ caller' = [p \in Thread |-> ListRemove(caller[p], u)]
  /\ rcaller' = IF waitType[u] = "reply"
                  THEN [rcaller EXCEPT ![callKey[u]] = NoThread] ELSE rcaller

ThreadTerminate(t, u) ==
  /\ Runs(t) /\ t = Manager
  /\ status[u] \in {"RDY", "WAI", "WAS", "SUS"}
  /\ ready' = Unready(ready, u)
  /\ UnlinkWaiting(u)
  /\ waitType' = [waitType EXCEPT ![u] = "none"]
  /\ status' = [status EXCEPT ![u] = "DMT"]
  /\ callKey' = [callKey EXCEPT ![u] = NoKey]
  /\ Leave
  /\ UNCHANGED <<boot, delayVars, opened, receiver, flag, used, held>>

\* Mutant: thread_suspend sets its bit in any status.
SuspendedAlways(u) ==
  [status EXCEPT ![u] = CASE @ \in {"RUN", "RDY"} -> "SUS" [] @ = "WAI" -> "WAS"
                          [] OTHER -> "no status"]
\* thread_suspend of another thread: one that can run leaves the ready queue.
Suspended(u) ==
  [status EXCEPT ![u] = CASE @ \in {"RUN", "RDY"} -> "SUS" [] @ = "WAI" -> "WAS" [] OTHER -> @]
SuspendedReady(u) == IF status[u] \in {"RUN", "RDY"} THEN Unready(ready, u) ELSE ready

ThreadSuspend(t, u) ==
  /\ Runs(t) /\ t = Manager
  /\ status[u] \in {"RUN", "RDY", "WAI"}
  /\ status' = Suspended(u)
  /\ ready' = SuspendedReady(u)
  /\ Leave
  /\ UNCHANGED <<boot, waitType, delayVars, portVars, flag, replyVars>>

ThreadResume(t, u) ==
  /\ Runs(t) /\ t = Manager
  /\ \/ /\ status[u] = "SUS"
        /\ status' = [status EXCEPT ![u] = "RDY"]
        /\ ready' = Enready(ready, u)
        /\ LeaveAndDispatch
     \/ /\ status[u] = "WAS"
        /\ status' = [status EXCEPT ![u] = "WAI"]
        /\ Leave
        /\ UNCHANGED ready
  /\ UNCHANGED <<boot, waitType, delayVars, portVars, flag, replyVars>>

-----------------------------------------------------------------------------
(***************************************************************************)
(* dispatch(), interrupts and delayed calls                                 *)
(***************************************************************************)

\* leave_serialize when dispatch_skippable is not 0
SkipDispatch ==
  /\ mode = "leave" /\ noRequest
  /\ mode' = "thread"
  /\ UNCHANGED <<boot, threadVars, running, noRequest, delayVars, portVars, flag,
                 replyVars>>

\* What dispatch() makes of the delay thread's flag: a wake-up the thread does
\* not wait for is kept.
\* Mutant: it is not.
WakeForgotten(wake) == flag[Delay]
DelayFlag(wake) == IF delayStart THEN ~wake ELSE flag[Delay]

Dispatch ==
  LET wake == delayStart /\ Listens(Delay)
      st   == IF wake THEN Woken(status, Delay) ELSE status
      r    == IF wake THEN WokenReady(status, ready, Delay) ELSE ready
      next == Highest(r)
  IN  /\ mode = "leave" /\ ~noRequest
      /\ noRequest' = TRUE
      /\ delayStart' = FALSE
      /\ flag' = [flag EXCEPT ![Delay] = DelayFlag(wake)]
      /\ waitType' = [waitType EXCEPT ![Delay] = IF wake THEN "none" ELSE @]
      /\ ready' = r
      /\ running' = next
      /\ status' = IF next = running THEN st
                   ELSE [st EXCEPT ![running] = IF @ = "RUN" THEN "RDY" ELSE @,
                                   ![next] = "RUN"]
      /\ mode' = "thread"
      /\ UNCHANGED <<boot, kqueue, drained, portVars, replyVars>>

\* An interrupt service routine that hands a call to the delay thread: the
\* tick that uses up the quantum of a user thread, a fault of a user thread,
\* or a device.  When kqueue is full the call is dropped (E_TMOUT) and nothing
\* changes.
Interrupt ==
  /\ mode \in {"thread", "leave"} /\ status[Delay] # "NON"
  /\ \E c \in ({"ready_rotate", "kill"} \X (User \cap {running}))
              \cup ({"ipc_notify"} \X Listener) :
       Len(kqueue) < KqueueSize /\ Queued(c)
  /\ mode' = "leave"
  /\ noRequest' = FALSE
  /\ UNCHANGED <<boot, threadVars, running, portVars, flag, replyVars>>

\* ready_rotate: only a thread at the head of a longer list moves.
Rotated(t) ==
  LET q == ready[Prio[t]]
  IN  IF q # <<>> /\ Head(q) = t /\ Len(q) > 1
        THEN [ready EXCEPT ![Prio[t]] = ListEnqueue(ListDequeue(@), t)]
        ELSE ready

\* kill of servers/mm/handler.c: suspends the thread that faulted and sends
\* its signal to the manager.
Kill(u) ==
  IF opened[Manager]
    THEN Send(Suspended(u), SuspendedReady(u), Delay, Manager)
    ELSE /\ status' = Suspended(u)
         /\ ready' = SuspendedReady(u)
         /\ Leave
         /\ UNCHANGED <<waitType, caller, receiver>>

\* delay_process finds kqueue empty: an interrupt may come before it listens.
DelayDrained ==
  /\ Runs(Delay) /\ kqueue = <<>> /\ ~drained
  /\ drained' = TRUE
  /\ UNCHANGED <<boot, threadVars, syncVars, delayStart, kqueue, portVars, flag, replyVars>>

\* delay_process takes the oldest delayed call and makes it.
DelayProcess ==
  LET c == Head(kqueue)
  IN  /\ Runs(Delay) /\ kqueue # <<>> /\ ~drained
      /\ kqueue' = Tail(kqueue)
      /\ \/ /\ c[1] = "thread_destroy"
            /\ Destroyed(c[2])
            /\ Leave
            /\ UNCHANGED <<ready, waitType, flag, caller, receiver>>
         \/ /\ c[1] = "ready_rotate"
            /\ ready' = Rotated(c[2])
            /\ Leave
            /\ UNCHANGED <<status, waitType, flag, caller, receiver>>
         \/ /\ c[1] = "ipc_notify"
            /\ Notify(c[2])
            /\ Leave
            /\ UNCHANGED caller
         \/ /\ c[1] = "kill"
            /\ Kill(c[2])
            /\ UNCHANGED flag
      /\ UNCHANGED <<boot, delayStart, drained, opened, replyVars>>

-----------------------------------------------------------------------------
ServerStep(t) ==
  \/ IpcOpen(t)
  \/ IpcClose(t)
  \/ IpcReceive(t)
  \/ \E tag \in held[t] : IpcReply(t, tag)
  \/ \E p \in Server : IpcSend(t, p)
  \/ \E p \in Server : IpcNotify(t, p)
  \/ ThreadEndAndDestroy(t)

ManagerStep(u) ==
  \/ ThreadCreate(Manager, u)
  \/ ThreadStart(Manager, u)
  \/ ThreadDestroy(Manager, u)
  \/ ThreadTerminate(Manager, u)
  \/ ThreadSuspend(Manager, u)
  \/ ThreadResume(Manager, u)

\* What the processor does once it is in the kernel or on the delay thread.
KernelStep ==
  \/ SkipDispatch
  \/ Dispatch
  \/ \E t \in Server : ReleaseAll(t)
  \/ DelayProcess
  \/ DelayDrained
  \/ IpcListen(Delay)

Next ==
  \/ KernelStep
  \/ BootCreate
  \/ \E t \in Server : ServerStep(t) \/ IpcListen(t)
  \/ \E t \in Server \cup User :
       \/ KernelError(t)
       \/ IpcCallDeleted(t)
       \/ \E p \in Server, k \in Key : IpcCall(t, p, k)
  \/ \E u \in User : ManagerStep(u)
  \/ Interrupt

Spec == Init /\ [][Next]_vars

-----------------------------------------------------------------------------
(***************************************************************************)
(* Safety                                                                   *)
(***************************************************************************)

\* A thread is in the ready queues exactly while it can run (RDY or RUN):
\* once, and in the queue of its own priority.
ReadyExact ==
  /\ \A p \in Priority : NoDup(ready[p])
  /\ \A p \in Priority, t \in Thread :
       t \in Elems(ready[p]) <=> p = Prio[t] /\ status[t] \in {"RDY", "RUN"}

Waits(t) == status[t] \in {"WAI", "WAS"}

\* A thread is linked to a port exactly when its wait type says so, in one
\* queue and once: list_remove(&wait.waiting) always unlinks the right entry,
\* and no queue keeps a thread that has been terminated or destroyed.
WaitLinked ==
  /\ \A p \in Thread : NoDup(caller[p]) /\ NoDup(receiver[p])
  /\ \A t \in Thread : (waitType[t] # "none") = Waits(t)
  /\ \A t \in Thread :
       waitType[t] \in {"call", "send"} <=> \E p \in Thread : t \in Elems(caller[p])
  /\ \A t \in Thread :
       waitType[t] = "receive" <=> \E p \in Thread : t \in Elems(receiver[p])
  /\ \A t, p, q \in Thread :
       /\ t \in Elems(caller[p]) /\ t \in Elems(caller[q]) => p = q
       /\ t \in Elems(receiver[p]) => t = p

\* No message waits at a port whose owner waits for one.
NoMissedRendezvous == \A p \in Thread : caller[p] = <<>> \/ receiver[p] = <<>>

\* Nobody is left queued at a port that is closed.
ClosedPortEmpty ==
  \A p \in Thread :
    \/ opened[p]
    \/ mode = "close" /\ running = p
    \/ caller[p] = <<>> /\ receiver[p] = <<>>

\* The reply record of a call that is queued is in reply_tree (ipc_receive does
\* not check tree_get for NULL), and belongs to no other call.
QueuedCallHasRecord ==
  \A t \in Thread : waitType[t] = "call" =>
    /\ callKey[t] \in used
    /\ \A s \in Server, u \in Thread : <<callKey[t], u>> \notin held[s]

\* A tag is held by one server, and its key is not handed out again while it
\* is: a reply reaches the caller of the tag or nobody.
ReplyToCallerOnly ==
  /\ \A s, r \in Server : \A x \in held[s], y \in held[r] :
       x[1] = y[1] => s = r /\ x = y
  /\ \A s \in Server : \A x \in held[s] :
       x[1] \in used /\ rcaller[x[1]] \in {x[2], NoThread}

\* A call in kqueue is on its way: the delay thread can run, will be told, or
\* comes back to kqueue when the manager has received the signal it sends.
NoLostDelayedCall ==
  kqueue # <<>> =>
    \/ status[Delay] \in {"RDY", "RUN"}
    \/ flag[Delay]
    \/ waitType[Delay] = "send"
    \/ delayStart /\ ~noRequest

\* A thread that executes can run: a thread that blocked, ended or was
\* suspended never continues past dispatch().  At that point every request to
\* dispatch has been served, and the delay thread has been told of kqueue.
RunnerIsRunnable ==
  /\ mode # "leave" => status[running] \in {"RUN", "RDY"}
  /\ mode = "thread" => noRequest /\ ~delayStart
  /\ \A t \in Thread : status[t] = "RUN" => t = running

\* A reply can still reach t: some server holds its tag and t is linked to
\* the record that reply_tree has for the key.
Answerable(t) ==
  /\ callKey[t] \in used
  /\ rcaller[callKey[t]] = t
  /\ \E s \in Server : <<callKey[t], t>> \in held[s]

\* A thread that waits for a reply stays answerable, but for three steps: the
\* reply to it fails (E_PAR), the server that holds its tag ends, or a thread
\* whose own reply failed is terminated while linked to the same record.
CallStaysAnswerable ==
  [][\A t \in Thread :
       waitType'[t] = "reply" /\ (waitType[t] = "reply" => Answerable(t)) =>
         \/ Answerable(t)'
         \/ \E s \in Server : <<callKey[t], t>> \in held[s] \ held'[s]
         \/ \E u \in User : /\ callKey[u] = callKey[t] /\ u # t
                            /\ waitType[u] = "reply" /\ ~Answerable(u)
                            /\ status'[u] = "DMT"]_vars

\* A key of reply_sequence that no call and no tag accounts for any more.
LostKey(k) ==
  /\ k \in used
  /\ \A t \in Thread : callKey[t] # k
  /\ \A s \in Server, t \in Thread : <<k, t>> \notin held[s]

\* Keys are lost to the end of a thread only: every ipc_call that returns,
\* whatever it returns, has given its key back.
KeysLostOnlyWithThread ==
  [][\A k \in Key : LostKey(k)' /\ ~LostKey(k) =>
       \E t \in Thread : status[t] # "DMT" /\ status'[t] = "DMT"]_vars

(***************************************************************************)
(* Liveness.  The processor goes on executing kernel code and the delay     *)
(* thread, which no other thread can preempt; nothing is assumed of the     *)
(* programs of the servers and the users, nor of the devices.               *)
(***************************************************************************)
FairSpec == Spec /\ WF_vars(KernelStep)

\* The delay thread waits for the manager to receive a signal, or was released
\* by that ipc_receive, which makes no request to dispatch.
DelayHeldUp ==
  waitType[Delay] = "send" \/ (status[Delay] = "RDY" /\ running # Delay)

\* Whatever interrupts keep coming, a delayed call gets the delay thread onto
\* the processor, unless the delivery of a signal holds it up.
DelayThreadRuns ==
  kqueue # <<>> ~> (running = Delay /\ mode = "thread") \/ DelayHeldUp

\* A server that ended and whose thread_destroy was queued is destroyed, unless
\* the delivery of a signal holds the delay thread up.
QueuedDestroyHappens ==
  \A t \in Server :
    <<"thread_destroy", t>> \in Elems(kqueue) ~> status[t] = "NON" \/ DelayHeldUp
=============================================================================
