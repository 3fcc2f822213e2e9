------------------------ MODULE KernelThreadProofs -------------------------
(***************************************************************************)
(* ipc_call, ipc_receive and replies, thread operations (kernel/thread.c),  *)
(* dispatch and interrupts preserve the invariant of Kernel.                *)
(***************************************************************************)
EXTENDS KernelIpcProofs

USE DEF threadVars, syncVars, delayVars, portVars, replyVars

\* ipc_call to a server that waits: the rendezvous starts at once.
LEMMA CallReceiverKeeps ==
  ASSUME Inv, NEW t \in Thread \ {Idle, Delay}, NEW p \in Server, NEW k \in Key,
         IpcCall(t, p, k), receiver[p] # <<>>
  PROVE  Inv'
  <1>1. p \in Thread /\ t \in Thread /\ t # Delay /\ p # Delay /\ p # Idle /\ t # Idle
    BY ThreadAssumption, Zenon DEF Thread
  <1>2. Head(receiver[p]) = p /\ waitType[p] = "receive"
    BY <1>1, ReceiverIsOwner, Zenon DEF Inv
  <1>3. /\ Runs(t) /\ p # t /\ opened[p] /\ k \notin used /\ used' = used \cup {k}
        /\ callKey' = [callKey EXCEPT ![t] = k]
        /\ receiver' = [receiver EXCEPT ![p] = ListRemove(@, p)]
        /\ status' = [Woken(status, p) EXCEPT ![t] = "WAI"]
        /\ ready' = Unready(WokenReady(status, ready, p), t)
        /\ waitType' = [waitType EXCEPT ![p] = "none", ![t] = "reply"]
        /\ rcaller' = [rcaller EXCEPT ![k] = t]
        /\ held' = [held EXCEPT ![p] = @ \cup {<<k, t>>}]
        /\ mode' = "leave" /\ noRequest' = FALSE /\ running' = running
        /\ UNCHANGED <<boot, delayVars, opened, flag, caller>>
    BY <1>2, Zenon DEF IpcCall, CallReceiver, LeaveAndDispatch
  <1>4. /\ mode = "thread" /\ running = t /\ callKey[t] = NoKey /\ waitType[t] = "none"
    BY <1>3, RunsFacts, Zenon
  <1>5. /\ callKey \in [Thread -> Key \cup {NoKey}] /\ status \in [Thread -> Statuses]
        /\ rcaller \in [Key -> Thread \cup {NoThread}] /\ waitType \in [Thread -> WaitTypes]
        /\ held \in [Server -> SUBSET Tag] /\ receiver \in [Thread -> Seq(Thread)]
        /\ used \subseteq Key /\ Idle \in Thread /\ Delay \in Thread
    BY ZenonT(30) DEF Inv, CQ, RX, RQ, TypeRest, Thread
  <1>6. status[p] \in {"WAI", "WAS"}
    BY <1>1, <1>2, Zenon DEF Inv, WaitInv
  <1>7. RX(ready, status)'
    <2>1. RX(WokenReady(status, ready, p), Woken(status, p))
      BY <1>1, <1>6, WokenExact, Zenon DEF Inv
    <2>2. "WAI" \in Statuses \ Runnable
      BY Zenon DEF Statuses, Runnable
    <2>3. RX(Unready(WokenReady(status, ready, p), t), [Woken(status, p) EXCEPT ![t] = "WAI"])
      BY <1>1, <2>1, <2>2, UnreadyExact
    <2> QED BY <1>3, <2>3
  <1>8. status' = [status EXCEPT ![p] = IF status[p] = "WAI" THEN "RDY" ELSE "SUS", ![t] = "WAI"]
    BY <1>3 DEF Woken
  <1>9. WaitInv'
    BY <1>1, <1>3, <1>5, <1>8, ZenonT(30) DEF Inv, WaitInv
  <1>10. RunnerInv'
    BY <1>1, <1>2, <1>3, <1>5, <1>8, ZenonT(30) DEF Inv, RunnerInv
  <1>11. CQ(caller, waitType)' /\ RQ(receiver, waitType)'
    <2> DEFINE wt == [waitType EXCEPT ![p] = "none"]
    <2>1. /\ "none" \in WaitTypes \ {"receive"} /\ "none" \in WaitTypes \ {"call", "send"}
          /\ "reply" \in WaitTypes \ {"receive"} /\ "reply" \in WaitTypes \ {"call", "send"}
      BY DEF WaitTypes
    <2>2. RQ(receiver', wt)
      BY <1>1, <1>3, <2>1, ReceiverRemoved, ZenonT(30) DEF Inv
    <2>3. CQ(caller, wt)
      BY <1>1, <1>2, <2>1, CallerSame DEF Inv
    <2>4. wt[t] = "none"
      BY <1>1, <1>3, <1>4, <1>5
    <2>5. waitType' = [wt EXCEPT ![t] = "reply"]
      BY <1>3
    <2> HIDE DEF wt
    <2>6. RQ(receiver', [wt EXCEPT ![t] = "reply"])
      BY <1>1, <2>1, <2>2, <2>4, ReceiverSame
    <2>7. CQ(caller, [wt EXCEPT ![t] = "reply"])
      BY <1>1, <2>1, <2>3, <2>4, CallerSame
    <2> QED BY <1>3, <2>5, <2>6, <2>7, ZenonT(30)
  <1>12. PortInv'
    <2>1. caller[p] = <<>>
      BY <1>1, ZenonT(30) DEF Inv, PortInv, NoMissedRendezvous
    <2>2. \A x \in Thread : status[x] \notin {"NON", "DMT"} => status'[x] \notin {"NON", "DMT"}
      BY <1>1, <1>5, <1>8
    <2> QED BY <1>1, <1>3, <1>4, <1>5, <2>1, <2>2, ZenonT(30)
            DEF Inv, PortInv, ClosedPortEmpty, NoMissedRendezvous
  <1>13. TypeRest'
    <2>1. callKey' \in [Thread -> Key \cup {NoKey}] /\ rcaller' \in [Key -> Thread \cup {NoThread}]
      BY <1>1, <1>3, <1>5
    <2>2. held' \in [Server -> SUBSET Tag]
      BY <1>1, <1>3, <1>5 DEF Tag
    <2> QED BY <1>3, <2>1, <2>2, ZenonT(30) DEF Inv, TypeRest
  <1>14. KeyInv'
    <2>1. \A x \in Thread \ {t} : callKey'[x] = callKey[x]
      BY <1>3, <1>5
    <2>2. \A x \in Thread \ {t, p} : waitType'[x] = waitType[x]
      BY <1>3, <1>5
    <2>3. waitType'[t] = "reply" /\ callKey'[t] = k /\ k # NoKey /\ waitType'[p] = "none"
      BY <1>1, <1>3, <1>5, KeyAssumption
    <2>4. callKey[p] = NoKey
      BY <1>1, <1>2, ZenonT(30) DEF Inv, KeyInv
    <2>5. \A x \in Thread : Pending(x)' <=> Pending(x)
      BY <1>3, <1>4, <2>1, <2>2, <2>3, <2>4, ZenonT(30) DEF Pending
    <2>6. /\ \A s \in Server : \A x \in held[s] : x[1] # k
          /\ \A s \in Server, u \in Thread : <<k, u>> \notin held[s]
          /\ \A u \in Thread : Pending(u) => callKey[u] # k
      BY <1>3, FreeKey
    <2>7. \A s \in Server : \A x \in held'[s] : x \in held[s] \/ (s = p /\ x = <<k, t>>)
      BY <1>3, <1>5
    <2>8. ReplyToCallerOnly'
      <3>1. \A s, r \in Server : \A x \in held'[s], y \in held'[r] :
              x[1] = y[1] => s = r /\ x = y
        <4>1. \A s, r \in Server : \A x \in held[s], y \in held[r] :
                x[1] = y[1] => s = r /\ x = y
          BY Zenon DEF Inv, KeyInv, ReplyToCallerOnly
        <4>2. SUFFICES ASSUME NEW s \in Server, NEW r \in Server,
                              NEW x \in held'[s], NEW y \in held'[r], x[1] = y[1]
                       PROVE  s = r /\ x = y
          OBVIOUS
        <4>3. CASE x \in held[s] /\ y \in held[r]
          BY <4>1, <4>2, <4>3
        <4>4. CASE x = <<k, t>> /\ y \in held[r]
          BY <2>6, <4>2, <4>4, Zenon
        <4>5. CASE x \in held[s] /\ y = <<k, t>>
          BY <2>6, <4>2, <4>5
        <4>6. CASE s = p /\ r = p /\ x = <<k, t>> /\ y = <<k, t>>
          BY <4>6
        <4> QED BY <2>7, <4>2, <4>3, <4>4, <4>5, <4>6, Zenon
      <3>2. \A j \in Key \ {k} : rcaller'[j] = rcaller[j]
        BY <1>3, <1>5
      <3>3. rcaller'[k] = t
        BY <1>3, <1>5
      <3>4. \A s \in Server : \A x \in held'[s] : x[1] \in used' /\ rcaller'[x[1]] \in {x[2], NoThread}
        <4>1. \A s \in Server : \A x \in held[s] : x[1] \in used /\ rcaller[x[1]] \in {x[2], NoThread}
          BY Zenon DEF Inv, KeyInv, ReplyToCallerOnly
        <4>2. used' = used \cup {k} /\ used \subseteq Key
          BY <1>3, <1>5, Zenon
        <4>3. SUFFICES ASSUME NEW s \in Server, NEW x \in held'[s]
                       PROVE  x[1] \in used' /\ rcaller'[x[1]] \in {x[2], NoThread}
          BY Zenon
        <4>4. CASE x \in held[s]
          <5>1. x[1] \in used /\ rcaller[x[1]] \in {x[2], NoThread} /\ x[1] # k
            BY <2>6, <4>1, <4>4, Zenon
          <5> QED BY <3>2, <4>2, <5>1, Zenon
        <4>5. CASE x = <<k, t>>
          BY <3>3, <4>2, <4>5
        <4> QED BY <2>7, <4>4, <4>5, Zenon
      <3> QED BY <3>1, <3>4, Zenon DEF ReplyToCallerOnly
    <2>9. \A j \in used' : rcaller'[j] # NoThread =>
             waitType'[rcaller'[j]] = "reply" /\ callKey'[rcaller'[j]] = j
      <3>4. rcaller'[k] = t /\ used' = used \cup {k}
        BY <1>3, <1>5
      <3>1. SUFFICES ASSUME NEW j \in used, rcaller'[j] # NoThread
                     PROVE  waitType'[rcaller'[j]] = "reply" /\ callKey'[rcaller'[j]] = j
        BY <2>3, <3>4, Zenon
      <3>2. j \in Key /\ j # k /\ rcaller'[j] = rcaller[j]
        BY <1>3, <1>5
      <3>3. waitType[rcaller[j]] = "reply" /\ callKey[rcaller[j]] = j /\ rcaller[j] \in Thread
        BY <1>5, <3>1, <3>2 DEF Inv, KeyInv
      <3> QED BY <1>2, <1>4, <2>1, <2>2, <3>2, <3>3, ZenonT(30)
    <2>10. /\ \A x \in Thread : waitType'[x] \in {"call", "reply"} => callKey'[x] # NoKey
           /\ \A x \in Thread : waitType'[x] \in {"send", "receive", "flag"} => callKey'[x] = NoKey
      BY <2>1, <2>2, <2>3, Zenon DEF Inv, KeyInv
    <2>11. \A x \in Thread : Pending(x)' =>
            /\ callKey'[x] \in used'
            /\ \A s \in Server, v \in Thread : <<callKey'[x], v>> \notin held'[s]
            /\ \A v \in Thread : Pending(v)' /\ callKey'[v] = callKey'[x] => v = x
      <3>1. SUFFICES ASSUME NEW x \in Thread, Pending(x)
                     PROVE  /\ callKey'[x] \in used'
                            /\ \A s \in Server, v \in Thread : <<callKey'[x], v>> \notin held'[s]
                            /\ \A v \in Thread : Pending(v) /\ callKey'[v] = callKey'[x] => v = x
        BY <2>5, ZenonT(30)
      <3>2. \A v \in Thread : Pending(v) => callKey'[v] = callKey[v] /\ callKey[v] # k
        BY <1>4, <2>1, <2>6, Zenon DEF Pending
      <3>3. /\ callKey[x] \in used /\ \A s \in Server, v \in Thread : <<callKey[x], v>> \notin held[s]
            /\ \A v \in Thread : Pending(v) /\ callKey[v] = callKey[x] => v = x
        BY <3>1, ZenonT(30) DEF Inv, KeyInv
      <3> QED BY <1>3, <2>7, <3>1, <3>2, <3>3
    <2> QED BY <2>8, <2>9, <2>10, <2>11, Zenon DEF KeyInv
  <1> QED BY <1>7, <1>9, <1>10, <1>11, <1>12, <1>13, <1>14, ZenonT(30) DEF Inv

\* ipc_receive takes a queued call: the caller now waits for the reply, linked
\* to the record of its key.
LEMMA ReceiveCallKeeps ==
  ASSUME Inv, NEW t \in Server, Runs(t), opened[t], caller[t] # <<>>,
         waitType[Head(caller[t])] = "call", ReceiveQueued(t),
         UNCHANGED <<boot, delayVars, opened, callKey, used>>
  PROVE  Inv'
  <1> DEFINE c == Head(caller[t])
             k == callKey[c]
  <1>1. t \in Thread /\ caller[t] \in Seq(Thread)
    BY DEF Inv, CQ, Thread
  <1>2. c \in Elems(caller[t]) /\ c \in Thread /\ waitType[c] = "call"
    BY <1>1, DequeueUnlinks
  <1>3. /\ caller' = [caller EXCEPT ![t] = ListRemove(@, c)]
        /\ waitType' = [waitType EXCEPT ![c] = "reply"]
        /\ rcaller' = [rcaller EXCEPT ![k] = c]
        /\ held' = [held EXCEPT ![t] = @ \cup {<<k, c>>}]
        /\ mode' = "leave" /\ UNCHANGED <<running, noRequest>>
        /\ UNCHANGED <<status, ready, receiver, flag>>
    BY <1>2 DEF ReceiveQueued, Leave
  <1> HIDE DEF c, k
  <1>4. mode = "thread" /\ running = t /\ noRequest /\ ~delayStart
    BY <1>1, RunsFacts
  <1>5. /\ callKey \in [Thread -> Key \cup {NoKey}] /\ caller \in [Thread -> Seq(Thread)]
        /\ rcaller \in [Key -> Thread \cup {NoThread}] /\ waitType \in [Thread -> WaitTypes]
        /\ held \in [Server -> SUBSET Tag] /\ used \subseteq Key /\ Delay \in Thread
    BY DEF Inv, CQ, TypeRest, Thread
  <1>6. callKey[c] = k /\ k # NoKey /\ Pending(c)
    BY <1>2, ZenonT(30) DEF Inv, KeyInv, Pending, k
  <1>7. /\ k \in used /\ \A s \in Server, u \in Thread : <<k, u>> \notin held[s]
        /\ \A u \in Thread : Pending(u) /\ callKey[u] = k => u = c
    BY <1>2, <1>6, ZenonT(30) DEF Inv, KeyInv
  <1>8. "reply" \in WaitTypes \ {"call", "send"} /\ "reply" \in WaitTypes \ {"receive"}
    BY DEF WaitTypes
  <1>9. CQ(caller, waitType)'
    BY <1>1, <1>2, <1>3, <1>8, CallerRemoved, ZenonT(30) DEF Inv
  <1>10. RQ(receiver, waitType)'
    BY <1>2, <1>3, <1>8, ReceiverSame, ZenonT(30) DEF Inv
  <1>11. RX(ready, status)'
    BY <1>3 DEF Inv
  <1>12. WaitInv'
    BY <1>2, <1>3, <1>5, ZenonT(30) DEF Inv, WaitInv
  <1>13. RunnerInv'
    BY <1>2, <1>3, <1>4, <1>5, Zenon DEF Inv, RunnerInv
  <1>14. PortInv'
    BY <1>1, <1>3, <1>4, <1>5 DEF Inv, PortInv, ClosedPortEmpty, NoMissedRendezvous
  <1>15. TypeRest'
    <2>1. rcaller' \in [Key -> Thread \cup {NoThread}]
      BY <1>2, <1>3, <1>5, <1>7
    <2>2. held' \in [Server -> SUBSET Tag]
      BY <1>2, <1>3, <1>5, <1>7 DEF Tag
    <2> QED BY <1>3, <2>1, <2>2, Zenon DEF Inv, TypeRest
  <1>16. KeyInv'
    <2>0. KeyInv /\ ReplyToCallerOnly
      BY DEF Inv, KeyInv
    <2>1. \A x \in Thread \ {c} : waitType'[x] = waitType[x]
      BY <1>3, <1>5
    <2>2. waitType'[c] = "reply"
      BY <1>2, <1>3, <1>5
    <2>3. \A x \in Thread : Pending(x)' <=> Pending(x) /\ x # c
      BY <2>1, <2>2 DEF Pending
    <2>4. \A s \in Server : \A x \in held[s] : x[1] # k
      <3>1. SUFFICES ASSUME NEW s \in Server, NEW x \in held[s], x[1] = k PROVE FALSE
        OBVIOUS
      <3>2. x \in Key \X Thread
        BY <1>5 DEF Tag
      <3>3. x = <<k, x[2]>> /\ x[2] \in Thread
        BY <3>1, <3>2
      <3> QED BY <1>7, <3>3
    <2>5. \A s \in Server : \A x \in held'[s] : x \in held[s] \/ (s = t /\ x = <<k, c>>)
      BY <1>3, <1>5
    <2>6. /\ \A j \in Key \ {k} : rcaller'[j] = rcaller[j]
          /\ rcaller'[k] = c
      BY <1>3, <1>5, <1>7
    <2>7. ReplyToCallerOnly'
      <3>1. \A s, r \in Server : \A x \in held'[s], y \in held'[r] :
              x[1] = y[1] => s = r /\ x = y
        BY <2>4, <2>5 DEF Inv, KeyInv, ReplyToCallerOnly
      <3>2. \A s \in Server : \A x \in held'[s] : x[1] \in used' /\ rcaller'[x[1]] \in {x[2], NoThread}
        <4>1. SUFFICES ASSUME NEW s \in Server, NEW x \in held'[s]
                       PROVE  x[1] \in used' /\ rcaller'[x[1]] \in {x[2], NoThread}
          OBVIOUS
        <4>2. CASE x \in held[s]
          <5>1. x[1] \in used /\ rcaller[x[1]] \in {x[2], NoThread} /\ x[1] # k
            BY <2>0, <2>4, <4>2, Zenon DEF ReplyToCallerOnly
          <5> QED BY <1>5, <2>6, <5>1
        <4>3. CASE x = <<k, c>>
          BY <1>7, <2>6, <4>3
        <4> QED BY <2>5, <4>2, <4>3
      <3> QED BY <3>1, <3>2 DEF ReplyToCallerOnly
    <2>8. \A j \in used' : rcaller'[j] # NoThread =>
             waitType'[rcaller'[j]] = "reply" /\ callKey'[rcaller'[j]] = j
      <3>1. SUFFICES ASSUME NEW j \in used, j # k, rcaller'[j] # NoThread
                     PROVE  waitType'[rcaller'[j]] = "reply" /\ callKey'[rcaller'[j]] = j
        BY <1>6, <2>2, <2>6
      <3>2. j \in Key /\ rcaller'[j] = rcaller[j]
        BY <1>5, <2>6, <3>1
      <3>3. waitType[rcaller[j]] = "reply" /\ callKey[rcaller[j]] = j /\ rcaller[j] \in Thread
        BY <1>5, <3>1, <3>2, ZenonT(30) DEF Inv, KeyInv
      <3> QED BY <1>2, <2>1, <3>2, <3>3
    <2>9. /\ \A x \in Thread : waitType'[x] \in {"call", "reply"} => callKey'[x] # NoKey
          /\ \A x \in Thread : waitType'[x] \in {"send", "receive", "flag"} => callKey'[x] = NoKey
      BY <1>6, <2>1, <2>2, ZenonT(30) DEF Inv, KeyInv
    <2>10. \A x \in Thread : Pending(x)' =>
            /\ callKey'[x] \in used'
            /\ \A s \in Server, v \in Thread : <<callKey'[x], v>> \notin held'[s]
            /\ \A v \in Thread : Pending(v)' /\ callKey'[v] = callKey'[x] => v = x
      <3>1. SUFFICES ASSUME NEW x \in Thread, Pending(x), x # c
                     PROVE  /\ callKey[x] \in used
                            /\ \A s \in Server, v \in Thread : <<callKey[x], v>> \notin held'[s]
                            /\ \A v \in Thread : Pending(v) /\ callKey[v] = callKey[x] => v = x
        BY <2>3, Zenon
      <3>2. /\ callKey[x] \in used /\ callKey[x] # k
            /\ \A s \in Server, v \in Thread : <<callKey[x], v>> \notin held[s]
            /\ \A v \in Thread : Pending(v) /\ callKey[v] = callKey[x] => v = x
        BY <1>7, <2>0, <3>1 DEF KeyInv
      <3> QED BY <2>5, <3>2, ZenonT(30)
    <2> QED BY <2>7, <2>8, <2>9, <2>10 DEF KeyInv
  <1> QED BY <1>9, <1>10, <1>11, <1>12, <1>13, <1>14, <1>15, <1>16, ZenonT(30) DEF Inv

\* ipc_receive takes a queued send: the sender is released.
LEMMA ReceiveSendKeeps ==
  ASSUME Inv, NEW t \in Server, Runs(t), opened[t], caller[t] # <<>>,
         waitType[Head(caller[t])] = "send", ReceiveQueued(t),
         UNCHANGED <<boot, delayVars, opened, callKey, used>>
  PROVE  Inv'
  <1> DEFINE c == Head(caller[t])
  <1>1. t \in Thread /\ caller[t] \in Seq(Thread)
    BY DEF Inv, CQ, Thread
  <1>2. c \in Elems(caller[t]) /\ c \in Thread /\ waitType[c] = "send"
    BY <1>1, DequeueUnlinks
  <1>3. /\ caller' = [caller EXCEPT ![t] = ListRemove(@, c)]
        /\ Release(status, ready, c)
        /\ mode' = "leave" /\ UNCHANGED <<running, noRequest>>
        /\ UNCHANGED <<rcaller, held, receiver, flag>>
    BY <1>2 DEF ReceiveQueued, Leave
  <1> HIDE DEF c
  <1>4. mode = "thread" /\ running = t /\ noRequest /\ ~delayStart /\ status[t] \in Runnable
    BY <1>1, RunsFacts
  <1>5. StatusOK(status) /\ RX(ready, status) /\ waitType[c] # "none" /\ Idle \in Thread
    BY <1>2, StatusIsOK DEF Inv, Thread
  <1>6. /\ RX(ready, status)' /\ WaitInv'
        /\ \A x \in Thread : status'[x] = "RUN" => x = running
        /\ \A x \in Thread : status[x] \in Runnable => status'[x] = status[x]
        /\ \A x \in Thread : status[x] \notin {"NON", "DMT"} => status'[x] \notin {"NON", "DMT"}
        /\ waitType'[Delay] \in {"none", "flag", "send"}
        /\ waitType' = [waitType EXCEPT ![c] = "none"]
    BY <1>2, <1>3, <1>5, ReleaseKeeps, ZenonT(30)
  <1>7. "none" \in WaitTypes \ {"call", "send"} /\ "none" \in WaitTypes \ {"receive"}
    BY DEF WaitTypes
  <1>8. CQ(caller, waitType)'
    BY <1>1, <1>2, <1>3, <1>6, <1>7, CallerRemoved, ZenonT(30) DEF Inv
  <1>9. RQ(receiver, waitType)'
    BY <1>2, <1>3, <1>6, <1>7, ReceiverSame, ZenonT(30) DEF Inv
  <1>10. RunnerInv'
    BY <1>1, <1>3, <1>4, <1>5, <1>6, ZenonT(30) DEF RunnerInv, StatusOK
  <1>11. PortInv'
    <2>1. caller \in [Thread -> Seq(Thread)]
      BY DEF Inv, CQ
    <2> QED BY <1>1, <1>3, <1>4, <1>6, <2>1, ZenonT(30) DEF Inv, PortInv, ClosedPortEmpty, NoMissedRendezvous
  <1>12. TypeRest'
    BY <1>3 DEF Inv, TypeRest
  <1>13. KeyInv'
    <2>1. callKey[c] = NoKey /\ waitType \in [Thread -> WaitTypes]
      BY <1>2 DEF Inv, KeyInv, CQ
    <2> QED BY <1>2, <1>3, <1>6, <2>1, KeyFrame, Zenon
  <1> QED BY <1>6, <1>8, <1>9, <1>10, <1>11, <1>12, <1>13 DEF Inv

\* ipc_receive.
LEMMA ReceiveStep ==
  ASSUME Inv, NEW t \in Server, IpcReceive(t)
  PROVE  Inv'
  <1>1. Runs(t) /\ UNCHANGED <<boot, delayVars, opened, callKey, used>> /\ t \in Thread \ {Idle}
    BY ThreadAssumption DEF IpcReceive, Thread
  <1>2. /\ mode = "thread" /\ running = t /\ callKey[t] = NoKey /\ waitType[t] = "none"
        /\ noRequest /\ ~delayStart /\ status[t] \in Runnable
    BY <1>1, RunsFacts
  <1>3. CASE flag[t]
    <2>1. /\ flag' = [flag EXCEPT ![t] = FALSE] /\ mode' = "leave"
          /\ UNCHANGED <<running, noRequest, threadVars, caller, receiver, rcaller, held>>
      BY <1>3 DEF IpcReceive, Leave
    <2>2. flag' \in [Thread -> BOOLEAN]
      BY <2>1, ZenonT(30) DEF Inv, TypeRest
    <2>3. TypeRest'
      BY <1>1, <2>1, <2>2 DEF Inv, TypeRest
    <2>4. RX(ready, status)' /\ CQ(caller, waitType)' /\ RQ(receiver, waitType)'
      BY <2>1 DEF Inv, RX, CQ, RQ
    <2>5. WaitInv' /\ RunnerInv'
      BY <1>1, <1>2, <2>1 DEF Inv, WaitInv, RunnerInv
    <2>6. PortInv'
      BY <1>1, <1>2, <2>1 DEF Inv, PortInv, ClosedPortEmpty, NoMissedRendezvous
    <2>7. KeyInv'
      BY <1>1, <2>1, KeyFrame
    <2> QED BY <2>3, <2>4, <2>5, <2>6, <2>7 DEF Inv
  <1>4. CASE ~flag[t] /\ caller[t] # <<>>
    <2>1. opened[t] /\ ReceiveQueued(t)
      BY <1>4 DEF IpcReceive
    <2>2. waitType[Head(caller[t])] \in {"call", "send"}
      BY <2>1 DEF ReceiveQueued
    <2> QED BY <1>1, <1>4, <2>1, <2>2, ReceiveCallKeeps, ReceiveSendKeeps
  <1>5. CASE ~flag[t] /\ caller[t] = <<>>
    <2>1. /\ opened[t] /\ receiver' = [receiver EXCEPT ![t] = ListEnqueue(@, t)]
          /\ Wait(status, ready, t, "receive")
          /\ UNCHANGED <<caller, flag, rcaller, held>>
      BY <1>5 DEF IpcReceive
    <2>2. "receive" \in WaitTypes \ {"none"} /\ "receive" \in WaitTypes \ {"call", "send"}
      BY DEF WaitTypes
    <2>3. StatusOK(status) /\ RX(ready, status) /\ t # Delay
      BY StatusIsOK, ThreadAssumption DEF Inv
    <2>4. /\ RX(ready, status)' /\ WaitInv' /\ RunnerInv'
          /\ \A x \in Thread : status[x] \notin {"NON", "DMT"} => status'[x] \notin {"NON", "DMT"}
          /\ mode' = "leave" /\ noRequest' = FALSE /\ running' = running
      BY <1>1, <1>2, <2>1, <2>2, <2>3, WaitKeeps, ZenonT(30)
    <2>5. waitType' = [waitType EXCEPT ![t] = "receive"] /\ waitType \in [Thread -> WaitTypes]
      BY <2>1 DEF Wait, Inv, CQ
    <2>6. CQ(caller, waitType)'
      BY <1>1, <1>2, <2>1, <2>2, <2>5, CallerSame, ZenonT(30) DEF Inv
    <2>7. RQ(receiver, waitType)'
      BY <1>1, <1>2, <2>1, <2>5, ReceiverEnqueued, ZenonT(30) DEF Inv
    <2>8. PortInv'
      <3>1. receiver \in [Thread -> Seq(Thread)]
        BY DEF Inv, RQ
      <3> QED BY <1>1, <1>2, <1>5, <2>1, <2>4, <3>1, ZenonT(30)
              DEF Inv, PortInv, ClosedPortEmpty, NoMissedRendezvous
    <2>9. KeyInv'
      BY <1>1, <1>2, <2>1, <2>5, KeyFrame, ZenonT(30)
    <2>10. TypeRest'
      BY <1>1, <2>1, <2>4, ZenonT(30) DEF Inv, TypeRest
    <2> QED BY <2>4, <2>6, <2>7, <2>8, <2>9, <2>10 DEF Inv
  <1> QED BY <1>3, <1>4, <1>5

\* ipc_call.
LEMMA CallStep ==
  ASSUME Inv, NEW t \in Server \cup User, NEW p \in Server, NEW k \in Key, IpcCall(t, p, k)
  PROVE  Inv'
  <1>1. t \in Thread \ {Idle, Delay}
    BY ThreadAssumption DEF Thread
  <1> QED BY <1>1, CallQueueKeeps, CallReceiverKeeps

\* ipc_send to a tag: the record goes, and with it the link of its caller.
LEMMA ReplyStep ==
  ASSUME Inv, NEW t \in Server, NEW tag \in held[t], IpcReply(t, tag)
  PROVE  Inv'
  <1> DEFINE k == tag[1]
             h == rcaller[k]
  <1>1. /\ Runs(t) /\ held' = [held EXCEPT ![t] = @ \ {tag}] /\ used' = used \ {k}
        /\ ReplyFails \/ ReplyDelivers(k)
        /\ UNCHANGED <<boot, delayVars, portVars, flag>>
    BY DEF IpcReply
  <1>2. /\ callKey \in [Thread -> Key \cup {NoKey}] /\ status \in [Thread -> Statuses]
        /\ rcaller \in [Key -> Thread \cup {NoThread}] /\ waitType \in [Thread -> WaitTypes]
        /\ held \in [Server -> SUBSET Tag] /\ used \subseteq Key
        /\ t \in Thread /\ Idle \in Thread /\ Delay \in Thread
    BY Zenon DEF Inv, CQ, RX, TypeRest, Thread
  <1>3. /\ mode = "thread" /\ running = t /\ noRequest /\ ~delayStart /\ status[t] \in Runnable
        /\ waitType[t] = "none"
    BY <1>1, <1>2, RunsFacts
  <1>4. /\ k \in Key /\ k \in used /\ tag = <<k, tag[2]>> /\ tag[2] \in Thread
    BY <1>2 DEF Tag, Inv, KeyInv, ReplyToCallerOnly
  <1>5. \A s \in Server : \A x \in held'[s] : x \in held[s] /\ x[1] # k
    <2>1. SUFFICES ASSUME NEW s \in Server, NEW x \in held'[s] PROVE x \in held[s] /\ x[1] # k
      OBVIOUS
    <2>2. x \in held[s] /\ (s = t => x # tag)
      BY <1>1, <1>2
    <2> QED BY <2>2 DEF Inv, KeyInv, ReplyToCallerOnly
  <1>6. \A x \in Thread : Pending(x) => callKey[x] # k
    BY <1>4 DEF Inv, KeyInv
  <1>7. held' \in [Server -> SUBSET Tag]
    BY <1>1, <1>2
  <1>0. KeyInv /\ ReplyToCallerOnly
    BY Zenon DEF Inv, KeyInv
  <1> HIDE DEF k, h
  <1>11. \A s, r \in Server : \A x \in held'[s], y \in held'[r] :
          x[1] = y[1] => s = r /\ x = y
    <2>1. \A s, r \in Server : \A x \in held[s], y \in held[r] : x[1] = y[1] => s = r /\ x = y
      BY <1>0 DEF ReplyToCallerOnly
    <2>2. SUFFICES ASSUME NEW s \in Server, NEW r \in Server,
                          NEW x \in held'[s], NEW y \in held'[r], x[1] = y[1]
                   PROVE  s = r /\ x = y
      OBVIOUS
    <2>3. x \in held[s] /\ y \in held[r]
      BY <1>5
    <2> QED BY <2>1, <2>2, <2>3, Zenon
  <1>12. \A s \in Server : \A x \in held'[s] :
          x[1] \in used' /\ x[1] \in Key /\ x[1] # k /\ rcaller[x[1]] \in {x[2], NoThread}
    BY <1>0, <1>1, <1>2, <1>5 DEF ReplyToCallerOnly
  <1>8. CASE ReplyFails
    <2>1. /\ mode' = "leave" /\ UNCHANGED <<running, noRequest>>
          /\ UNCHANGED <<threadVars, callKey, rcaller>>
      BY <1>8 DEF ReplyFails, Leave
    <2>2. TypeRest'
      BY <1>1, <1>7, <2>1 DEF Inv, TypeRest
    <2>3. RX(ready, status)' /\ CQ(caller, waitType)' /\ RQ(receiver, waitType)'
      BY <1>1, <2>1 DEF Inv, RX, CQ, RQ
    <2>4. WaitInv' /\ RunnerInv'
      BY <1>1, <1>3, <2>1, Zenon DEF Inv, WaitInv, RunnerInv
    <2>5. PortInv'
      BY <1>1, <1>3, <2>1, Zenon DEF Inv, PortInv, ClosedPortEmpty, NoMissedRendezvous
    <2>6. KeyInv'
      <3>1. \A x \in Thread : Pending(x)' <=> Pending(x)
        BY <2>1 DEF Pending
      <3>2. ReplyToCallerOnly'
        BY <1>11, <1>12, <2>1 DEF ReplyToCallerOnly
      <3>3. \A j \in used' : rcaller'[j] # NoThread =>
             waitType'[rcaller'[j]] = "reply" /\ callKey'[rcaller'[j]] = j
        BY <1>1, <2>1, Zenon DEF Inv, KeyInv
      <3>4. /\ \A x \in Thread : waitType'[x] \in {"call", "reply"} => callKey'[x] # NoKey
            /\ \A x \in Thread : waitType'[x] \in {"send", "receive", "flag"} => callKey'[x] = NoKey
        BY <2>1 DEF Inv, KeyInv
      <3>5. \A x \in Thread : Pending(x)' =>
            /\ callKey'[x] \in used'
            /\ \A s \in Server, v \in Thread : <<callKey'[x], v>> \notin held'[s]
            /\ \A v \in Thread : Pending(v)' /\ callKey'[v] = callKey'[x] => v = x
        BY <1>1, <1>5, <1>6, <2>1, <3>1, <1>0, Zenon DEF KeyInv
      <3> QED BY <3>2, <3>3, <3>4, <3>5, Zenon DEF KeyInv
    <2> QED BY <2>2, <2>3, <2>4, <2>5, <2>6, Zenon DEF Inv
  <1>9. CASE ReplyDelivers(k) /\ h = NoThread
    <2>1. /\ mode' = "leave" /\ noRequest' = FALSE /\ running' = running
          /\ UNCHANGED <<threadVars, callKey, rcaller>>
      BY <1>9 DEF ReplyDelivers, LeaveAndDispatch, h
    <2>2. TypeRest'
      BY <1>1, <1>7, <2>1, ZenonT(30) DEF Inv, TypeRest
    <2>3. RX(ready, status)' /\ CQ(caller, waitType)' /\ RQ(receiver, waitType)'
      BY <1>1, <2>1, Zenon DEF Inv, RX, CQ, RQ
    <2>4. WaitInv' /\ RunnerInv'
      BY <1>1, <1>3, <2>1, Zenon DEF Inv, WaitInv, RunnerInv
    <2>5. PortInv'
      BY <1>1, <1>3, <2>1, Zenon DEF Inv, PortInv, ClosedPortEmpty, NoMissedRendezvous
    <2>6. KeyInv'
      <3>1. \A x \in Thread : Pending(x)' <=> Pending(x)
        BY <2>1 DEF Pending
      <3>2. ReplyToCallerOnly'
        BY <1>11, <1>12, <2>1 DEF ReplyToCallerOnly
      <3>3. \A j \in used' : rcaller'[j] # NoThread =>
             waitType'[rcaller'[j]] = "reply" /\ callKey'[rcaller'[j]] = j
        BY <1>1, <2>1, Zenon DEF Inv, KeyInv
      <3>4. /\ \A x \in Thread : waitType'[x] \in {"call", "reply"} => callKey'[x] # NoKey
            /\ \A x \in Thread : waitType'[x] \in {"send", "receive", "flag"} => callKey'[x] = NoKey
        BY <2>1, Zenon DEF Inv, KeyInv
      <3>5. \A x \in Thread : Pending(x)' =>
            /\ callKey'[x] \in used'
            /\ \A s \in Server, v \in Thread : <<callKey'[x], v>> \notin held'[s]
            /\ \A v \in Thread : Pending(v)' /\ callKey'[v] = callKey'[x] => v = x
        BY <1>1, <1>5, <1>6, <2>1, <3>1, <1>0, Zenon DEF KeyInv
      <3> QED BY <3>2, <3>3, <3>4, <3>5, Zenon DEF KeyInv
    <2> QED BY <2>2, <2>3, <2>4, <2>5, <2>6, Zenon DEF Inv
  <1>10. CASE ReplyDelivers(k) /\ h # NoThread
    <2>1. /\ Release(status, ready, h) /\ callKey' = [callKey EXCEPT ![h] = NoKey]
          /\ rcaller' = [rcaller EXCEPT ![k] = NoThread]
          /\ mode' = "leave" /\ noRequest' = FALSE /\ running' = running
      BY <1>10 DEF ReplyDelivers, LeaveAndDispatch, h
    <2>2. h \in Thread /\ waitType[h] = "reply" /\ callKey[h] = k
      BY <1>2, <1>4, <1>10 DEF Inv, KeyInv, h
    <2>3. StatusOK(status) /\ RX(ready, status) /\ waitType[h] # "none"
      BY <2>2, StatusIsOK, Zenon DEF Inv
    <2>4. /\ RX(ready, status)' /\ WaitInv'
          /\ \A x \in Thread : status'[x] = "RUN" => x = running
          /\ \A x \in Thread : status[x] \in Runnable => status'[x] = status[x]
          /\ \A x \in Thread : status[x] \notin {"NON", "DMT"} => status'[x] \notin {"NON", "DMT"}
          /\ waitType'[Delay] \in {"none", "flag", "send"}
          /\ waitType' = [waitType EXCEPT ![h] = "none"]
      BY <2>1, <2>2, <2>3, ReleaseKeeps
    <2>5. "none" \in WaitTypes \ {"call", "send"} /\ "none" \in WaitTypes \ {"receive"}
      BY DEF WaitTypes
    <2>6. CQ(caller, waitType)'
      BY <1>1, <2>2, <2>4, <2>5, CallerSame, ZenonT(30) DEF Inv
    <2>7. RQ(receiver, waitType)'
      BY <1>1, <2>2, <2>4, <2>5, ReceiverSame, ZenonT(30) DEF Inv
    <2>8. RunnerInv'
      BY <1>2, <1>3, <2>1, <2>3, <2>4, Zenon DEF RunnerInv, StatusOK
    <2>9. PortInv'
      BY <1>1, <1>3, <2>4, Zenon DEF Inv, PortInv, ClosedPortEmpty, NoMissedRendezvous
    <2>10. TypeRest'
      <3>1. callKey' \in [Thread -> Key \cup {NoKey}] /\ rcaller' \in [Key -> Thread \cup {NoThread}]
        BY <1>2, <2>1, ZenonT(30)
      <3> QED BY <1>1, <1>7, <2>1, <3>1, ZenonT(30) DEF Inv, TypeRest
    <2>11. KeyInv'
      <3>1. \A x \in Thread \ {h} : waitType'[x] = waitType[x] /\ callKey'[x] = callKey[x]
        BY <1>2, <2>1, <2>4
      <3>2. waitType'[h] = "none" /\ callKey'[h] = NoKey
        BY <1>2, <2>1, <2>2, <2>4
      <3>3. \A x \in Thread : Pending(x)' <=> Pending(x)
        BY <2>2, <3>1, <3>2 DEF Pending
      <3>4. \A j \in Key \ {k} : rcaller'[j] = rcaller[j]
        BY <1>2, <2>1
      <3>5. ReplyToCallerOnly'
        BY <1>11, <1>12, <3>4, Zenon DEF ReplyToCallerOnly
      <3>6. \A j \in used' : rcaller'[j] # NoThread =>
             waitType'[rcaller'[j]] = "reply" /\ callKey'[rcaller'[j]] = j
        <4>1. SUFFICES ASSUME NEW j \in used, j # k, rcaller[j] # NoThread
                       PROVE  waitType'[rcaller[j]] = "reply" /\ callKey'[rcaller[j]] = j
          BY <1>1, <1>2, <3>4, Zenon
        <4>2. waitType[rcaller[j]] = "reply" /\ callKey[rcaller[j]] = j /\ rcaller[j] \in Thread
          BY <1>2, <4>1 DEF Inv, KeyInv
        <4> QED BY <2>2, <3>1, <4>1, <4>2
      <3>7. /\ \A x \in Thread : waitType'[x] \in {"call", "reply"} => callKey'[x] # NoKey
            /\ \A x \in Thread : waitType'[x] \in {"send", "receive", "flag"} => callKey'[x] = NoKey
        BY <3>1, <3>2, Zenon DEF Inv, KeyInv
      <3>8. \A x \in Thread : Pending(x)' =>
            /\ callKey'[x] \in used'
            /\ \A s \in Server, v \in Thread : <<callKey'[x], v>> \notin held'[s]
            /\ \A v \in Thread : Pending(v)' /\ callKey'[v] = callKey'[x] => v = x
        <4>1. \A x \in Thread : Pending(x) => callKey'[x] = callKey[x]
          BY <2>2, <3>1 DEF Pending
        <4> QED BY <1>0, <1>1, <1>5, <1>6, <3>3, <4>1, Zenon DEF KeyInv
      <3> QED BY <3>5, <3>6, <3>7, <3>8, Zenon DEF KeyInv
    <2> QED BY <2>4, <2>6, <2>7, <2>8, <2>9, <2>10, <2>11, Zenon DEF Inv
  <1> QED BY <1>1, <1>8, <1>9, <1>10

-----------------------------------------------------------------------------
(* Threads *)

\* Operations of kernel/thread.c on a thread that is not the running one, and
\* that keep its waiting bit.
LEMMA ThreadKeeps ==
  ASSUME Inv, NEW t \in Thread, Runs(t), NEW u \in Thread \ {Idle}, u # t, NEW s \in Statuses,
         status' = [status EXCEPT ![u] = s], s # "RUN",
         s \in {"WAI", "WAS"} <=> status[u] \in {"WAI", "WAS"},
         s \in {"NON", "DMT"} => status[u] \in {"NON", "DMT"},
         RX(ready, status)', mode' = "leave", running' = running, noRequest' \in BOOLEAN,
         UNCHANGED <<waitType, delayVars, caller, receiver, replyVars>>,
         flag' \in [Thread -> BOOLEAN], boot' \in Seq({Delay} \cup Server),
         opened' \in {opened, [opened EXCEPT ![u] = FALSE]},
         opened' = opened \/ status[u] = "NON"
  PROVE  Inv'
  <1>1. /\ mode = "thread" /\ running = t /\ noRequest /\ ~delayStart /\ status[t] \in Runnable
    BY RunsFacts
  <1>2. status \in [Thread -> Statuses] /\ opened \in [Thread -> BOOLEAN] /\ Idle \in Thread
    BY DEF Inv, RX, TypeRest, Thread
  <1>3. \A p \in Thread : opened'[p] = opened[p]
    BY <1>2, ZenonT(30) DEF Inv, PortInv
  <1>4. opened' \in [Thread -> BOOLEAN]
    BY <1>2, ZenonT(30)
  <1>5. TypeRest'
    BY <1>4 DEF Inv, TypeRest
  <1>6. CQ(caller, waitType)' /\ RQ(receiver, waitType)'
    BY DEF Inv, CQ, RQ
  <1>7. WaitInv'
    BY <1>2 DEF Inv, WaitInv
  <1>8. RunnerInv'
    BY <1>1, <1>2 DEF Inv, RunnerInv
  <1>9. PortInv'
    <2>1. \A p \in Thread : opened'[p] => p \in Server /\ status'[p] \notin {"NON", "DMT"}
      BY <1>2, <1>3 DEF Inv, PortInv
    <2>2. ClosedPortEmpty' /\ NoMissedRendezvous'
      BY <1>1, <1>3 DEF Inv, PortInv, ClosedPortEmpty, NoMissedRendezvous
    <2> QED BY <2>1, <2>2 DEF PortInv
  <1>10. KeyInv'
    BY KeyFrame, Zenon
  <1> QED BY <1>5, <1>6, <1>7, <1>8, <1>9, <1>10 DEF Inv

\* thread_create at boot.
LEMMA BootStep ==
  ASSUME Inv, BootCreate
  PROVE  Inv'
  <1> DEFINE u == Head(boot)
  <1>1. /\ Runs(Idle) /\ boot # <<>> /\ boot' = Tail(boot) /\ status[u] = "NON"
        /\ status' = [status EXCEPT ![u] = "RDY"] /\ flag' = [flag EXCEPT ![u] = FALSE]
        /\ opened' = [opened EXCEPT ![u] = FALSE] /\ ready' = Enready(ready, u)
        /\ mode' = "leave" /\ noRequest' = FALSE /\ running' = running
        /\ UNCHANGED <<waitType, delayVars, caller, receiver, replyVars>>
    BY DEF BootCreate, Created, LeaveAndDispatch
  <1>2. u \in {Delay} \cup Server /\ boot' \in Seq({Delay} \cup Server)
    BY <1>1 DEF Inv, TypeRest
  <1>3. u \in Thread \ {Idle} /\ Idle \in Thread /\ u # Idle
    BY <1>2, ThreadAssumption DEF Thread
  <1> HIDE DEF u
  <1>4. "RDY" \in Runnable /\ status[u] \notin Runnable /\ "RDY" \in Statuses
    BY <1>1 DEF Runnable, Statuses
  <1>5. RX(ready, status)'
    BY <1>1, <1>3, <1>4, EnreadyExact, ZenonT(30) DEF Inv
  <1>6. flag' \in [Thread -> BOOLEAN]
    BY <1>1, ZenonT(30) DEF Inv, TypeRest
  <1>7. noRequest' \in BOOLEAN
    BY <1>1, ZenonT(30)
  <1>8. /\ "RDY" # "RUN" /\ ("RDY" \in {"WAI", "WAS"} <=> status[u] \in {"WAI", "WAS"})
        /\ ("RDY" \in {"NON", "DMT"} => status[u] \in {"NON", "DMT"})
        /\ opened' \in {opened, [opened EXCEPT ![u] = FALSE]}
        /\ (opened' = opened \/ status[u] = "NON")
    BY <1>1
  <1> QED BY <1>1, <1>2, <1>3, <1>4, <1>5, <1>6, <1>7, <1>8, ThreadKeeps, ZenonT(30)

\* thread_create of a user thread.
LEMMA CreateStep ==
  ASSUME Inv, NEW u \in User, ThreadCreate(Manager, u)
  PROVE  Inv'
  <1>1. /\ Runs(Manager) /\ status[u] = "NON" /\ UNCHANGED <<boot, ready>>
        /\ status' = [status EXCEPT ![u] = "DMT"] /\ flag' = [flag EXCEPT ![u] = FALSE]
        /\ opened' = [opened EXCEPT ![u] = FALSE]
        /\ mode' = "leave" /\ noRequest' = noRequest /\ running' = running
        /\ UNCHANGED <<waitType, delayVars, caller, receiver, replyVars>>
    BY DEF ThreadCreate, Created, Leave
  <1>3. u \in Thread \ {Idle} /\ Manager \in Thread /\ u # Manager
    BY ThreadAssumption DEF Thread
  <1>4. "DMT" \notin Runnable /\ status[u] \notin Runnable /\ "DMT" \in Statuses
    BY <1>1 DEF Runnable, Statuses
  <1>5. RX(ready, status)'
    BY <1>1, <1>3, <1>4, SameExact, ZenonT(30) DEF Inv
  <1>6. flag' \in [Thread -> BOOLEAN]
    BY <1>1, ZenonT(30) DEF Inv, TypeRest
  <1>7. noRequest' \in BOOLEAN /\ boot' \in Seq({Delay} \cup Server)
    BY <1>1 DEF Inv, TypeRest
  <1>8. /\ "DMT" # "RUN" /\ ("DMT" \in {"WAI", "WAS"} <=> status[u] \in {"WAI", "WAS"})
        /\ ("DMT" \in {"NON", "DMT"} => status[u] \in {"NON", "DMT"})
        /\ opened' \in {opened, [opened EXCEPT ![u] = FALSE]}
        /\ (opened' = opened \/ status[u] = "NON")
    BY <1>1
  <1> QED BY <1>1, <1>3, <1>4, <1>5, <1>6, <1>7, <1>8, ThreadKeeps, ZenonT(30)

\* thread_start.
LEMMA StartStep ==
  ASSUME Inv, NEW u \in User, ThreadStart(Manager, u)
  PROVE  Inv'
  <1>1. /\ Runs(Manager) /\ status[u] = "DMT" /\ ready' = Enready(ready, u)
        /\ status' = [status EXCEPT ![u] = "RDY"] /\ flag' = [flag EXCEPT ![u] = FALSE]
        /\ mode' = "leave" /\ noRequest' = FALSE /\ running' = running
        /\ UNCHANGED <<boot, waitType, delayVars, portVars, replyVars>>
    BY DEF ThreadStart, LeaveAndDispatch
  <1>3. u \in Thread \ {Idle} /\ Manager \in Thread /\ u # Manager
    BY ThreadAssumption DEF Thread
  <1>4. "RDY" \in Runnable /\ status[u] \notin Runnable /\ "RDY" \in Statuses
    BY <1>1 DEF Runnable, Statuses
  <1>5. RX(ready, status)'
    BY <1>1, <1>3, <1>4, EnreadyExact, ZenonT(30) DEF Inv
  <1>6. flag' \in [Thread -> BOOLEAN]
    BY <1>1, ZenonT(30) DEF Inv, TypeRest
  <1>7. noRequest' \in BOOLEAN /\ boot' \in Seq({Delay} \cup Server)
    BY <1>1, ZenonT(30) DEF Inv, TypeRest
  <1>8. /\ "RDY" # "RUN" /\ ("RDY" \in {"WAI", "WAS"} <=> status[u] \in {"WAI", "WAS"})
        /\ ("RDY" \in {"NON", "DMT"} => status[u] \in {"NON", "DMT"})
        /\ opened' \in {opened, [opened EXCEPT ![u] = FALSE]}
        /\ (opened' = opened \/ status[u] = "NON")
    BY <1>1
  <1> QED BY <1>1, <1>3, <1>4, <1>5, <1>6, <1>7, <1>8, ThreadKeeps, ZenonT(30)

\* thread_destroy, by the manager or as a delayed call.
LEMMA DestroyKeeps ==
  ASSUME Inv, NEW t \in Thread, Runs(t), NEW u \in Thread \ {Idle}, u # t, Destroyed(u), Leave,
         UNCHANGED <<boot, ready, waitType, delayStart, portVars, flag, replyVars>>,
         kqueue' \in Seq(DelayedCall)
  PROVE  Inv'
  <1> DEFINE s == IF status[u] = "DMT" THEN "NON" ELSE status[u]
  <1>1. mode = "thread" /\ running = t /\ noRequest /\ ~delayStart /\ status[t] \in Runnable
    BY RunsFacts
  <1>2. status' = [status EXCEPT ![u] = s] /\ mode' = "leave" /\ UNCHANGED <<running, noRequest>>
    BY DEF Destroyed, Leave
  <1>3. status \in [Thread -> Statuses] /\ Idle \in Thread
    BY DEF Inv, RX, Thread
  <1>4. s \in Statuses /\ (s \in Runnable <=> status[u] \in Runnable)
    BY <1>3 DEF Statuses, Runnable
  <1>5. RX(ready, status)'
    BY <1>2, <1>4, SameExact, ZenonT(30) DEF Inv
  <1>6. TypeRest'
    BY <1>2 DEF Inv, TypeRest
  <1>7. CQ(caller, waitType)' /\ RQ(receiver, waitType)'
    BY DEF Inv, CQ, RQ
  <1>8. WaitInv'
    BY <1>2, <1>3 DEF Inv, WaitInv
  <1>9. RunnerInv'
    BY <1>1, <1>2, <1>3 DEF Inv, RunnerInv, Runnable
  <1>10. PortInv'
    <2>1. \A p \in Thread : opened'[p] => p \in Server /\ status'[p] \notin {"NON", "DMT"}
      BY <1>2, <1>3 DEF Inv, PortInv
    <2>2. ClosedPortEmpty' /\ NoMissedRendezvous'
      BY <1>1 DEF Inv, PortInv, ClosedPortEmpty, NoMissedRendezvous
    <2> QED BY <2>1, <2>2 DEF PortInv
  <1>11. KeyInv'
    BY KeyFrame
  <1> QED BY <1>5, <1>6, <1>7, <1>8, <1>9, <1>10, <1>11 DEF Inv

\* thread_destroy by the manager.
LEMMA DestroyStep ==
  ASSUME Inv, NEW u \in User, ThreadDestroy(Manager, u)
  PROVE  Inv'
  <1>1. u \in Thread \ {Idle} /\ Manager \in Thread /\ u # Manager
    BY ThreadAssumption DEF Thread
  <1>2. /\ Runs(Manager) /\ Destroyed(u) /\ Leave
        /\ UNCHANGED <<boot, ready, waitType, delayVars, portVars, flag, replyVars>>
    BY DEF ThreadDestroy
  <1>3. kqueue' \in Seq(DelayedCall)
    BY <1>2 DEF Inv, TypeRest
  <1> QED BY <1>1, <1>2, <1>3, DestroyKeeps

\* The body of thread_suspend keeps the ready queues exact and the waiting bit.
LEMMA SuspendKeeps ==
  ASSUME Inv, NEW u \in Thread \ {Idle}
  PROVE  /\ RX(SuspendedReady(u), Suspended(u)) /\ StatusOK(Suspended(u))
         /\ \A x \in Thread \ {u} : Suspended(u)[x] = status[x]
  <1>1. /\ status \in [Thread -> Statuses] /\ RX(ready, status)
        /\ Idle \in Thread /\ u \in Thread /\ u # Idle
    BY DEF Inv, RX, Thread
  <1>2. StatusOK(status)
    BY StatusIsOK
  <1>3. CASE status[u] \in {"RUN", "RDY"}
    <2>1. Suspended(u) = [status EXCEPT ![u] = "SUS"] /\ SuspendedReady(u) = Unready(ready, u)
      BY <1>3, ZenonT(30) DEF Suspended, SuspendedReady
    <2>2. "SUS" \in Statuses \ Runnable
      BY DEF Statuses, Runnable
    <2>3. RX(Unready(ready, u), [status EXCEPT ![u] = "SUS"])
      BY <1>1, <2>2, UnreadyExact, ZenonT(30)
    <2> QED BY <1>1, <1>2, <1>3, <2>1, <2>3 DEF StatusOK
  <1>4. CASE status[u] = "WAI"
    <2>1. Suspended(u) = [status EXCEPT ![u] = "WAS"] /\ SuspendedReady(u) = ready
      BY <1>4 DEF Suspended, SuspendedReady
    <2>2. "WAS" \in Statuses /\ ("WAS" \in Runnable <=> status[u] \in Runnable)
      BY <1>4 DEF Statuses, Runnable
    <2>3. RX(ready, [status EXCEPT ![u] = "WAS"])
      BY <1>1, <2>2, SameExact, ZenonT(30)
    <2> QED BY <1>1, <1>2, <1>4, <2>1, <2>3 DEF StatusOK
  <1>5. CASE status[u] \notin {"RUN", "RDY", "WAI"}
    <2>1. Suspended(u) = status /\ SuspendedReady(u) = ready
      BY <1>1, <1>5 DEF Suspended, SuspendedReady
    <2> QED BY <1>1, <1>2, <2>1
  <1> QED BY <1>3, <1>4, <1>5

\* thread_suspend.
LEMMA SuspendStep ==
  ASSUME Inv, NEW u \in User, ThreadSuspend(Manager, u)
  PROVE  Inv'
  <1> DEFINE s == IF status[u] \in {"RUN", "RDY"} THEN "SUS" ELSE "WAS"
  <1>1. u \in Thread \ {Idle} /\ Manager \in Thread /\ u # Manager
    BY ThreadAssumption DEF Thread
  <1>2. /\ Runs(Manager) /\ status[u] \in {"RUN", "RDY", "WAI"}
        /\ status' = Suspended(u) /\ ready' = SuspendedReady(u)
        /\ mode' = "leave" /\ noRequest' = noRequest /\ running' = running
        /\ UNCHANGED <<boot, waitType, delayVars, portVars, flag, replyVars>>
    BY DEF ThreadSuspend, Leave
  <1>3. RX(ready, status)'
    BY <1>1, <1>2, SuspendKeeps
  <1>4. status' = [status EXCEPT ![u] = s]
    BY <1>2, ZenonT(30) DEF Suspended
  <1>5. /\ s \in Statuses /\ s # "RUN" /\ (s \in {"WAI", "WAS"} <=> status[u] \in {"WAI", "WAS"})
        /\ (s \in {"NON", "DMT"} => status[u] \in {"NON", "DMT"})
    BY <1>2 DEF Statuses
  <1> HIDE DEF s
  <1>6. /\ noRequest' \in BOOLEAN /\ boot' \in Seq({Delay} \cup Server)
        /\ flag' \in [Thread -> BOOLEAN]
    BY <1>2 DEF Inv, TypeRest
  <1> QED BY <1>1, <1>2, <1>3, <1>4, <1>5, <1>6, ThreadKeeps, ZenonT(30)

\* thread_resume.
LEMMA ResumeStep ==
  ASSUME Inv, NEW u \in User, ThreadResume(Manager, u)
  PROVE  Inv'
  <1> DEFINE s == IF status[u] = "SUS" THEN "RDY" ELSE "WAI"
  <1>1. u \in Thread \ {Idle} /\ Manager \in Thread /\ u # Manager
    BY ThreadAssumption DEF Thread
  <1>2. /\ Runs(Manager) /\ status[u] \in {"SUS", "WAS"}
        /\ status' = [status EXCEPT ![u] = s]
        /\ ready' = IF status[u] = "SUS" THEN Enready(ready, u) ELSE ready
        /\ mode' = "leave" /\ noRequest' \in {FALSE, noRequest} /\ running' = running
        /\ UNCHANGED <<boot, waitType, delayVars, portVars, flag, replyVars>>
    BY ZenonT(30) DEF ThreadResume, Leave, LeaveAndDispatch
  <1>3. RX(ready, status)'
    <2>1. CASE status[u] = "SUS"
      <3>1. "RDY" \in Runnable /\ status[u] \notin Runnable
        BY <2>1 DEF Runnable
      <3> QED BY <1>1, <1>2, <2>1, <3>1, EnreadyExact, ZenonT(30) DEF Inv
    <2>2. CASE status[u] = "WAS"
      <3>1. "WAI" \in Statuses /\ ("WAI" \in Runnable <=> status[u] \in Runnable)
        BY <2>2 DEF Runnable, Statuses
      <3> QED BY <1>1, <1>2, <2>2, <3>1, SameExact, ZenonT(30) DEF Inv
    <2> QED BY <1>2, <2>1, <2>2
  <1>5. /\ s \in Statuses /\ s # "RUN" /\ (s \in {"WAI", "WAS"} <=> status[u] \in {"WAI", "WAS"})
        /\ (s \in {"NON", "DMT"} => status[u] \in {"NON", "DMT"})
    BY <1>2 DEF Statuses
  <1> HIDE DEF s
  <1>6. noRequest' \in BOOLEAN
    BY <1>2, ZenonT(30) DEF Inv, TypeRest
  <1>7. boot' \in Seq({Delay} \cup Server) /\ flag' \in [Thread -> BOOLEAN]
    BY <1>2 DEF Inv, TypeRest
  <1> QED BY <1>1, <1>2, <1>3, <1>5, <1>6, <1>7, ThreadKeeps, ZenonT(30)

\* Appending to kqueue keeps its type.
LEMMA QueuedType ==
  ASSUME Inv, NEW c \in DelayedCall, Queued(c)
  PROVE  kqueue' \in Seq(DelayedCall) /\ delayStart' \in BOOLEAN
  <1>1. kqueue \in Seq(DelayedCall) /\ delayStart \in BOOLEAN
    BY DEF Inv, TypeRest
  <1>2. Append(kqueue, c) \in Seq(DelayedCall)
    BY <1>1
  <1>3. kqueue' \in {kqueue, Append(kqueue, c)} /\ delayStart' \in {delayStart, TRUE}
    BY ZenonT(30) DEF Queued
  <1> QED BY <1>1, <1>2, <1>3, ZenonT(30)

\* thread_end_and_destroy: the tags the server still holds go with it.
LEMMA EndStep ==
  ASSUME Inv, NEW t \in Server, ThreadEndAndDestroy(t)
  PROVE  Inv'
  <1>1. /\ Runs(t) /\ ~opened[t] /\ Queued(<<"thread_destroy", t>>)
        /\ status' = [status EXCEPT ![t] = "DMT"] /\ ready' = Unready(ready, t)
        /\ held' = [held EXCEPT ![t] = {}]
        /\ mode' = "leave" /\ noRequest' = FALSE /\ running' = running
        /\ UNCHANGED <<boot, waitType, portVars, flag, callKey, used, rcaller>>
    BY DEF ThreadEndAndDestroy, LeaveAndDispatch
  <1>2. t \in Thread \ {Idle} /\ <<"thread_destroy", t>> \in DelayedCall
    BY ThreadAssumption DEF Thread, DelayedCall
  <1>3. mode = "thread" /\ running = t /\ waitType[t] = "none" /\ status[t] \in Runnable
    BY <1>1, <1>2, RunsFacts
  <1>4. "DMT" \in Statuses \ Runnable /\ status \in [Thread -> Statuses]
    BY DEF Statuses, Runnable, Inv, RX
  <1>5. RX(ready, status)'
    BY <1>1, <1>2, <1>4, UnreadyExact, ZenonT(30) DEF Inv
  <1>6. held' \in [Server -> SUBSET Tag]
    BY <1>1 DEF Inv, TypeRest
  <1>7. TypeRest'
    <2>1. kqueue' \in Seq(DelayedCall) /\ delayStart' \in BOOLEAN
      BY <1>1, <1>2, QueuedType
    <2> QED BY <1>1, <1>6, <2>1, ZenonT(30) DEF Inv, TypeRest
  <1>8. CQ(caller, waitType)' /\ RQ(receiver, waitType)'
    BY <1>1 DEF Inv, CQ, RQ
  <1>9. WaitInv'
    BY <1>1, <1>3, <1>4, Zenon DEF Inv, WaitInv
  <1>10. RunnerInv'
    BY <1>1, <1>2, <1>4, Zenon DEF Inv, RunnerInv, Thread
  <1>11. PortInv'
    <2>1. \A p \in Thread : opened'[p] => p \in Server /\ status'[p] \notin {"NON", "DMT"}
      BY <1>1, <1>2, <1>4 DEF Inv, PortInv
    <2>2. ClosedPortEmpty' /\ NoMissedRendezvous'
      BY <1>1, <1>3, Zenon DEF Inv, PortInv, ClosedPortEmpty, NoMissedRendezvous
    <2> QED BY <2>1, <2>2 DEF PortInv
  <1>12. KeyInv'
    <2>1. \A s \in Server : held'[s] \subseteq held[s]
      BY <1>1 DEF Inv, TypeRest
    <2>2. ReplyToCallerOnly'
      BY <1>1, <2>1 DEF Inv, KeyInv, ReplyToCallerOnly
    <2> QED BY <1>1, <2>1, <2>2 DEF Inv, KeyInv, Pending
  <1> QED BY <1>5, <1>7, <1>8, <1>9, <1>10, <1>11, <1>12 DEF Inv

\* thread_terminate: whatever the thread waited for, nothing is left of it but
\* its reply record.
LEMMA TerminateStep ==
  ASSUME Inv, NEW u \in User, ThreadTerminate(Manager, u)
  PROVE  Inv'
  <1>1. /\ Runs(Manager) /\ status[u] \in {"RDY", "WAI", "WAS", "SUS"}
        /\ ready' = Unready(ready, u) /\ waitType' = [waitType EXCEPT ![u] = "none"]
        /\ caller' = [p \in Thread |-> ListRemove(caller[p], u)]
        /\ rcaller' = IF waitType[u] = "reply"
                        THEN [rcaller EXCEPT ![callKey[u]] = NoThread] ELSE rcaller
        /\ status' = [status EXCEPT ![u] = "DMT"]
        /\ callKey' = [callKey EXCEPT ![u] = NoKey]
        /\ mode' = "leave" /\ UNCHANGED <<running, noRequest>>
        /\ UNCHANGED <<boot, delayVars, opened, receiver, flag, used, held>>
    BY DEF ThreadTerminate, UnlinkWaiting, Leave
  <1>2. u \in Thread \ {Idle} /\ Manager \in Thread /\ u # Manager /\ u \notin Server /\ u # Delay
    BY ThreadAssumption DEF Thread
  <1>3. /\ mode = "thread" /\ running = Manager /\ noRequest /\ ~delayStart
        /\ status[Manager] \in Runnable
    BY <1>1, <1>2, RunsFacts
  <1>4. /\ "DMT" \in Statuses \ Runnable /\ status \in [Thread -> Statuses]
        /\ waitType \in [Thread -> WaitTypes] /\ callKey \in [Thread -> Key \cup {NoKey}]
        /\ rcaller \in [Key -> Thread \cup {NoThread}] /\ Idle \in Thread /\ Delay \in Thread
    BY Zenon DEF Statuses, Runnable, Inv, RX, CQ, TypeRest, Thread
  <1>5. "none" \in WaitTypes \ {"call", "send"} /\ "none" \in WaitTypes \ {"receive"}
    BY DEF WaitTypes
  <1>6. RX(ready, status)'
    BY <1>1, <1>2, <1>4, UnreadyExact, ZenonT(30) DEF Inv
  <1>7. CQ(caller, waitType)'
    BY <1>1, <1>2, <1>5, CallerUnlinked, ZenonT(30) DEF Inv
  <1>8. waitType[u] # "receive"
    <2>1. SUFFICES ASSUME waitType[u] = "receive" PROVE FALSE
      OBVIOUS
    <2>2. u \in Elems(receiver[u]) /\ receiver[u] \in Seq(Thread)
      BY <1>2, <2>1 DEF Inv, RQ
    <2>3. receiver[u] # <<>>
      BY <2>2, EmptyList
    <2>4. ~opened[u]
      BY <1>2 DEF Inv, PortInv
    <2> QED BY <1>2, <1>3, <2>3, <2>4, Zenon DEF Inv, PortInv, ClosedPortEmpty
  <1>9. RQ(receiver, waitType)'
    BY <1>1, <1>2, <1>5, <1>8, ReceiverSame, ZenonT(30) DEF Inv
  <1>10. rcaller' \in [Key -> Thread \cup {NoThread}]
    BY <1>1, <1>4, ZenonT(30)
  <1>11. TypeRest'
    <2>1. callKey' \in [Thread -> Key \cup {NoKey}]
      BY <1>1, <1>4, ZenonT(30)
    <2> QED BY <1>1, <1>10, <2>1, Zenon DEF Inv, TypeRest
  <1>12. WaitInv'
    BY <1>1, <1>4 DEF Inv, WaitInv
  <1>13. RunnerInv'
    BY <1>1, <1>2, <1>3, <1>4 DEF Inv, RunnerInv
  <1>14. PortInv'
    <2>1. \A p \in Thread : opened'[p] => p \in Server /\ status'[p] \notin {"NON", "DMT"}
      BY <1>1, <1>2, <1>4, Zenon DEF Inv, PortInv
    <2>2. \A p \in Thread : caller[p] = <<>> => caller'[p] = <<>>
      <3>1. SUFFICES ASSUME NEW p \in Thread, caller[p] = <<>> PROVE caller'[p] = <<>>
        OBVIOUS
      <3>2. caller[p] \in Seq(Thread) /\ NoDup(caller[p])
        BY DEF Inv, CQ
      <3>3. ListRemove(caller[p], u) \in Seq(Thread) /\ Elems(ListRemove(caller[p], u)) = {}
        BY <1>2, <3>1, <3>2, RemoveUnlinks, EmptyList, ZenonT(30)
      <3> QED BY <1>1, <3>3, NoElems
    <2>3. ClosedPortEmpty' /\ NoMissedRendezvous'
      BY <1>1, <1>3, <2>2, ZenonT(30) DEF Inv, PortInv, ClosedPortEmpty, NoMissedRendezvous
    <2> QED BY <2>1, <2>3 DEF PortInv
  <1>15. KeyInv'
    <2>1. \A x \in Thread \ {u} : waitType'[x] = waitType[x] /\ callKey'[x] = callKey[x]
      BY <1>1, <1>4
    <2>2. waitType'[u] = "none" /\ callKey'[u] = NoKey
      BY <1>1, <1>2, <1>4
    <2>3. \A x \in Thread : Pending(x)' <=> Pending(x) /\ x # u
      BY <2>1, <2>2 DEF Pending
    <2>4. \A k \in Key : rcaller'[k] \in {rcaller[k], NoThread}
      BY <1>1, <1>4
    <2>5. \A k \in used : rcaller'[k] # u
      <3>1. SUFFICES ASSUME NEW k \in used, rcaller'[k] = u PROVE FALSE
        OBVIOUS
      <3>2. k \in Key /\ u # NoThread
        BY <1>2, ThreadAssumption DEF Inv, TypeRest
      <3>3. rcaller[k] = u
        BY <2>4, <3>1, <3>2
      <3>4. waitType[u] = "reply" /\ callKey[u] = k
        BY <3>2, <3>3 DEF Inv, KeyInv
      <3> QED BY <1>1, <1>4, <3>1, <3>2, <3>4
    <2>6. ReplyToCallerOnly'
      <3>1. used \subseteq Key
        BY DEF Inv, TypeRest
      <3> QED BY <1>1, <2>4, <3>1 DEF Inv, KeyInv, ReplyToCallerOnly
    <2>7. \A k \in used' : rcaller'[k] # NoThread =>
             waitType'[rcaller'[k]] = "reply" /\ callKey'[rcaller'[k]] = k
      <3>1. SUFFICES ASSUME NEW k \in used, rcaller'[k] # NoThread
                     PROVE  waitType'[rcaller'[k]] = "reply" /\ callKey'[rcaller'[k]] = k
        BY <1>1
      <3>2. k \in Key
        BY DEF Inv, TypeRest
      <3>3. rcaller'[k] = rcaller[k] /\ rcaller[k] \in Thread \ {u}
        BY <1>4, <2>4, <2>5, <3>1, <3>2
      <3>4. waitType[rcaller[k]] = "reply" /\ callKey[rcaller[k]] = k
        BY <3>1, <3>3, Zenon DEF Inv, KeyInv
      <3> QED BY <2>1, <3>3, <3>4
    <2>8. /\ \A x \in Thread : waitType'[x] \in {"call", "reply"} => callKey'[x] # NoKey
          /\ \A x \in Thread : waitType'[x] \in {"send", "receive", "flag"} => callKey'[x] = NoKey
      BY <2>1, <2>2 DEF Inv, KeyInv
    <2>9. \A x \in Thread : Pending(x)' =>
            /\ callKey'[x] \in used'
            /\ \A s \in Server, v \in Thread : <<callKey'[x], v>> \notin held'[s]
            /\ \A v \in Thread : Pending(v)' /\ callKey'[v] = callKey'[x] => v = x
      BY <1>1, <2>1, <2>3 DEF Inv, KeyInv
    <2> QED BY <2>6, <2>7, <2>8, <2>9 DEF KeyInv
  <1> QED BY <1>6, <1>7, <1>9, <1>11, <1>12, <1>13, <1>14, <1>15 DEF Inv


\* An interrupt only adds a delayed call and requests a dispatch.
LEMMA InterruptStep ==
  ASSUME Inv, Interrupt
  PROVE  Inv'
  <1>1. PICK c \in ({"ready_rotate", "kill"} \X (User \cap {running}))
                   \cup ({"ipc_notify"} \X Listener) : Queued(c)
    BY DEF Interrupt
  <1>2. c \in DelayedCall
    BY DEF DelayedCall
  <1>3. /\ mode \in {"thread", "leave"} /\ mode' = "leave" /\ noRequest' = FALSE
        /\ UNCHANGED <<boot, threadVars, running, portVars, flag, replyVars>>
    BY DEF Interrupt
  <1>4. TypeRest'
    <2>1. kqueue' \in Seq(DelayedCall) /\ delayStart' \in BOOLEAN
      BY <1>1, <1>2, QueuedType
    <2> QED BY <1>3, <2>1, ZenonT(30) DEF Inv, TypeRest
  <1>5. RX(ready, status)' /\ CQ(caller, waitType)' /\ RQ(receiver, waitType)'
    BY <1>3 DEF Inv, RX, CQ, RQ
  <1>6. WaitInv' /\ RunnerInv'
    BY <1>3 DEF Inv, WaitInv, RunnerInv
  <1>7. PortInv'
    BY <1>3 DEF Inv, PortInv, ClosedPortEmpty, NoMissedRendezvous
  <1>8. KeyInv'
    BY <1>3, KeyFrame
  <1> QED BY <1>4, <1>5, <1>6, <1>7, <1>8 DEF Inv

\* dispatch(): wakes the delay thread when it was asked to, and gives the
\* processor to a thread that can run.
LEMMA DispatchStep ==
  ASSUME Inv, Dispatch
  PROVE  Inv'
  <1> DEFINE wake == delayStart /\ Listens(Delay)
             st   == IF wake THEN Woken(status, Delay) ELSE status
             r    == IF wake THEN WokenReady(status, ready, Delay) ELSE ready
             next == Highest(r)
             wt   == IF wake THEN "none" ELSE waitType[Delay]
  <1>1. /\ mode = "leave" /\ noRequest' = TRUE /\ delayStart' = FALSE /\ mode' = "thread"
        /\ flag' = [flag EXCEPT ![Delay] = DelayFlag(wake)]
        /\ waitType' = [waitType EXCEPT ![Delay] = wt]
        /\ ready' = r /\ running' = next
        /\ status' = IF next = running THEN st
                     ELSE [st EXCEPT ![running] = IF @ = "RUN" THEN "RDY" ELSE @,
                                     ![next] = "RUN"]
        /\ UNCHANGED <<boot, kqueue, portVars, replyVars>>
    BY DEF Dispatch
  <1>2. /\ status \in [Thread -> Statuses] /\ waitType \in [Thread -> WaitTypes]
        /\ running \in Thread /\ flag \in [Thread -> BOOLEAN] /\ delayStart \in BOOLEAN
        /\ Idle \in Thread /\ Delay \in Thread /\ Idle # Delay
    BY ThreadAssumption, ZenonT(30) DEF Inv, RX, CQ, TypeRest, Thread
  <1>3. wake => status[Delay] \in {"WAI", "WAS"} /\ waitType[Delay] = "flag"
    BY DEF Listens, Inv, RunnerInv
  <1>4. RX(r, st)
    BY <1>2, <1>3, WokenExact DEF Inv
  <1>5. /\ st = IF wake THEN [status EXCEPT ![Delay] = IF status[Delay] = "WAI" THEN "RDY" ELSE "SUS"]
                ELSE status
        /\ st \in [Thread -> Statuses]
    BY <1>2, <1>4 DEF Woken, RX
  <1>6. st[Idle] \in Runnable
    BY <1>2, <1>5, Zenon DEF Inv, RunnerInv
  <1>7. next \in Thread /\ st[next] \in Runnable
    BY <1>4, <1>6, HighestRunnable
  <1>8. flag' \in [Thread -> BOOLEAN]
    <2>1. DelayFlag(wake) \in BOOLEAN
      BY <1>2, ZenonT(30) DEF DelayFlag
    <2> QED BY <1>1, <1>2, <2>1
  <1>9. /\ \A x \in Thread : (waitType'[x] # "none") <=> st[x] \in {"WAI", "WAS"}
        /\ \A x \in Thread : st[x] = "RUN" => x = running
        /\ \A x \in Thread : status[x] \notin {"NON", "DMT"} => st[x] \notin {"NON", "DMT"}
        /\ wt \in WaitTypes \ {"call", "receive"} /\ wt \in {"none", "flag", "send"}
        /\ (wt = "send" => waitType[Delay] = "send")
    <2>1. wt \in {"none", "flag", "send"} /\ (wt = "send" => waitType[Delay] = "send")
      BY DEF Inv, RunnerInv
    <2>2. \A x \in Thread : (waitType'[x] # "none") <=> st[x] \in {"WAI", "WAS"}
      BY <1>1, <1>2, <1>3, <1>5 DEF Inv, WaitInv
    <2>3. /\ \A x \in Thread : st[x] = "RUN" => x = running
          /\ \A x \in Thread : status[x] \notin {"NON", "DMT"} => st[x] \notin {"NON", "DMT"}
      BY <1>2, <1>5 DEF Inv, RunnerInv
    <2> QED BY <2>1, <2>2, <2>3 DEF WaitTypes
  <1>10. CQ(caller, waitType)' /\ RQ(receiver, waitType)'
    <2>1. CASE wake
      <3>1. "none" \in WaitTypes \ {"call", "send"} /\ "none" \in WaitTypes \ {"receive"}
        BY DEF WaitTypes
      <3>2. waitType' = [waitType EXCEPT ![Delay] = "none"]
        BY <1>1, <2>1
      <3> HIDE DEF wake
      <3>3. CQ(caller, waitType')
        BY <1>2, <1>3, <2>1, <3>1, <3>2, CallerSame, ZenonT(30) DEF Inv
      <3>4. RQ(receiver, waitType')
        BY <1>2, <1>3, <2>1, <3>1, <3>2, ReceiverSame, ZenonT(30) DEF Inv
      <3> QED BY <1>1, <3>3, <3>4
    <2>2. CASE ~wake
      <3>1. waitType' = waitType
        BY <1>1, <1>2, <2>2
      <3> QED BY <1>1, <3>1, ZenonT(30) DEF Inv, CQ, RQ
    <2> QED BY <2>1, <2>2
  <1> HIDE DEF wake, st, r, next, wt
  <1>11. RX(ready, status)'
    <2>1. CASE next = running
      BY <1>1, <1>4, <2>1
    <2>2. CASE next # running
      <3> DEFINE s1 == IF st[running] = "RUN" THEN "RDY" ELSE st[running]
                 st1 == [st EXCEPT ![running] = s1]
      <3>1. s1 \in Statuses /\ (s1 \in Runnable <=> st[running] \in Runnable)
        BY <1>2, <1>5 DEF Statuses, Runnable
      <3> HIDE DEF s1
      <3>2. RX(r, st1)
        BY <1>2, <1>4, <3>1, SameExact
      <3>3. st1[next] = st[next]
        BY <1>5, <1>7, <2>2
      <3> HIDE DEF st1
      <3>4. "RUN" \in Statuses /\ ("RUN" \in Runnable <=> st1[next] \in Runnable)
        BY <1>7, <3>3 DEF Statuses, Runnable
      <3>5. RX(r, [st1 EXCEPT ![next] = "RUN"])
        BY <1>7, <3>2, <3>4, SameExact
      <3>6. status' = [st1 EXCEPT ![next] = "RUN"]
        BY <1>1, <2>2 DEF st1, s1
      <3> QED BY <1>1, <3>5, <3>6, ZenonT(30)
    <2> QED BY <2>1, <2>2
  <1>12. /\ \A x \in Thread : status'[x] \in Runnable <=> st[x] \in Runnable
         /\ \A x \in Thread : status'[x] = "RUN" => x = next
         /\ \A x \in Thread : st[x] \notin Runnable => status'[x] = st[x]
    BY <1>1, <1>2, <1>5, <1>7, <1>9 DEF Runnable
  <1>13. WaitInv'
    <2>1. \A x \in Thread : status'[x] \in {"WAI", "WAS"} <=> st[x] \in {"WAI", "WAS"}
      BY <1>12 DEF Runnable
    <2> QED BY <1>9, <2>1 DEF WaitInv
  <1>14. RunnerInv'
    BY <1>1, <1>2, <1>6, <1>7, <1>9, <1>12, ZenonT(30) DEF RunnerInv
  <1>15. PortInv'
    <2>1. \A x \in Thread : status[x] \notin {"NON", "DMT"} => status'[x] \notin {"NON", "DMT"}
      BY <1>9, <1>12 DEF Runnable
    <2> QED BY <1>1, <2>1, ZenonT(30) DEF Inv, PortInv, ClosedPortEmpty, NoMissedRendezvous
  <1>16. TypeRest'
    BY <1>1, <1>7, <1>8, ZenonT(30) DEF Inv, TypeRest
  <1>17. KeyInv'
    <2>1. callKey[Delay] = NoKey \/ waitType'[Delay] = waitType[Delay]
      BY <1>1, <1>2, <1>3, Zenon DEF Inv, KeyInv, wt
    <2> QED BY <1>1, <1>2, <1>9, <2>1, KeyFrame
  <1> QED BY <1>10, <1>11, <1>13, <1>14, <1>15, <1>16, <1>17 DEF Inv
=============================================================================
