----------------------------------- MODULE Timer -----------------------------------
(***************************************************************************)
(* The timer server (servers/timer/main.c) and the system clock it keeps   *)
(* (lib/libnc/time96.c, lib/libserv/time_get_raw.c).  The clock is two     *)
(* words that the timer interrupt advances between any two steps of the    *)
(* threads; a reader takes the words one by one.  tv_nsec is stored with   *)
(* an offset, so that the addition that completes a second overflows into  *)
(* the sign bit.                                                           *)
(***************************************************************************)
EXTENDS Integers, FiniteSets, SequencesExt

CONSTANTS
  Client,       \* threads that sleep
  Nsec,         \* nanoseconds in a second
  Half,         \* 2^(w-1): the first value of tv_nsec that is negative
  Tick,         \* TICK
  Durations,    \* the times clients ask for, in nanoseconds
  TickMax,      \* bound: timer interrupts
  QueueSize,    \* KQUEUE_SIZE
  TimerMax      \* sleeper_slab and timer_slab

ASSUME TimerAssumption == Nsec <= Half /\ Tick \in 1 .. Nsec - 1

Offset == Half - Nsec     \* TIMESPEC_OFFSET_NSEC

VARIABLES
  clock,        \* system_time: <<tv_sec, tv_nsec>>
  time,         \* the time since the start, in nanoseconds
  tree,         \* timer_tree: from an instant to its sleepers
  kqueue,       \* calls of wakeup, each a sequence of sleepers
  request,      \* messages at PORT_TIMER
  server,       \* the timer thread: what it does and what it has read
  client,       \* client[c]: [st, until], until is when its sleep is over
  lost          \* sleepers whose wakeup found the queue full

timerVars == <<clock, time, tree, kqueue, request, server, client, lost>>

\* timespec_add; tv_nsec = Half stands for a negative word
Add(t, u) ==
  LET n == t[2] + u[2]
  IN IF n >= Half THEN <<t[1] + u[1] + 1, (n % Half) + Offset>> ELSE <<t[1] + u[1], n>>

\* timespec_compare
Compare(t, u) == IF t[1] # u[1] THEN t[1] - u[1] ELSE t[2] - u[2]

TimerInit ==
  /\ clock = <<0, Offset>> /\ time = 0
  /\ tree = << >> /\ kqueue = << >> /\ request = << >>
  /\ server = [pc |-> "receive"]
  /\ client = [c \in Client |-> [st |-> "awake", until |-> 0]]
  /\ lost = {}

-----------------------------------------------------------------------------
\* sleep: a message to PORT_TIMER, and the wait for the answer
Sleep(c, d) ==
  /\ client[c].st = "awake"
  /\ client' = [client EXCEPT ![c] = [st |-> "asleep", until |-> time + d]]
  /\ request' = Append(request, <<c, d>>)
  /\ UNCHANGED <<clock, time, tree, kqueue, server, lost>>

Answer(c, st) == client' = [client EXCEPT ![c].st = st]

\* doit: ipc_receive, and the checks of add_timer; a sleep of no time is over
Receive ==
  /\ server.pc = "receive" /\ request # << >>
  /\ request' = Tail(request)
  /\ LET c == Head(request)[1] d == Head(request)[2]
     IN IF d = 0
        THEN Answer(c, "awake") /\ UNCHANGED server
        ELSE /\ server' = [pc |-> "read", c |-> c, d |-> d, got |-> << >>]
             /\ UNCHANGED client
  /\ UNCHANGED <<clock, time, tree, kqueue, lost>>

\* Mutant: one copy is enough.
ReadOnce ==
  /\ server.pc = "read"
  /\ LET got == Append(server.got, clock[(Len(server.got) % 2) + 1])
     IN server' = IF Len(got) < 2 THEN [server EXCEPT !.got = got]
                  ELSE [pc |-> "add", c |-> server.c,
                        at |-> Add(SubSeq(got, 1, 2), <<server.d \div Nsec, server.d % Nsec>>)]
  /\ UNCHANGED <<clock, time, tree, kqueue, request, client, lost>>

\* time_get_raw: the words of system_time, twice, until both copies agree
Read ==
  /\ server.pc = "read"
  /\ LET got == Append(server.got, clock[(Len(server.got) % 2) + 1])
         same == got[1] = got[3] /\ got[2] = got[4]
     IN server' = IF Len(got) < 4 THEN [server EXCEPT !.got = got]
                  ELSE IF same
                  THEN [pc |-> "add", c |-> server.c,
                        at |-> Add(SubSeq(got, 1, 2), <<server.d \div Nsec, server.d % Nsec>>)]
                  ELSE [server EXCEPT !.got = << >>]
  /\ UNCHANGED <<clock, time, tree, kqueue, request, client, lost>>

Sleepers == UNION {Range(tree[t]) : t \in DOMAIN tree}
             \cup UNION {Range(kqueue[i]) : i \in DOMAIN kqueue} \cup lost

\* add_timer between enter_critical and leave_critical; E_NOMEM when a slab is empty
AddTimer ==
  /\ server.pc = "add"
  /\ LET at == server.at
         full == \/ Cardinality(Sleepers) >= TimerMax
                 \/ at \notin DOMAIN tree /\ Cardinality(DOMAIN tree) >= TimerMax
     IN IF full THEN Answer(server.c, "failed") /\ UNCHANGED tree
        ELSE /\ tree' = [t \in DOMAIN tree \cup {at} |->
                  IF t # at THEN tree[t]
                  ELSE IF at \in DOMAIN tree THEN Append(tree[at], server.c) ELSE <<server.c>>]
             /\ UNCHANGED client
  /\ server' = [pc |-> "receive"]
  /\ UNCHANGED <<clock, time, kqueue, request, lost>>

\* timer_service: the tick, then a delayed call of wakeup for every instant passed
RECURSIVE Expire(_, _, _, _)
Expire(now, tr, kq, miss) ==
  LET first == CHOOSE t \in DOMAIN tr : \A u \in DOMAIN tr : Compare(t, u) <= 0
      rest == [t \in DOMAIN tr \ {first} |-> tr[t]]
  IN IF DOMAIN tr = {} \/ Compare(now, first) < 0 THEN <<tr, kq, miss>>
     ELSE IF Len(kq) < QueueSize THEN Expire(now, rest, Append(kq, tr[first]), miss)
     ELSE Expire(now, rest, kq, miss \cup Range(tr[first]))

TimerService ==
  /\ time < TickMax * Tick
  /\ time' = time + Tick
  /\ clock' = Add(clock, <<0, Tick>>)
  /\ LET e == Expire(clock', tree, kqueue, lost)
     IN tree' = e[1] /\ kqueue' = e[2] /\ lost' = e[3]
  /\ UNCHANGED <<request, server, client>>

\* wakeup, called by the delay thread: every sleeper of the list is answered
Wakeup ==
  /\ kqueue # << >>
  /\ kqueue' = Tail(kqueue)
  /\ client' = [c \in Client |->
       IF Contains(Head(kqueue), c) THEN [client[c] EXCEPT !.st = "awake"] ELSE client[c]]
  /\ UNCHANGED <<clock, time, tree, request, server, lost>>

TimerNext ==
  \/ \E c \in Client, d \in Durations : Sleep(c, d)
  \/ Receive \/ Read \/ AddTimer \/ TimerService \/ Wakeup

-----------------------------------------------------------------------------
(* Properties *)

Holders(c) ==
  Cardinality({i \in DOMAIN request : request[i][1] = c})
  + (IF server.pc # "receive" /\ server.c = c THEN 1 ELSE 0)
  + Cardinality({t \in DOMAIN tree : Contains(tree[t], c)})
  + Cardinality({i \in DOMAIN kqueue : Contains(kqueue[i], c)})
  + (IF c \in lost THEN 1 ELSE 0)

\* A sleeper is in exactly one place until it is answered, it is not answered
\* before its time is over; the instant it is filed under in the tree is not before
\* that time, although the clock ticks between the words that are read of it.
SleepersKept ==
  /\ clock[1] * Nsec + clock[2] - Offset = time
  /\ \A c \in Client :
       /\ Holders(c) = IF client[c].st = "asleep" THEN 1 ELSE 0
       /\ client[c].st = "awake" => time >= client[c].until
       /\ \A t \in DOMAIN tree : Contains(tree[t], c) =>
            t[1] * Nsec + t[2] - Offset >= client[c].until
=============================================================================
