-------------------------------- MODULE Hmi --------------------------------
(***************************************************************************)
(* The window server (servers/hmi): sessions with their files, windows and *)
(* event buffers, the focus, and the keyboard and mouse handlers that run  *)
(* in the delay thread and pass events through interrupt_queue.  The       *)
(* server is one thread, so a request is one step; it interleaves with     *)
(* every step of a handler.                                                *)
(*                                                                         *)
(* An event is its number (modulo EventMod) counted from the last one a    *)
(* reader of its session got, or that an overflow dropped; sent is that of *)
(* the last one sent.  right: readers got the events in order.  torn: a    *)
(* waiting reader could not be given its event and is forgotten.           *)
(* Positions in an event buffer count messages: readers ask for whole      *)
(* ones, as nterm does.  Buttons and pixels are left out.                  *)
(***************************************************************************)
EXTENDS Integers, SequencesExt, FiniteSetsExt, TLC

CONSTANTS
  Sid, Fid,
  SessionMax, FileMax, WindowMax, RequestMax,   \* entries the slabs give
  RingSize,                \* messages an event buffer is long, a power of two
  EventMod,
  Device,                  \* the files of the table that are there
  ReadMax,                 \* messages a reader asks for, at most
  QueueSize,               \* INTERRUPT_QUEUE_SIZE
  Width, Height,           \* of the display
  WinWidth, WinHeight, Bar \* DEFAULT_WIDTH, DEFAULT_HEIGHT, BAR_HEIGHT

VARIABLES
  sess,      \* the tree of sessions: what each Sid that has one has
  order,     \* session_list
  focus,     \* focused_session
  point,     \* last_point
  mouse,     \* [x, y, last]: last is what was sent last
  queue,     \* interrupt_queue
  handler,   \* the delay thread: between two calls, or about to notify
  flag,      \* the port has been notified
  server,    \* [holds, pc]: has a request entry; waits, drains the queue or crashed
  lost       \* request entries nobody will answer or free

hmiVars == <<sess, order, focus, point, mouse, queue, handler, flag, server, lost>>

Nobody == "nobody"
Access == [consctl |-> {"W"}, draw |-> {"W"}, event |-> {"R"}, wctl |-> {"R"}, screen |-> {"R"}]

-----------------------------------------------------------------------------
(* The event buffer of a session r *)

Count(r) == (r.write - r.read) % RingSize
Contents(r) == [i \in 1 .. Count(r) |-> r.buf[(r.read + i - 1) % RingSize]]
Following(n) == [i \in 1 .. n |-> i % EventMod]
Renumber(r, n) ==
  [r EXCEPT !.buf = [i \in DOMAIN @ |-> (@[i] - n) % EventMod], !.sent = (@ - n) % EventMod]

\* Mutant: the buffer is full only when the reader stands at its start.
FullAtEnd(r) == r.read = 0 /\ r.write = RingSize - 1

Full(r) == r.write = (IF r.read # 0 THEN r.read - 1 ELSE RingSize - 1)

EventPut(r) ==
  LET n == (r.sent + 1) % EventMod
  IN [r EXCEPT !.buf[r.write] = n, !.write = (@ + 1) % RingSize, !.sent = n]

\* _put: n messages are copied to the reader.
CopyOut(r, n) ==
  LET out == [i \in 1 .. n |-> r.buf[r.read + i - 1]]
  IN [Renumber(r, n) EXCEPT !.read = (@ + n) % RingSize, !.right = @ /\ out = Following(n)]

\* reply_read: what is behind the reader up to the end of the buffer, then what
\* is before the writer.  The copy number fault fails (0: none).
ReplyRead(r, count, fault) ==
  LET wraps == count > 0 /\ r.write < r.read
      n == Min({RingSize - r.read, count})
      a == IF wraps THEN CopyOut(r, n) ELSE r
      rest == IF wraps THEN count - n ELSE count
      more == rest > 0 /\ a.read < a.write
      b == IF more THEN CopyOut(a, Min({a.write - a.read, rest})) ELSE a
  IN IF wraps /\ fault = 1 THEN [r |-> r, ok |-> FALSE]
     ELSE IF more /\ fault = (IF wraps THEN 2 ELSE 1) THEN [r |-> a, ok |-> FALSE]
     ELSE [r |-> b, ok |-> TRUE]

\* event_enqueue for session s: the changed sessions, whether a request was
\* answered (which notifies the port), and whether one was lost.
EventEnqueue(ss, s, fault) ==
  LET r == ss[s]
      room == IF Full(r) THEN [Renumber(r, r.sent) EXCEPT !.write = r.read] ELSE r
      p == EventPut(r)
      q == ReplyRead([p EXCEPT !.readers = Tail(@)], Head(p.readers), fault)
      kept == IF q.ok THEN q.r ELSE [q.r EXCEPT !.torn = TRUE]
  IN IF r.readers = << >>
     THEN [ss |-> [ss EXCEPT ![s] = EventPut(room)], answered |-> FALSE, lost |-> 0]
     ELSE [ss |-> [ss EXCEPT ![s] = kept], answered |-> q.ok, lost |-> IF q.ok THEN 0 ELSE 1]

-----------------------------------------------------------------------------
(* Windows and the focus *)

\* The window made when n others exist, and whether pt is in it
Covers(n, pt) ==
  /\ pt[1] \in 0 .. WinWidth - 1
  /\ pt[2] \in Bar + WinHeight * n .. Bar + WinHeight * (n + 1) - 1

Under(ss, list, pt) == SelectSeq(list, LAMBDA s : Covers(ss[s].slot, pt))

\* window_focus: the first session of the list whose window is under pt is
\* focused and told.
WindowFocus(ss, list, pt, fault) ==
  LET under == Under(ss, list, pt)
      e == EventEnqueue(ss, Head(under), fault)
  IN IF under = << >>
     THEN [ss |-> ss, focus |-> Nobody, answered |-> FALSE, lost |-> 0]
     ELSE [ss |-> e.ss, focus |-> Head(under), answered |-> e.answered, lost |-> e.lost]

-----------------------------------------------------------------------------
(* The handlers, in the delay thread *)

\* lfq_enqueue; when it succeeds the port is notified next
Post(e) == queue' = Append(queue, e) /\ handler' = "notify"

KeyboardHandle ==
  /\ handler = "idle"
  /\ IF Len(queue) < QueueSize THEN Post(<<"key">>) ELSE UNCHANGED <<queue, handler>>
  /\ UNCHANGED <<sess, order, focus, point, mouse, flag, server, lost>>

Clamp(n, limit) == IF n < 0 THEN 0 ELSE IF n >= limit THEN limit - 1 ELSE n

MouseHandle(dx, dy) ==
  LET x == Clamp(mouse.x + dx, Width)
      y == Clamp(mouse.y - dy, Height)
      posts == <<x, y>> # mouse.last /\ Len(queue) < QueueSize
  IN /\ handler = "idle"
     /\ mouse' = [x |-> x, y |-> y, last |-> IF posts THEN <<x, y>> ELSE mouse.last]
     /\ IF posts THEN Post(<<"mouse", x, y>>) ELSE UNCHANGED <<queue, handler>>
     /\ UNCHANGED <<sess, order, focus, point, flag, server, lost>>

Notify ==
  /\ handler = "notify"
  /\ handler' = "idle" /\ flag' = TRUE
  /\ UNCHANGED <<sess, order, focus, point, mouse, queue, server, lost>>

-----------------------------------------------------------------------------
(* accept *)

Readers(ss) == FoldSet(LAMBDA s, n : n + Len(ss[s].readers), 0, DOMAIN ss)
HasEntry(ss, gone) == Readers(ss) + gone < RequestMax

\* The port is notified: ipc_receive and ipc_listen end with E_RLWAI.
Wakeup ==
  /\ server.pc = "wait" /\ flag
  /\ flag' = FALSE /\ server' = [server EXCEPT !.pc = "drain"]
  /\ UNCHANGED <<sess, order, focus, point, mouse, queue, handler, lost>>

\* One event of interrupt_queue: a key for the focused session, or a new point.
ProcessEvent(fault) ==
  LET e == Head(queue)
      pt == IF e[1] = "mouse" THEN <<e[2], e[3]>> ELSE point
      f == IF e[1] = "mouse" THEN WindowFocus(sess, order, pt, fault)
           ELSE IF focus = Nobody THEN [ss |-> sess, answered |-> FALSE, lost |-> 0, focus |-> focus]
           ELSE EventEnqueue(sess, focus, fault) @@ [focus |-> focus]
  IN /\ queue' = Tail(queue) /\ point' = pt
     /\ sess' = f.ss /\ focus' = f.focus
     /\ flag' = (flag \/ f.answered) /\ lost' = lost + f.lost

\* Mutant: the server waits again after one event.
ProcessOneInterrupt(fault) ==
  /\ server.pc = "drain"
  /\ server' = [holds |-> server.holds \/ HasEntry(sess, lost), pc |-> "wait"]
  /\ IF queue = << >> THEN UNCHANGED <<queue, point, sess, focus, flag, lost>> ELSE ProcessEvent(fault)
  /\ UNCHANGED <<order, mouse, handler>>

EventProcessInterrupt(fault) ==
  /\ server.pc = "drain"
  /\ IF queue = << >>
     THEN /\ server' = [holds |-> server.holds \/ HasEntry(sess, lost), pc |-> "wait"]
          /\ UNCHANGED <<queue, point, sess, focus, flag, lost>>
     ELSE ProcessEvent(fault) /\ UNCHANGED server
  /\ UNCHANGED <<order, mouse, handler>>

\* A request is taken: the port is open, not notified, and there is an entry.
Receives == server.pc = "wait" /\ ~flag /\ server.holds

Accepts(ss, gone) ==
  /\ sess' = ss /\ lost' = gone
  /\ server' = [holds |-> HasEntry(ss, gone), pc |-> "wait"]

\* reply and reply_error free the entry and notify the server's own port.
Reply(ss, gone) == Accepts(ss, gone) /\ flag' = TRUE
Refuse == Reply(sess, lost) /\ UNCHANGED <<order, focus>>

\* no_support, and every message that accept refuses
NoSupport ==
  Receives /\ Refuse /\ UNCHANGED <<point, mouse, queue, handler>>

-----------------------------------------------------------------------------
(* Sessions and files *)

Files(ss) == FoldSet(LAMBDA s, n : n + Cardinality(DOMAIN ss[s].files), 0, DOMAIN ss)
Walked(dev) == [flag |-> "walked", dev |-> dev]     \* O_ACCMODE: not opened yet
Without(f, x) == [y \in DOMAIN f \ {x} |-> f[y]]

\* _destroy of a session that is in ss: its readers stay where they are.
Destroy(ss, list, s, fault) ==
  LET left == SelectSeq(list, LAMBDA t : t # s)
      f == WindowFocus(Without(ss, s), left, point, fault)
  IN [f EXCEPT !.lost = @ + Len(ss[s].readers)] @@ [order |-> left]

\* session_destroy_file
DestroyFile(ss, s, fid, fault) ==
  LET files == Without(ss[s].files, fid)
      t == [ss EXCEPT ![s].files = files]
  IN IF files = << >> THEN Destroy(t, order, s, fault)
     ELSE [ss |-> t, order |-> order, focus |-> focus, answered |-> FALSE, lost |-> 0]

\* The state after a session's change c, as Destroy and WindowFocus give it
Changes(c) == Reply(c.ss, lost + c.lost) /\ focus' = c.focus /\ order' = c.order

\* if_attach
Attach(s, fid, fault) ==
  LET new == [files |-> fid :> Walked(Nobody), slot |-> Len(order), readers |-> << >>,
              buf |-> [i \in 0 .. RingSize - 1 |-> 0], read |-> 0, write |-> 0, sent |-> 0,
              right |-> TRUE, torn |-> FALSE]
      created == sess @@ (s :> new)
      none == Destroy(s :> new @@ sess, order, s, fault)
      list == <<s>> \o order
  IN /\ Receives
     /\ IF s \in DOMAIN sess \/ Cardinality(DOMAIN sess) = SessionMax THEN Refuse
        ELSE IF Files(sess) = FileMax \/ Len(order) = WindowMax THEN Changes(none)
        ELSE Changes(WindowFocus(created, list, point, fault) @@ [order |-> list])
     /\ UNCHANGED <<point, mouse, queue, handler>>

\* if_walk; name is Nobody when there is none to walk
Walk(s, fid, newfid, name) ==
  LET files == sess[s].files
      dev == IF name # Nobody THEN name ELSE IF newfid = fid THEN files[fid].dev ELSE Nobody
  IN /\ Receives
     /\ IF \/ s \notin DOMAIN sess
           \/ fid \notin DOMAIN files
           \/ files[fid].flag # "walked"
           \/ name # Nobody /\ (files[fid].dev # Nobody \/ name \notin Device)
           \/ newfid # fid /\ (Files(sess) = FileMax \/ newfid \in DOMAIN files)
        THEN Refuse
        ELSE /\ Reply([sess EXCEPT ![s].files = newfid :> Walked(dev) @@ @], lost)
             /\ UNCHANGED <<order, focus>>
     /\ UNCHANGED <<point, mouse, queue, handler>>

\* if_open
Open(s, fid, mode) ==
  /\ Receives
  /\ IF \/ s \notin DOMAIN sess
        \/ fid \notin DOMAIN sess[s].files
        \/ sess[s].files[fid].dev = Nobody
        \/ sess[s].files[fid].flag # "walked"
        \/ mode \notin Access[sess[s].files[fid].dev]
     THEN Refuse
     ELSE Reply([sess EXCEPT ![s].files[fid].flag = mode], lost) /\ UNCHANGED <<order, focus>>
  /\ UNCHANGED <<point, mouse, queue, handler>>

\* if_clunk
Clunk(s, fid, fault) ==
  /\ Receives
  /\ IF s \notin DOMAIN sess \/ fid \notin DOMAIN sess[s].files THEN Refuse
     ELSE Changes(DestroyFile(sess, s, fid, fault))
  /\ UNCHANGED <<point, mouse, queue, handler>>

\* if_read of count messages; only the events file changes anything
Read(s, fid, count, fault) ==
  LET r == sess[s]
      a == ReplyRead(r, count, fault)
  IN /\ Receives
     /\ IF s \notin DOMAIN sess \/ fid \notin DOMAIN r.files \/ r.files[fid].flag # "R"
           \/ r.files[fid].dev # "event"
        THEN Refuse
        ELSE /\ IF r.write = r.read
                THEN Accepts([sess EXCEPT ![s].readers = Append(@, count)], lost) /\ UNCHANGED flag
                ELSE Reply([sess EXCEPT ![s] = a.r], lost)
             /\ UNCHANGED <<order, focus>>
     /\ UNCHANGED <<point, mouse, queue, handler>>

\* if_write; only consctl changes anything: the focused session is told, and there must be one.
Write(s, fid, fault) ==
  LET e == EventEnqueue(sess, focus, fault)
  IN /\ Receives
     /\ IF s \notin DOMAIN sess \/ fid \notin DOMAIN sess[s].files \/ sess[s].files[fid].flag # "W"
           \/ sess[s].files[fid].dev # "consctl"
        THEN Refuse
        ELSE /\ IF focus = Nobody
                THEN server' = [server EXCEPT !.pc = "crashed"] /\ UNCHANGED <<sess, lost, flag>>
                ELSE Reply(e.ss, lost + e.lost)
             /\ UNCHANGED <<order, focus>>
     /\ UNCHANGED <<point, mouse, queue, handler>>

HmiInit ==
  /\ sess = << >> /\ order = << >> /\ focus = Nobody
  /\ \E x \in 0 .. Width - 1, y \in 0 .. Height - 1 :
       mouse = [x |-> x, y |-> y, last |-> <<x, y>>] /\ point = <<x, y>>
  /\ queue = << >> /\ handler = "idle" /\ flag = FALSE
  /\ server = [holds |-> TRUE, pc |-> "wait"] /\ lost = 0

HmiNext ==
  \/ KeyboardHandle \/ Notify \/ Wakeup \/ NoSupport
  \/ \E dx, dy \in -1 .. 1 : MouseHandle(dx, dy)
  \/ \E fault \in 0 .. 2 : EventProcessInterrupt(fault)
  \/ \E s \in Sid, fid \in Fid :
       \/ \E newfid \in Fid, name \in Device \cup {Nobody, "other"} : Walk(s, fid, newfid, name)
       \/ \E mode \in {"R", "W", "RW"} : Open(s, fid, mode)
       \/ \E fault \in 0 .. 2 : Attach(s, fid, fault) \/ Clunk(s, fid, fault) \/ Write(s, fid, fault)
       \/ \E fault \in 0 .. 2, count \in 1 .. ReadMax : Read(s, fid, count, fault)

-----------------------------------------------------------------------------
(* Properties *)

\* The focused session is the first of the list whose window is under the last
\* point: it is never a session that was destroyed.
FocusExact ==
  focus = LET under == Under(sess, order, point) IN IF under = << >> THEN Nobody ELSE Head(under)

\* The events of a session reach its readers in the order they were sent, with a
\* gap only where the buffer overflowed, and nobody waits for an event while there
\* is one; until a reader that was waiting can not be given its event.
EventsInOrder ==
  \A s \in DOMAIN sess :
    LET r == sess[s]
    IN ~r.torn =>
         /\ r.right /\ Contents(r) = Following(Count(r)) /\ r.sent = Count(r)
         /\ r.readers # << >> => Count(r) = 0

\* When the server waits un-notified and no handler is about to notify it, every
\* event was taken from the queue and the last point is the one last posted.
NoEventLeft ==
  server.pc = "wait" /\ ~flag /\ handler = "idle" => queue = << >> /\ point = mouse.last
=============================================================================
