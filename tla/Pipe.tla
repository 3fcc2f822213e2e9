-------------------------------- MODULE Pipe --------------------------------
(***************************************************************************)
(* The pipe server, servers/pipe/, and what the process manager does with a *)
(* pipe (mm_pipe, _clunk and _close_all of servers/mm/).                    *)
(*                                                                          *)
(* A session is one pipe: a pair of channels.  What is written to the file  *)
(* of a channel goes through the ring of its partner.  The server handles   *)
(* one message at a time; after a read or a write it alternates between     *)
(* _read and _write on a channel for as long as they move bytes, and every  *)
(* request that these loops look at is one step.  Bytes are numbered modulo *)
(* ByteNo in the order in which they are written.                           *)
(***************************************************************************)
EXTENDS Lists, FiniteSets

CONSTANTS
  Thread,      \* the user threads, one for each process
  First,       \* the thread that calls pipe()
  Size,        \* pipe_channel_t.size
  ByteNo,      \* the numbers of bytes are 0 .. ByteNo - 1
  Count,       \* how many bytes a request asks for (not 0: those are answered at once)
  Writable,    \* the files that are written to; the partners are read (one way, or both)
  KillWaiting  \* whether postnote() also hits processes that wait for the pipe

ASSUME PipeAssumption ==
  /\ First \in Thread
  /\ Size \in Nat /\ Size >= 2
  /\ ByteNo \in Nat /\ ByteNo >= 2
  /\ Count \subseteq Nat \ {0}
  /\ Writable \subseteq {0, 1}
  /\ KillWaiting \in BOOLEAN

Channel == {0, 1}
Partner(c) == 1 - c
Request == [tid : Thread, count : Count, position : Nat]

VARIABLES
  \* the pipe server
  file,        \* the file of each channel: "none", "root", "walked" or "open"
  refer,       \* refer_count
  readpos,     \* read_position
  writepos,    \* write_position
  buf,         \* the bytes in the ring
  readers,     \* the requests that wait for bytes of the channel
  writers,     \* the requests that wait for room in the channel
  phase,       \* "accept", or the loop the server is in: "read" or "write"
  channel,     \* the channel of that loop
  moved,       \* has_read, has_written
  \* the numbers of the bytes
  wrote,       \* of the next byte written to a channel
  took,        \* of the next byte read from it
  \* the process manager
  setup,       \* how far mm_pipe has come
  holder,      \* the processes that hold a descriptor of the file (f_count)
  life,        \* "unborn", "live", "dying" (its descriptors are being closed), "dead"
  waiting      \* the threads whose request has not been answered

ringVars == <<readpos, writepos, buf, wrote, took>>
loopVars == <<phase, channel, moved>>
clientVars == <<setup, holder, life>>
vars == <<file, refer, ringVars, readers, writers, loopVars, clientVars, waiting>>

TypeOK ==
  /\ file \in [Channel -> {"none", "root", "walked", "open"}]
  /\ refer \in [Channel -> Nat]
  /\ readpos \in [Channel -> 0 .. Size - 1]
  /\ writepos \in [Channel -> 0 .. Size - 1]
  /\ buf \in [Channel -> [0 .. Size - 1 -> 0 .. ByteNo - 1]]
  /\ readers \in [Channel -> Seq(Request)]
  /\ writers \in [Channel -> Seq(Request)]
  /\ phase \in {"accept", "read", "write"}
  /\ channel \in Channel
  /\ moved \in BOOLEAN
  /\ wrote \in [Channel -> 0 .. ByteNo - 1]
  /\ took \in [Channel -> 0 .. ByteNo - 1]
  /\ setup \in {"no", "attached", "walked1", "opened1", "walked", "done"}
  /\ holder \in [Channel -> SUBSET Thread]
  /\ life \in [Thread -> {"unborn", "live", "dying", "dead"}]
  /\ waiting \subseteq Thread

\* _create: two empty rings.
EmptyRings ==
  /\ readpos' = [c \in Channel |-> 0]
  /\ writepos' = [c \in Channel |-> 0]
  /\ wrote' = [c \in Channel |-> 0]
  /\ took' = [c \in Channel |-> 0]
  /\ buf' = [c \in Channel |-> [i \in 0 .. Size - 1 |-> 0]]

Init ==
  /\ file = [c \in Channel |-> "none"]
  /\ refer = [c \in Channel |-> 0]
  /\ readpos = [c \in Channel |-> 0]
  /\ writepos = [c \in Channel |-> 0]
  /\ buf = [c \in Channel |-> [i \in 0 .. Size - 1 |-> 0]]
  /\ readers = [c \in Channel |-> <<>>]
  /\ writers = [c \in Channel |-> <<>>]
  /\ phase = "accept" /\ channel = 0 /\ moved = FALSE
  /\ wrote = [c \in Channel |-> 0]
  /\ took = [c \in Channel |-> 0]
  /\ setup = "no"
  /\ holder = [c \in Channel |-> {}]
  /\ life = [t \in Thread |-> IF t = First THEN "live" ELSE "unborn"]
  /\ waiting = {}

-----------------------------------------------------------------------------
(***************************************************************************)
(* The messages of mm_pipe: attach, walk to data1, open it, walk to data,   *)
(* open it.  The process that calls it is not killed meanwhile.             *)
(***************************************************************************)

\* if_attach; an error (no memory) leaves everything as it was.
Attach ==
  /\ phase = "accept" /\ setup = "no" /\ life[First] = "live"
  /\ setup' = "attached"
  /\ file' = [file EXCEPT ![0] = "root"]
  /\ refer' = [c \in Channel |-> 0]
  /\ readers' = [c \in Channel |-> <<>>]
  /\ writers' = [c \in Channel |-> <<>>]
  /\ EmptyRings
  /\ UNCHANGED <<loopVars, holder, life, waiting>>

\* if_walk to the file of channel c
Walk(c) ==
  /\ phase = "accept"
  /\ \/ c = 1 /\ setup = "attached" /\ setup' = "walked1"
     \/ c = 0 /\ setup = "opened1" /\ setup' = "walked"
  /\ file' = [file EXCEPT ![c] = "walked"]
  /\ UNCHANGED <<refer, ringVars, readers, writers, loopVars, holder, life, waiting>>

\* if_walk finds no memory for the file: mm_pipe clunks the file it attached,
\* which ends the session (session_destroy_file, _destroy).
WalkFails ==
  /\ phase = "accept" /\ setup = "attached"
  /\ setup' = "no"
  /\ file' = [file EXCEPT ![0] = "none"]
  /\ UNCHANGED <<refer, ringVars, readers, writers, loopVars, holder, life, waiting>>

\* if_open
Open(c) ==
  /\ phase = "accept" /\ file[c] = "walked"
  /\ \/ c = 1 /\ setup = "walked1" /\ setup' = "opened1" /\ UNCHANGED holder
     \/ c = 0 /\ setup = "walked" /\ setup' = "done"
        /\ holder' = [d \in Channel |-> {First}]
  /\ file' = [file EXCEPT ![c] = "open"]
  /\ refer' = [refer EXCEPT ![c] = @ + 1]
  /\ UNCHANGED <<ringVars, readers, writers, loopVars, life, waiting>>

-----------------------------------------------------------------------------
(***************************************************************************)
(* Reading and writing                                                      *)
(***************************************************************************)
NewRequest(t, n) == [tid |-> t, count |-> n, position |-> 0]

\* The thread runs and asks the manager to use a descriptor of channel c.
Asks(t, c) ==
  /\ phase = "accept" /\ setup = "done"
  /\ life[t] = "live" /\ t \notin waiting /\ t \in holder[c]

\* if_read.  (When there is no memory for the request it is refused, and
\* nothing changes.)
IfRead(t, c, n) ==
  /\ Asks(t, c) /\ Partner(c) \in Writable
  /\ waiting' = waiting \cup {t}
  /\ readers' = [readers EXCEPT ![c] = ListEnqueue(@, NewRequest(t, n))]
  /\ phase' = "read" /\ channel' = c /\ moved' = FALSE
  /\ UNCHANGED <<file, refer, ringVars, writers, clientVars>>

\* if_write: the writer of a pipe nobody can read is killed (SIGPIPE).
IfWrite(t, c, n) ==
  /\ Asks(t, c) /\ c \in Writable
  /\ IF refer[Partner(c)] = 0
       THEN /\ life' = [life EXCEPT ![t] = "dying"]
            /\ UNCHANGED <<writers, waiting, loopVars>>
       ELSE /\ waiting' = waiting \cup {t}
            /\ writers' = [writers EXCEPT ![Partner(c)] = ListEnqueue(@, NewRequest(t, n))]
            /\ phase' = "write" /\ channel' = Partner(c) /\ moved' = FALSE
            /\ UNCHANGED life
  /\ UNCHANGED <<file, refer, ringVars, readers, setup, holder>>

Used(c) == (writepos[c] - readpos[c]) % Size

\* Mutant: the ring is filled to its last place, where it looks empty.
FreeAll(c) == Size - Used(c)
Free(c) == Size - 1 - Used(c)

\* How many bytes the first of the two copies of an iteration can move: up to
\* the end of the buffer when the bytes (the room) go around it.
FirstGet(c) ==
  IF writepos[c] < readpos[c] THEN Size - readpos[c] ELSE 0
FirstPut(c) ==
  IF readpos[c] <= writepos[c]
    THEN Size - writepos[c] - (IF readpos[c] = 0 THEN 1 ELSE 0)
    ELSE 0

\* region_put and region_get may fail (a bad address), and do when the thread is
\* gone.
MustFail(t) == life[t] = "dead"

\* _put and _get of n bytes, in one or two copies.
TakeBytes(c, n) ==
  /\ readpos' = [readpos EXCEPT ![c] = (@ + n) % Size]
  /\ took' = [took EXCEPT ![c] = (@ + n) % ByteNo]
  /\ UNCHANGED <<writepos, buf, wrote>>

AddBytes(c, n) ==
  /\ writepos' = [writepos EXCEPT ![c] = (@ + n) % Size]
  /\ wrote' = [wrote EXCEPT ![c] = (@ + n) % ByteNo]
  /\ buf' = [buf EXCEPT ![c] = [i \in 0 .. Size - 1 |->
               IF (i - writepos[c]) % Size < n
                 THEN (wrote[c] + ((i - writepos[c]) % Size)) % ByteNo ELSE @[i]]]
  /\ UNCHANGED <<readpos, took>>

\* kill(SIGSEGV or SIGPIPE): the manager starts to close the process.
Signalled(t) == [life EXCEPT ![t] = IF @ = "live" THEN "dying" ELSE @]

\* A copy fails after n bytes: the request is answered with EFAULT.
ReadFault(c, n) ==
  /\ TakeBytes(c, n)
  /\ life' = Signalled(Head(readers[c]).tid)
  /\ waiting' = waiting \ {Head(readers[c]).tid}
  /\ readers' = [readers EXCEPT ![c] = ListDequeue(@)]
  /\ moved' = (moved \/ n > 0)
  /\ UNCHANGED <<file, refer, writers, phase, channel, setup, holder>>

\* One iteration of _read.
ReadHead(c) ==
  LET req  == Head(readers[c])
      rest == req.count - req.position
      n    == IF rest <= Used(c) THEN rest ELSE Used(c)
      answered == rest <= Used(c)
                    \/ (writers[c] = <<>> /\ (n > 0 \/ refer[Partner(c)] = 0))
      done == rest > Used(c)        \* the loop is left by break
  IN  /\ phase = "read" /\ channel = c /\ readers[c] # <<>>
      /\ \/ /\ ~MustFail(req.tid) \/ Used(c) = 0
            /\ TakeBytes(c, n)
            /\ readers' = [readers EXCEPT ![c] =
                 IF answered THEN ListDequeue(@)
                 ELSE [@ EXCEPT ![1].position = req.position + n]]
            /\ waiting' = IF answered THEN waiting \ {req.tid} ELSE waiting
            /\ IF done
                 THEN /\ phase' = IF moved \/ n > 0 THEN "write" ELSE "accept"
                      /\ moved' = FALSE
                 ELSE moved' = TRUE /\ UNCHANGED phase
            /\ UNCHANGED <<file, refer, writers, channel, clientVars>>
         \/ Used(c) > 0 /\ ReadFault(c, 0)
         \/ /\ ~MustFail(req.tid)
            /\ FirstGet(c) > 0 /\ FirstGet(c) < rest /\ FirstGet(c) < Used(c)
            /\ ReadFault(c, FirstGet(c))

\* Mutant: _read tells that it has read when it has not.
ReadEndAlways(c) ==
  /\ phase = "read" /\ channel = c /\ readers[c] = <<>>
  /\ phase' = "write"
  /\ moved' = TRUE
  /\ UNCHANGED <<file, refer, ringVars, readers, writers, channel, clientVars, waiting>>

\* The end of the list of readers.
ReadEnd(c) ==
  /\ phase = "read" /\ channel = c /\ readers[c] = <<>>
  /\ phase' = IF moved THEN "write" ELSE "accept"
  /\ moved' = FALSE
  /\ UNCHANGED <<file, refer, ringVars, readers, writers, channel, clientVars, waiting>>

WriteFault(c, n) ==
  /\ AddBytes(c, n)
  /\ life' = Signalled(Head(writers[c]).tid)
  /\ waiting' = waiting \ {Head(writers[c]).tid}
  /\ writers' = [writers EXCEPT ![c] = ListDequeue(@)]
  /\ moved' = (moved \/ n > 0)
  /\ UNCHANGED <<file, refer, readers, phase, channel, setup, holder>>

\* One iteration of _write.  When the first copy is of no bytes at all the loop
\* still tells that it has written.
WriteHead(c) ==
  LET req   == Head(writers[c])
      rest  == req.count - req.position
      fits  == rest <= Free(c)
      n     == IF fits THEN rest ELSE Free(c)
      tries == readpos[c] <= writepos[c] \/ Free(c) > 0
  IN  /\ phase = "write" /\ channel = c /\ writers[c] # <<>>
      /\ \/ /\ ~MustFail(req.tid) \/ ~tries
            /\ AddBytes(c, n)
            /\ writers' = [writers EXCEPT ![c] =
                 IF fits THEN ListDequeue(@) ELSE [@ EXCEPT ![1].position = req.position + n]]
            /\ waiting' = IF fits THEN waiting \ {req.tid} ELSE waiting
            /\ IF fits
                 THEN moved' = TRUE /\ UNCHANGED phase
                 ELSE /\ phase' = IF moved \/ tries THEN "read" ELSE "accept"
                      /\ moved' = FALSE
            /\ UNCHANGED <<file, refer, readers, channel, clientVars>>
         \/ tries /\ WriteFault(c, 0)
         \/ /\ ~MustFail(req.tid)
            /\ readpos[c] <= writepos[c]
            /\ FirstPut(c) < rest /\ FirstPut(c) < Free(c)
            /\ WriteFault(c, FirstPut(c))

\* Mutant: if_write does not look for readers of what it wrote.
WriteEndAccepts(c) ==
  /\ phase = "write" /\ channel = c /\ writers[c] = <<>>
  /\ phase' = "accept"
  /\ moved' = FALSE
  /\ UNCHANGED <<file, refer, ringVars, readers, writers, channel, clientVars, waiting>>

\* The end of the list of writers.
WriteEnd(c) ==
  /\ phase = "write" /\ channel = c /\ writers[c] = <<>>
  /\ phase' = IF moved THEN "read" ELSE "accept"
  /\ moved' = FALSE
  /\ UNCHANGED <<file, refer, ringVars, readers, writers, channel, clientVars, waiting>>

-----------------------------------------------------------------------------
(***************************************************************************)
(* Closing                                                                  *)
(***************************************************************************)
Tids(q) == {q[i].tid : i \in DOMAIN q}

\* Mutant: the readers of the other end are forgotten.
ReleaseWriters(c, last) ==
  /\ readers' = [d \in Channel |-> IF last THEN <<>> ELSE readers[d]]
  /\ writers' = [d \in Channel |-> IF last \/ d = c THEN <<>> ELSE writers[d]]
  /\ waiting' = waiting \ Tids(writers[c])
  /\ life' = [t \in Thread |->
       IF t \in Tids(writers[c]) /\ life[t] = "live" THEN "dying" ELSE life[t]]

\* _release_requests when channel c has lost its last reference: the readers of
\* its partner are at the end of the file, and its own writers get SIGPIPE.
\* (Requests of the file itself stay.  If this was the last file they
\* disappear with the session.)
ReleaseRequests(c, last) ==
  /\ readers' = [d \in Channel |-> IF last \/ d = Partner(c) THEN <<>> ELSE readers[d]]
  /\ writers' = [d \in Channel |-> IF last \/ d = c THEN <<>> ELSE writers[d]]
  /\ waiting' = waiting \ (Tids(readers[Partner(c)]) \cup Tids(writers[c]))
  /\ life' = [t \in Thread |->
       IF t \in Tids(writers[c]) /\ life[t] = "live" THEN "dying" ELSE life[t]]

\* if_clunk: session_destroy_file
IfClunk(c) ==
  LET last == \A d \in Channel \ {c} : file[d] = "none"
  IN  /\ phase = "accept"
      /\ file' = [file EXCEPT ![c] = "none"]
      /\ refer' = [refer EXCEPT ![c] = IF @ > 0 THEN @ - 1 ELSE @]
      /\ IF refer[c] = 1
           THEN ReleaseRequests(c, last)
           ELSE UNCHANGED <<readers, writers, waiting, life>>
      /\ setup' = IF last THEN "no" ELSE setup
      /\ UNCHANGED <<ringVars, loopVars>>

\* mm_close, and one descriptor in _close_all of a process that dies: the file
\* is clunked with its last descriptor.
Close(t, c) ==
  /\ setup = "done" /\ t \in holder[c]
  /\ life[t] = "dying" \/ (life[t] = "live" /\ t \notin waiting)
  /\ holder' = [holder EXCEPT ![c] = @ \ {t}]
  /\ IF holder[c] = {t}
       THEN IfClunk(c)
       ELSE UNCHANGED <<file, refer, ringVars, readers, writers, loopVars, setup, life, waiting>>

\* process_destroy, after the last descriptor
Destroy(t) ==
  /\ life[t] = "dying" /\ \A c \in Channel : t \notin holder[c]
  /\ life' = [life EXCEPT ![t] = "dead"]
  /\ UNCHANGED <<file, refer, ringVars, readers, writers, loopVars, setup, holder, waiting>>

\* mm_rfork: the child has the descriptors of its parent.
Fork(t, u) ==
  /\ setup = "done"
  /\ life[t] = "live" /\ t \notin waiting /\ life[u] = "unborn"
  /\ life' = [life EXCEPT ![u] = "live"]
  /\ holder' = [c \in Channel |->
       IF t \in holder[c] THEN holder[c] \cup {u} ELSE holder[c]]
  /\ UNCHANGED <<file, refer, ringVars, readers, writers, loopVars, setup, waiting>>

\* mm_kill, for postnote() of another process
Kill(t) ==
  /\ setup = "done"
  /\ life[t] = "live" /\ (KillWaiting \/ t \notin waiting)
  /\ life' = [life EXCEPT ![t] = "dying"]
  /\ UNCHANGED <<file, refer, ringVars, readers, writers, loopVars, setup, holder, waiting>>

Serve ==
  \E c \in Channel : ReadHead(c) \/ ReadEnd(c) \/ WriteHead(c) \/ WriteEnd(c)

Next ==
  \/ Attach
  \/ WalkFails
  \/ \E c \in Channel : Walk(c) \/ Open(c)
  \/ Serve
  \/ \E t \in Thread, c \in Channel, n \in Count : IfRead(t, c, n) \/ IfWrite(t, c, n)
  \/ \E t \in Thread, c \in Channel : Close(t, c)
  \/ \E t \in Thread : Destroy(t) \/ Kill(t)
  \/ \E t, u \in Thread : Fork(t, u)

Spec == Init /\ [][Next]_vars

\* The server thread goes on while it has something to do.
FairSpec == Spec /\ WF_vars(Serve)

-----------------------------------------------------------------------------
(***************************************************************************)
(* Properties                                                               *)
(***************************************************************************)

\* The ring holds exactly the bytes that were written and not yet taken, in
\* their order: whatever the interleaving of requests that wrap around, fail
\* half-way or are released, no byte is lost in it, doubled or overwritten
\* (_put and _get of file.c).
BytesInOrder ==
  TypeOK /\ \A c \in Channel :
    /\ (took[c] + Used(c)) % ByteNo = wrote[c]
    /\ \A i \in 0 .. Used(c) - 1 :
         buf[c][(readpos[c] + i) % Size] = (took[c] + i) % ByteNo

\* When the server waits for its next message no reader waits at a channel that
\* has bytes and no writer at one that has room: the alternation of _read and
\* _write in if_read and if_write never stops too early.
NoIdleTransfer ==
  phase = "accept" => \A c \in Channel :
    /\ readers[c] # <<>> => Used(c) = 0
    /\ writers[c] # <<>> => Free(c) = 0

\* No living process waits for an end of the pipe that is closed: a reader gets
\* what there is or the end of the file, a writer SIGPIPE, and nobody's
\* request is forgotten (_release_requests and the end of _read).
NobodyWaitsForClosedEnd ==
  phase = "accept" => \A t \in waiting : life[t] = "live" =>
    \E c \in Channel :
      \/ t \in Tids(readers[c]) /\ refer[Partner(c)] > 0
      \/ t \in Tids(writers[c]) /\ refer[c] > 0

\* The loops of if_read and if_write end, though _write reports success for a
\* copy of no bytes.
LoopsEnd == phase # "accept" ~> phase = "accept"
=============================================================================
