---------------------------------- MODULE Files ----------------------------------
(***************************************************************************)
(* Descriptors, files, sessions and name spaces of the process manager     *)
(* (servers/mm: proxy.c, file.c, pm.c, main.c), and the session tables of  *)
(* the servers it talks to (servers/fs, servers/console).                  *)
(*                                                                         *)
(* Every system call runs in a fiber of the manager.  A fiber runs alone   *)
(* until it has sent a message to a server (call_device); it goes on when  *)
(* the answer has come back through the queue of the mnt thread.  Between  *)
(* the two other fibers run, so a table read before a call may have        *)
(* changed after it.  Path names, modes, offsets and data are left out: a  *)
(* server may refuse any walk, open, creation or transfer.                 *)
(***************************************************************************)
EXTENDS Naturals, Integers, FiniteSets, SequencesExt

CONSTANTS
  Proc,        \* processes
  Init1,       \* the process spawn() makes for init
  Sig,         \* the caller of a pseudo signal: a fault handler or a server
  Fid,         \* file numbers: file_sequence
  Sid,         \* session numbers: session_sequence
  Fd,          \* descriptor numbers, 0 .. FILES_PER_PROCESS - 1
  Server,      \* the servers that can be bound
  KeepsSessions,   \* servers whose session outlives its last file (fs)
  Unsupported,     \* Unsupported[s]: the messages a server answers no_support
  PipeServer,      \* the server mm_pipe attaches to
  Started,         \* the servers whose port is open
  Bindable,        \* the servers of the device table
  MinAutoFd,       \* the lowest number process_find_new_fd gives out
  RequestMax,      \* requests in progress (REQUEST_MAX)
  Null, NoDesc

ASSUME FilesAssumption ==
  /\ Init1 \in Proc /\ Sig \notin Proc
  /\ Fd \subseteq Nat /\ RequestMax \in Nat \ {0}
  /\ KeepsSessions \subseteq Server /\ PipeServer \in Server /\ Bindable \subseteq Server
  /\ Started \subseteq Server
  /\ \A s \in Server :
       Unsupported[s] \subseteq {"create", "remove", "stat"}
  /\ Null \notin Fid \cup Sid \cup Server /\ NoDesc \notin Fid \cup {Null}

VARIABLES
  tab,      \* the manager's tables, see Tables
  fiber,    \* the request of every caller
  cur,      \* the fiber the manager is executing, Null between two of them
  inbox,    \* the message each server is handling, Null when it receives
  answers,  \* mnt_queue: fibers whose answer has arrived
  known,    \* known[s]: the <<session, file>> pairs server s has a file for
  session   \* session[s]: the sessions server s has

vars == <<tab, fiber, cur, inbox, answers, known, session>>

Agent == Proc \cup {Sig}
Life == {"none", "active", "dying"}

Message == [type : {"attach", "walk", "open", "create", "io", "stat",
                    "clunk", "remove"},
            sid : Sid, fid : Fid, newfid : Fid, by : Agent]

\* owner[f]: the session of a file, Null for a free number; dest[i]: the server
\* of a session; leaked: files whose count an error path left too high.
Tables ==
  [count : [Fid -> Int], owner : [Fid -> Sid \cup {Null}],
   dest : [Sid -> Server \cup {Null}],
   desc : [Proc -> [Fd -> Fid \cup {Null, NoDesc}]],
   root : [Proc -> Fid \cup {Null}], ns : [Proc -> Seq(Fid)],
   life : [Proc -> Life], leaked : SUBSET Fid]

\* pc: where the fiber goes on; f, g: the files it works on; d, e: its
\* descriptors; q: the process it closes; ret: where _clunk returns to;
\* ans: the result of the last call.
NoRequest == [pc |-> "idle", f |-> Null, g |-> Null, d |-> Null, e |-> Null,
              q |-> Null, ret |-> "idle", ans |-> "ok"]

Init ==
  /\ tab = [count |-> [f \in Fid |-> 0], owner |-> [f \in Fid |-> Null],
            dest |-> [i \in Sid |-> Null],
            desc |-> [p \in Proc |-> [d \in Fd |-> NoDesc]],
            root |-> [p \in Proc |-> Null], ns |-> [p \in Proc |-> << >>],
            life |-> [p \in Proc |-> IF p = Init1 THEN "active" ELSE "none"],
            leaked |-> {}]
  /\ fiber = [a \in Agent |-> NoRequest]
  /\ cur = Null
  /\ inbox = [s \in Server |-> Null]
  /\ answers = << >>
  /\ known = [s \in Server |-> {}]
  /\ session = [s \in Server |-> {}]

-----------------------------------------------------------------------------
(* file.c: the tables *)

FreeFids(t) == {f \in Fid : t.owner[f] = Null}
FreeSids(t) == {i \in Sid : t.dest[i] = Null}
FreeFds(t, p) == {d \in Fd : d >= MinAutoFd /\ t.desc[p][d] = NoDesc}

\* process_find_new_fd: the lowest free number
NewFd(t, p) == CHOOSE d \in FreeFds(t, p) : \A e \in FreeFds(t, p) : d <= e

\* session_create_file
CreateFile(t, f, i) == [t EXCEPT !.owner[f] = i]

\* session_create
CreateSession(t, i, s) == [t EXCEPT !.dest[i] = s]

DestroySession(t, i) == [t EXCEPT !.dest[i] = Null]

\* session_destroy_file: the last file takes its session with it.
DestroyFile(t, f) ==
  LET i == t.owner[f]
      u == [t EXCEPT !.owner[f] = Null, !.count[f] = 0, !.leaked = @ \ {f}]
  IN IF \A g \in Fid : u.owner[g] # i THEN DestroySession(u, i) ELSE u

SetDesc(t, p, d, f) == [t EXCEPT !.desc[p][d] = f]

\* process_destroy_desc, for a descriptor whose file has been taken out
DestroyDesc(t, p, d) == [t EXCEPT !.desc[p][d] = NoDesc]

SetCount(t, f, n) == [t EXCEPT !.count[f] = n]

-----------------------------------------------------------------------------
(* Fibers *)

\* A fiber goes on when it is running, or when its answer is the next in the queue
\* of the mnt thread (_process_response).
At(a, pc) ==
  /\ fiber[a].pc = pc
  /\ cur = a \/ (cur = Null /\ answers # << >> /\ Head(answers)[1] = a)

Ans(a) == IF cur = a THEN fiber[a].ans ELSE Head(answers)[2]

\* the queue once a is running
Rest(a) == IF fiber[a].pc = "idle" \/ cur = a THEN answers ELSE Tail(answers)

Goto(a, rec) ==
  /\ fiber' = [fiber EXCEPT ![a] = rec] /\ cur' = a
  /\ answers' = Rest(a)

\* call_device: the server takes the message (ipc_send waits until it can) and
\* another fiber may run, or the port is closed and the call returns at once.
Call(a, rec, t, type, f, newf) ==
  LET i == t.owner[f]
      s == t.dest[i]
      m == [type |-> type, sid |-> i, fid |-> f, newfid |-> newf, by |-> a]
  IN /\ tab' = t
     /\ IF s \in Started
        THEN /\ inbox[s] = Null
             /\ inbox' = [inbox EXCEPT ![s] = m]
             /\ fiber' = [fiber EXCEPT ![a] = [rec EXCEPT !.ans = "wait"]]
             /\ cur' = Null /\ answers' = Rest(a)
        ELSE /\ Goto(a, [rec EXCEPT !.ans = "err"])
             /\ UNCHANGED inbox
     /\ UNCHANGED <<known, session>>

\* _walk_child, _open, _read and _fstat
WalkChild(a, rec, t, f, newf) == Call(a, rec, t, "walk", f, newf)
OpenAt(a, rec, t, f) == Call(a, rec, t, "open", f, f)
ReadAt(a, rec, t, f) == Call(a, rec, t, "io", f, f)
FstatAt(a, rec, t, f) == Call(a, rec, t, "stat", f, f)

\* execute: the answer goes to the caller and the request is freed.
Reply(a, t) ==
  /\ tab' = t /\ cur' = Null /\ answers' = Rest(a)
  /\ fiber' = [fiber EXCEPT ![a] = NoRequest]
  /\ UNCHANGED <<inbox, known, session>>

\* Return from _clunk, with the tables t; a call that ends with it is answered.
Return(a, t, rec, ret) ==
  IF ret = "end" THEN Reply(a, t)
  ELSE /\ tab' = t
       /\ Goto(a, [rec EXCEPT !.pc = ret, !.ret = "idle", !.ans = "ok"])
       /\ UNCHANGED <<inbox, known, session>>

\* Mutant: the last reference but one sends the message.
ClunkEarly(a, rec, t, f, ret) ==
  LET t1 == SetCount(t, f, t.count[f] - 1)
      r1 == [rec EXCEPT !.f = f, !.ret = ret, !.pc = "clunked"]
  IN IF t1.count[f] > 1 THEN Return(a, t1, r1, ret)
     ELSE Call(a, r1, t1, "clunk", f, f)

\* _clunk: only the last reference sends the message.
Clunk(a, rec, t, f, ret) ==
  LET t1 == SetCount(t, f, t.count[f] - 1)
      r1 == [rec EXCEPT !.f = f, !.ret = ret, !.pc = "clunked"]
  IN IF t1.count[f] > 0 THEN Return(a, t1, r1, ret)
     ELSE Call(a, r1, t1, "clunk", f, f)

Clunked(a) ==
  LET r == fiber[a]
  IN /\ At(a, "clunked")
     /\ Return(a, DestroyFile(tab, r.f), [r EXCEPT !.f = Null], r.ret)

\* accept: a process has one thread, so one request.  A call that finds no
\* request, descriptor, file or session left changes nothing.
Accepts(p) ==
  /\ cur = Null /\ fiber[p].pc = "idle"
  /\ tab.life[p] = "active"
  /\ Cardinality({a \in Agent : fiber[a].pc # "idle"}) < RequestMax

\* _walk: the root of the process or of one of its name spaces
Roots(p) == ({tab.root[p]} \cup Range(tab.ns[p])) \ {Null}

\* _walk for a caller whose tables are already t
Walk(p, rec, t) ==
  \E r \in Roots(p), f \in FreeFids(t) :
    Call(p, [rec EXCEPT !.f = f], CreateFile(t, f, t.owner[r]), "walk", r, f)

-----------------------------------------------------------------------------
(* Calls that walk to a new file *)

\* mm_open
Open(p) ==
  /\ Accepts(p) /\ FreeFds(tab, p) # {}
  /\ LET d == NewFd(tab, p)
     IN Walk(p, [NoRequest EXCEPT !.pc = "open_walked", !.d = d],
             SetDesc(tab, p, d, Null))

OpenWalked(p) ==
  LET r == fiber[p]
  IN /\ At(p, "open_walked")
     /\ \/ /\ Ans(p) = "err"
           /\ Reply(p, DestroyDesc(DestroyFile(tab, r.f), p, r.d))
        \/ /\ Ans(p) = "ok"
           /\ OpenAt(p, [r EXCEPT !.pc = "opened"],
                     SetDesc(SetCount(tab, r.f, 1), p, r.d, r.f), r.f)

\* Mutant: a refused open frees the file and does not tell the server.
OpenedSilent(p) ==
  LET r == fiber[p]
  IN /\ At(p, "opened")
     /\ \/ Ans(p) = "ok" /\ Reply(p, tab)
        \/ Ans(p) = "err" /\ Reply(p, DestroyFile(DestroyDesc(tab, p, r.d), r.f))

Opened(p) ==
  LET r == fiber[p]
  IN /\ At(p, "opened")
     /\ \/ Ans(p) = "ok" /\ Reply(p, tab)
        \/ Ans(p) = "err" /\ Clunk(p, r, DestroyDesc(tab, p, r.d), r.f, "end")

\* mm_create: walk to the directory, then to the name; make the file when it is
\* not there, open and truncate it when it is (or appeared meanwhile).
Create(p) ==
  /\ Accepts(p) /\ FreeFds(tab, p) # {}
  /\ LET d == NewFd(tab, p)
     IN Walk(p, [NoRequest EXCEPT !.pc = "create_walked", !.d = d],
             SetDesc(tab, p, d, Null))

CreateFail(p, t) ==
  LET r == fiber[p] IN Clunk(p, r, DestroyDesc(t, p, r.d), r.f, "end")

CreateStep(p) ==
  LET r == fiber[p]
      Child(t, pc) == WalkChild(p, [r EXCEPT !.pc = pc], t, r.f, r.f)
      Truncate == OpenAt(p, [r EXCEPT !.pc = "create_open"], tab, r.f)
  IN \/ /\ At(p, "create_walked") /\ Ans(p) = "err"
        /\ Reply(p, DestroyDesc(DestroyFile(tab, r.f), p, r.d))
     \/ /\ At(p, "create_walked") /\ Ans(p) = "ok"
        /\ Child(SetCount(tab, r.f, 1), "create_child")
     \/ /\ At(p, "create_child") /\ Ans(p) = "err"
        /\ Call(p, [r EXCEPT !.pc = "created"], tab, "create", r.f, r.f)
     \/ At(p, "create_child") /\ Ans(p) = "ok" /\ Truncate
     \/ At(p, "created") /\ Ans(p) = "err" /\ Child(tab, "create_again")
     \/ At(p, "create_again") /\ Ans(p) = "ok" /\ Truncate
     \/ At(p, "create_again") /\ Ans(p) = "err" /\ CreateFail(p, tab)
     \/ At(p, "create_open") /\ Ans(p) = "err" /\ CreateFail(p, tab)
     \/ /\ fiber[p].pc \in {"created", "create_open"} /\ At(p, r.pc)
        /\ Ans(p) = "ok"
        /\ Reply(p, SetDesc(SetCount(tab, r.f, 1), p, r.d, r.f))

\* Calls that ask the server about a path, or change its attributes (Twstat is
\* like Tstat), and let the file go.
AskAbout(p) == Accepts(p) /\ Walk(p, [NoRequest EXCEPT !.pc = "stat"], tab)
MmStat(p) == AskAbout(p)
MmChmod(p) == AskAbout(p)
MmChdir(p) == AskAbout(p)

StatWalked(p) ==
  LET r == fiber[p]
  IN /\ At(p, "stat")
     /\ \/ Ans(p) = "err" /\ Reply(p, DestroyFile(tab, r.f))
        \/ /\ Ans(p) = "ok"
           /\ FstatAt(p, [r EXCEPT !.pc = "stated"], SetCount(tab, r.f, 1), r.f)

Stated(p) == At(p, "stated") /\ Clunk(p, fiber[p], tab, fiber[p].f, "end")

\* mm_remove
RemoveFile(p) == Accepts(p) /\ Walk(p, [NoRequest EXCEPT !.pc = "remove"], tab)

RemoveWalked(p) ==
  LET r == fiber[p]
  IN /\ At(p, "remove")
     /\ \/ Ans(p) = "err" /\ Reply(p, DestroyFile(tab, r.f))
        \/ /\ Ans(p) = "ok"
           /\ Call(p, [r EXCEPT !.pc = "removed"], SetCount(tab, r.f, 1),
                   "remove", r.f, r.f)

\* Whatever the server says, the manager forgets the file.
Removed(p) == At(p, "removed") /\ Reply(p, DestroyFile(tab, fiber[p].f))

\* mm_exec: walk, open, read the headers (_check_elf), replace the image, read
\* it in.  Once the image is gone an error ends the process.
Exec(p) == Accepts(p) /\ Walk(p, [NoRequest EXCEPT !.pc = "exec_walked", !.q = p], tab)

ExecStep(p) ==
  LET r == fiber[p]
      Read(pc) == ReadAt(p, [r EXCEPT !.pc = pc], tab, r.f)
      Leave(ret) == Clunk(p, r, tab, r.f, ret)
  IN \/ At(p, "exec_walked") /\ Ans(p) = "err" /\ Reply(p, DestroyFile(tab, r.f))
     \/ /\ At(p, "exec_walked") /\ Ans(p) = "ok"
        /\ OpenAt(p, [r EXCEPT !.pc = "exec_opened"], SetCount(tab, r.f, 1), r.f)
     \/ /\ r.pc \in {"exec_opened", "exec_header"} /\ At(p, r.pc)
        /\ Ans(p) = "ok" /\ Read("exec_header")
     \/ At(p, "exec_opened") /\ Ans(p) = "err" /\ Leave("end")
     \/ At(p, "exec_header") /\ Leave("end")      \* error, not ELF, E2BIG
     \/ At(p, "exec_header") /\ Ans(p) = "ok" /\ Leave("broken")  \* process_replace
     \/ /\ r.pc \in {"exec_header", "exec_body"} /\ At(p, r.pc)
        /\ Ans(p) = "ok" /\ Read("exec_body")
     \/ At(p, "exec_body") /\ Leave("broken")     \* error, short read
     \/ At(p, "exec_body") /\ Ans(p) = "ok" /\ Leave("execed")
     \/ At(p, "execed") /\ Reply(p, tab)
     \/ /\ r.pc \in {"execed", "broken"} /\ cur = p              \* thread_start
        /\ tab' = [tab EXCEPT !.life[p] = "dying"]
        /\ Goto(p, [r EXCEPT !.pc = "closing"])
        /\ UNCHANGED <<inbox, known, session>>

-----------------------------------------------------------------------------
(* Calls on descriptors *)

HasFile(p, d) == tab.desc[p][d] \in Fid

\* Calls that send one message about an open file (Tstat is like Tread): the
\* file is used again after the answer.
Transfer(p) ==
  /\ Accepts(p)
  /\ \E d \in Fd :
       /\ HasFile(p, d)
       /\ LET f == tab.desc[p][d]
          IN Call(p, [NoRequest EXCEPT !.pc = "io_done", !.f = f], tab, "io", f, f)

MmRead(p) == Transfer(p)
MmWrite(p) == Transfer(p)
MmFstat(p) == Transfer(p)
MmLseek(p) == Transfer(p)   \* SEEK_END; the others send nothing (_seek)

IoDone(p) == At(p, "io_done") /\ Reply(p, tab)

\* mm_close
Close(p) ==
  /\ Accepts(p)
  /\ \E d \in Fd :
       /\ HasFile(p, d)
       /\ Clunk(p, NoRequest, DestroyDesc(tab, p, d), tab.desc[p][d], "end")

\* Mutant: dup forgets to count the new reference.
ShareUncounted(t, p, d, e) == SetDesc(t, p, e, t.desc[p][d])

\* the second descriptor refers to the file of the first
Share(t, p, d, e) ==
  LET f == t.desc[p][d] IN SetCount(SetDesc(t, p, e, f), f, t.count[f] + 1)

\* mm_dup: an open second descriptor is clunked first, and keeps its file while
\* the manager waits for that.
Dup(p) ==
  /\ Accepts(p)
  /\ \E d, e \in Fd :
       /\ d # e /\ HasFile(p, d)
       /\ \/ /\ tab.desc[p][e] = NoDesc
             /\ Reply(p, Share(tab, p, d, e))
          \/ /\ HasFile(p, e)
             /\ Clunk(p, [NoRequest EXCEPT !.d = d, !.e = e], tab,
                      tab.desc[p][e], "dup")

Duped(p) == At(p, "dup") /\ Reply(p, Share(tab, p, fiber[p].d, fiber[p].e))

\* _dup_all: every file of the parent gets one more reference for each of its
\* uses; the name spaces are copied last.
Uses(t, p, f) ==
  Cardinality({d \in Fd : t.desc[p][d] = f})
    + (IF t.root[p] = f THEN 1 ELSE 0)
    + Cardinality({i \in DOMAIN t.ns[p] : t.ns[p][i] = f})

DupAll(t, p, c) ==
  [t EXCEPT !.count = [f \in Fid |-> @[f] + Uses(t, p, f)],
            !.desc[c] = t.desc[p], !.root[c] = t.root[p], !.ns[c] = t.ns[p]]

\* _dup_all that finds no memory for the first name space
DupPart(t, p) ==
  LET u == [t EXCEPT !.ns[p] = << >>]
  IN [t EXCEPT !.count = [f \in Fid |-> @[f] + Uses(u, p, f)],
               !.leaked = @ \cup {f \in Fid : Uses(u, p, f) > 0}]

\* bound: calls of mm_rfork fail while no file has a count that is too high
ForkBound == tab.leaked = {}

\* mm_rfork: when a name space or the start of the thread fails, the child is
\* destroyed and the references it had stay counted.
Fork(p) ==
  /\ Accepts(p)
  /\ \E c \in Proc :
       /\ tab.life[c] = "none" /\ fiber[c].pc = "idle"
       /\ \/ Reply(p, [DupAll(tab, p, c) EXCEPT !.life[c] = "active"])
          \/ tab.ns[p] # << >> /\ ForkBound /\ Reply(p, DupPart(tab, p))
          \/ ForkBound /\ Reply(p, [tab EXCEPT !.count = DupAll(tab, p, c).count,
                         !.leaked = @ \cup {f \in Fid : Uses(tab, p, f) > 0}])

-----------------------------------------------------------------------------
(* The end of a process *)

\* mm_exit, and mm_kill for a fault of the process
Exit(p) ==
  /\ Accepts(p)
  /\ tab' = [tab EXCEPT !.life[p] = "dying"]
  /\ Goto(p, [NoRequest EXCEPT !.pc = "closing", !.q = p])
  /\ UNCHANGED <<inbox, known, session>>

\* The pipe server keeps a transfer that cannot proceed.
Held(s) ==
  {a \in Agent : /\ s = PipeServer /\ fiber[a].pc = "io_done"
                 /\ fiber[a].ans = "wait" /\ tab.dest[tab.owner[fiber[a].f]] = s
                 /\ \A m \in {inbox[s]} \ {Null} : m.by # a
                 /\ \A i \in DOMAIN answers : answers[i][1] # a}

\* mm_kill from the pipe server, about a transfer it has not answered yet
Kill ==
  /\ cur = Null /\ fiber[Sig].pc = "idle"
  /\ Cardinality({a \in Agent : fiber[a].pc # "idle"}) < RequestMax
  /\ \E q \in Proc :
       /\ tab.life[q] = "active"
       /\ inbox[PipeServer] # Null
       /\ \/ inbox[PipeServer].by = q /\ inbox[PipeServer].type = "io"
          \/ q \in Held(PipeServer)
       /\ tab' = [tab EXCEPT !.life[q] = "dying"]
       /\ Goto(Sig, [NoRequest EXCEPT !.pc = "closing", !.q = q])
  /\ UNCHANGED <<inbox, known, session>>

\* _close_all: descriptors, then the root, then the name spaces
Closing(a) ==
  LET r == fiber[a]
      q == r.q
      open == {d \in Fd : tab.desc[q][d] # NoDesc}
  IN /\ At(a, "closing")
     /\ IF open # {}
        THEN \E d \in open :
               Clunk(a, r, DestroyDesc(tab, q, d), tab.desc[q][d], "closing")
        ELSE IF tab.root[q] # Null
        THEN Clunk(a, r, [tab EXCEPT !.root[q] = Null], tab.root[q], "closing")
        ELSE IF tab.ns[q] # << >>
        THEN Clunk(a, r, [tab EXCEPT !.ns[q] = Tail(@)], Head(tab.ns[q]), "closing")
        ELSE Reply(a, [tab EXCEPT !.life[q] = "none"])

-----------------------------------------------------------------------------
(* Sessions *)

\* _attach: a new session with its first file
Attach(p, rec, t, s) ==
  \E i \in FreeSids(t), f \in FreeFids(t) :
    Call(p, [rec EXCEPT !.f = f], CreateFile(CreateSession(t, i, s), f, i),
         "attach", f, f)

\* mm_bind to "/" or to the other mount point.  The old file of the mount point
\* is clunked after the new one is attached.
Bind(p) ==
  /\ Accepts(p)
  /\ \E s \in Bindable, pc \in {"bind_root", "bind_ns"} :
       Attach(p, [NoRequest EXCEPT !.pc = pc], tab, s)

Attached(p) ==
  LET r == fiber[p]
      t == SetCount(tab, r.f, 1)
      r1 == [r EXCEPT !.g = r.f]
  IN /\ r.pc \in {"bind_root", "bind_ns"} /\ At(p, r.pc)
     /\ \/ Ans(p) = "err" /\ Reply(p, DestroyFile(tab, r.f))
        \/ /\ Ans(p) = "ok" /\ r.pc = "bind_root"
           /\ IF tab.root[p] = Null
              THEN Reply(p, [t EXCEPT !.root[p] = r.f])
              ELSE Clunk(p, r1, t, tab.root[p], "root_clunked")
        \/ /\ Ans(p) = "ok" /\ r.pc = "bind_ns"
           /\ tab' = t /\ Goto(p, [r1 EXCEPT !.pc = "ns_loop"])
           /\ UNCHANGED <<inbox, known, session>>

RootClunked(p) ==
  At(p, "root_clunked") /\ Reply(p, [tab EXCEPT !.root[p] = fiber[p].g])

\* mm_unmount
Unmount(p) ==
  /\ Accepts(p)
  /\ tab.ns[p] # << >>
  /\ Clunk(p, NoRequest, tab, Head(tab.ns[p]), "ns_drop")

\* _remove_namespace, and the end of mm_bind and mm_unmount
NsLoop(p) ==
  LET r == fiber[p]
  IN \/ /\ At(p, "ns_drop")
        /\ tab' = [tab EXCEPT !.ns[p] = Tail(@)]
        /\ Goto(p, [r EXCEPT !.pc = "ns_loop"])
        /\ UNCHANGED <<inbox, known, session>>
     \/ /\ At(p, "ns_loop") /\ tab.ns[p] # << >>
        /\ Clunk(p, r, tab, Head(tab.ns[p]), "ns_drop")
     \/ /\ At(p, "ns_loop") /\ tab.ns[p] = << >>
        /\ Reply(p, IF r.g = Null THEN tab ELSE [tab EXCEPT !.ns[p] = <<r.g>>])

\* mm_pipe: a session with two files.  f_count of the second file is not set
\* before everything has succeeded: until then it is what the memory held (1 stands for anything
\* up to 1, 2 for anything above).
Pipe(p) ==
  /\ Accepts(p) /\ Cardinality(FreeFds(tab, p)) >= 2
  /\ LET d == NewFd(tab, p)
         t == SetDesc(tab, p, d, Null)
         e == NewFd(t, p)
     IN Attach(p, [NoRequest EXCEPT !.pc = "pipe_attached", !.d = d, !.e = e],
               SetDesc(t, p, e, Null), PipeServer)

PipeStep(p) ==
  LET r == fiber[p]
      DropBoth(t) == DestroyDesc(DestroyDesc(t, p, r.d), p, r.e)
  IN \/ /\ At(p, "pipe_attached") /\ Ans(p) = "err"
        /\ Reply(p, DropBoth(DestroyFile(tab, r.f)))
     \/ /\ At(p, "pipe_attached") /\ Ans(p) = "ok"
        /\ LET t == SetDesc(SetCount(tab, r.f, 1), p, r.d, r.f)
           IN IF FreeFids(t) = {}
              THEN Clunk(p, r, t, r.f, "pipe_fail2")
              ELSE \E g \in FreeFids(t), n \in 1..2 :
                     WalkChild(p, [r EXCEPT !.pc = "pipe_walk2", !.g = g],
                       SetCount(CreateFile(t, g, t.owner[r.f]), g, n), r.f, g)
     \/ /\ At(p, "pipe_walk2") /\ Ans(p) = "err"
        /\ Clunk(p, r, DestroyFile(tab, r.g), r.f, "pipe_fail2")
     \/ /\ At(p, "pipe_walk2") /\ Ans(p) = "ok"
        /\ OpenAt(p, [r EXCEPT !.pc = "pipe_open2"], SetDesc(tab, p, r.e, r.g), r.g)
     \/ /\ At(p, "pipe_open2") /\ Ans(p) = "ok"
        /\ WalkChild(p, [r EXCEPT !.pc = "pipe_walk1"], tab, r.f, r.f)
     \/ /\ At(p, "pipe_walk1") /\ Ans(p) = "ok"
        /\ OpenAt(p, [r EXCEPT !.pc = "pipe_open1"], tab, r.f)
     \/ /\ At(p, "pipe_open1") /\ Ans(p) = "ok"
        /\ Reply(p, SetCount(SetCount(tab, r.f, 1), r.g, 1))
     \/ /\ r.pc \in {"pipe_open2", "pipe_walk1", "pipe_open1"} /\ At(p, r.pc)
        /\ Ans(p) = "err" /\ Clunk(p, r, tab, r.f, "pipe_fail2")
     \/ /\ At(p, "pipe_fail2")
        /\ IF tab.desc[p][r.e] = Null
           THEN Reply(p, DropBoth(tab))
           ELSE Clunk(p, r, DestroyDesc(tab, p, r.d), r.g, "pipe_fail3")
     \/ /\ At(p, "pipe_fail3")
        /\ Reply(p, [DropBoth(tab) EXCEPT !.leaked =
                       IF tab.owner[r.g] # Null THEN @ \cup {r.g} ELSE @])

-----------------------------------------------------------------------------
(* Servers: session.c, directory.c and file.c of fs and console *)

FilesOf(s, i) == {f \in Fid : <<i, f>> \in known[s]}

\* session_destroy_file of the server
ServerDrop(s, i, f) ==
  /\ known' = [known EXCEPT ![s] = @ \ {<<i, f>>}]
  /\ session' = [session EXCEPT ![s] =
       IF s \notin KeepsSessions /\ FilesOf(s, i) = {f} THEN @ \ {i} ELSE @]

Answer(s, m, ans) ==
  /\ inbox' = [inbox EXCEPT ![s] = Null]
  /\ answers' = Append(answers, <<m.by, ans>>)
  /\ UNCHANGED <<tab, fiber, cur>>

\* if_read and if_write of the pipe server that put the request into a queue
Hold(s) ==
  /\ s = PipeServer /\ inbox[s] # Null
  /\ inbox[s].type = "io"
  /\ inbox[s].by \in Proc => tab.life[inbox[s].by] = "active"
  /\ <<inbox[s].sid, inbox[s].fid>> \in known[s]
  /\ inbox' = [inbox EXCEPT ![s] = Null]
  /\ UNCHANGED <<tab, fiber, cur, answers, known, session>>

Release(s) ==
  /\ \E a \in Held(s), ans \in {"ok", "err"} : answers' = Append(answers, <<a, ans>>)
  /\ UNCHANGED <<tab, fiber, cur, inbox, known, session>>

Knows(s, m) == <<m.sid, m.fid>> \in known[s]

\* if_attach: the first file of a session the server does not have
IfAttach(s, m) ==
  /\ m.type = "attach" /\ m.sid \notin session[s]
  /\ known' = [known EXCEPT ![s] = @ \cup {<<m.sid, m.fid>>}]
  /\ session' = [session EXCEPT ![s] = @ \cup {m.sid}]
  /\ Answer(s, m, "ok")

\* if_walk: a walk to the same number moves the file; any other number must be
\* new to the session.
IfWalk(s, m) ==
  /\ m.type = "walk" /\ Knows(s, m)
  /\ m.newfid = m.fid \/ <<m.sid, m.newfid>> \notin known[s]
  /\ known' = [known EXCEPT ![s] = @ \cup {<<m.sid, m.newfid>>}]
  /\ Answer(s, m, "ok") /\ UNCHANGED session

\* if_open, if_create, if_read, if_write, if_stat, if_wstat
IfUse(s, m) ==
  /\ m.type \in {"open", "create", "io", "stat"} \ Unsupported[s] /\ Knows(s, m)
  /\ Answer(s, m, "ok") /\ UNCHANGED <<known, session>>

IfClunk(s, m) ==
  /\ m.type = "clunk" /\ Knows(s, m)
  /\ ServerDrop(s, m.sid, m.fid) /\ Answer(s, m, "ok")

\* if_remove: the file is gone even when nothing could be removed.
IfRemove(s, m) ==
  /\ m.type = "remove" /\ m.type \notin Unsupported[s] /\ Knows(s, m)
  /\ ServerDrop(s, m.sid, m.fid)
  /\ \E ans \in {"ok", "err"} : Answer(s, m, ans)

\* any message may fail, but for a clunk or a removal of a file that is there
Refuse(s, m) ==
  /\ m.type \in {"clunk", "remove"} \ Unsupported[s] => ~Knows(s, m)
  /\ Answer(s, m, "err") /\ UNCHANGED <<known, session>>

\* start: one message at a time.  A caller the pipe server has killed gets its
\* answer before the server goes on.
Serve(s) ==
  LET m == inbox[s]
  IN /\ m # Null
     /\ \A a \in Held(s) \cap Proc : tab.life[a] = "active"
     /\ \/ IfAttach(s, m) \/ IfWalk(s, m) \/ IfUse(s, m)
        \/ IfClunk(s, m) \/ IfRemove(s, m) \/ Refuse(s, m)

Step(p) ==
  \/ OpenWalked(p) \/ Opened(p) \/ CreateStep(p) \/ StatWalked(p) \/ Stated(p)
  \/ RemoveWalked(p) \/ Removed(p) \/ ExecStep(p) \/ IoDone(p) \/ Duped(p)
  \/ Attached(p) \/ RootClunked(p) \/ NsLoop(p) \/ PipeStep(p)

Start(p) ==
  \/ Open(p) \/ Create(p) \/ MmStat(p) \/ MmChmod(p) \/ MmChdir(p)
  \/ RemoveFile(p) \/ Exec(p) \/ MmRead(p) \/ MmWrite(p) \/ MmFstat(p) \/ MmLseek(p)
  \/ Close(p)
  \/ Dup(p) \/ Fork(p) \/ Exit(p) \/ Bind(p) \/ Unmount(p) \/ Pipe(p)

Next ==
  \/ \E p \in Proc : Start(p) \/ Step(p)
  \/ \E a \in Agent : Clunked(a) \/ Closing(a)
  \/ Kill
  \/ \E s \in Server : Serve(s) \/ Hold(s) \/ Release(s)

Spec == Init /\ [][Next]_vars

-----------------------------------------------------------------------------
(* Properties *)

\* Every table holds what the code can put there.
TypeOK ==
  /\ DOMAIN tab.count = Fid /\ \A f \in Fid : tab.count[f] \in Int
  /\ tab.owner \in [Fid -> Sid \cup {Null}]
  /\ tab.dest \in [Sid -> Server \cup {Null}]
  /\ tab.desc \in [Proc -> [Fd -> Fid \cup {Null, NoDesc}]]
  /\ tab.root \in [Proc -> Fid \cup {Null}]
  /\ \A p \in Proc : tab.ns[p] \in Seq(Fid) /\ tab.life[p] \in Life
  /\ cur \in Agent \cup {Null}
  /\ \A s \in Server : inbox[s] = Null \/ inbox[s] \in Message
  /\ \A i \in DOMAIN answers : answers[i] \in Agent \X {"ok", "err"}

Live == {f \in Fid : tab.owner[f] # Null}

\* files a request other than a transfer is working on
Busy == {fiber[a].f : a \in {b \in Agent : fiber[b].pc # "io_done"}}
          \cup {fiber[a].g : a \in Agent}

\* Reference counts (f_count): between two fibers, a file no request is working
\* on is counted once for each descriptor, root and name space of all processes,
\* and at least once; no error path but the two of _dup_all and mm_pipe keeps a
\* file nobody can reach.
CountsExact ==
  cur = Null =>
    \A f \in Live \ (Busy \cup tab.leaked) :
      LET uses == FoldFunction(+, 0, [p \in Proc |-> Uses(tab, p, f)])
      IN uses > 0 /\ tab.count[f] = uses

\* No reference outlives its file: what a descriptor, a root, a name space or a
\* transfer in progress refers to has not been freed by session_destroy_file,
\* even when the process is killed while the pipe server holds its transfer.
NoDangling ==
  /\ TypeOK
  /\ cur = Null =>
       \A p \in Proc :
         /\ \A d \in Fd : HasFile(p, d) => tab.desc[p][d] \in Live
         /\ (Roots(p)) \subseteq Live
  /\ \A a \in Agent : fiber[a].pc = "io_done" => fiber[a].f \in Live
  /\ \A f \in Live : tab.dest[tab.owner[f]] # Null

\* The manager and its servers agree on the open files: a file no request is
\* working on is one its server knows, and a server that carries out Tremove
\* knows no file the manager has forgotten.
FilesAgree ==
  cur = Null =>
    /\ \A f \in Live \ Busy :
         <<tab.owner[f], f>> \in known[tab.dest[tab.owner[f]]]
    /\ \A s \in Server : "remove" \notin Unsupported[s] =>
         \A k \in known[s] : tab.owner[k[2]] = k[1]
=============================================================================
