------------------------------ MODULE Process ------------------------------
(***************************************************************************)
(* The process table of the process manager: servers/mm/process.c, with     *)
(* mm_rfork, mm_exec, mm_wait, mm_exit and mm_kill of servers/mm/pm.c.      *)
(*                                                                          *)
(* A handler runs in a fiber.  Those that talk to a file server give way    *)
(* to other requests while they wait for its answer, and are two steps or   *)
(* more here: the end of a process closes its files (_close_all) before     *)
(* process_destroy, and exec reads the program before and after             *)
(* process_replace.  Which ids the sequences hand out is left open.         *)
(***************************************************************************)
EXTENDS Lists, FiniteSets

CONSTANTS
  Pid,         \* the process ids, without 0
  Init1,       \* INIT_PID
  Tid,         \* the ids of user threads
  InitThread,  \* INIT_THREAD_ID
  PostnoteBusy \* whether postnote() also hits a process that executes a program or
               \* has just faulted

ASSUME ProcessAssumption ==
  /\ Init1 \in Pid /\ 0 \notin Pid
  /\ InitThread \in Tid /\ 0 \notin Tid
  /\ PostnoteBusy \in BOOLEAN

NoThread == 0

\* mm_process_t.  "none": no process has this id.  The status "null", of a
\* process that is being made, is seen within mm_rfork only.
Statuses == {"none", "active", "dying", "dead", "group"}
Frame == [status : Statuses, ppid : Pid \cup {0}, pgid : Pid \cup {0},
          children : Seq(Pid), members : SUBSET Pid, tag : BOOLEAN,
          thread : Tid \cup {NoThread}]
NoFrame == [status |-> "none", ppid |-> 0, pgid |-> 0, children |-> <<>>,
            members |-> {}, tag |-> FALSE, thread |-> NoThread]

VARIABLES
  proc,        \* process_tree
  freeTid,     \* the ids in thread_sequence
  doing,       \* what the thread of a process does: "user", "fault", or a
               \* request that takes several steps: "exec", "load", "close"
  closing,     \* how many fibers are about to destroy the process
  pending,     \* the threads that messages to kill, under way to PORT_MM, name
  stale        \* a process was used after it had been freed

vars == <<proc, freeTid, doing, closing, pending, stale>>

Exists(T, p) == T[p].status # "none"
IsLeader(T, p) == T[p].pgid = p

TypeOK ==
  /\ proc \in [Pid -> Frame]
  /\ freeTid \subseteq Tid
  /\ doing \in [Pid -> {"user", "fault", "exec", "load", "close"}]
  /\ closing \in [Pid -> Nat]
  /\ pending \subseteq Tid
  /\ stale \in BOOLEAN

\* spawn
Init ==
  /\ proc = [p \in Pid |->
       IF p = Init1 THEN [NoFrame EXCEPT !.status = "active", !.pgid = Init1,
                                         !.thread = InitThread]
       ELSE NoFrame]
  /\ freeTid = Tid \ {InitThread}
  /\ doing = [p \in Pid |-> "user"]
  /\ closing = [p \in Pid |-> 0]
  /\ pending = {}
  /\ stale = FALSE

-----------------------------------------------------------------------------
(***************************************************************************)
(* process.c, as functions of the process table T                           *)
(***************************************************************************)

\* _process_destroy_body
DestroyBody(T, p) == [T EXCEPT ![p] = NoFrame]

\* list_remove(&(p->brothers)), from whichever list p is in
Unbrothered(T, p) ==
  [q \in DOMAIN T |-> [T[q] EXCEPT !.children = ListRemove(@, p)]]

\* Mutant: a leader's frame goes while it has members.
DestroyFrameAtOnce(T, p) ==
  LET U == [Unbrothered(T, p) EXCEPT ![p].tag = FALSE]
  IN  DestroyBody(U, p)

\* _process_destroy_frame.  The thread that p->tag would answer is gone.
DestroyFrame(T, p) ==
  LET U == [Unbrothered(T, p) EXCEPT ![p].tag = FALSE]
      g == U[p].pgid
      V == [U EXCEPT ![g].members = @ \ {p}]
  IN  IF IsLeader(U, p)
        THEN IF U[p].members # {} THEN [U EXCEPT ![p].status = "group"] ELSE DestroyBody(U, p)
      ELSE IF g # 0 /\ Exists(U, g)
        THEN IF V[g].status = "group" /\ V[g].members = {}
               THEN DestroyBody(DestroyBody(V, g), p) ELSE DestroyBody(V, p)
      ELSE DestroyBody(U, p)

\* Where the dead are in the list of the children of p.
DeadChildren(T, p) ==
  {i \in 1 .. Len(T[p].children) : T[T[p].children[i]].status = "dead"}

FirstDead(T, p) ==
  T[p].children[CHOOSE i \in DeadChildren(T, p) : \A j \in DeadChildren(T, p) : i <= j]

\* process_release_body: the first dead child of p, which waits, is taken.
ReleaseBody(T, p) ==
  IF DeadChildren(T, p) = {} THEN T
  ELSE DestroyFrame([T EXCEPT ![p].tag = FALSE], FirstDead(T, p))

Reversed(s) == [i \in DOMAIN s |-> s[Len(s) + 1 - i]]

\* Mutant: the children of a dying process come after those of init.
AdoptedLast(T, p) ==
  [q \in DOMAIN T |->
     IF q = p THEN [T[q] EXCEPT !.children = <<>>]
     ELSE IF q = Init1 THEN [T[q] EXCEPT !.children = @ \o T[p].children]
     ELSE IF q \in Elems(T[p].children) THEN [T[q] EXCEPT !.ppid = Init1]
     ELSE T[q]]

\* process_destroy: init takes the children of p, each before its own.
Adopted(T, p) ==
  [q \in DOMAIN T |->
     IF q = p THEN [T[q] EXCEPT !.children = <<>>]
     ELSE IF q = Init1 THEN [T[q] EXCEPT !.children = Reversed(T[p].children) \o @]
     ELSE IF q \in Elems(T[p].children) THEN [T[q] EXCEPT !.ppid = Init1]
     ELSE T[q]]

\* process_destroy when there is no init: p is alone here, for init ends
\* before it forks or never.
Orphaned(T, p) == [T EXCEPT ![p].children = <<>>]

\* process_destroy, up to the use of process->ppid
Dead(T, p) ==
  [T EXCEPT ![p].status = "dead", ![p].thread = NoThread,
            ![p].ppid = IF T[p].status = "null" THEN 0 ELSE @]
Bequeathed(T, p) ==
  LET U == Adopted(T, p)
  IN  IF p = Init1 \/ ~Exists(T, Init1) THEN Orphaned(T, p)
      ELSE IF DeadChildren(T, p) # {} /\ U[Init1].tag THEN ReleaseBody(U, Init1)
      ELSE U

\* Mutant: the parent of p is not looked for among those who wait.
ToldNobody(T, p) ==
  IF T[p].ppid # 0 /\ Exists(T, T[p].ppid) THEN T ELSE DestroyFrame(T, p)

\* process_destroy, from there on
Told(T, p) ==
  LET q == T[p].ppid
  IN  IF q # 0 /\ Exists(T, q)
        THEN IF T[q].tag THEN ReleaseBody(T, q) ELSE T
        ELSE DestroyFrame(T, p)

ProcessDestroy(T, p) == Told(Bequeathed(Dead(T, p), p), p)

-----------------------------------------------------------------------------
(***************************************************************************)
(* The requests                                                             *)
(***************************************************************************)

\* The thread of p runs, and makes a request.
Asks(p) == proc[p].status = "active" /\ doing[p] = "user" /\ ~proc[p].tag

\* process_duplicate, when the segments are copied: c is a child of p, unless
\* nowait, and in the group of p or the leader of its own.
Duplicated(p, c, nowait, noteg, g) ==
  LET T == [proc EXCEPT ![c] = [NoFrame EXCEPT !.status = "null", !.pgid = g,
                                               !.ppid = IF nowait THEN 0 ELSE p],
                        ![p].children = IF nowait THEN @ ELSE ListEnqueue(@, c)]
  IN  IF noteg \/ g = 0 THEN T ELSE [T EXCEPT ![g].members = @ \cup {c}]

\* The group of a new process; 0 if the leader is missing.
GroupFor(p, c, noteg) ==
  IF noteg THEN c
  ELSE IF proc[p].pgid # 0 /\ Exists(proc, proc[p].pgid) THEN proc[p].pgid ELSE 0

\* mm_rfork
Rfork(p, c, t, nowait, noteg) ==
  /\ Asks(p) /\ ~Exists(proc, c) /\ t \in freeTid
  /\ LET T == Duplicated(p, c, nowait, noteg, GroupFor(p, c, noteg))
     IN  proc' = [T EXCEPT ![c].status = "active", ![c].thread = t]
  /\ freeTid' = freeTid \ {t}
  /\ doing' = [doing EXCEPT ![c] = "user"]
  /\ UNCHANGED <<closing, pending, stale>>

\* process_duplicate fails in _copy_segments: pgid has never been written.
RforkFailsEarly(p, c, garbage) ==
  /\ Asks(p) /\ ~Exists(proc, c)
  /\ proc' = ProcessDestroy([proc EXCEPT ![c] = [NoFrame EXCEPT !.status = "null",
                                                                !.pgid = garbage]], c)
  /\ UNCHANGED <<freeTid, doing, closing, pending, stale>>

\* It fails for want of a thread, or mm_rfork fails in _dup_all or
\* thread_start: the child is destroyed.  (A thread it had got is given back.)
RforkFailsLate(p, c, nowait, noteg) ==
  /\ Asks(p) /\ ~Exists(proc, c)
  /\ proc' = ProcessDestroy(Duplicated(p, c, nowait, noteg, GroupFor(p, c, noteg)), c)
  /\ UNCHANGED <<freeTid, doing, closing, pending, stale>>

\* mm_wait.  (Without children it fails.)
MmWait(p) ==
  /\ Asks(p) /\ proc[p].children # <<>>
  /\ proc' = ReleaseBody([proc EXCEPT ![p].tag = TRUE], p)
  /\ UNCHANGED <<freeTid, doing, closing, pending, stale>>

\* _suspend_all and the start of _close_all, by a fiber that then waits
Closes(p) ==
  /\ proc' = [proc EXCEPT ![p].status = "dying"]
  /\ doing' = [doing EXCEPT ![p] = "close"]
  /\ closing' = [closing EXCEPT ![p] = @ + 1]

\* mm_exit; init.c ends before its first fork or never.
MmExit(p) ==
  /\ Asks(p)
  /\ p = Init1 => \A q \in Pid \ {Init1} : ~Exists(proc, q)
  /\ Closes(p)
  /\ UNCHANGED <<freeTid, pending, stale>>

\* process_destroy at the end of mm_exit, mm_kill or a broken mm_exec.  After
\* init has taken the children process is used once more.
Destroy(p) ==
  /\ closing[p] > 0
  /\ closing' = [closing EXCEPT ![p] = @ - 1]
  /\ proc' = ProcessDestroy(proc, p)
  /\ freeTid' = freeTid \cup ({proc[p].thread} \ {NoThread})
  /\ stale' = (stale \/ ~Exists(proc, p) \/ ~Exists(Bequeathed(Dead(proc, p), p), p))
  /\ UNCHANGED <<doing, pending>>

\* An exception of the thread of p: default_handler, and kill of handler.c.
\* (init is not expected to fault.)
Fault(p) ==
  /\ Asks(p) /\ p # Init1
  /\ doing' = [doing EXCEPT ![p] = "fault"]
  /\ pending' = pending \cup {proc[p].thread}
  /\ UNCHANGED <<proc, freeTid, closing, stale>>

\* mm_kill, as a pseudo signal: the process of thread t, if there is one
MmKill(t) ==
  /\ t \in pending
  /\ pending' = pending \ {t}
  /\ \/ \E p \in Pid : proc[p].thread = t /\ Closes(p)
     \/ (\A p \in Pid : proc[p].thread # t) /\ UNCHANGED <<proc, doing, closing>>
  /\ UNCHANGED <<freeTid, stale>>

\* mm_kill, called by the process p
MmPostnote(p, q) ==
  /\ Asks(p) /\ q # Init1
  /\ proc[q].status = "active" /\ (PostnoteBusy \/ doing[q] = "user")
  /\ Closes(q)
  /\ UNCHANGED <<freeTid, pending, stale>>

\* mm_exec, while it looks for the program
MmExec(p) ==
  /\ Asks(p) /\ p # Init1
  /\ doing' = [doing EXCEPT ![p] = "exec"]
  /\ UNCHANGED <<proc, freeTid, closing, pending, stale>>

ExecFails(p) ==
  /\ doing[p] = "exec"
  /\ doing' = [doing EXCEPT ![p] = "user"]
  /\ UNCHANGED <<proc, freeTid, closing, pending, stale>>

\* Mutant: destroy_threads gives back the id that create_thread uses again.
ReplaceFreesId(p) ==
  /\ doing[p] = "exec"
  /\ doing' = [doing EXCEPT ![p] = "load"]
  /\ freeTid' = freeTid \cup {proc[p].thread}
  /\ UNCHANGED <<proc, closing, pending, stale>>

\* process_replace: the thread is made again with the same id.
ProcessReplace(p) ==
  /\ doing[p] = "exec"
  /\ doing' = [doing EXCEPT ![p] = "load"]
  /\ UNCHANGED <<proc, freeTid, closing, pending, stale>>

\* process_replace fails when it has destroyed the thread, or create_thread
\* does.  Nobody gives the id of the thread back.
ReplaceFails(p) ==
  /\ doing[p] = "exec"
  /\ proc' = [proc EXCEPT ![p].thread = NoThread, ![p].status = "dying"]
  /\ doing' = [doing EXCEPT ![p] = "close"]
  /\ closing' = [closing EXCEPT ![p] = @ + 1]
  /\ UNCHANGED <<freeTid, pending, stale>>

ExecStarts(p) ==
  /\ doing[p] = "load"
  /\ doing' = [doing EXCEPT ![p] = "user"]
  /\ UNCHANGED <<proc, freeTid, closing, pending, stale>>

\* The program cannot be read: the process is broken.
LoadFails(p) ==
  /\ doing[p] = "load"
  /\ Closes(p)
  /\ UNCHANGED <<freeTid, pending, stale>>

Next ==
  \/ \E p, c \in Pid, nowait, noteg \in BOOLEAN :
       \/ \E t \in Tid : Rfork(p, c, t, nowait, noteg)
       \/ RforkFailsLate(p, c, nowait, noteg)
  \/ \E p, c \in Pid, g \in Pid \cup {0} : RforkFailsEarly(p, c, g)
  \/ \E p \in Pid :
       \/ MmWait(p) \/ MmExit(p) \/ Destroy(p) \/ Fault(p)
       \/ MmExec(p) \/ ExecFails(p) \/ ProcessReplace(p) \/ ReplaceFails(p)
       \/ ExecStarts(p) \/ LoadFails(p)
  \/ \E t \in Tid : MmKill(t)
  \/ \E p, q \in Pid : MmPostnote(p, q)

Spec == Init /\ [][Next]_vars

-----------------------------------------------------------------------------
(***************************************************************************)
(* Properties                                                               *)
(***************************************************************************)
Alive(p) == proc[p].status \in {"active", "dying"}

\* The lists of children and ppid agree: a process is once in the list of its
\* parent and in no other, and the parent is alive, so that process_find(ppid)
\* never finds a stranger under a reused id.
FamilyExact ==
  \A p, q \in Pid :
    /\ p \in Elems(proc[q].children) <=>
         (proc[p].status \in {"active", "dying", "dead"} /\ proc[p].ppid = q)
    /\ NoDup(proc[q].children)
    /\ proc[q].children # <<>> => Alive(q)

\* A dead process is kept only for a parent that can still ask for it and does
\* not wait already; and who waits has somebody to wait for (mm_wait and the
\* two calls of process_release_body in process_destroy).
NoExitMissed ==
  \A p \in Pid :
    /\ proc[p].status = "dead" =>
         \E q \in Pid : p \in Elems(proc[q].children) /\ Alive(q) /\ ~proc[q].tag
    /\ proc[p].tag /\ proc[p].status = "active" => proc[p].children # <<>>

\* Every process belongs to a group whose leader has a frame, and the leader
\* knows its members; the frame of a leader that is gone lasts as long as they
\* do ("missing leader" is never logged).
GroupsExact ==
  \A g \in Pid :
    /\ Exists(proc, g) => \E l \in Pid : l = proc[g].pgid /\ Exists(proc, l) /\ IsLeader(proc, l)
    /\ proc[g].members = {p \in Pid \ {g} : proc[p].pgid = g}
    /\ proc[g].status = "group" => proc[g].members # {} /\ proc[g].children = <<>>

\* process.c: the frames keep their types, and the families and groups they
\* form agree, whatever forks, ends and failures come together.
RelationsExact == TypeOK /\ FamilyExact /\ GroupsExact

\* A process is closed and destroyed by one fiber at a time, and nothing of it
\* is used after process_destroy has freed it.
DestroyedOnce ==
  /\ ~stale
  /\ \A p \in Pid : closing[p] = IF proc[p].status = "dying" THEN 1 ELSE 0

\* Every thread id is free or the thread of one process that is alive, or was
\* lost with an exec that failed for good: no fork can hand out an id in use.
ThreadsAccounted ==
  \A p \in Pid :
    /\ proc[p].thread # NoThread => Alive(p) /\ proc[p].thread \notin freeTid
    /\ proc[p].status = "active" => proc[p].thread # NoThread
    /\ \A q \in Pid \ {p} : proc[p].thread # NoThread => proc[q].thread # proc[p].thread
=============================================================================
