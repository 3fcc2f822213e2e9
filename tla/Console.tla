------------------------------ MODULE Console ------------------------------
(***************************************************************************)
(* The console server (servers/console): the files cons, null, zero and    *)
(* kprint.  Writing cons prints to the kernel's log, reading kprint takes  *)
(* from it; both go through cons_buf, and other threads print meanwhile.   *)
(*                                                                         *)
(* A character of the log is its number in the order of printing.  Of      *)
(* cons_buf the model keeps the characters kprint_read is collecting and   *)
(* the length of the string that printk finds in it, which no write ever   *)
(* shortens: the NUL behind it was there from the start, and text holds    *)
(* none.                                                                   *)
(***************************************************************************)
EXTENDS Integers, SequencesExt, FiniteSetsExt, TLC

CONSTANTS
  Sid, Fid,
  SessionMax, FileMax,     \* entries the slabs give
  LogSize,                 \* elements of KERNLOG_QUEUE
  ConsSize,                \* bytes of cons_buf
  PrintMax,                \* characters printed altogether
  IoMax                    \* bytes a client asks for, at most

VARIABLES
  tables,    \* what each Sid that has a session has: its files by Fid
  log,       \* KERNLOG_QUEUE
  printed,   \* the number of characters printed
  printer,   \* another thread is in _putc
  string,    \* the length of the string in cons_buf
  call,      \* what the server is doing: [pc, rest, todo, buf]
  got,       \* the characters given to readers of kprint
  gone       \* the characters that printk or a failed copy threw away

consoleVars == <<tables, log, printed, printer, string, call, got, gone>>

Name == {"cons", "null", "zero", "kprint"}
Nothing == "nothing"
Idle == [pc |-> "idle", rest |-> 0, todo |-> 0, buf |-> << >>]

-----------------------------------------------------------------------------
(* The log *)

\* One round of _putc: the character is queued, or the oldest makes room.
Put == 
  IF Len(log) < LogSize
  THEN log' = Append(log, printed) /\ printed' = printed + 1 /\ UNCHANGED gone
  ELSE log' = Tail(log) /\ gone' = gone \cup {Head(log)} /\ UNCHANGED printed

Done == printed' # printed

PrintK ==
  /\ printer \/ printed < PrintMax
  /\ Put /\ printer' = ~Done
  /\ UNCHANGED <<tables, string, call, got>>

\* cons_write: the next chunk is copied into cons_buf and printed up to the NUL;
\* when the buffer has none, what follows it is printed too.
ConsWrite(fault) ==
  LET len == Min({call.rest, ConsSize - 1})
      length == Max({string, len})
  IN /\ call.pc = "cons" /\ call.todo = 0
     /\ IF call.rest = 0 \/ fault
        THEN call' = Idle /\ UNCHANGED string
        ELSE /\ string' = length
             /\ \E past \in 0 .. 1 :
                  /\ past = 0 \/ length = ConsSize
                  /\ call' = [call EXCEPT !.rest = @ - len, !.todo = length + past]
     /\ UNCHANGED <<tables, log, printed, printer, got, gone>>

ConsPrint ==
  /\ call.pc = "cons" /\ call.todo > 0 /\ printed < PrintMax
  /\ Put /\ call' = IF Done THEN [call EXCEPT !.todo = @ - 1] ELSE call
  /\ UNCHANGED <<tables, printer, string, got>>

\* Mutant: characters are taken until the buffer is full, however few were asked for.
KprintReadAll ==
  LET len == ConsSize
  IN /\ call.pc = "kprint" /\ call.rest > 0 /\ Len(call.buf) < len
     /\ IF log = << >> THEN call' = [call EXCEPT !.pc = "last"] /\ UNCHANGED log
        ELSE call' = [call EXCEPT !.buf = Append(@, Head(log))] /\ log' = Tail(log)
     /\ string' = Max({string, Len(call'.buf)})
     /\ UNCHANGED <<tables, printed, printer, got, gone>>

\* kprint_read: one character more into cons_buf, or the log was found empty
KprintRead ==
  LET len == Min({call.rest, ConsSize})
  IN /\ call.pc = "kprint" /\ call.rest > 0 /\ Len(call.buf) < len
     /\ IF log = << >> THEN call' = [call EXCEPT !.pc = "last"] /\ UNCHANGED log
        ELSE call' = [call EXCEPT !.buf = Append(@, Head(log))] /\ log' = Tail(log)
     /\ string' = Max({string, Len(call'.buf)})
     /\ UNCHANGED <<tables, printed, printer, got, gone>>

\* The chunk goes to the reader; the characters of a chunk that can not are gone.
KprintCopy(fault) ==
  /\ \/ call.pc = "last"
     \/ call.pc = "kprint" /\ (call.rest = 0 \/ Len(call.buf) = Min({call.rest, ConsSize}))
  /\ got' = IF fault THEN got ELSE got \o call.buf
  /\ gone' = IF fault THEN gone \cup Range(call.buf) ELSE gone
  /\ call' = IF fault \/ call.pc = "last" \/ call.rest = Len(call.buf) THEN Idle
             ELSE [call EXCEPT !.rest = @ - Len(call.buf), !.buf = << >>]
  /\ UNCHANGED <<tables, log, printed, printer, string>>

-----------------------------------------------------------------------------
(* Sessions and files *)

Files(t) == FoldSet(LAMBDA s, n : n + Cardinality(DOMAIN t[s]), 0, DOMAIN t)
Walked(dev) == [flag |-> "walked", dev |-> dev]     \* O_ACCMODE: not opened yet
Without(f, x) == [y \in DOMAIN f \ {x} |-> f[y]]
Has(s, fid) == s \in DOMAIN tables /\ fid \in DOMAIN tables[s]

\* A request is answered at once: the files become t, unless it is refused.
Answers(t) == call.pc = "idle" /\ tables' = t /\ UNCHANGED <<log, printed, printer, string, call, got, gone>>

\* _create fails without an entry or when there is the session; session_create_file
\* without an entry, and then the session is destroyed again.
Attach(s, fid) ==
  LET fails == s \in DOMAIN tables \/ Cardinality(DOMAIN tables) = SessionMax \/ Files(tables) = FileMax
  IN Answers(IF fails THEN tables ELSE tables @@ (s :> (fid :> Walked(Nothing))))

\* if_walk; name is Nothing when there is none to walk
Walk(s, fid, newfid, name) ==
  LET refused == \/ ~Has(s, fid) \/ tables[s][fid].flag # "walked"
                 \/ newfid # fid /\ (Files(tables) = FileMax \/ newfid \in DOMAIN tables[s])
                 \/ name \notin Name \cup {Nothing}
      dev == IF newfid = fid /\ name = Nothing THEN tables[s][fid].dev ELSE name
  IN Answers(IF refused THEN tables ELSE [tables EXCEPT ![s] = newfid :> Walked(dev) @@ @])

Open(s, fid, mode) ==
  Answers(IF ~Has(s, fid) \/ tables[s][fid].flag # "walked" THEN tables
          ELSE [tables EXCEPT ![s][fid].flag = mode])

\* if_clunk: the session goes with its last file.
Clunk(s, fid) ==
  LET left == Without(tables[s], fid)
  IN Answers(IF ~Has(s, fid) THEN tables
             ELSE IF left = << >> THEN Without(tables, s) ELSE [tables EXCEPT ![s] = left])

\* if_read and if_write of a file that has a driver and is not open the other way:
\* cons and kprint keep the server busy, null and zero are answered.
Transfer(s, fid, count, dev, other) ==
  /\ call.pc = "idle"
  /\ Has(s, fid) /\ tables[s][fid].flag # other /\ tables[s][fid].dev # Nothing
  /\ call' = IF tables[s][fid].dev = dev THEN [Idle EXCEPT !.pc = dev, !.rest = count] ELSE Idle
  /\ UNCHANGED <<tables, log, printed, printer, string, got, gone>>

Read(s, fid, count) == Transfer(s, fid, count, "kprint", "W")
Write(s, fid, count) == Transfer(s, fid, count, "cons", "R")

ConsoleInit ==
  /\ tables = << >> /\ log = << >> /\ printed = 0 /\ printer = FALSE /\ string = 0
  /\ call = Idle /\ got = << >> /\ gone = {}

ConsoleNext ==
  \/ PrintK \/ ConsPrint \/ KprintRead
  \/ \E fault \in BOOLEAN : ConsWrite(fault) \/ KprintCopy(fault)
  \/ \E s \in Sid, fid \in Fid :
       \/ Attach(s, fid) \/ Clunk(s, fid)
       \/ \E newfid \in Fid, name \in Name \cup {Nothing, "other"} : Walk(s, fid, newfid, name)
       \/ \E mode \in {"R", "W", "RW"} : Open(s, fid, mode)
       \/ \E count \in 0 .. IoMax : Read(s, fid, count) \/ Write(s, fid, count)

-----------------------------------------------------------------------------
(* Properties *)

\* Readers of kprint get the log in the order of printing: what they got, what
\* kprint_read holds and what is queued follow one another, and no character is
\* missing or twice but those thrown away; a read never gives more than asked for.
LogInOrder ==
  LET all == got \o call.buf \o log
  IN /\ \A i \in 1 .. Len(all) - 1 : all[i] < all[i + 1]
     /\ Range(all) \cup gone = 0 .. printed - 1 /\ Range(all) \cap gone = {}
     /\ Len(call.buf) <= call.rest
=============================================================================
