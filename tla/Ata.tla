-------------------------------- MODULE Ata --------------------------------
(***************************************************************************)
(* The ATA driver (drivers/pcat/ata.c) on one channel, with the way an     *)
(* interrupt takes to the thread that waits for it: the handler in the     *)
(* interrupt, the kernel queue of the interrupt server, the delay thread   *)
(* and ipc_notify.  The device is external: it follows the PIO protocol,   *)
(* as the driver expects it to, and may report an error at every sector.   *)
(*                                                                         *)
(* A sector's content is a value, moved as a whole.  ata_identify and the  *)
(* PCI configuration are left out: the unit is there and has LBA48.        *)
(***************************************************************************)
EXTENDS Integers, SequencesExt, FiniteSetsExt

CONSTANTS
  Content,     \* what a sector holds
  DiskSize,    \* sectors of the unit
  First, Size, \* lba and size of the partition that _find_partition found
  CountMax     \* sectors a caller asks for, at most

VARIABLES
  disk,      \* what the unit holds: 0 .. DiskSize - 1 -> Content
  cache,     \* what it has been given and not flushed yet
  unit,      \* [state, cmd, lba, left, err]: state is ready, busy, drq or flush
  line,      \* the unit asserts its interrupt
  kqueue,    \* calls of _handle_2nd in the kernel queue
  caller,    \* ports[].caller: a thread waits for this channel
  notified,  \* that thread has been notified
  io,        \* the call: [pc, op, at, n, i, buf, data]
  known      \* what the callers may expect to find: 0 .. Size - 1 -> SUBSET Content

ataVars == <<disk, cache, unit, line, kqueue, caller, notified, io, known>>

Lba == 0 .. DiskSize - 1
Ready == [state |-> "ready", cmd |-> "none", lba |-> 0, left |-> 0, err |-> FALSE]
Quiet == [pc |-> "idle", op |-> "none", at |-> 0, n |-> 0, i |-> 0, buf |-> << >>, data |-> << >>]

-----------------------------------------------------------------------------
(* The device (external) *)

\* It has fetched the next sector, or has taken the last one that it was given.
UnitReady ==
  /\ unit.state = "busy"
  /\ \/ /\ unit.cmd = "read" /\ unit' = [unit EXCEPT !.state = "drq"]
     \/ /\ unit.cmd = "write"
        /\ unit' = IF unit.left = 0 THEN [unit EXCEPT !.state = "ready"] ELSE [unit EXCEPT !.state = "drq"]
  /\ line' = TRUE
  /\ UNCHANGED <<disk, cache, kqueue, caller, notified, io, known>>

UnitFlushed ==
  /\ unit.state = "flush"
  /\ disk' = [l \in Lba |-> IF l \in DOMAIN cache THEN cache[l] ELSE disk[l]] /\ cache' = << >>
  /\ unit' = [unit EXCEPT !.state = "ready"] /\ line' = TRUE
  /\ UNCHANGED <<kqueue, caller, notified, io, known>>

UnitFails ==
  /\ unit.state \in {"busy", "flush"}
  /\ unit' = [Ready EXCEPT !.err = TRUE] /\ line' = TRUE
  /\ UNCHANGED <<disk, cache, kqueue, caller, notified, io, known>>

Command(cmd, lba, n, state) == unit' = [state |-> state, cmd |-> cmd, lba |-> lba, left |-> n, err |-> FALSE]

-----------------------------------------------------------------------------
(* The interrupt *)

\* _handle_1st, and delayed_handle of the interrupt server
Handle1st ==
  /\ line /\ line' = FALSE
  /\ kqueue' = IF caller THEN kqueue + 1 ELSE kqueue
  /\ UNCHANGED <<disk, cache, unit, caller, notified, io, known>>

\* delay_process calls _handle_2nd, which notifies who waits by then.
Handle2nd ==
  /\ kqueue > 0 /\ kqueue' = kqueue - 1
  /\ notified' = (notified \/ caller)
  /\ UNCHANGED <<disk, cache, unit, line, caller, io, known>>

-----------------------------------------------------------------------------
(* The driver *)

\* _check_param: the request lies in the partition
CheckParam(offset, n) == offset < Size /\ n <= Size - offset

\* The call ends; what a write that failed was to change is no longer known.
Return(ok) ==
  /\ io' = [Quiet EXCEPT !.pc = IF ok THEN "ok" ELSE "error", !.op = io.op, !.at = io.at, !.n = io.n,
                         !.buf = io.buf, !.data = io.data]
  /\ known' = [l \in 0 .. Size - 1 |->
                 IF io.op = "write" /\ l \in io.at .. io.at + io.n - 1
                 THEN IF ok THEN {io.data[l - io.at + 1]} ELSE known[l] \cup {io.data[l - io.at + 1]}
                 ELSE known[l]]

\* ata_read and ata_write up to _set_address, which may find an error
Start(op, offset, n, data) ==
  /\ io.pc \in {"idle", "ok", "error"}
  /\ CheckParam(offset, n) /\ n > 0
  /\ io' = [pc |-> "address", op |-> op, at |-> offset, n |-> n, i |-> 0,
            buf |-> [k \in 1 .. n |-> CHOOSE c \in Content : TRUE], data |-> data]
  /\ UNCHANGED <<disk, cache, unit, line, kqueue, caller, notified, known>>

\* Mutant: the caller is noted when the command has already been given.
IssueEarly ==
  /\ io.pc \in {"address", "note"}
  /\ IF io.pc = "address"
     THEN /\ unit.state = "ready" /\ UNCHANGED caller
          /\ Command(io.op, First + io.at, io.n, IF io.op = "read" THEN "busy" ELSE "drq")
          /\ io' = [io EXCEPT !.pc = "note"]
     ELSE caller' = TRUE /\ io' = [io EXCEPT !.pc = IF io.op = "read" THEN "poll" ELSE "out"] /\ UNCHANGED unit
  /\ UNCHANGED <<disk, cache, line, kqueue, notified, known>>

\* The device is selected, the caller noted and the command given; a write waits
\* for the device to ask for the first sector.
Issue ==
  /\ io.pc = "address" /\ unit.state = "ready"
  /\ Command(io.op, First + io.at, io.n, IF io.op = "read" THEN "busy" ELSE "drq")
  /\ caller' = TRUE
  /\ io' = [io EXCEPT !.pc = IF io.op = "read" THEN "poll" ELSE "out"]
  /\ UNCHANGED <<disk, cache, line, kqueue, notified, known>>

\* _set_address finds the error of an earlier command, if selecting the device has
\* not cleared it.
Rejected ==
  /\ io.pc = "address" /\ unit.state = "ready" /\ unit.err
  /\ Return(FALSE)
  /\ UNCHANGED <<disk, cache, unit, line, kqueue, caller, notified>>

\* The device aborts a write before it asks for data: _busywait never ends.
Aborted ==
  /\ io.pc = "address" /\ unit.state = "ready" /\ io.op = "write"
  /\ unit' = [Ready EXCEPT !.err = TRUE] /\ caller' = TRUE /\ io' = [io EXCEPT !.pc = "spin"]
  /\ UNCHANGED <<disk, cache, line, kqueue, notified, known>>

\* A sector is written to the data register.
SectorOut ==
  /\ io.pc = "out" /\ unit.state = "drq"
  /\ cache' = [l \in DOMAIN cache \cup {unit.lba} |->
                 IF l = unit.lba THEN io.data[io.i + 1] ELSE cache[l]]
  /\ unit' = [unit EXCEPT !.state = "busy", !.lba = @ + 1, !.left = @ - 1]
  /\ io' = [io EXCEPT !.pc = "poll"]
  /\ UNCHANGED <<disk, line, kqueue, caller, notified, known>>

\* _poll ends: the status is read.  After an error the call ends; else the next
\* step is the sector, the flush command or the end.
Poll ==
  /\ io.pc \in {"poll", "flush"} /\ notified
  /\ notified' = FALSE
  /\ IF unit.err
     THEN Return(FALSE) /\ caller' = FALSE /\ UNCHANGED unit
     ELSE IF io.pc = "flush"
     THEN Return(TRUE) /\ caller' = FALSE /\ UNCHANGED unit
     ELSE /\ UNCHANGED <<caller, known>>
          /\ IF io.op = "read" THEN io' = [io EXCEPT !.pc = "in"] /\ UNCHANGED unit
             ELSE IF io.i + 1 < io.n THEN io' = [io EXCEPT !.pc = "out", !.i = @ + 1] /\ UNCHANGED unit
             ELSE io' = [io EXCEPT !.pc = "flush"] /\ Command("flush", 0, 0, "flush")
  /\ UNCHANGED <<disk, cache, line, kqueue>>

\* A sector is read from the data register, always to the start of the buffer.
SectorIn ==
  /\ io.pc = "in"
  /\ \E v \in Content :
       /\ unit.state = "drq" => v = IF unit.lba \in DOMAIN cache THEN cache[unit.lba] ELSE disk[unit.lba]
       /\ io' = [io EXCEPT !.buf[1] = v, !.i = @ + 1, !.pc = IF io.i + 1 < io.n THEN "poll" ELSE "end"]
  /\ unit' = IF unit.state # "drq" THEN unit
             ELSE [unit EXCEPT !.state = IF unit.left = 1 THEN "ready" ELSE "busy", !.lba = @ + 1, !.left = @ - 1]
  /\ UNCHANGED <<disk, cache, line, kqueue, caller, notified, known>>

\* The last look at the status; after an error the caller stays noted.
ReadEnd ==
  /\ io.pc = "end"
  /\ Return(~unit.err) /\ caller' = unit.err
  /\ UNCHANGED <<disk, cache, unit, line, kqueue, notified>>

AtaInit ==
  /\ disk \in [Lba -> {CHOOSE c \in Content : TRUE}]
  /\ cache = << >> /\ unit = Ready /\ line = FALSE /\ kqueue = 0
  /\ caller = FALSE /\ notified = FALSE /\ io = Quiet
  /\ known = [l \in 0 .. Size - 1 |-> {disk[First + l]}]

AtaNext ==
  \/ UnitReady \/ UnitFlushed \/ UnitFails \/ Handle1st \/ Handle2nd
  \/ Issue \/ Rejected \/ Aborted \/ SectorOut \/ Poll \/ SectorIn \/ ReadEnd
  \/ \E offset \in 0 .. Size, n \in 0 .. CountMax :
       \E op \in {"read", "write"}, data \in [1 .. n -> Content] : Start(op, offset, n, data)

-----------------------------------------------------------------------------
(* Properties *)

\* Who waits for the device is woken: while _poll waits the device works, or its
\* interrupt is on the way to the caller.
InterruptComing ==
  io.pc \in {"poll", "flush"} =>
    notified \/ kqueue > 0 \/ line \/ unit.state \in {"busy", "flush"}

\* The data register is only used when the device offers or wants a sector, so a
\* read that succeeds gives what the last successful write put there (a failed one
\* may have), and no sector outside the partition changes.
SectorsExact ==
  /\ io.pc = "out" => unit.state = "drq"
  /\ io.pc = "in" => unit.state = "drq"
  /\ io.pc = "ok" /\ io.op = "read" /\ io.n = 1 => io.buf[1] \in known[io.at]
  /\ \A l \in Lba : l \notin First .. First + Size - 1 => disk[l] = CHOOSE c \in Content : TRUE
=============================================================================
