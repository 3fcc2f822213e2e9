------------------------------- MODULE MCDevices -------------------------------
(***************************************************************************)
(* Model for TLC of the parts that meet the machine: the timer server, the *)
(* hmi and console servers, the ATA driver, and the memory of processes.   *)
(* They share nothing; a behaviour is of one of them, chosen by "part".    *)
(* The hmi server is checked twice: with two sessions, and with one        *)
(* session that has a longer event buffer and several readers.             *)
(***************************************************************************)
EXTENDS Timer, Memory, TLC

CONSTANTS
  OpMax,                                    \* bound: operations on the memory
  Sid, LoneSid, Fid, Device, HandlerQueue, Width, Height, \* the hmi server
  LogSize, ConsSize, PrintMax, IoMax,                     \* the console server
  Content, DiskSize, First, Size, SectorMax               \* the ATA driver

VARIABLES
  part, ops,
  sess, order, focus, point, mouse, queue, handler, flag, hmi, unanswered,
  tables, log, printed, printer, string, call, got, gone,
  disk, cache, unit, line, pending, caller, notified, io, known

Two == INSTANCE Hmi WITH
  server <- hmi, lost <- unanswered, QueueSize <- HandlerQueue,
  SessionMax <- 2, FileMax <- 2, WindowMax <- 2, RequestMax <- 1,
  RingSize <- 2, EventMod <- 4, ReadMax <- 1, WinWidth <- 1, WinHeight <- 1, Bar <- 0
One == INSTANCE Hmi WITH
  Sid <- LoneSid, server <- hmi, lost <- unanswered, QueueSize <- HandlerQueue + 1,
  SessionMax <- 1, FileMax <- 2, WindowMax <- 2, RequestMax <- 2,
  RingSize <- 4, EventMod <- 8, ReadMax <- 3, Height <- 1, WinWidth <- 1, WinHeight <- 1, Bar <- 0
Con == INSTANCE Console WITH Sid <- LoneSid, Fid <- Fid \cup {"g"}, SessionMax <- 1, FileMax <- 2
Dsk == INSTANCE Ata WITH kqueue <- pending, CountMax <- SectorMax

hmiVars == <<sess, order, focus, point, mouse, queue, handler, flag, hmi, unanswered>>
consoleVars == <<tables, log, printed, printer, string, call, got, gone>>
ataVars == <<disk, cache, unit, line, pending, caller, notified, io, known>>
memoryVars == <<mem, ops>>

off == "off"
TimerOff ==
  /\ clock = off /\ time = off /\ tree = off /\ kqueue = off /\ request = off
  /\ server = off /\ client = off /\ lost = off
HmiOff ==
  /\ sess = off /\ order = off /\ focus = off /\ point = off /\ mouse = off
  /\ queue = off /\ handler = off /\ flag = off /\ hmi = off
  /\ unanswered = off
ConsoleOff ==
  /\ tables = off /\ log = off /\ printed = off /\ printer = off
  /\ string = off /\ call = off /\ got = off /\ gone = off
AtaOff ==
  /\ disk = off /\ cache = off /\ unit = off /\ line = off /\ pending = off
  /\ caller = off /\ notified = off /\ io = off /\ known = off
MemoryOff ==
  /\ mem = off /\ ops = off

Init ==
  \/ part = "timer" /\ TimerInit /\ HmiOff /\ ConsoleOff /\ AtaOff /\ MemoryOff
  \/ part = "windows" /\ Two!HmiInit /\ TimerOff /\ ConsoleOff /\ AtaOff /\ MemoryOff
  \/ part = "readers" /\ One!HmiInit /\ TimerOff /\ ConsoleOff /\ AtaOff /\ MemoryOff
  \/ part = "console" /\ Con!ConsoleInit /\ TimerOff /\ HmiOff /\ AtaOff /\ MemoryOff
  \/ part = "disk" /\ Dsk!AtaInit /\ TimerOff /\ HmiOff /\ ConsoleOff /\ MemoryOff
  \/ part = "memory" /\ MemoryInit /\ ops = 0 /\ TimerOff /\ HmiOff /\ ConsoleOff /\ AtaOff

Next ==
  \/ /\ part = "timer" /\ TimerNext
     /\ UNCHANGED <<part, hmiVars, consoleVars, ataVars, memoryVars>>
  \/ /\ part = "windows" /\ Two!HmiNext
     /\ UNCHANGED <<part, timerVars, consoleVars, ataVars, memoryVars>>
  \/ /\ part = "readers" /\ One!HmiNext
     /\ UNCHANGED <<part, timerVars, consoleVars, ataVars, memoryVars>>
  \/ /\ part = "console" /\ Con!ConsoleNext
     /\ UNCHANGED <<part, timerVars, hmiVars, ataVars, memoryVars>>
  \/ /\ part = "disk" /\ Dsk!AtaNext
     /\ UNCHANGED <<part, timerVars, hmiVars, consoleVars, memoryVars>>
  \/ /\ part = "memory" /\ ops < OpMax /\ MemoryNext /\ ops' = ops + 1
     /\ UNCHANGED <<part, timerVars, hmiVars, consoleVars, ataVars>>

vars == <<part, timerVars, hmiVars, consoleVars, ataVars, memoryVars>>

Spec == Init /\ [][Next]_vars

Symmetry == Permutations(Sid)

\* servers/timer: no sleeper is forgotten, and none is woken early.
SleepersSafe == part = "timer" => SleepersKept

\* servers/hmi: the focus is on the window under the pointer, and events reach
\* the readers of their session in order.
SessionsRight ==
  /\ part = "windows" => Two!FocusExact /\ Two!EventsInOrder
  /\ part = "readers" => One!FocusExact /\ One!EventsInOrder

\* servers/hmi/main.c, event.c: the server does not sleep over an event.
EventsTaken ==
  (part = "windows" => Two!NoEventLeft) /\ (part = "readers" => One!NoEventLeft)

\* servers/console/device.c, kernel/printk.c: the log is read in order.
LogRight == part = "console" => Con!LogInOrder

\* drivers/pcat/ata.c: who waits for the disk is woken, and sectors are read as
\* they were written.
DiskExact == part = "disk" => Dsk!InterruptComing /\ Dsk!SectorsExact

\* kernel/palloc.c, drivers/i686/memory.c, servers/mm/process.c: every frame has
\* one use, and segments are mapped and counted.
MemoryExact == part = "memory" => FramesAccounted /\ SegmentsMapped

\* servers/mm/semaphore.c: semaphores live where their waiters can reach them.
SemaphoresRight == part = "memory" => SemaphoresExact
=============================================================================
