SPECIFICATION Spec
CONSTANTS
  Client = {c1, c2}
  Nsec = 3
  Half = 4
  Tick = 2
  Durations = {0, 2, 5}
  TickMax = 5
  QueueSize = 1
  TimerMax = 2
  Proc = {1, 2}
  Init1 = 1
  Frames = 12
  WordBits = 4
  PerTable = 3
  Data = 1
  Heap = 2
  Local = 3
  Stack = 4
  Top = 6
  Seg = {1, 2, 3, 4}
  CountMax = 2
  OpMax = 11
  Sid = {s1, s2}
  LoneSid = {s0}
  Fid = {"f"}
  Device = {"event", "consctl"}
  HandlerQueue = 1
  Width = 1
  Height = 2
  LogSize = 2
  ConsSize = 2
  PrintMax = 3
  IoMax = 3
  Content = {"a", "b"}
  DiskSize = 4
  First = 1
  Size = 2
  SectorMax = 2
SYMMETRY Symmetry
INVARIANTS
  
  SessionsRight
  EventsTaken
  LogRight
  
  
  
CHECK_DEADLOCK FALSE
