\* Two servers, one of which manages two user threads, with fairness for the kernel.
SPECIFICATION FairSpec
CONSTANTS
  Idle = idle
  Delay = delay
  sv1 = sv1
  sv2 = sv2
  us1 = us1
  us2 = us2
  Server = {sv1, sv2}
  Manager = sv1
  Listener = {}
  User = {us1, us2}
  Priority <- MCPriority
  Prio <- TwoServerPrio
  Key = {1}
  KqueueSize = 2
  BootOrder <- TwoServerBoot
CHECK_DEADLOCK FALSE
INVARIANTS
  TypeOK
  ReadyExact
  RunnerIsRunnable
PROPERTIES
  DelayThreadRuns
  QueuedDestroyHappens
