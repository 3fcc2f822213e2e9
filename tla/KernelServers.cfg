\* Two servers, one of which waits for a device, and a user thread.
SPECIFICATION Spec
CONSTANTS
  Idle = idle
  Delay = delay
  sv1 = sv1
  sv2 = sv2
  us1 = us1
  us2 = us2
  Server = {sv1, sv2}
  Manager = sv1
  Listener = {sv2}
  User = {us1}
  Priority <- MCPriority
  Prio <- TwoServerPrio
  Key = {1, 2}
  KqueueSize = 1
  BootOrder <- TwoServerBoot
CHECK_DEADLOCK FALSE
INVARIANTS
  WaitLinked
  NoMissedRendezvous
  ClosedPortEmpty
  ReplyToCallerOnly
  NoLostDelayedCall
  QueuedCallHasRecord
PROPERTIES
  
  KeysLostOnlyWithThread
