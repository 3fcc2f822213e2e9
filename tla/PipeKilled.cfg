\* As in Pipe.cfg, with processes that kill one another.
SPECIFICATION Spec
CONSTANTS
  Thread = {t1, t2, t3}
  First = t1
  Size = 4
  ByteNo = 3
  Count = {2, 4}
  Writable = {0}
  KillWaiting = TRUE
CHECK_DEADLOCK FALSE
INVARIANT
  NobodyWaitsForClosedEnd
