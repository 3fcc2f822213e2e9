\* A ring of 3 bytes, requests that fit and requests that do not.
SPECIFICATION FairSpec
CONSTANTS
  Thread = {t1, t2, t3}
  First = t1
  Size = 4
  ByteNo = 3
  Count = {2, 4}
  Writable = {0}
  KillWaiting = FALSE
CHECK_DEADLOCK FALSE
INVARIANTS
  BytesInOrder
  NoIdleTransfer
  NobodyWaitsForClosedEnd
PROPERTIES
  LoopsEnd
