\* Four process ids; postnote() finds its process in user mode, not in a request or a fault.
SPECIFICATION Spec
CONSTANTS
  Pid = {init, p2, p3, p4}
  Init1 = init
  Tid = {t1, t2, t3, t4}
  InitThread = t1
  PostnoteBusy = FALSE
SYMMETRY Symmetry
CHECK_DEADLOCK FALSE
INVARIANTS
  RelationsExact
  NoExitMissed
  DestroyedOnce
  ThreadsAccounted
