\* As in Process.cfg, with postnote() at any time.
SPECIFICATION Spec
CONSTANTS
  Pid = {init, p2, p3, p4}
  Init1 = init
  Tid = {t1, t2, t3, t4}
  InitThread = t1
  PostnoteBusy = TRUE
SYMMETRY Symmetry
CHECK_DEADLOCK FALSE
INVARIANT
  DestroyedOnce
