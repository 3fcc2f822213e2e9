SPECIFICATION Spec
CONSTANTS
  p1 = p1
  p2 = p2
  fs = fs
  con = con
  pipe = pipe
  Proc <- MCProc
  Init1 = p1
  Sig = sig
  Fid = {f1, f2}
  Sid = {i1, i2}
  Fd <- MCFd
  Server <- MCServer
  KeepsSessions <- MCKeeps
  Unsupported <- MCUnsupported
  PipeServer = pipe
  Bindable <- MCBindable
  Started <- MCStarted
  MinAutoFd = 0
  RequestMax = 3
  Null = Null
  NoDesc = NoDesc
SYMMETRY Symmetry
INVARIANTS
  CountsExact
  
  FilesAgree
CHECK_DEADLOCK FALSE
