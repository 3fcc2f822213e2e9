SPECIFICATION Spec
CONSTANTS
  Block = {n1, n2, n3}
  BufferMax = 2
  Value = {0, 1}
  LockMax = 2
  Null = Null
  Dblk = 3
  WordBits = 2
  Name = {a, b}
  LongName = {b}
  Fid = {f1, f2}
  EndWide = 8
  CellsWide = 2
  FirstWide = 2
  SecondWide = 2
  WriteWide = 1
  SizeWide = 2
  FidDeep = {g}
  EndDeep = 12
  CellsDeep = 1
  FirstDeep = 3
  SecondDeep = 2
  WriteDeep = 3
  SizeDeep = 5
SYMMETRY Symmetry
INVARIANTS
  
  
  
  RefsExact
CHECK_DEADLOCK FALSE
