\* A thread stopped at any word of an operation while an interrupt makes three.
SPECIFICATION FairSpec
CONSTANTS
  thread1 = thread1
  interrupt1 = interrupt1
  Node = {1, 2, 3}
  Process = {thread1, interrupt1}
  Level <- Levels
  Value = {1, 2}
  MaxOps <- Ops
CHECK_DEADLOCK FALSE
INVARIANTS
  ShapeKept
PROPERTIES
  Linearizable
  OperationsEnd
