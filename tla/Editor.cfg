\* A buffer of four characters, and wleft with the hole at its start.
SPECIFICATION EditorSpec
CONSTANTS
  BufSize = 4
  EditColumns = 2
  EditLines = 5
  EditTab = 2
  Typed = {97, 10}
  AnyWleft = TRUE
INVARIANT
  IndexInFile
CHECK_DEADLOCK FALSE
