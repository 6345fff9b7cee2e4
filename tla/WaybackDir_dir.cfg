CONSTANTS
  Word = 4
  Names = {a, b}
  Ids = {i1, i2, i3}
  Plain = plain
  Executable = executable
  None = None
  MaxDeleted = 2
  MaxChanges = 3
  MaxLog = 3
  MaxNested = 3
  MaxFaults = 1
SPECIFICATION Spec
SYMMETRY Symmetry
INVARIANTS TypeOK RevertRestoresNames
CHECK_DEADLOCK FALSE
