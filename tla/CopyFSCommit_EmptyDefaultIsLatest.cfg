CONSTANTS
  None = None
  Blank = Blank
  Users = {root}
  Modes = {rw}
  MaxVid = 3
  MaxSvid = 1
  MaxLen = 3
  MaxCuts = 2
SPECIFICATION Spec
INVARIANT EmptyDefaultIsLatest
