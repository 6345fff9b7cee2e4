CONSTANTS
  f1 = f1
  f2 = f2
  Files = {f1, f2}
  Bucket <- OneBucket
  None = None
  Root = root
  Users = {root}
  Modes = {rw}
  Data = {empty}
  Empty = empty
  Blank = Blank
  MaxVid = 1
  MaxSvid = 1
  MaxLen = 2
  Faults <- NoFaults
SPECIFICATION Spec
PROPERTIES OthersKeepView OnlyPurgeForgets
SYMMETRY Symmetry
