CONSTANTS
  f1 = f1
  f2 = f2
  Files = {f1}
  Bucket <- OneBucket
  None = None
  Root = root
  Users = {root}
  Modes = {rw, ro}
  Data = {empty, text}
  Empty = empty
  Blank = Blank
  MaxVid = 3
  MaxSvid = 2
  MaxLen = 4
  Faults <- NoFaults
SPECIFICATION Spec
PROPERTY PurgeKeepsTheRest
