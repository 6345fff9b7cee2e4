CONSTANTS
  f1 = f1
  f2 = f2
  Files = {f1}
  Bucket <- OneBucket
  None = None
  Root = root
  Users = {root}
  Modes = {rw}
  Data = {empty, text}
  Empty = empty
  Blank = Blank
  MaxVid = 2
  MaxSvid = 1
  MaxLen = 3
  Faults <- AllFaults
SPECIFICATION Spec
INVARIANTS VidsDescend ListedFilesExist
PROPERTIES OlderVersionsFrozen FailedLinkUndone
VIEW StateOnly
