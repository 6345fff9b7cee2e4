CONSTANTS
  Bytes = {0, 1, 2}
  Zero = 0
  Wrap = 2
  Word = 8
  Time = 3
  Payloads <- OneOrTwoBytes
  None = None
  MaxSize = 2
  MaxChanges = 2
  MaxLog = 2
  MaxFaults = 1
  Faults = {"log", "change", "crash", "open"}
SPECIFICATION Spec
INVARIANT LogReadsBack
