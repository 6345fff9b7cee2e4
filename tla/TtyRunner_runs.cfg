CONSTANT MaxRuns = 2
SPECIFICATION Spec
INVARIANTS TypeOK NothingLost TypedToGuest
PROPERTIES OldLinesOnlyEarly HaltEndsRun RunEnds
CHECK_DEADLOCK FALSE
