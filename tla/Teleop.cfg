\* Both programs, a window of 3 readings as the space mouse has it, one event on the way at a time.
\* The programs end, and a process that could not be started leaves its program waiting.
SPECIFICATION FairSpec
CONSTANTS
  Window = 3
  Scale = 6
  MaxTarget = 7
  MaxEvents = 1
INVARIANTS
  TypeOK
  ReadsFindItem
  DriftAfterReset
PROPERTIES
  Settles
  HeldResets
  InterruptEnds
CHECK_DEADLOCK FALSE
