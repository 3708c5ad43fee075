\* A buffer of 3 slots filled twice, items of two arrays.
\* The producer puts at most MaxPuts items; the consumer may call its methods for ever.
SPECIFICATION Spec
CONSTANTS
  BufferSize = 3
  NumKeys = 2
  MaxPuts = 6
INVARIANTS
  TypeOK
  WritesAvoidReads
PROPERTIES
  ImplementsFifo
