\* A buffer of 4 slots and a producer that puts in bursts.
\* The reader stays idle and the producer ends after MaxPuts, but time goes on.
SPECIFICATION Spec
CONSTANTS
  GetMaxK = 1
  TimeBudget = 2
  Period = 1
  Paces = {FALSE}
  NumKeys = 2
  MaxPuts = 11
INVARIANTS
  NoTornRead
