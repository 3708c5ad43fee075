\* A buffer of 6 slots, filled twice, by a producer that keeps its pace or does not.
\* The reader stays idle and the producer ends after MaxPuts, but time goes on.
SPECIFICATION Spec
CONSTANTS
  GetMaxK = 3
  TimeBudget = 4
  Period = 2
  Paces = {TRUE, FALSE}
  NumKeys = 2
  MaxPuts = 14
INVARIANTS
  TypeOK
  PacedReadsIntact
  FewItemsIntact
  PaceIsSustained
  NextSlotsRested
