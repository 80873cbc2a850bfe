CONSTANTS
  Query = {q1, q2, q3, q4}
  MaxWorkers = 2
SPECIFICATION NewsSpec
INVARIANTS SlotsConserved
PROPERTIES ClosedStartsNothing EveryQueryEnds
