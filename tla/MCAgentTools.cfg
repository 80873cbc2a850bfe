CONSTANTS
  t1 = t1
  t2 = t2
  t3 = t3
  Run = {"r1", "r2"}
  AsOf <- MCAsOf
  MaxContexts = 2
  Tool = {t1, t2, t3}
  Mixes <- MCMixes
  Outcomes <- MCOutcomes
  MaxConcurrency = 2
SPECIFICATION Spec
INVARIANTS ResultTellsTheTruth StoreKeepsItsPromise
PROPERTY ClosedReleasesAll
CHECK_DEADLOCK FALSE
