CONSTANTS
  Task = {t1, t2, t3}
  Third = t3
  Key <- MCKey
  TTL = 1
  MaxTime = 1
  PageSize = 2
  MaxPages = 3
  MaxRows = 6
  Totals <- MCTotals
SPECIFICATION MCSpec
INVARIANTS CompleteOrRefused LimitIsExact BackupPaidOnce NoLostWakeup
PROPERTY EveryCallEnds
