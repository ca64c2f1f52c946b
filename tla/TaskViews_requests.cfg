SPECIFICATION Spec
CONSTANTS
  Tasks = {t1, t2, t3}
  Originals = {t1}
  Workers = {w1}
  RunsOn <- MCRunsOn
  Nobody = Nobody
  Grace = 0
  OfflineTimeout = 1
  MetricsTimeout = 1
  Retention = 1
  Readers = {r1}
  MaxTime = 2
  MaxEvents = 4
  MaxBeats = 2
  MaxAsks = 1
INVARIANTS TypeOK TaskViewsAgree WorkerViewsAgree NoFinishedOrphans RootsAreOriginal ChainComplete
CHECK_DEADLOCK FALSE
SYMMETRY Retries
