\* Two handlers in flight, one prune pass, both tables, redelivery, one fault.
CONSTANTS
  t1 = t1
  w1 = w1
  NoStamp = NoStamp
  NoTime = NoStamp
  NoEvent = NoEvent
  Event <- BothTables
  Handlers = {h1, h2}
  Pruners = {p1}
  Retention = 1
  BatchSize = 1
  MaxDeliveries = 3
  MaxTime = 2
  MaxFaults = 1
SPECIFICATION FairSpec
INVARIANTS TypeOK OneRowPerKey NoSilentDrop PassIsComplete
PROPERTIES PruneKeepsCurrent RetainedSpec HandlersFinish ExpiredRowsGo
