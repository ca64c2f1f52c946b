\* Two overlapping passes (consumer loop and taskowl-prune) over five rows, in
\* batches of two.
CONSTANTS
  t1 = t1
  w1 = w1
  NoStamp = NoStamp
  NoTime = NoStamp
  NoEvent = NoEvent
  Event <- SkewedEvents
  Handlers = {h1}
  Pruners = {p1, p2}
  Retention = 1
  BatchSize = 2
  MaxDeliveries = 5
  MaxTime = 3
  MaxFaults = 0
SPECIFICATION Spec
INVARIANTS OverlapIsRedundant
