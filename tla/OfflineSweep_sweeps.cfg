\* A periodic and an event-triggered sweep, two handlers, a crash.
CONSTANTS
  None = None
  Workers = {w1}
  Handlers = {h1, h2}
  Sweeps = {s1, s2}
  Timeout = 1
  Retention = 1
  MaxEvents = 2
  MaxTime = 2
  MaxFaults = 1
SPECIFICATION FairSpec
INVARIANTS TypeOK NoOutageSwallowed AlertsBounded
PROPERTIES SilentWorkersAlerted
