\* The run log beside an automation that cannot be evaluated.
CONSTANTS
  a1 = a1
  a2 = a2
  a3 = a3
  h1 = h1
  h2 = h2
  l1 = l1
  d1 = d1
  d2 = d2
  None = None
  Autos <- TwoAutos
  AtStart <- All
  Config <- BrokenConfig
  Handlers <- OneHandler
  Loops <- NoLoop
  Deleters <- OneDeleter
  MaxEvents = 2
  MaxTime = 1
  MaxEdits = 0
  MaxFaults = 0
SPECIFICATION Spec
INVARIANTS DispatchesRecorded
\* Without a periodic loop the engine rests once the last event is handled.
CHECK_DEADLOCK FALSE
