\* The documented cooldown under two handlers.
CONSTANTS
  a1 = a1
  a2 = a2
  a3 = a3
  h1 = h1
  h2 = h2
  l1 = l1
  d1 = d1
  d2 = d2
  None = None
  Autos <- OneAuto
  AtStart <- All
  Config <- CooldownConfig
  Handlers <- TwoHandlers
  Loops <- NoLoop
  Deleters <- OneDeleter
  MaxEvents = 2
  MaxTime = 2
  MaxEdits = 0
  MaxFaults = 0
SPECIFICATION Spec
INVARIANTS CooldownRespected
\* Without a periodic loop the engine rests once the last event is handled.
CHECK_DEADLOCK FALSE
