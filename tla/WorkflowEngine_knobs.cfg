\* Two handlers and an automation with one of the safety knobs, with a crash.
CONSTANTS
  a1 = a1
  a2 = a2
  a3 = a3
  h1 = h1
  h2 = h2
  l1 = l1
  d1 = d1
  d2 = d2
  None = None
  Autos <- ThreeAutos
  AtStart <- EachAlone
  Config <- KnobsConfig
  Handlers <- TwoHandlers
  Loops <- NoLoop
  Deleters <- OneDeleter
  MaxEvents = 4
  MaxTime = 3
  MaxEdits = 0
  MaxFaults = 1
SPECIFICATION Spec
SYMMETRY RequestSymmetry
INVARIANTS StreamCooldown CooldownOvershoot RateOvershoot BreakerOvershoot
\* Without a periodic loop the engine rests once the last event is handled.
CHECK_DEADLOCK FALSE
