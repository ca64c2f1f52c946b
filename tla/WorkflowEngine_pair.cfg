\* Two handlers, two event automations, two requests that delete, a crash or a
\* failing query or commit.
CONSTANTS
  a1 = a1
  a2 = a2
  a3 = a3
  h1 = h1
  h2 = h2
  l1 = l1
  d1 = d1
  d2 = d2
  None = None
  Autos <- TwoAutos
  AtStart <- All
  Config <- PairConfig
  Handlers <- TwoHandlers
  Loops <- NoLoop
  Deleters <- TwoDeleters
  MaxEvents = 3
  MaxTime = 0
  MaxEdits = 2
  MaxFaults = 1
SPECIFICATION Spec
SYMMETRY RequestSymmetry
INVARIANTS TypeOK DispatchesRecorded OneLateRunEach
\* Without a periodic loop the engine rests once the last event is handled.
CHECK_DEADLOCK FALSE
