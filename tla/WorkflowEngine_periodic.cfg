\* The periodic loop, two periodic automations, operators and a crash.
CONSTANTS
  a1 = a1
  a2 = a2
  a3 = a3
  h1 = h1
  h2 = h2
  l1 = l1
  d1 = d1
  d2 = d2
  None = None
  Autos <- ThreeAutos
  AtStart <- FirstAndOther
  Config <- PeriodicConfig
  Handlers <- NoHandler
  Loops <- OneLoop
  Deleters <- OneDeleter
  MaxEvents = 0
  MaxTime = 4
  MaxEdits = 2
  MaxFaults = 1
SPECIFICATION FairSpec
INVARIANTS PeriodicSpacing
PROPERTIES PeriodicServed EvaluationsFinish
