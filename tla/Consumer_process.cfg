\* Two events, two signals, two failures of the broker, an exception.
CONSTANTS
  e1 = e1
  e2 = e2
  Events <- TwoEvents
  RetentionOn = TRUE
  MaxSignals = 2
  MaxFailures = 2
  MaxErrors = 1
SPECIFICATION FairSpec
INVARIANTS TypeOK ExitIsClean GapsHaveCause
PROPERTIES StopHeard Recovers KeepsServing
\* The process exits.
CHECK_DEADLOCK FALSE
