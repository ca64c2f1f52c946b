SPECIFICATION Spec
CONSTANTS
  Clients = {c1, c2}
  Consumers = {k1, k2}
  Creates <- MCCreates
  Updates <- MCUpdates
  Existing <- MCExisting
  FirstId = 2
  None = None
  OnTaskFailed = FALSE
  OnSlowTask = FALSE
  OnOffline = TRUE
  CheckSeconds = 0
  MaxRequests = 2
  MaxStarts = 2
INVARIANTS TypeOK ValidUnlessRaced SeedComplete
PROPERTIES OnlyRequested ImplementsTable RequestsEnd
CHECK_DEADLOCK FALSE
