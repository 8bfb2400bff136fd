SPECIFICATION FairSpec
CONSTANTS
  a = a
  b = b
  Users = {a, b}
  Updater = updater
  Scenarios <- Chosen
INVARIANTS
  AloneGetsOwnAnswer
  UpdaterWaitsOnlyIfCrossed
PROPERTY
  PromisedCallsReturn
CHECK_DEADLOCK FALSE
