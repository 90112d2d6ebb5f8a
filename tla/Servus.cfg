\* One application thread on one instance; every event the callbacks handle.
CONSTANTS
  Callers = {c1}
  Instances = {i1, i2}
  Names = {n1}
  Scopes = {"IF_ALL", "IF_LOCAL"}
  PollErrors = 10
  MaxCalls = 4
  MaxEvents = 2
  MaxSets = 1
  NoCaller = NoCaller
  NoName = NoName
SPECIFICATION Spec
INVARIANTS PublishedIsCurrent AnnounceSuccessMeansPublished RowsCoverInstances
PROPERTY CallsReturn
CHECK_DEADLOCK FALSE
