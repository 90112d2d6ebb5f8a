\* A remote instance resolved while browsing the local interface only.
CONSTANTS
  Callers = {c1}
  Instances = {i1}
  Names = {n1}
  Scopes = {"IF_LOCAL"}
  PollErrors = 10
  MaxCalls = 2
  MaxEvents = 2
  MaxSets = 1
  NoCaller = NoCaller
  NoName = NoName
SPECIFICATION Spec
INVARIANT ResolversFreed
CHECK_DEADLOCK FALSE
