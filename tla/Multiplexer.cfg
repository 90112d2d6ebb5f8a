\* Two sockets, one listener, up to two timer entries (one listener attached
\* twice), two datagrams, two Runs, one Break from a callback and one
\* AsynchronousBreak: enough for a socket to be woken while the other holds
\* data, for tied expiries and for a break at every point of the loop.
CONSTANTS
  Sockets = {s1, s2}
  Listeners = {l1}
  TimerIds = {t1}
  Delays = {1}
  Periods = {2}
  MaxAttached = 2
  MaxTimers = 2
  MaxTime = 2
  MaxPackets = 2
  MaxRuns = 2
  MaxBreaks = 1
  MaxConfigs = 3
SPECIFICATION Spec
PROPERTY AsyncBreakStopsRun PacketsDrained ContractSpec
INVARIANT TimersNotSkipped
CHECK_DEADLOCK FALSE
