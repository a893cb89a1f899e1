CONSTANTS
  HeartbeatTimeout = 1
  StallAfter = 3
  JoinTimeout = 1
  PingEvery = 1
  WatchdogSec = 2
  TimeoutStopSec = 1
SPECIFICATION Spec
INVARIANTS
  NeverLongAdrift
PROPERTIES
  KillsOnlyTheUnwell
CHECK_DEADLOCK FALSE
